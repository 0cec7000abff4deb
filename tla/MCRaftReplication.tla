-------------------------- MODULE MCRaftReplication --------------------------
(***************************************************************************)
(* RaftCore from the point where it has two leaders of different terms     *)
(* whose logs differ, and no message is left in flight.  RaftCore reaches  *)
(* this state from Init with no message delivered twice:                   *)
(*   - n1 starts the elections of terms 1 and 2; n3 starts that of term 1, *)
(*     is told of term 2 by n1 and steps down; the request of n1 for term  *)
(*     2 then reaches n3, whose answer elects n1;                          *)
(*   - n2, that has heard nothing, starts the elections of terms 1 to 4;   *)
(*     n3 starts that of term 3, is told of term 4 by n2 and steps down;   *)
(*     the request of n2 for term 4 then reaches n3, whose answer elects   *)
(*     n2.  Neither log holds anything but the no-op of its own term.      *)
(* Beginning here leaves TLC room for heartbeats between logs that differ, *)
(* client entries and the commits that follow.                             *)
(***************************************************************************)
EXTENDS RaftCore

CONSTANTS n1, n2, n3

InitTwoLeaders ==
    /\ state = [n \in Server |-> IF n = n3 THEN "FOLLOWER" ELSE "LEADER"]
    /\ current_term = [n \in Server |-> IF n = n1 THEN 2 ELSE 4]
    /\ voted_for = [n \in Server |-> IF n = n1 THEN n1 ELSE n2]
    /\ log = [n \in Server |-> IF n = n3 THEN <<>> ELSE <<current_term[n]>>]
    /\ commit_index = [n \in Server |-> 0]
    /\ last_applied = [n \in Server |-> 0]
    /\ leader_id = [n \in Server |-> IF n = n3 THEN Nil ELSE n]
    /\ votes_received = [n \in Server |-> IF n = n3 THEN 0 ELSE 2]
    /\ vote_granted = [n \in Server |-> IF n = n3 THEN {} ELSE {n3}]
    /\ next_index = [n \in Server |-> [p \in Server |-> IF n = n3 THEN 0 ELSE 1]]
    /\ match_index = [n \in Server |-> [p \in Server |-> 0]]
    /\ msgs = {}
    /\ grants = {<<n1, t, n1>> : t \in 1..2} \cup {<<n2, t, n2>> : t \in 1..4}
                \cup {<<n3, 1, n3>>, <<n3, 2, n1>>, <<n3, 3, n3>>, <<n3, 4, n2>>}
    /\ elected = {<<2, n1>>, <<4, n2>>}

SpecTwoLeaders == InitTwoLeaders /\ [][Next]_vars
=============================================================================
