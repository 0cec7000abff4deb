------------------------------ MODULE MCRaftRpc ------------------------------
(***************************************************************************)
(* RaftRpc from a point where n2 has been elected, and n1, a leader of an  *)
(* earlier term, has not heard of it.  RaftRpc reaches this state from     *)
(* InitRpc:                                                                *)
(*   - n2 starts the elections of terms 1 and 2 and reaches nobody; n3     *)
(*     starts that of term 1, is told of term 2 by n2 and steps down; n1   *)
(*     starts those of terms 1 and 2, reaches nobody in the first and is   *)
(*     elected by n3 in the second;                                        *)
(*   - n1 is restarted, starts the elections of terms 3 and 4 and reaches  *)
(*     nobody; n3 starts that of term 3, is told of term 4 by n1 and steps *)
(*     down; n2 starts those of terms 3 and 4, reaches nobody in the first *)
(*     and is elected by n3 in the second.                                 *)
(***************************************************************************)
EXTENDS RaftRpc

CONSTANTS n1, n2, n3

InitOneLeader ==
    /\ state = [n \in Server |-> IF n = n1 THEN "CANDIDATE" ELSE
                                 IF n = n2 THEN "LEADER" ELSE "FOLLOWER"]
    /\ current_term = [n \in Server |-> 4]
    /\ voted_for = [n \in Server |-> IF n = n1 THEN n1 ELSE n2]
    /\ log = [n \in Server |-> IF n = n1 THEN <<2>> ELSE IF n = n2 THEN <<4>> ELSE <<>>]
    /\ commit_index = [n \in Server |-> 0]
    /\ last_applied = [n \in Server |-> 0]
    /\ leader_id = [n \in Server |-> IF n = n2 THEN n2 ELSE Nil]
    /\ votes_received = [n \in Server |-> IF n = n1 THEN 1 ELSE IF n = n2 THEN 2 ELSE 0]
    /\ vote_granted = [n \in Server |-> IF n = n2 THEN {n3} ELSE {}]
    /\ next_index = [n \in Server |-> [p \in Server |-> IF n = n2 THEN 1 ELSE 0]]
    /\ match_index = [n \in Server |-> [p \in Server |-> 0]]
    /\ msgs = {}
    /\ grants = {<<n1, t, n1>> : t \in 1..4} \cup {<<n2, t, n2>> : t \in 1..4}
                \cup {<<n3, 1, n3>>, <<n3, 2, n1>>, <<n3, 3, n3>>, <<n3, 4, n2>>}
    /\ elected = {<<2, n1>>, <<4, n2>>}
    /\ thread = [n \in Server |-> Idle]

SpecOneLeader == InitOneLeader /\ [][NextRpc]_rpcVars /\ Fairness
=============================================================================
