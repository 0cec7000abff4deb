---------------------------- MODULE RaftLostWal ----------------------------
(***************************************************************************)
(* RaftCore composed with what RaftWal shows of the write-ahead log: a     *)
(* node killed after open(O_TRUNC) and before the header is written finds  *)
(* no header when it restarts.  raft_restore_state returns -1, nobody      *)
(* looks at it, and the node takes part in elections with the state of     *)
(* raft_init.  Every handler that persists can be cut there, the one of a  *)
(* heartbeat included, so the restart may happen in any state.             *)
(***************************************************************************)
EXTENDS RaftCore

\* The restart of RaftCore, with term, vote and log gone as well.
RestartWithoutWal(n) ==
    /\ n \in Crashers
    /\ current_term' = [current_term EXCEPT ![n] = 0]
    /\ voted_for' = [voted_for EXCEPT ![n] = Nil]
    /\ log' = [log EXCEPT ![n] = <<>>]
    /\ state' = [state EXCEPT ![n] = "FOLLOWER"]
    /\ commit_index' = [commit_index EXCEPT ![n] = 0]
    /\ last_applied' = [last_applied EXCEPT ![n] = 0]
    /\ leader_id' = [leader_id EXCEPT ![n] = Nil]
    /\ votes_received' = [votes_received EXCEPT ![n] = 0]
    /\ vote_granted' = [vote_granted EXCEPT ![n] = {}]
    /\ next_index' = [next_index EXCEPT ![n] = [p \in Server |-> 0]]
    /\ match_index' = [match_index EXCEPT ![n] = [p \in Server |-> 0]]
    /\ UNCHANGED <<msgs, grants, elected>>

NextLosing == Next \/ \E n \in Server : RestartWithoutWal(n)

SpecLosing == Init /\ [][NextLosing]_vars

\* scripts/raft_cluster_test.py:116, "Split brain detected! Multiple leaders":
\* no term has two leaders, also when nodes restart.
NoSplitBrain == ElectionSafety
=============================================================================
