------------------------------ MODULE RaftCore ------------------------------
(***************************************************************************)
(* The Raft node of src/src/cluster/raft_core.c, one action per public     *)
(* entry point (tick, submit, the four RPC handlers), plus the restart of  *)
(* a node from what persist_state() saved.                                 *)
(*                                                                         *)
(* The callbacks of RaftNode are modelled as the header describes them:    *)
(*   - persist makes term, vote and log durable before the handler goes    *)
(*     on, so these three survive Restart and the other fields do not;     *)
(*   - send_rpc queues a message and returns.  A message may be delayed,   *)
(*     overtaken, never delivered and, if Duplicating, delivered again.    *)
(*                                                                         *)
(* Elapsed time is an input: between two ticks any amount of time may pass,*)
(* so whether a timer has expired at a tick is the parameter `due'.        *)
(*                                                                         *)
(* An entry is its term: its index is its position (no snapshot is taken   *)
(* in raft_core.c, so last_snapshot_index = 0) and its data is never read. *)
(***************************************************************************)
EXTENDS Integers, FiniteSets, Sequences

CONSTANTS
    Server,       \* the nodes; every node has all the others as peers
    Nil,          \* the empty voted_for / leader_id string
    MaxTerm,      \* bound: no election is started from this term
    MaxLog,       \* bound: no client entry is submitted to a log this long
    Contenders,   \* bound: the nodes whose election timer may expire
    Crashers,     \* bound: the nodes that may be restarted
    Duplicating   \* whether the transport may deliver a message twice

ASSUME ServerAssumption == IsFiniteSet(Server) /\ Server # {} /\ Nil \notin Server
ASSUME BoundAssumption ==
    MaxTerm \in Nat /\ MaxLog \in Nat /\ Contenders \subseteq Server /\ Crashers \subseteq Server
ASSUME DuplicatingAssumption == Duplicating \in BOOLEAN

VARIABLES
    state, current_term, voted_for, log,   \* role, and the durable fields
    commit_index, last_applied, leader_id,
    votes_received,   \* the counter of the current election
    vote_granted,     \* the peers whose vote_granted flag is set
    next_index, match_index,
    msgs,             \* requests and responses in flight
    grants,           \* history: <<voter, term, candidate>> of every vote given
    elected           \* history: <<term, server>> of every election won

durable == <<current_term, voted_for, log>>
election == <<votes_received, vote_granted>>
replication == <<next_index, match_index>>
progress == <<commit_index, last_applied>>
vars == <<state, durable, progress, leader_id, election, replication, msgs,
          grants, elected>>

-----------------------------------------------------------------------------
Peers(n) == Server \ {n}

LastLogIndex(n) == Len(log[n])

LastLogTerm(n) == IF log[n] = <<>> THEN 0 ELSE log[n][Len(log[n])]

\* 0 for index 0 and for an index the node has no entry at.
TermAtIndex(n, i) == IF i \in 1..Len(log[n]) THEN log[n][i] ELSE 0

\* votes_received > (peer_count + 1) / 2, and the same test on replicas
IsMajority(k) == k > Cardinality(Server) \div 2

\* The step-up test of all four handlers.
NewerTerm_AnyOther(n, m) == m.term # current_term[n]
NewerTerm(n, m) == m.term > current_term[n]

\* become_follower(node, t).  It clears voted_for and leader_id; `vote' and
\* `leader' are what the handler that called it has put there on its return.
BecomeFollower_KeepLeader(n, t, vote, leader) ==
    /\ state' = [state EXCEPT ![n] = "FOLLOWER"]
    /\ current_term' = [current_term EXCEPT ![n] = t]
    /\ voted_for' = [voted_for EXCEPT ![n] = vote]
    /\ leader_id' = [leader_id EXCEPT ![n] = IF leader = Nil THEN @ ELSE leader]
    /\ votes_received' = [votes_received EXCEPT ![n] = 0]
BecomeFollower_KeepState(n, t, vote, leader) ==
    /\ state' = state
    /\ current_term' = [current_term EXCEPT ![n] = t]
    /\ voted_for' = [voted_for EXCEPT ![n] = vote]
    /\ leader_id' = [leader_id EXCEPT ![n] = leader]
    /\ votes_received' = [votes_received EXCEPT ![n] = 0]
BecomeFollower(n, t, vote, leader) ==
    /\ state' = [state EXCEPT ![n] = "FOLLOWER"]
    /\ current_term' = [current_term EXCEPT ![n] = t]
    /\ voted_for' = [voted_for EXCEPT ![n] = vote]
    /\ leader_id' = [leader_id EXCEPT ![n] = leader]
    /\ votes_received' = [votes_received EXCEPT ![n] = 0]

RequestVotes(n, t) ==
    {[type |-> "RequestVote", src |-> n, dst |-> p, term |-> t,
      last_log_index |-> LastLogIndex(n), last_log_term |-> LastLogTerm(n)] :
        p \in Peers(n)}

Heartbeats(n) ==
    {[type |-> "AppendEntries", src |-> n, dst |-> p, term |-> current_term[n],
      prev_log_index |-> next_index[n][p] - 1,
      prev_log_term |-> TermAtIndex(n, next_index[n][p] - 1),
      leader_commit |-> commit_index[n]] : p \in Peers(n)}

\* The network once m was handled and the messages of `out' were sent.
Handled(m, out) == (IF Duplicating THEN msgs ELSE msgs \ {m}) \cup out

-----------------------------------------------------------------------------
Init ==
    /\ state = [n \in Server |-> "FOLLOWER"]
    /\ current_term = [n \in Server |-> 0]
    /\ voted_for = [n \in Server |-> Nil]
    /\ log = [n \in Server |-> <<>>]
    /\ commit_index = [n \in Server |-> 0]
    /\ last_applied = [n \in Server |-> 0]
    /\ leader_id = [n \in Server |-> Nil]
    /\ votes_received = [n \in Server |-> 0]
    /\ vote_granted = [n \in Server |-> {}]
    /\ next_index = [n \in Server |-> [p \in Server |-> 0]]
    /\ match_index = [n \in Server |-> [p \in Server |-> 0]]
    /\ msgs = {}
    /\ grants = {}
    /\ elected = {}

\* become_candidate up to its persist_state: a new term and a vote for itself.
BecomeCandidate(n) ==
    /\ n \in Contenders /\ current_term[n] < MaxTerm
    /\ state' = [state EXCEPT ![n] = "CANDIDATE"]
    /\ current_term' = [current_term EXCEPT ![n] = @ + 1]
    /\ voted_for' = [voted_for EXCEPT ![n] = n]
    /\ votes_received' = [votes_received EXCEPT ![n] = 1]
    /\ vote_granted' = [vote_granted EXCEPT ![n] = {}]
    /\ leader_id' = [leader_id EXCEPT ![n] = Nil]
    /\ grants' = grants \cup {<<n, current_term[n] + 1, n>>}

\* apply_committed_entries, once the tick has settled the commit index on c:
\* last_applied is advanced before the entry is looked up, and the loop stops
\* at the first index that has no entry.
ApplyCommitted(n, c) ==
    last_applied' = [last_applied EXCEPT ![n] =
        IF @ >= c THEN @ ELSE IF c <= Len(log[n]) THEN c
        ELSE IF @ >= Len(log[n]) THEN @ + 1 ELSE Len(log[n]) + 1]

Replicas(n, i) == 1 + Cardinality({p \in Peers(n) : match_index[n][p] >= i})

\* The indexes that pass the tests of the commit loop of leader_tick.
Committable_AnyTerm(n) ==
    {i \in commit_index[n] + 1 .. LastLogIndex(n) : IsMajority(Replicas(n, i))}
Committable(n) ==
    {i \in commit_index[n] + 1 .. LastLogIndex(n) :
        TermAtIndex(n, i) = current_term[n] /\ IsMajority(Replicas(n, i))}

\* The loop tries every index in turn and keeps the last that passes; then the
\* tick applies what is committed.
CommitAndApply(n) ==
    \E c \in {commit_index[n]} \cup Committable(n) :
        /\ \A i \in Committable(n) : i <= c
        /\ commit_index' = [commit_index EXCEPT ![n] = c]
        /\ ApplyCommitted(n, c)

LeaderTick(n, due) ==
    /\ state[n] = "LEADER"
    /\ msgs' = IF due THEN msgs \cup Heartbeats(n) ELSE msgs
    /\ CommitAndApply(n)
    /\ UNCHANGED <<state, durable, leader_id, election, replication, grants, elected>>

FollowerCandidateTick(n, due) ==
    /\ state[n] # "LEADER"
    /\ ApplyCommitted(n, commit_index[n])
    /\ \/ /\ due
          /\ BecomeCandidate(n)
          /\ msgs' = msgs \cup RequestVotes(n, current_term[n] + 1)
       \/ ~due /\ UNCHANGED <<state, current_term, voted_for, election, leader_id,
                              msgs, grants>>
    /\ UNCHANGED <<log, commit_index, replication, elected>>

Tick(n) == \E due \in BOOLEAN : LeaderTick(n, due) \/ FollowerCandidateTick(n, due)

\* raft_submit by a client of the node; refused unless the node is the leader.
Submit(n) ==
    /\ state[n] = "LEADER"
    /\ Len(log[n]) < MaxLog
    /\ log' = [log EXCEPT ![n] = Append(@, current_term[n])]
    /\ UNCHANGED <<state, current_term, voted_for, progress, leader_id, election,
                   replication, msgs, grants, elected>>

-----------------------------------------------------------------------------
LogUpToDate(n, m) ==
    \/ m.last_log_term > LastLogTerm(n)
    \/ m.last_log_term = LastLogTerm(n) /\ m.last_log_index >= LastLogIndex(n)

\* `vote' is voted_for; a node that voted for c grants c again.
CanVoteFor_Always(vote, c) == TRUE
CanVoteFor(vote, c) == vote \in {Nil, c}

\* raft_handle_request_vote.  The response carries the term the node had when
\* the request arrived: it is read before the node steps up to the new term.
HandleRequestVote(m) ==
    LET n == m.dst
        stepUp == NewerTerm(n, m)
        vote == IF stepUp THEN Nil ELSE voted_for[n]
        granted == /\ m.term >= current_term[n]
                   /\ CanVoteFor(vote, m.src)
                   /\ LogUpToDate(n, m)
        newVote == IF granted THEN m.src ELSE vote
    IN /\ m.type = "RequestVote"
       /\ IF stepUp
          THEN BecomeFollower(n, m.term, newVote, Nil)
          ELSE /\ voted_for' = [voted_for EXCEPT ![n] = newVote]
               /\ UNCHANGED <<state, current_term, votes_received, leader_id>>
       /\ msgs' = Handled(m, {[type |-> "RequestVoteResp", src |-> n, dst |-> m.src,
                               term |-> current_term[n], vote_granted |-> granted]})
       /\ grants' = IF granted THEN grants \cup {<<n, m.term, m.src>>} ELSE grants
       /\ UNCHANGED <<log, progress, vote_granted, replication, elected>>

\* The commit index after an accepted request: leader_commit, at most the last
\* index of the node's own log, and never less than before.
FollowerCommit_Unclamped(n, m) ==
    IF m.leader_commit > commit_index[n] THEN m.leader_commit ELSE commit_index[n]
FollowerCommit_Unguarded(n, m) ==
    IF LastLogIndex(n) < m.leader_commit THEN LastLogIndex(n) ELSE m.leader_commit
FollowerCommit(n, m) ==
    IF m.leader_commit <= commit_index[n] THEN commit_index[n]
    ELSE IF LastLogIndex(n) < m.leader_commit THEN LastLogIndex(n)
    ELSE m.leader_commit

\* raft_handle_append_entries, for the requests leader_tick sends (entry_count
\* is always 0, so the log is left alone).  A node that is not a follower runs
\* become_follower after it has recorded the leader, in the same term.
HandleAppendEntries(m) ==
    LET n == m.dst
        stale == m.term < current_term[n]
        stepUp == NewerTerm(n, m)
        demote == m.term = current_term[n] /\ state[n] # "FOLLOWER"
        matches == \/ m.prev_log_index = 0
                   \/ TermAtIndex(n, m.prev_log_index) = m.prev_log_term
        success == ~stale /\ matches
    IN /\ m.type = "AppendEntries"
       /\ IF stepUp \/ demote
          THEN BecomeFollower(n, m.term, Nil, IF demote THEN Nil ELSE m.src)
          ELSE /\ leader_id' = [leader_id EXCEPT ![n] = IF stale THEN @ ELSE m.src]
               /\ UNCHANGED <<state, current_term, votes_received, voted_for>>
       /\ commit_index' = [commit_index EXCEPT ![n] =
                               IF success THEN FollowerCommit(n, m) ELSE @]
       /\ msgs' = Handled(m, {[type |-> "AppendEntriesResp", src |-> n, dst |-> m.src,
                               term |-> current_term[n], success |-> success,
                               match_index |-> IF success THEN LastLogIndex(n) ELSE 0]})
       /\ UNCHANGED <<log, last_applied, vote_granted, replication, grants, elected>>

\* A response from a higher term: become_follower, whatever the response says.
StepDown(m) ==
    /\ NewerTerm(m.dst, m)
    /\ BecomeFollower(m.dst, m.term, Nil, Nil)
    /\ msgs' = Handled(m, {})
    /\ UNCHANGED <<log, progress, vote_granted, replication, grants, elected>>

\* The next_index of every peer, computed before the no-op is appended.
InitialNextIndex_Last(n) == LastLogIndex(n)
InitialNextIndex(n) == LastLogIndex(n) + 1

\* become_leader, with the no-op it submits.
BecomeLeader(n) ==
    /\ state' = [state EXCEPT ![n] = "LEADER"]
    /\ leader_id' = [leader_id EXCEPT ![n] = n]
    /\ next_index' = [next_index EXCEPT ![n] = [p \in Server |-> InitialNextIndex(n)]]
    /\ match_index' = [match_index EXCEPT ![n] = [p \in Server |-> 0]]
    /\ log' = [log EXCEPT ![n] = Append(@, current_term[n])]
    /\ elected' = elected \cup {<<current_term[n], n>>}

\* The responses a candidate counts (m.term is not higher here).
Counts_AnyTerm(n, m) ==
    /\ state[n] = "CANDIDATE"
    /\ m.vote_granted
    /\ m.src \notin vote_granted[n]
Counts(n, m) ==
    /\ state[n] = "CANDIDATE"
    /\ m.term = current_term[n]
    /\ m.vote_granted
    /\ m.src \notin vote_granted[n]

\* The test for victory, with the vote that has just been counted.
Wins_BeforeCounting(n) == IsMajority(votes_received[n])
Wins(n) == IsMajority(votes_received[n] + 1)

\* raft_handle_request_vote_response in a term that is not higher.
CountVote(m) ==
    LET n == m.dst
        counted == Counts(n, m)
    IN /\ ~NewerTerm(n, m)
       /\ IF counted
          THEN /\ vote_granted' = [vote_granted EXCEPT ![n] = @ \cup {m.src}]
               /\ votes_received' = [votes_received EXCEPT ![n] = @ + 1]
          ELSE UNCHANGED election
       /\ IF counted /\ Wins(n)
          THEN BecomeLeader(n)
          ELSE UNCHANGED <<state, leader_id, replication, log, elected>>
       /\ msgs' = Handled(m, {})
       /\ UNCHANGED <<current_term, voted_for, progress, grants>>

HandleRequestVoteResponse(m) ==
    m.type = "RequestVoteResp" /\ (StepDown(m) \/ CountVote(m))

\* raft_handle_append_entries_response in a term that is not higher.
RecordProgress(m) ==
    LET n == m.dst
        heard == state[n] = "LEADER" /\ m.term = current_term[n]
    IN /\ ~NewerTerm(n, m)
       /\ match_index' = IF heard /\ m.success
                         THEN [match_index EXCEPT ![n][m.src] = m.match_index]
                         ELSE match_index
       /\ next_index' = IF heard
                        THEN [next_index EXCEPT ![n][m.src] =
                                IF m.success THEN m.match_index + 1
                                ELSE IF @ > 1 THEN @ - 1 ELSE @]
                        ELSE next_index
       /\ msgs' = Handled(m, {})
       /\ UNCHANGED <<state, durable, progress, leader_id, election, grants, elected>>

HandleAppendEntriesResponse(m) ==
    m.type = "AppendEntriesResp" /\ (StepDown(m) \/ RecordProgress(m))

\* The process dies and comes back through raft_init, raft_restore_state,
\* raft_add_peer and raft_start, with what is durable.
ComeBack(n) ==
    /\ n \in Crashers
    /\ state' = [state EXCEPT ![n] = "FOLLOWER"]
    /\ commit_index' = [commit_index EXCEPT ![n] = 0]
    /\ last_applied' = [last_applied EXCEPT ![n] = 0]
    /\ leader_id' = [leader_id EXCEPT ![n] = Nil]
    /\ votes_received' = [votes_received EXCEPT ![n] = 0]
    /\ vote_granted' = [vote_granted EXCEPT ![n] = {}]
    /\ next_index' = [next_index EXCEPT ![n] = [p \in Server |-> 0]]
    /\ match_index' = [match_index EXCEPT ![n] = [p \in Server |-> 0]]
    /\ UNCHANGED <<durable, grants, elected>>

Restart(n) == ComeBack(n) /\ UNCHANGED msgs

Receive(m) ==
    \/ HandleRequestVote(m)
    \/ HandleRequestVoteResponse(m)
    \/ HandleAppendEntries(m)
    \/ HandleAppendEntriesResponse(m)

Next ==
    \/ \E n \in Server : Tick(n) \/ Submit(n) \/ Restart(n)
    \/ \E m \in msgs : Receive(m)

Spec == Init /\ [][Next]_vars

-----------------------------------------------------------------------------
Term == 0..MaxTerm

Message ==
    [type : {"RequestVote"}, src : Server, dst : Server, term : Term,
     last_log_index : Nat, last_log_term : Nat]
    \cup
    [type : {"RequestVoteResp"}, src : Server, dst : Server, term : Term,
     vote_granted : BOOLEAN]
    \cup
    [type : {"AppendEntries"}, src : Server, dst : Server, term : Term,
     prev_log_index : Nat, prev_log_term : Nat, leader_commit : Nat]
    \cup
    [type : {"AppendEntriesResp"}, src : Server, dst : Server, term : Term,
     success : BOOLEAN, match_index : Nat]

\* Every field of every node and message has its type; a leader's next_index is
\* at least 1, so prev_log_index = next_index - 1 (raft_core.c:320) cannot wrap
\* around below zero, and no message is addressed to its sender.
TypeOK ==
    /\ state \in [Server -> {"FOLLOWER", "CANDIDATE", "LEADER"}]
    /\ current_term \in [Server -> Term]
    /\ voted_for \in [Server -> Server \cup {Nil}]
    /\ log \in [Server -> Seq(Term)]
    /\ commit_index \in [Server -> Nat]
    /\ last_applied \in [Server -> Nat]
    /\ leader_id \in [Server -> Server \cup {Nil}]
    /\ votes_received \in [Server -> Nat]
    /\ vote_granted \in [Server -> SUBSET Server]
    /\ next_index \in [Server -> [Server -> Nat]]
    /\ match_index \in [Server -> [Server -> Nat]]
    /\ msgs \subseteq Message
    /\ grants \subseteq Server \X Term \X Server
    /\ elected \subseteq Term \X Server
    /\ \A n \in Server : state[n] = "LEADER" => \A p \in Server : next_index[n][p] >= 1
    /\ \A m \in msgs : m.src # m.dst

\* Election safety: at most one node is ever elected in a term, over the whole
\* history and across restarts, although a candidate that steps down in its own
\* term forgets its vote (become_follower called at raft_core.c:456).
ElectionSafety ==
    \A e, f \in elected : e[1] = f[1] => e[2] = f[2]

\* A node is elected only with the votes of a majority given to it in that very
\* term: a late, repeated or stale vote response is never counted
\* (raft_handle_request_vote_response).
ElectedByMajority ==
    \A e \in elected :
        IsMajority(Cardinality({v \in Server : <<v, e[1], e[2]>> \in grants}))

\* The node to which clients are redirected (raft_get_leader_id) is the one that
\* was elected in the node's current term, or none is named.
LeaderIdIsElected ==
    \A n \in Server :
        leader_id[n] # Nil => <<current_term[n], leader_id[n]>> \in elected

\* Log matching: if two logs have an entry of the same term at the same index,
\* they agree on everything up to it.
LogMatching ==
    \A n, p \in Server : \A i \in 1..Len(log[n]) :
        i <= Len(log[p]) /\ log[n][i] = log[p][i]
            => \A j \in 1..i : log[n][j] = log[p][j]

\* Nothing is applied that is not committed, and nothing is committed that the
\* node does not hold: apply_committed_entries never meets its missing-entry
\* branch (raft_core.c:290).
CommitWithinLog ==
    \A n \in Server : last_applied[n] <= commit_index[n] /\ commit_index[n] <= Len(log[n])

\* A node with a majority of the votes does not remain a candidate
\* (tests/test_raft.c:138).
MajorityIsLeader ==
    \A n \in Server : state[n] = "CANDIDATE" => ~IsMajority(votes_received[n])

\* What was made durable is never taken back, by any step or restart: terms only
\* grow and logs are only extended.
DurableGrows ==
    [][\A n \in Server :
        /\ current_term'[n] >= current_term[n]
        /\ Len(log'[n]) >= Len(log[n])
        /\ \A i \in 1..Len(log[n]) : log'[n][i] = log[n][i]]_vars

\* Only a restart takes back a commit index.
CommitNeverRegresses ==
    [][\A n \in Server :
        \/ commit_index'[n] >= commit_index[n]
        \/ commit_index'[n] = 0 /\ last_applied'[n] = 0 /\ leader_id'[n] = Nil]_vars

-----------------------------------------------------------------------------
\* What the sources say of the program and the program does not do.

\* README.md:2, "strong configuration consistency": no two nodes apply different
\* entries at the same index.
StateMachineSafety ==
    \A n, p \in Server : \A i \in 1..last_applied[n] :
        i <= last_applied[p] => log[n][i] = log[p][i]
=============================================================================
