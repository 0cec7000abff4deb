--------------------------- MODULE RaftCoreProofs ---------------------------
(***************************************************************************)
(* Safety of RaftCore, for every set of servers and every bound.           *)
(*                                                                         *)
(* What is durable grows, nothing is committed that a node does not hold,  *)
(* and a leader has its majority: these rest on types and on what a step   *)
(* changes.  For election safety the usual argument - a node votes once in *)
(* a term - is not available: a candidate that hears of the leader of its  *)
(* own term runs become_follower, which clears voted_for, and may then     *)
(* vote a second time in that term.  The invariant says why this does no   *)
(* harm:                                                                   *)
(*   - a vote is forgotten in its own term only after that term has a      *)
(*     leader (OpenTermInv), because only its leader sends AppendEntries   *)
(*     of the term;                                                        *)
(*   - the nodes that elected the leader are then followers, or the leader *)
(*     itself, and neither kind ever forgets its vote (QuorumInv).         *)
(* That logs match follows: the entries of a term are all its leader's.    *)
(***************************************************************************)
EXTENDS RaftCore, FiniteSetTheorems, TLAPS

\* Most leaves are set and first-order reasoning; those with arithmetic ask for SMT.
USE Zenon

\* What the proofs need of sequences.
LEMMA SeqLen ==
    ASSUME NEW S, NEW s \in Seq(S) PROVE Len(s) \in Nat
  BY SMT

LEMMA SeqElement ==
    ASSUME NEW S, NEW s \in Seq(S), NEW i \in 1..Len(s) PROVE s[i] \in S
  BY SMT

LEMMA SeqEmpty ==
    ASSUME NEW S
    PROVE  <<>> \in Seq(S) /\ Len(<<>>) = 0 /\ \A s \in Seq(S) : s # <<>> => Len(s) \in Nat \ {0}
  BY SMT

LEMMA SeqAppend ==
    ASSUME NEW S, NEW s \in Seq(S), NEW e \in S
    PROVE  /\ Append(s, e) \in Seq(S) /\ Len(Append(s, e)) = Len(s) + 1
           /\ \A i \in 1..Len(s) : Append(s, e)[i] = s[i]
           /\ Append(s, e)[Len(s) + 1] = e
  BY SMT

\* Any two majorities, as the code counts them, share a node.
LEMMA MajoritiesMeet ==
    ASSUME NEW P \in SUBSET Server, NEW Q \in SUBSET Server,
           IsMajority(Cardinality(P)), IsMajority(Cardinality(Q))
    PROVE  P \cap Q # {}
<1>1. /\ Cardinality(P) \in Nat /\ Cardinality(Q) \in Nat
      /\ Cardinality(Server) \in Nat
  BY ServerAssumption, FS_Subset, FS_CardinalityType
<1>2. Cardinality(P) + Cardinality(Q) > Cardinality(Server)
  BY <1>1, SMT DEF IsMajority
<1>3. QED
  BY <1>2, ServerAssumption, FS_MajoritiesIntersect

-----------------------------------------------------------------------------
\* The fields of a message in flight.
LEMMA MessageFields ==
    ASSUME TypeOK, NEW m \in msgs
    PROVE  /\ m.src \in Server /\ m.dst \in Server /\ m.src # m.dst /\ m.term \in Term
           /\ m.type = "RequestVoteResp" => m.vote_granted \in BOOLEAN
           /\ m.type = "AppendEntries" => m.leader_commit \in Nat
           /\ m.type = "AppendEntriesResp" => m.success \in BOOLEAN /\ m.match_index \in Nat
<1>1. m \in Message /\ m.src # m.dst
  BY DEF TypeOK
<1>2. QED
  BY <1>1 DEF Message

\* What a tick or a handler sends is well formed.
LEMMA SentMessages ==
    ASSUME TypeOK, NEW n \in Server
    PROVE  /\ current_term[n] + 1 \in Term =>
                  \A m \in RequestVotes(n, current_term[n] + 1) :
                      m \in Message /\ m.src # m.dst
           /\ state[n] = "LEADER" =>
                  \A m \in Heartbeats(n) : m \in Message /\ m.src # m.dst
<1>1. /\ log[n] \in Seq(Term) /\ Len(log[n]) \in Nat
      /\ \A i \in 1..Len(log[n]) : log[n][i] \in Term
      /\ current_term[n] \in Term /\ commit_index[n] \in Nat
  BY SeqElement, SeqLen DEF TypeOK
<1>2. LastLogIndex(n) \in Nat /\ LastLogTerm(n) \in Nat
  <2>1. log[n] # <<>> => Len(log[n]) \in 1..Len(log[n])
    BY <1>1, SeqEmpty, SMT
  <2>2. QED
    BY <1>1, <2>1, SMT DEF LastLogIndex, LastLogTerm, Term
<1>3. \A i : TermAtIndex(n, i) \in Nat
  BY <1>1, SMT DEF TermAtIndex, Term
<1>4. ASSUME state[n] = "LEADER", NEW p \in Server
      PROVE  next_index[n][p] - 1 \in Nat
  BY <1>4, SMT DEF TypeOK
<1>5. QED
  BY <1>1, <1>2, <1>3, <1>4, SMT DEF RequestVotes, Heartbeats, Peers, Message

LEMMA InitTypeOK == Init => TypeOK
BY BoundAssumption, SeqEmpty, SMT DEF Init, TypeOK, Term

LEMMA NextTypeOK == TypeOK /\ [Next]_vars => TypeOK'
<1> SUFFICES ASSUME TypeOK, [Next]_vars PROVE TypeOK'
  OBVIOUS
<1>1. ASSUME NEW n \in Server, NEW due \in BOOLEAN, LeaderTick(n, due)
      PROVE  TypeOK'
  <2>1. PICK c \in {commit_index[n]} \cup Committable(n) :
            /\ commit_index' = [commit_index EXCEPT ![n] = c]
            /\ ApplyCommitted(n, c)
    BY <1>1 DEF LeaderTick, CommitAndApply
  <2>2. c \in Nat /\ Len(log[n]) \in Nat
    BY SeqLen, SMT DEF TypeOK, Committable, LastLogIndex
  <2>3. commit_index' \in [Server -> Nat] /\ last_applied' \in [Server -> Nat]
    BY <2>1, <2>2, SMT DEF TypeOK, ApplyCommitted
  <2>4. msgs' \subseteq Message /\ \A m \in msgs' : m.src # m.dst
    BY <1>1, SentMessages DEF LeaderTick, TypeOK
  <2>5. QED
    BY <1>1, <2>3, <2>4 DEF TypeOK, LeaderTick, durable, election, replication
<1>2. ASSUME NEW n \in Server, NEW due \in BOOLEAN, FollowerCandidateTick(n, due)
      PROVE  TypeOK'
  <2>1. last_applied' \in [Server -> Nat]
    <3>1. Len(log[n]) \in Nat
      BY SeqLen DEF TypeOK
    <3>2. QED
      BY <1>2, <3>1, SMT DEF FollowerCandidateTick, TypeOK, ApplyCommitted
  <2>2. CASE BecomeCandidate(n) /\ msgs' = msgs \cup RequestVotes(n, current_term[n] + 1)
    <3>1. current_term[n] + 1 \in Term
      BY <2>2, BoundAssumption, SMT DEF BecomeCandidate, TypeOK, Term
    <3>2. msgs' \subseteq Message /\ \A m \in msgs' : m.src # m.dst
      BY <2>2, <3>1, SentMessages DEF TypeOK
    <3>3. QED
      BY <1>2, <2>1, <2>2, <3>1, <3>2, SMT
      DEF FollowerCandidateTick, BecomeCandidate, TypeOK, replication
  <2>3. CASE UNCHANGED <<state, current_term, voted_for, election, leader_id, msgs, grants>>
    BY <1>2, <2>1, <2>3 DEF FollowerCandidateTick, TypeOK, replication, election
  <2>4. QED
    BY <1>2, <2>2, <2>3 DEF FollowerCandidateTick
<1>3. ASSUME NEW n \in Server, Submit(n)
      PROVE  TypeOK'
  <2>1. Append(log[n], current_term[n]) \in Seq(Term)
    BY SeqAppend DEF TypeOK
  <2>2. QED
    BY <1>3, <2>1 DEF Submit, TypeOK, progress, election, replication
<1>4. ASSUME NEW n \in Server, Restart(n)
      PROVE  TypeOK'
  BY <1>4 DEF Restart, ComeBack, TypeOK, durable
<1>5. ASSUME NEW m \in msgs, HandleRequestVote(m)
      PROVE  TypeOK'
  <2> DEFINE n == m.dst
             granted == /\ m.term >= current_term[n]
                        /\ CanVoteFor(IF NewerTerm(n, m) THEN Nil ELSE voted_for[n], m.src)
                        /\ LogUpToDate(n, m)
             reply == [type |-> "RequestVoteResp", src |-> n, dst |-> m.src,
                       term |-> current_term[n], vote_granted |-> granted]
  <2>1. n \in Server /\ m.src \in Server /\ m.src # n /\ m.term \in Term
    BY MessageFields
  <2>2. granted \in BOOLEAN
    OBVIOUS
  <2>3. reply \in Message /\ reply.src # reply.dst
    BY <2>1, <2>2 DEF TypeOK, Message
  <2>4. msgs' \subseteq Message /\ \A k \in msgs' : k.src # k.dst
    BY <1>5, <2>3 DEF HandleRequestVote, Handled, TypeOK
  <2>5. grants' \subseteq Server \X Term \X Server
    <3>1. grants' \subseteq grants \cup {<<n, m.term, m.src>>}
      BY <1>5 DEF HandleRequestVote
    <3>2. grants \subseteq Server \X Term \X Server
      BY DEF TypeOK
    <3>3. QED
      BY <2>1, <3>1, <3>2, SMT
  <2>6. voted_for' \in [Server -> Server \cup {Nil}]
    <3>1. PICK v \in {Nil, voted_for[n], m.src} :
              voted_for' = [voted_for EXCEPT ![n] = v]
      BY <1>5 DEF HandleRequestVote, BecomeFollower
    <3>2. QED
      BY <2>1, <3>1 DEF TypeOK
  <2>7. /\ state' \in [Server -> {"FOLLOWER", "CANDIDATE", "LEADER"}]
        /\ current_term' \in [Server -> Term]
        /\ leader_id' \in [Server -> Server \cup {Nil}]
        /\ votes_received' \in [Server -> Nat]
        /\ \A k \in Server : state'[k] = "LEADER" => state[k] = "LEADER"
    <3>1. \/ /\ state' = [state EXCEPT ![n] = "FOLLOWER"]
             /\ current_term' = [current_term EXCEPT ![n] = m.term]
             /\ leader_id' = [leader_id EXCEPT ![n] = Nil]
             /\ votes_received' = [votes_received EXCEPT ![n] = 0]
          \/ UNCHANGED <<state, current_term, votes_received, leader_id>>
      BY <1>5 DEF HandleRequestVote, BecomeFollower
    <3>2. /\ state \in [Server -> {"FOLLOWER", "CANDIDATE", "LEADER"}]
          /\ current_term \in [Server -> Term]
          /\ leader_id \in [Server -> Server \cup {Nil}]
          /\ votes_received \in [Server -> Nat]
      BY DEF TypeOK
    <3>3. QED
      BY <2>1, <3>1, <3>2, SMT
  <2>8. UNCHANGED <<log, commit_index, last_applied, vote_granted, next_index,
                    match_index, elected>>
    BY <1>5 DEF HandleRequestVote, progress, replication
  <2>9. QED
    BY <2>4, <2>5, <2>6, <2>7, <2>8 DEF TypeOK
<1>6. ASSUME NEW m \in msgs, HandleAppendEntries(m)
      PROVE  TypeOK'
  <2> DEFINE n == m.dst
             success == /\ ~(m.term < current_term[n])
                        /\ \/ m.prev_log_index = 0
                           \/ TermAtIndex(n, m.prev_log_index) = m.prev_log_term
             reply == [type |-> "AppendEntriesResp", src |-> n, dst |-> m.src,
                       term |-> current_term[n], success |-> success,
                       match_index |-> IF success THEN LastLogIndex(n) ELSE 0]
  <2>1. /\ n \in Server /\ m.src \in Server /\ m.src # n /\ m.term \in Term
        /\ m.leader_commit \in Nat
    BY <1>6, MessageFields DEF HandleAppendEntries
  <2>2. LastLogIndex(n) \in Nat
    BY <2>1, SeqLen DEF TypeOK, LastLogIndex
  <2>3. reply \in Message /\ reply.src # reply.dst
    BY <2>1, <2>2 DEF TypeOK, Message
  <2>4. msgs' \subseteq Message /\ \A k \in msgs' : k.src # k.dst
    BY <1>6, <2>3 DEF HandleAppendEntries, Handled, TypeOK
  <2>5. FollowerCommit(n, m) \in Nat
    BY <2>1, <2>2 DEF FollowerCommit, TypeOK
  <2>6. commit_index' \in [Server -> Nat]
    BY <1>6, <2>1, <2>5 DEF HandleAppendEntries, TypeOK
  <2>7. /\ state' \in [Server -> {"FOLLOWER", "CANDIDATE", "LEADER"}]
        /\ current_term' \in [Server -> Term]
        /\ voted_for' \in [Server -> Server \cup {Nil}]
        /\ leader_id' \in [Server -> Server \cup {Nil}]
        /\ votes_received' \in [Server -> Nat]
        /\ \A k \in Server : state'[k] = "LEADER" => state[k] = "LEADER"
    <3>1. CASE BecomeFollower(n, m.term, Nil, leader_id'[n]) /\ leader_id'[n] \in {Nil, m.src}
      BY <2>1, <3>1, ZenonT(30) DEF BecomeFollower, TypeOK
    <3>2. CASE /\ leader_id' \in {leader_id, [leader_id EXCEPT ![n] = m.src]}
               /\ UNCHANGED <<state, current_term, votes_received, voted_for>>
      BY <2>1, <3>2 DEF TypeOK
    <3>3. leader_id \in [Server -> Server \cup {Nil}]
      BY DEF TypeOK
    <3>4. QED
      BY <1>6, <2>1, <3>1, <3>2, <3>3 DEF HandleAppendEntries, BecomeFollower
  <2>8. UNCHANGED <<log, last_applied, vote_granted, next_index, match_index,
                    grants, elected>>
    BY <1>6 DEF HandleAppendEntries, replication
  <2>9. QED
    BY <2>4, <2>6, <2>7, <2>8 DEF TypeOK
<1>7. ASSUME NEW m \in msgs, StepDown(m)
      PROVE  TypeOK'
  BY <1>7, MessageFields
  DEF StepDown, BecomeFollower, Handled, TypeOK, progress, replication
<1>8. ASSUME NEW m \in msgs, CountVote(m)
      PROVE  TypeOK'
  <2>1. m.dst \in Server /\ m.src \in Server
    BY MessageFields
  <2>2. /\ Append(log[m.dst], current_term[m.dst]) \in Seq(Term)
        /\ Len(log[m.dst]) \in Nat
    BY <2>1, SeqAppend, SeqLen DEF TypeOK
  <2>3. /\ votes_received' \in [Server -> Nat]
        /\ vote_granted' \in [Server -> SUBSET Server]
    <3>1. \/ UNCHANGED <<votes_received, vote_granted>>
          \/ /\ votes_received' = [votes_received EXCEPT ![m.dst] = @ + 1]
             /\ vote_granted' = [vote_granted EXCEPT ![m.dst] = @ \cup {m.src}]
      BY <1>8 DEF CountVote, election
    <3>2. /\ votes_received \in [Server -> Nat]
          /\ vote_granted \in [Server -> SUBSET Server]
      BY DEF TypeOK
    <3>3. QED
      BY <2>1, <3>1, <3>2, SMT
  <2>4. msgs' \subseteq msgs /\ UNCHANGED <<current_term, voted_for, commit_index,
                                            last_applied, grants>>
    BY <1>8 DEF CountVote, Handled, progress
  <2>5. CASE BecomeLeader(m.dst)
    <3>1. /\ state' \in [Server -> {"FOLLOWER", "CANDIDATE", "LEADER"}]
          /\ leader_id' \in [Server -> Server \cup {Nil}]
      BY <2>1, <2>5 DEF BecomeLeader, TypeOK
    <3>2. log' \in [Server -> Seq(Term)] /\ elected' \subseteq Term \X Server
      <4>1. log \in [Server -> Seq(Term)] /\ elected \subseteq Term \X Server
            /\ current_term[m.dst] \in Term
        BY <2>1 DEF TypeOK
      <4>2. QED
        BY <2>1, <2>2, <2>5, <4>1, SMT DEF BecomeLeader
    <3>3. /\ next_index' \in [Server -> [Server -> Nat]]
          /\ match_index' \in [Server -> [Server -> Nat]]
      <4>1. /\ next_index \in [Server -> [Server -> Nat]]
            /\ match_index \in [Server -> [Server -> Nat]]
        BY DEF TypeOK
      <4>2. QED
        BY <2>1, <2>2, <2>5, <4>1, SMT DEF BecomeLeader, InitialNextIndex, LastLogIndex
    <3>4. ASSUME NEW n \in Server, state'[n] = "LEADER", NEW p \in Server
          PROVE  next_index'[n][p] >= 1
      <4>1. CASE n = m.dst
        BY <2>1, <2>2, <2>5, <4>1, SMT DEF BecomeLeader, InitialNextIndex, LastLogIndex, TypeOK
      <4>2. CASE n # m.dst
        BY <2>1, <2>5, <3>4, <4>2 DEF BecomeLeader, TypeOK
      <4>3. QED
        BY <4>1, <4>2
    <3>5. QED
      BY <2>3, <2>4, <3>1, <3>2, <3>3, <3>4 DEF TypeOK
  <2>6. CASE UNCHANGED <<state, leader_id, replication, log, elected>>
    BY <2>3, <2>4, <2>6 DEF TypeOK, replication
  <2>7. QED
    BY <1>8, <2>5, <2>6 DEF CountVote
<1>9. ASSUME NEW m \in msgs, m.type = "AppendEntriesResp", RecordProgress(m)
      PROVE  TypeOK'
  <2>1. m.dst \in Server /\ m.src \in Server /\ m.match_index \in Nat
    BY <1>9, MessageFields
  <2>2. match_index' \in [Server -> [Server -> Nat]]
    BY <1>9, <2>1 DEF RecordProgress, TypeOK
  <2>3. /\ next_index' \in [Server -> [Server -> Nat]]
        /\ \A n, p \in Server : next_index[n][p] >= 1 => next_index'[n][p] >= 1
    <3>1. next_index \in [Server -> [Server -> Nat]]
      BY DEF TypeOK
    <3>2. PICK i \in Nat :
            /\ next_index[m.dst][m.src] >= 1 => i >= 1
            /\ next_index' \in {next_index, [next_index EXCEPT ![m.dst][m.src] = i]}
      <4> DEFINE i == IF m.success THEN m.match_index + 1
                      ELSE IF next_index[m.dst][m.src] > 1 THEN next_index[m.dst][m.src] - 1
                      ELSE next_index[m.dst][m.src]
      <4>1. i \in Nat /\ (next_index[m.dst][m.src] >= 1 => i >= 1)
        BY <2>1, <3>1, SMT
      <4>2. next_index' \in {next_index, [next_index EXCEPT ![m.dst][m.src] = i]}
        BY <1>9 DEF RecordProgress
      <4>3. QED
        BY <4>1, <4>2
    <3>3. QED
      BY <2>1, <3>1, <3>2, SMT
  <2>4. msgs' \subseteq msgs /\ UNCHANGED <<state, current_term, voted_for, log,
            commit_index, last_applied, leader_id, votes_received, vote_granted,
            grants, elected>>
    BY <1>9 DEF RecordProgress, Handled, durable, progress, election
  <2>5. QED
    BY <2>2, <2>3, <2>4 DEF TypeOK
<1>10. CASE UNCHANGED vars
  BY <1>10 DEF vars, TypeOK, durable, progress, election, replication
<1>11. QED
  BY <1>1, <1>2, <1>3, <1>4, <1>5, <1>6, <1>7, <1>8, <1>9, <1>10
  DEF Next, Tick, Receive, HandleRequestVoteResponse, HandleAppendEntriesResponse

\* Every field keeps its type in every behaviour of the nodes; in particular
\* prev_log_index (next_index - 1, an unsigned number in leader_tick) never
\* wraps around.
THEOREM TypeCorrect == Spec => []TypeOK
BY InitTypeOK, NextTypeOK, PTL DEF Spec

-----------------------------------------------------------------------------
\* Parts of the invariants of both election arguments: the one below, where calls
\* and answers are messages, and that of RaftRpcProofs, where a node waits for them.

\* voted_for is a vote the node gave in its current term, no vote is from a
\* later term, and a node that is not a follower voted for itself.
VoteInv ==
    /\ \A n \in Server :
        voted_for[n] # Nil => <<n, current_term[n], voted_for[n]>> \in grants
    /\ \A v, c \in Server : \A t \in Term :
        <<v, t, c>> \in grants => t <= current_term[v]
    /\ \A n \in Server : state[n] # "FOLLOWER" => voted_for[n] = n

\* The votes a candidate has counted are distinct votes given to it in its term.
CandidateInv ==
    \A n \in Server : state[n] = "CANDIDATE" =>
        /\ votes_received[n] = Cardinality(vote_granted[n]) + 1
        /\ n \notin vote_granted[n]
        /\ \A p \in vote_granted[n] : <<p, current_term[n], n>> \in grants

\* The election state of node k is the same after the step.
Same(k) ==
    /\ state'[k] = state[k]
    /\ current_term'[k] = current_term[k]
    /\ voted_for'[k] = voted_for[k]
    /\ votes_received'[k] = votes_received[k]
    /\ vote_granted'[k] = vote_granted[k]

-----------------------------------------------------------------------------
\* What the steps that touch no log and no commit index leave alone.
LEMMA LogAndCommit ==
    ASSUME TypeOK, NEW m \in msgs, Receive(m)
    PROVE  /\ m.dst \in Server
           /\ \/ log' = log
              \/ /\ log' = [log EXCEPT ![m.dst] = Append(@, current_term[m.dst])]
                 /\ current_term' = current_term
                 /\ <<current_term[m.dst], m.dst>> \in elected'
           /\ \/ commit_index' = commit_index
              \/ /\ commit_index' = [commit_index EXCEPT ![m.dst] = FollowerCommit(m.dst, m)]
                 /\ log' = log /\ m.type = "AppendEntries"
           /\ last_applied' = last_applied
           /\ \/ current_term' = current_term
              \/ /\ current_term' = [current_term EXCEPT ![m.dst] = m.term]
                 /\ m.term >= current_term[m.dst]
           /\ elected \subseteq elected'
<1>1. m.dst \in Server /\ m.term \in Nat /\ current_term[m.dst] \in Nat
      /\ commit_index \in [Server -> Nat]
  <2>1. /\ m.dst \in Server /\ m.term \in Term /\ current_term[m.dst] \in Term
        /\ commit_index \in [Server -> Nat]
    BY MessageFields DEF TypeOK
  <2>2. QED
    BY <2>1, SMT DEF Term
<1>2. NewerTerm(m.dst, m) \/ m.term = current_term[m.dst] => m.term >= current_term[m.dst]
  BY <1>1, SMT DEF NewerTerm
<1>3. CASE HandleRequestVote(m)
  BY <1>1, <1>2, <1>3 DEF HandleRequestVote, BecomeFollower, progress
<1>4. CASE HandleAppendEntries(m)
  <2>1. [commit_index EXCEPT ![m.dst] = @] = commit_index
    BY <1>1
  <2>2. \/ commit_index' = commit_index
        \/ commit_index' = [commit_index EXCEPT ![m.dst] = FollowerCommit(m.dst, m)]
    BY <1>4, <2>1 DEF HandleAppendEntries
  <2>3. QED
    BY <1>1, <1>2, <1>4, <2>2 DEF HandleAppendEntries, BecomeFollower
<1>5. CASE StepDown(m)
  BY <1>1, <1>2, <1>5 DEF StepDown, BecomeFollower, progress
<1>6. CASE CountVote(m)
  BY <1>1, <1>6 DEF CountVote, BecomeLeader, progress
<1>7. CASE RecordProgress(m)
  BY <1>1, <1>7 DEF RecordProgress, progress, durable
<1>8. QED
  BY <1>3, <1>4, <1>5, <1>6, <1>7
  DEF Receive, HandleRequestVoteResponse, HandleAppendEntriesResponse

\* The lengths of logs are numbers, and appending adds one entry at the end.
LEMMA Appended ==
    ASSUME TypeOK, NEW n \in Server, NEW t \in Term
    PROVE  /\ Len(log[n]) \in Nat /\ Len(Append(log[n], t)) = Len(log[n]) + 1
           /\ \A i \in 1..Len(log[n]) : Append(log[n], t)[i] = log[n][i]
           /\ Append(log[n], t)[Len(log[n]) + 1] = t
<1>1. log[n] \in Seq(Term)
  BY DEF TypeOK
<1>2. QED
  BY <1>1, SeqAppend, SeqLen, SMT

-----------------------------------------------------------------------------
\* A step leaves the log of n or appends the term of n to it.
Extends(n) ==
    \/ log'[n] = log[n]
    \/ /\ log'[n] = Append(log[n], current_term[n])
       /\ state[n] = "LEADER" \/ <<current_term[n], n>> \in elected'

LEMMA LogsExtend ==
    ASSUME TypeOK, [Next]_vars
    PROVE  /\ \A n \in Server : Extends(n) /\ current_term'[n] >= current_term[n]
           /\ elected \subseteq elected'
<1>1. /\ current_term \in [Server -> Term] /\ log \in [Server -> Seq(Term)]
      /\ \A u \in Term : u \in Nat
  BY SMT DEF TypeOK, Term
<1>2. \A k \in Server : current_term[k] \in Nat /\ current_term[k] >= current_term[k]
  BY <1>1, SMT
<1>3. ASSUME NEW m \in msgs, Receive(m)
      PROVE  /\ \A n \in Server : Extends(n) /\ current_term'[n] >= current_term[n]
             /\ elected \subseteq elected'
  <2>1. \A n \in Server : Extends(n)
    BY <1>1, <1>3, LogAndCommit DEF Extends
  <2>2. \A n \in Server : current_term'[n] >= current_term[n]
    BY <1>1, <1>2, <1>3, LogAndCommit
  <2>3. QED
    BY <1>1, <1>3, <2>1, <2>2, LogAndCommit
<1>4. ASSUME NEW n \in Server, Submit(n)
      PROVE  /\ \A k \in Server : Extends(k) /\ current_term'[k] >= current_term[k]
             /\ elected \subseteq elected'
  BY <1>1, <1>2, <1>4 DEF Submit, Extends
<1>5. ASSUME NEW n \in Server, BecomeCandidate(n), log' = log, elected' = elected
      PROVE  /\ \A k \in Server : Extends(k) /\ current_term'[k] >= current_term[k]
             /\ elected \subseteq elected'
  BY <1>1, <1>2, <1>5, SMT DEF BecomeCandidate, Extends
<1>6. ASSUME UNCHANGED <<current_term, log>>, elected' = elected
      PROVE  /\ \A k \in Server : Extends(k) /\ current_term'[k] >= current_term[k]
             /\ elected \subseteq elected'
  BY <1>2, <1>6 DEF Extends
<1>7. ASSUME NEW n \in Server, Tick(n) \/ Restart(n)
      PROVE  /\ \A k \in Server : Extends(k) /\ current_term'[k] >= current_term[k]
             /\ elected \subseteq elected'
  BY <1>5, <1>6, <1>7 DEF Tick, LeaderTick, FollowerCandidateTick, Restart, ComeBack, durable
<1>8. CASE UNCHANGED vars
  BY <1>6, <1>8 DEF vars, durable
<1>9. QED
  BY <1>3, <1>4, <1>7, <1>8 DEF Next

\* Terms never fall and logs are only extended, by any handler, tick or restart.
THEOREM DurableKept == Spec => DurableGrows
<1> DEFINE A == \A n \in Server : /\ current_term'[n] >= current_term[n]
                                  /\ Len(log'[n]) >= Len(log[n])
                                  /\ \A i \in 1..Len(log[n]) : log'[n][i] = log[n][i]
<1>1. TypeOK /\ [Next]_vars => [A]_vars
  <2> SUFFICES ASSUME TypeOK, [Next]_vars, NEW n \in Server
               PROVE  /\ current_term'[n] >= current_term[n]
                      /\ Len(log'[n]) >= Len(log[n])
                      /\ \A i \in 1..Len(log[n]) : log'[n][i] = log[n][i]
    OBVIOUS
  <2>1. TypeOK /\ current_term[n] \in Term
    BY DEF TypeOK
  <2>2. Extends(n) /\ current_term'[n] >= current_term[n]
    BY LogsExtend
  <2>3. QED
    BY <2>1, <2>2, Appended, SMT DEF Extends
<1>2. QED
  BY <1>1, TypeCorrect, PTL DEF Spec, DurableGrows

-----------------------------------------------------------------------------
\* The commit index of n has not fallen, and covers what is applied and held.
Held(n) ==
    /\ commit_index'[n] >= commit_index[n]
    /\ last_applied'[n] <= commit_index'[n] /\ commit_index'[n] <= Len(log'[n])

LEMMA ProgressTypes ==
    ASSUME TypeOK, CommitWithinLog, NEW n \in Server
    PROVE  /\ commit_index \in [Server -> Nat] /\ last_applied \in [Server -> Nat]
           /\ commit_index[n] \in Nat /\ last_applied[n] \in Nat /\ Len(log[n]) \in Nat
           /\ last_applied[n] <= commit_index[n] /\ commit_index[n] <= Len(log[n])
<1>1. TypeOK /\ current_term[n] \in Term
  BY DEF TypeOK
<1>2. Len(log[n]) \in Nat
  BY <1>1, Appended
<1>3. QED
  BY <1>2 DEF TypeOK, CommitWithinLog

\* A log that grows holds what it held.
LEMMA StaysHeld ==
    ASSUME TypeOK, CommitWithinLog, NEW n \in Server,
           commit_index'[n] = commit_index[n], last_applied'[n] = last_applied[n],
           log'[n] = log[n] \/ log'[n] = Append(log[n], current_term[n])
    PROVE  Held(n)
<1>1. TypeOK /\ current_term[n] \in Term
  BY DEF TypeOK
<1>2. Len(log'[n]) = Len(log[n]) \/ Len(log'[n]) = Len(log[n]) + 1
  <2>1. Len(Append(log[n], current_term[n])) = Len(log[n]) + 1
    BY <1>1, Appended
  <2>2. QED
    BY <2>1
<1>3. /\ commit_index[n] \in Nat /\ last_applied[n] \in Nat /\ Len(log[n]) \in Nat
      /\ last_applied[n] <= commit_index[n] /\ commit_index[n] <= Len(log[n])
  BY ProgressTypes
<1>4. QED
  BY <1>2, <1>3, SMT DEF Held

\* A tick settles the commit index of n on some c between the old one and the end
\* of the log, and applies up to c.
LEMMA TickHolds ==
    ASSUME TypeOK, CommitWithinLog, NEW k \in Server, log' = log, NEW n \in Server,
           \/ CommitAndApply(k)
           \/ ApplyCommitted(k, commit_index[k]) /\ commit_index' = commit_index
    PROVE  Held(n)
<1>1. /\ commit_index \in [Server -> Nat] /\ last_applied \in [Server -> Nat]
      /\ commit_index[n] \in Nat /\ last_applied[n] \in Nat /\ Len(log[n]) \in Nat
      /\ last_applied[n] <= commit_index[n] /\ commit_index[n] <= Len(log[n])
  BY ProgressTypes
<1>2. CASE n # k
  <2>1. commit_index'[n] = commit_index[n] /\ last_applied'[n] = last_applied[n]
    BY <1>1, <1>2 DEF CommitAndApply, ApplyCommitted
  <2>2. QED
    BY <2>1, StaysHeld
<1>3. CASE n = k
  <2>1. PICK c \in {commit_index[n]} \cup Committable(n) :
            commit_index'[n] = c /\ ApplyCommitted(n, c)
    BY <1>1, <1>3 DEF CommitAndApply
  <2>2. c \in Nat /\ c >= commit_index[n] /\ c <= Len(log[n])
    BY <1>1, SMT DEF Committable, LastLogIndex
  <2>3. last_applied'[n] = IF last_applied[n] >= c THEN last_applied[n] ELSE c
    BY <1>1, <2>1, <2>2 DEF ApplyCommitted
  <2>4. QED
    BY <1>1, <2>1, <2>2, <2>3, SMT DEF Held
<1>4. QED
  BY <1>2, <1>3

\* A handler commits no more than the log has.
LEMMA HandlerHolds ==
    ASSUME TypeOK, CommitWithinLog, NEW m \in msgs, Receive(m), NEW n \in Server
    PROVE  Held(n)
<1>1. /\ commit_index \in [Server -> Nat] /\ log \in [Server -> Seq(Term)]
      /\ commit_index[n] \in Nat /\ last_applied[n] \in Nat /\ Len(log[n]) \in Nat
      /\ last_applied[n] <= commit_index[n] /\ commit_index[n] <= Len(log[n])
  BY ProgressTypes DEF TypeOK
<1>2. /\ m.dst \in Server /\ last_applied' = last_applied
      /\ log' = log \/ log' = [log EXCEPT ![m.dst] = Append(@, current_term[m.dst])]
      /\ \/ commit_index' = commit_index
         \/ /\ commit_index' = [commit_index EXCEPT ![m.dst] = FollowerCommit(m.dst, m)]
            /\ log' = log /\ m.type = "AppendEntries"
  BY LogAndCommit
<1>3. CASE commit_index'[n] = commit_index[n]
  <2>1. log'[n] = log[n] \/ log'[n] = Append(log[n], current_term[n])
    BY <1>1, <1>2
  <2>2. QED
    BY <1>2, <1>3, <2>1, StaysHeld
<1>4. CASE commit_index'[n] # commit_index[n]
  <2>1. TypeOK
    OBVIOUS
  <2>2. commit_index'[n] = FollowerCommit(n, m) /\ log' = log /\ m.leader_commit \in Nat
    BY <1>1, <1>2, <1>4, <2>1, MessageFields
  <2>3. FollowerCommit(n, m) >= commit_index[n] /\ FollowerCommit(n, m) <= Len(log[n])
    BY <1>1, <2>2, SMT DEF FollowerCommit, LastLogIndex
  <2>4. FollowerCommit(n, m) \in Nat
    BY <1>1, <2>2 DEF FollowerCommit, LastLogIndex
  <2>5. QED
    BY <1>1, <1>2, <2>2, <2>3, <2>4, SMT DEF Held
<1>5. QED
  BY <1>3, <1>4

\* A restart forgets what was committed and applied.
Forgets(n) == commit_index'[n] = 0 /\ last_applied'[n] = 0 /\ leader_id'[n] = Nil

LEMMA CommitStep ==
    ASSUME TypeOK, CommitWithinLog, [Next]_vars, NEW n \in Server
    PROVE  Held(n) \/ Forgets(n)
<1>1. /\ commit_index \in [Server -> Nat] /\ last_applied \in [Server -> Nat]
      /\ leader_id \in [Server -> Server \cup {Nil}]
      /\ log'[n] = log[n] \/ log'[n] = Append(log[n], current_term[n])
  BY LogsExtend DEF TypeOK, Extends
<1>2. CASE commit_index'[n] = commit_index[n] /\ last_applied'[n] = last_applied[n]
  BY <1>1, <1>2, StaysHeld
<1>3. ASSUME NEW k \in Server, Tick(k) PROVE Held(n)
  <2>1. log' = log
    BY <1>3 DEF Tick, LeaderTick, FollowerCandidateTick, durable
  <2>2. \/ CommitAndApply(k)
        \/ ApplyCommitted(k, commit_index[k]) /\ commit_index' = commit_index
    BY <1>3 DEF Tick, LeaderTick, FollowerCandidateTick
  <2>3. QED
    BY <2>1, <2>2, TickHolds
<1>4. ASSUME NEW k \in Server, Submit(k)
      PROVE  commit_index'[n] = commit_index[n] /\ last_applied'[n] = last_applied[n]
  BY <1>4 DEF Submit, progress
<1>5. ASSUME NEW k \in Server, Restart(k)
      PROVE  \/ commit_index'[n] = commit_index[n] /\ last_applied'[n] = last_applied[n]
             \/ Forgets(n)
  BY <1>1, <1>5 DEF Restart, ComeBack, Forgets
<1>6. ASSUME NEW m \in msgs, Receive(m) PROVE Held(n)
  BY <1>6, HandlerHolds
<1>7. CASE UNCHANGED vars
  BY <1>2, <1>7 DEF vars, progress
<1>8. QED
  BY <1>2, <1>3, <1>4, <1>5, <1>6, <1>7 DEF Next

\* Nothing is applied that is not committed and nothing committed that the node does
\* not hold, so apply_committed_entries finds every entry it looks for.
THEOREM CommittedIsHeld == Spec => []CommitWithinLog
<1>1. Init => CommitWithinLog
  <2> SUFFICES ASSUME Init PROVE CommitWithinLog
    OBVIOUS
  <2>1. \A n \in Server : last_applied[n] = 0 /\ commit_index[n] = 0 /\ Len(log[n]) = 0
    BY DEF Init
  <2>2. QED
    BY <2>1, SMT DEF CommitWithinLog
<1>2. TypeOK /\ CommitWithinLog /\ [Next]_vars => CommitWithinLog'
  <2> SUFFICES ASSUME TypeOK, CommitWithinLog, [Next]_vars, NEW n \in Server
               PROVE  last_applied'[n] <= commit_index'[n] /\ commit_index'[n] <= Len(log'[n])
    BY DEF CommitWithinLog
  <2>1. Len(log'[n]) >= 0 /\ 0 <= 0
    <3>1. TypeOK /\ current_term[n] \in Term
      BY DEF TypeOK
    <3>2. Len(log'[n]) \in Nat
      BY <3>1, LogsExtend, Appended, SMT DEF Extends
    <3>3. QED
      BY <3>2, SMT
  <2>2. QED
    BY <2>1, CommitStep DEF Held, Forgets
<1>3. QED
  BY <1>1, <1>2, TypeCorrect, PTL DEF Spec

\* Only a restart takes back a commit index: a late heartbeat does not, nor one that
\* commits more than the follower holds.
THEOREM CommitsKept == Spec => CommitNeverRegresses
<1> DEFINE A == \A n \in Server :
                    \/ commit_index'[n] >= commit_index[n]
                    \/ commit_index'[n] = 0 /\ last_applied'[n] = 0 /\ leader_id'[n] = Nil
<1>1. TypeOK /\ CommitWithinLog /\ [Next]_vars => [A]_vars
  BY CommitStep DEF Held, Forgets
<1>2. QED
  BY <1>1, CommittedIsHeld, TypeCorrect, PTL DEF Spec, CommitNeverRegresses

-----------------------------------------------------------------------------
\* In a cluster of two or more, a node with a majority of the votes does not remain a
\* candidate.  A cluster of one never counts its own vote as a majority: the test
\* is made only when a response arrives.
THEOREM MajorityLeads == Spec => [](Cardinality(Server) >= 2 => MajorityIsLeader)
<1> DEFINE I == Cardinality(Server) >= 2 => MajorityIsLeader
<1>1. Init => I
  BY DEF Init, MajorityIsLeader
<1>2. TypeOK /\ I /\ [Next]_vars => I'
  <2> SUFFICES ASSUME TypeOK, MajorityIsLeader, [Next]_vars, Cardinality(Server) >= 2,
                      NEW n \in Server, state'[n] = "CANDIDATE"
               PROVE  ~IsMajority(votes_received'[n])
    BY DEF MajorityIsLeader
  <2>1. /\ state \in [Server -> {"FOLLOWER", "CANDIDATE", "LEADER"}]
        /\ votes_received \in [Server -> Nat]
    BY DEF TypeOK
  <2>2. CASE state[n] = "CANDIDATE" /\ votes_received'[n] = votes_received[n]
    BY <2>2 DEF MajorityIsLeader
  <2>3. ASSUME NEW k \in Server, BecomeCandidate(k), ~(state[n] = "CANDIDATE"
                   /\ votes_received'[n] = votes_received[n])
        PROVE  ~IsMajority(votes_received'[n])
    <3>1. k = n /\ votes_received'[n] = 1
      BY <2>1, <2>3 DEF BecomeCandidate
    <3>2. ~IsMajority(1)
      <4>1. Cardinality(Server) \in Nat
        BY ServerAssumption, FS_CardinalityType
      <4>2. Cardinality(Server) \div 2 >= 1
        BY <4>1, SMT
      <4>3. QED
        BY <4>1, <4>2, SMT DEF IsMajority
    <3>3. QED
      BY <3>1, <3>2
  <2>4. ASSUME NEW m \in msgs, CountVote(m)
        PROVE  ~IsMajority(votes_received'[n])
    <3>1. m.dst \in Server
      BY MessageFields
    <3>2. CASE Counts(m.dst, m) /\ m.dst = n
      BY <2>1, <2>4, <3>1, <3>2 DEF CountVote, BecomeLeader, Wins
    <3>3. CASE ~Counts(m.dst, m) \/ m.dst # n
      BY <2>1, <2>2, <2>4, <3>1, <3>3 DEF CountVote, BecomeLeader, election
    <3>4. QED
      BY <3>2, <3>3
  <2>5. ASSUME NEW m \in msgs, Receive(m)
        PROVE  ~IsMajority(votes_received'[n])
    <3>1. m.dst \in Server
      BY MessageFields
    <3>2. CASE HandleRequestVote(m)
      BY <2>1, <2>2, <3>1, <3>2 DEF HandleRequestVote, BecomeFollower
    <3>3. CASE HandleAppendEntries(m)
      BY <2>1, <2>2, <3>1, <3>3 DEF HandleAppendEntries, BecomeFollower
    <3>4. CASE StepDown(m)
      BY <2>1, <2>2, <3>1, <3>4 DEF StepDown, BecomeFollower
    <3>5. CASE RecordProgress(m)
      BY <2>2, <3>5 DEF RecordProgress, election
    <3>6. QED
      BY <2>4, <2>5, <3>2, <3>3, <3>4, <3>5
      DEF Receive, HandleRequestVoteResponse, HandleAppendEntriesResponse
  <2>6. ASSUME NEW k \in Server, Tick(k) \/ Submit(k)
        PROVE  ~IsMajority(votes_received'[n])
    BY <2>2, <2>3, <2>6 DEF Tick, LeaderTick, FollowerCandidateTick, Submit, election
  <2>7. ASSUME NEW k \in Server, Restart(k)
        PROVE  ~IsMajority(votes_received'[n])
    BY <2>1, <2>2, <2>7 DEF Restart, ComeBack
  <2>8. CASE UNCHANGED vars
    BY <2>2, <2>8 DEF vars, election
  <2>9. QED
    BY <2>5, <2>6, <2>7, <2>8 DEF Next
<1>3. QED
  BY <1>1, <1>2, TypeCorrect, PTL DEF Spec

-----------------------------------------------------------------------------
\* No node has been elected in term t.
OpenTerm(t) == \A l \in Server : <<t, l>> \notin elected

\* v gave its only vote of term t to l and, while it is in t, remembers it.
Loyal(v, t, l) ==
    /\ <<v, t, l>> \in grants
    /\ \A c \in Server : <<v, t, c>> \in grants => c = l
    /\ current_term[v] = t => voted_for[v] = l /\ (v = l \/ state[v] = "FOLLOWER")

\* While a term has no leader, votes of that term are single and remembered.
OpenTermInv ==
    \A t \in Term : OpenTerm(t) => \A v, c \in Server : <<v, t, c>> \in grants =>
        /\ current_term[v] = t => voted_for[v] = c
        /\ \A d \in Server : <<v, t, d>> \in grants => d = c

\* Who may have sent what is in flight.  A granting response whose term is not
\* the term of the vote is already stale for the candidate.
MessageInv ==
    \A m \in msgs :
        /\ m.type = "RequestVote" => m.term <= current_term[m.src]
        /\ m.type = "RequestVoteResp" /\ m.vote_granted =>
              <<m.src, m.term, m.dst>> \in grants \/ m.term < current_term[m.dst]
        /\ m.type = "AppendEntries" => <<m.term, m.src>> \in elected

LeaderInv ==
    \A n \in Server : state[n] = "LEADER" => <<current_term[n], n>> \in elected

\* Behind every election stands a majority of loyal voters.
QuorumInv ==
    \A t \in Term, l \in Server : <<t, l>> \in elected =>
        \E Q \in SUBSET Server :
            IsMajority(Cardinality(Q)) /\ \A v \in Q : Loyal(v, t, l)

ElectionInv ==
    /\ TypeOK
    /\ VoteInv
    /\ OpenTermInv
    /\ CandidateInv
    /\ MessageInv
    /\ LeaderInv
    /\ QuorumInv

-----------------------------------------------------------------------------
\* At most one leader per term follows from the loyal majorities.
LEMMA UniqueLeader ==
    ASSUME QuorumInv, NEW t \in Term, NEW k \in Server, NEW l \in Server,
           <<t, k>> \in elected, <<t, l>> \in elected
    PROVE  k = l
<1>1. PICK P \in SUBSET Server :
          IsMajority(Cardinality(P)) /\ \A v \in P : Loyal(v, t, k)
  BY DEF QuorumInv
<1>2. PICK Q \in SUBSET Server :
          IsMajority(Cardinality(Q)) /\ \A v \in Q : Loyal(v, t, l)
  BY DEF QuorumInv
<1>3. PICK v \in P : v \in Q
  BY <1>1, <1>2, MajoritiesMeet
<1>4. QED
  BY <1>1, <1>2, <1>3 DEF Loyal

\* A step that elects nobody and leaves loyal voters loyal keeps the majorities.
LEMMA QuorumKept ==
    ASSUME QuorumInv, elected' = elected,
           \A t \in Term : \A v, l \in Server :
               <<t, l>> \in elected /\ Loyal(v, t, l) => Loyal(v, t, l)'
    PROVE  QuorumInv'
<1> SUFFICES ASSUME NEW t \in Term, NEW l \in Server, <<t, l>> \in elected
             PROVE  \E Q \in SUBSET Server :
                        IsMajority(Cardinality(Q)) /\ \A v \in Q : Loyal(v, t, l)'
  BY DEF QuorumInv, IsMajority
<1>1. PICK Q \in SUBSET Server :
          IsMajority(Cardinality(Q)) /\ \A v \in Q : Loyal(v, t, l)
  BY DEF QuorumInv
<1>2. QED
  BY <1>1

\* The rest of the invariant, to be re-established by every action.
Rest == VoteInv /\ OpenTermInv /\ CandidateInv /\ MessageInv /\ LeaderInv /\ QuorumInv

\* A message that claims nothing about elections.
Neutral(k) == \/ k.type = "AppendEntriesResp"
              \/ k.type = "RequestVoteResp" /\ ~k.vote_granted

\* Steps that change no vote, term, candidate or election, and send nothing but
\* the heartbeats of a leader or a refusal: leader_tick, raft_submit, a refused
\* request, and the progress recorded from an AppendEntries response.
LEMMA QuietStep ==
    ASSUME ElectionInv, \A k \in Server : Same(k),
           UNCHANGED <<grants, elected>>,
           \A k \in msgs' : \/ k \in msgs
                            \/ Neutral(k)
                            \/ /\ k.type = "AppendEntries"
                               /\ k.src \in Server /\ state[k.src] = "LEADER"
                               /\ k.term = current_term[k.src]
    PROVE  Rest'
<1>1. VoteInv'
  BY DEF ElectionInv, VoteInv, Same
<1>2. OpenTermInv'
  BY ZenonT(30) DEF ElectionInv, OpenTermInv, OpenTerm, Same
<1>3. CandidateInv'
  BY DEF ElectionInv, CandidateInv, Same
<1>4. MessageInv'
  <2> SUFFICES ASSUME NEW k \in msgs'
               PROVE  /\ k.type = "RequestVote" => k.term <= current_term'[k.src]
                      /\ k.type = "RequestVoteResp" /\ k.vote_granted =>
                           <<k.src, k.term, k.dst>> \in grants' \/ k.term < current_term'[k.dst]
                      /\ k.type = "AppendEntries" => <<k.term, k.src>> \in elected'
    BY DEF MessageInv
  <2>1. CASE k \in msgs
    <3>1. k.src \in Server /\ k.dst \in Server
      BY <2>1, MessageFields DEF ElectionInv
    <3>2. QED
      BY <2>1, <3>1 DEF ElectionInv, MessageInv, Same
  <2>2. CASE k \notin msgs
    BY <2>2 DEF ElectionInv, LeaderInv, Neutral
  <2>3. QED
    BY <2>1, <2>2
<1>5. LeaderInv'
  BY DEF ElectionInv, LeaderInv, Same
<1>6. QuorumInv'
  <2>1. \A t \in Term : \A v, l \in Server : Loyal(v, t, l) => Loyal(v, t, l)'
    BY DEF Loyal, Same
  <2>2. QED
    BY <2>1, QuorumKept DEF ElectionInv
<1>7. QED
  BY <1>1, <1>2, <1>3, <1>4, <1>5, <1>6 DEF Rest

\* Steps in which node n falls back to follower without voting: become_follower
\* in a newer term, a restart (term and vote are kept), and become_follower in
\* the node's own term, which forgets the vote but needs a leader of the term.
LEMMA FollowerStep ==
    ASSUME ElectionInv, TypeOK', NEW n \in Server,
           \A k \in Server \ {n} : Same(k),
           UNCHANGED <<grants, elected>>,
           state'[n] = "FOLLOWER",
           \/ current_term'[n] > current_term[n] /\ voted_for'[n] = Nil
           \/ current_term'[n] = current_term[n] /\ voted_for'[n] = voted_for[n]
           \/ /\ current_term'[n] = current_term[n] /\ voted_for'[n] = Nil
              /\ state[n] # "FOLLOWER"
              /\ \E l \in Server \ {n} : <<current_term[n], l>> \in elected,
           \A k \in msgs' : k \in msgs \/ Neutral(k)
    PROVE  Rest'
<1> USE DEF ElectionInv
<1>0. /\ \A k \in Server : current_term[k] \in Nat /\ current_term'[k] \in Nat
      /\ \A u \in Term : u \in Nat
      /\ \A k \in Server : current_term[k] <= current_term'[k]
  <2>1. \A k \in Server : current_term[k] \in Nat /\ current_term'[k] \in Nat
    BY SMT DEF TypeOK, Term
  <2>2. \A u \in Term : u \in Nat
    BY SMT DEF Term
  <2>3. ASSUME NEW k \in Server
        PROVE  current_term[k] <= current_term'[k]
    BY <2>1, SMT DEF Same
  <2>4. QED
    BY <2>1, <2>2, <2>3
<1>1. VoteInv'
  <2>1. \A k \in Server :
          voted_for'[k] # Nil => <<k, current_term'[k], voted_for'[k]>> \in grants'
    BY DEF VoteInv, Same
  <2>2. \A v, c \in Server : \A t \in Term : <<v, t, c>> \in grants' => t <= current_term'[v]
    BY <1>0, SMT DEF VoteInv
  <2>3. \A k \in Server : state'[k] # "FOLLOWER" => voted_for'[k] = k
    BY DEF VoteInv, Same
  <2>4. QED
    BY <2>1, <2>2, <2>3 DEF VoteInv
<1>2. OpenTermInv'
  <2> SUFFICES ASSUME NEW t \in Term, OpenTerm(t), NEW v \in Server, NEW c \in Server,
                      <<v, t, c>> \in grants
               PROVE  /\ current_term'[v] = t => voted_for'[v] = c
                      /\ \A d \in Server : <<v, t, d>> \in grants => d = c
    BY DEF OpenTermInv, OpenTerm
  <2>1. t <= current_term[v]
    BY DEF VoteInv
  <2>2. /\ current_term[v] = t => voted_for[v] = c
        /\ \A d \in Server : <<v, t, d>> \in grants => d = c
    BY DEF OpenTermInv
  <2>3. CASE v # n
    BY <2>2, <2>3 DEF Same
  <2>4. CASE v = n /\ current_term'[n] = t
    <3>1. current_term[n] = t
      BY <1>0, <2>1, <2>4, SMT
    <3>2. ~(current_term'[n] > current_term[n])
      BY <1>0, <2>4, <3>1, SMT
    <3>3. \A l \in Server : <<current_term[n], l>> \notin elected
      BY <3>1 DEF OpenTerm
    <3>4. voted_for'[n] = voted_for[n]
      BY <3>2, <3>3
    <3>5. QED
      BY <2>2, <2>4, <3>1, <3>4
  <2>5. CASE v = n /\ current_term'[n] # t
    BY <2>2, <2>5
  <2>6. QED
    BY <2>3, <2>4, <2>5
<1>3. CandidateInv'
  BY DEF CandidateInv, Same
<1>4. MessageInv'
  <2> SUFFICES ASSUME NEW k \in msgs'
               PROVE  /\ k.type = "RequestVote" => k.term <= current_term'[k.src]
                      /\ k.type = "RequestVoteResp" /\ k.vote_granted =>
                           <<k.src, k.term, k.dst>> \in grants' \/ k.term < current_term'[k.dst]
                      /\ k.type = "AppendEntries" => <<k.term, k.src>> \in elected'
    BY DEF MessageInv
  <2>1. CASE k \in msgs
    <3>1. k.src \in Server /\ k.dst \in Server /\ k.term \in Term
      BY <2>1, MessageFields
    <3>2. QED
      BY <1>0, <2>1, <3>1, SMT DEF MessageInv
  <2>2. CASE Neutral(k)
    BY <2>2 DEF Neutral
  <2>3. QED
    BY <2>1, <2>2
<1>5. LeaderInv'
  BY DEF LeaderInv, Same
<1>6. QuorumInv'
  <2>1. ASSUME NEW t \in Term, NEW v \in Server, NEW l \in Server,
               <<t, l>> \in elected, Loyal(v, t, l)
        PROVE  Loyal(v, t, l)'
    <3>1. t <= current_term[v]
      BY <2>1 DEF Loyal, VoteInv
    <3>2. CASE v # n
      BY <2>1, <3>2 DEF Loyal, Same
    <3>3. CASE v = n /\ current_term'[n] = t
      <4>1. current_term[n] = t
        BY <1>0, <3>1, <3>3, SMT
      <4>2. ASSUME state[n] # "FOLLOWER", NEW k \in Server \ {n}, <<current_term[n], k>> \in elected
            PROVE  FALSE
        <5>1. n = l
          BY <2>1, <3>3, <4>1, <4>2 DEF Loyal
        <5>2. QED
          BY <2>1, <4>1, <4>2, <5>1, UniqueLeader
      <4>3. ~(current_term'[n] > current_term[n])
        BY <1>0, <3>3, <4>1, SMT
      <4>4. voted_for'[n] = voted_for[n]
        BY <4>2, <4>3
      <4>5. QED
        BY <2>1, <3>3, <4>1, <4>4 DEF Loyal
    <3>4. CASE v = n /\ current_term'[n] # t
      BY <2>1, <3>4 DEF Loyal
    <3>5. QED
      BY <3>2, <3>3, <3>4
  <2>2. QED
    BY <2>1, QuorumKept
<1>7. QED
  BY <1>1, <1>2, <1>3, <1>4, <1>5, <1>6 DEF Rest

\* A vote of node n for c in term t (raft_handle_request_vote).
LEMMA GrantStep ==
    ASSUME ElectionInv, TypeOK', NEW n \in Server, NEW c \in Server, NEW t \in Term,
           c # n, t <= current_term[c],
           \A k \in Server \ {n} : Same(k),
           \/ t > current_term[n] /\ state'[n] = "FOLLOWER"
           \/ t = current_term[n] /\ voted_for[n] \in {Nil, c} /\ state'[n] = state[n],
           current_term'[n] = t, voted_for'[n] = c,
           grants' = grants \cup {<<n, t, c>>}, elected' = elected,
           \A k \in msgs' : \/ k \in msgs
                            \/ /\ k.type = "RequestVoteResp"
                               /\ k.src = n /\ k.dst = c /\ k.term = current_term[n]
    PROVE  Rest'
<1> USE DEF ElectionInv
<1>0. /\ \A k \in Server : current_term[k] \in Nat /\ current_term'[k] \in Nat
      /\ \A u \in Term : u \in Nat
      /\ \A k \in Server : current_term[k] <= current_term'[k]
      /\ Nil \notin Server
  <2>1. \A k \in Server : current_term[k] \in Nat /\ current_term'[k] \in Nat
    BY SMT DEF TypeOK, Term
  <2>2. \A u \in Term : u \in Nat
    BY SMT DEF Term
  <2>3. ASSUME NEW k \in Server
        PROVE  current_term[k] <= current_term'[k]
    BY <2>1, <2>2, SMT DEF Same
  <2>4. QED
    BY <2>1, <2>2, <2>3, ServerAssumption
\* A candidate or leader has voted for itself, so it does not grant.
<1>1. state'[n] = "FOLLOWER"
  <2>1. state[n] # "FOLLOWER" => voted_for[n] = n
    BY DEF VoteInv
  <2>2. state[n] \in {"FOLLOWER", "CANDIDATE", "LEADER"}
    BY DEF TypeOK
  <2>3. QED
    BY <1>0, <2>1, <2>2
\* An earlier vote of n in term t can only be for c while t has no leader.
<1>2. ASSUME NEW d \in Server, <<n, t, d>> \in grants
      PROVE  t = current_term[n]
  BY <1>0, <1>2, SMT DEF VoteInv
<1>3. VoteInv'
  <2>1. \A k \in Server :
          voted_for'[k] # Nil => <<k, current_term'[k], voted_for'[k]>> \in grants'
    BY DEF VoteInv, Same
  <2>2. \A v, d \in Server : \A u \in Term : <<v, u, d>> \in grants' => u <= current_term'[v]
    BY <1>0, SMT DEF VoteInv
  <2>3. \A k \in Server : state'[k] # "FOLLOWER" => voted_for'[k] = k
    BY <1>1 DEF VoteInv, Same
  <2>4. QED
    BY <2>1, <2>2, <2>3 DEF VoteInv
<1>4. OpenTermInv'
  <2> SUFFICES ASSUME NEW u \in Term, OpenTerm(u), NEW v \in Server, NEW d \in Server,
                      <<v, u, d>> \in grants'
               PROVE  /\ current_term'[v] = u => voted_for'[v] = d
                      /\ \A e \in Server : <<v, u, e>> \in grants' => e = d
    BY DEF OpenTermInv, OpenTerm
  <2>1. CASE v # n \/ u # t
    <3>1. /\ <<v, u, d>> \in grants
          /\ \A e \in Server : <<v, u, e>> \in grants' => <<v, u, e>> \in grants
      BY <2>1
    <3>2. current_term'[v] = u => v # n
      BY <2>1
    <3>3. QED
      BY <3>1, <3>2, ZenonT(30) DEF OpenTermInv, Same
  <2>2. CASE v = n /\ u = t
    <3>1. \A e \in Server : <<n, t, e>> \in grants => e = c
      BY <1>0, <1>2, <2>2, SMT DEF OpenTermInv
    <3>2. QED
      BY <2>2, <3>1
  <2>3. QED
    BY <2>1, <2>2
<1>5. CandidateInv'
  BY <1>1 DEF CandidateInv, Same
<1>6. MessageInv'
  <2> SUFFICES ASSUME NEW k \in msgs'
               PROVE  /\ k.type = "RequestVote" => k.term <= current_term'[k.src]
                      /\ k.type = "RequestVoteResp" /\ k.vote_granted =>
                           <<k.src, k.term, k.dst>> \in grants' \/ k.term < current_term'[k.dst]
                      /\ k.type = "AppendEntries" => <<k.term, k.src>> \in elected'
    BY DEF MessageInv
  <2>1. CASE k \in msgs
    <3>1. k.src \in Server /\ k.dst \in Server /\ k.term \in Term
      BY <2>1, MessageFields
    <3>2. QED
      BY <1>0, <2>1, <3>1, SMT DEF MessageInv
  <2>2. CASE k \notin msgs
    BY <1>0, <2>2, SMT
  <2>3. QED
    BY <2>1, <2>2
<1>7. LeaderInv'
  BY <1>1 DEF LeaderInv, Same
<1>8. QuorumInv'
  <2>1. ASSUME NEW u \in Term, NEW v \in Server, NEW l \in Server,
               <<u, l>> \in elected, Loyal(v, u, l)
        PROVE  Loyal(v, u, l)'
    <3>1. CASE v # n
      BY <2>1, <3>1 DEF Loyal, Same
    <3>2. CASE v = n /\ u # t
      BY <2>1, <3>2 DEF Loyal
    <3>3. CASE v = n /\ u = t
      <4>1. t = current_term[n] /\ voted_for[n] = l
        BY <1>2, <2>1, <3>3 DEF Loyal
      <4>2. c = l
        BY <1>0, <4>1, SMT
      <4>3. QED
        BY <1>1, <2>1, <3>3, <4>2 DEF Loyal
    <3>4. QED
      BY <3>1, <3>2, <3>3
  <2>2. QED
    BY <2>1, QuorumKept
<1>9. QED
  BY <1>3, <1>4, <1>5, <1>6, <1>7, <1>8 DEF Rest

\* become_candidate: the term is new to the node, so it has not voted in it.
LEMMA CandidateStep ==
    ASSUME ElectionInv, TypeOK', NEW n \in Server, BecomeCandidate(n),
           msgs' = msgs \cup RequestVotes(n, current_term[n] + 1), elected' = elected
    PROVE  Rest'
<1> DEFINE t == current_term[n] + 1
<1> USE DEF ElectionInv
<1>0. /\ \A k \in Server : current_term[k] \in Nat
      /\ \A u \in Term : u \in Nat
      /\ t \in Term /\ t > current_term[n]
  BY BoundAssumption, SMT DEF TypeOK, Term, BecomeCandidate
<1>1. /\ state'[n] = "CANDIDATE" /\ current_term'[n] = t /\ voted_for'[n] = n
      /\ votes_received'[n] = 1 /\ vote_granted'[n] = {}
      /\ grants' = grants \cup {<<n, t, n>>}
      /\ msgs' = msgs \cup RequestVotes(n, t)
      /\ \A k \in Server \ {n} : Same(k)
  BY SMT DEF TypeOK, BecomeCandidate, Same
<1> HIDE DEF t
<1>2. \A d \in Server : <<n, t, d>> \notin grants
  BY <1>0, SMT DEF VoteInv
<1>3. \A k \in Server : current_term[k] <= current_term'[k]
  BY <1>0, <1>1, SMT DEF Same
<1>4. VoteInv'
  <2>1. \A k \in Server :
          voted_for'[k] # Nil => <<k, current_term'[k], voted_for'[k]>> \in grants'
    BY <1>1 DEF VoteInv, Same
  <2>2. ASSUME NEW v \in Server, NEW d \in Server, NEW u \in Term, <<v, u, d>> \in grants'
        PROVE  u <= current_term'[v]
    <3>1. CASE <<v, u, d>> \in grants
      <4>1. u <= current_term[v] /\ current_term'[v] \in Nat
        BY <1>0, <1>1, <3>1 DEF VoteInv, Same
      <4>2. QED
        BY <1>0, <1>3, <4>1, SMT
    <3>2. CASE v = n /\ u = t
      BY <1>0, <1>1, <3>2, SMT
    <3>3. QED
      BY <1>1, <2>2, <3>1, <3>2
  <2>3. \A k \in Server : state'[k] # "FOLLOWER" => voted_for'[k] = k
    BY <1>1 DEF VoteInv, Same
  <2>4. QED
    BY <2>1, <2>2, <2>3 DEF VoteInv
<1>5. OpenTermInv'
  <2> SUFFICES ASSUME NEW u \in Term, OpenTerm(u), NEW v \in Server, NEW d \in Server,
                      <<v, u, d>> \in grants'
               PROVE  /\ current_term'[v] = u => voted_for'[v] = d
                      /\ \A e \in Server : <<v, u, e>> \in grants' => e = d
    BY DEF OpenTermInv, OpenTerm
  <2>1. CASE v = n /\ u = t
    BY <1>1, <1>2, <2>1
  <2>2. CASE v # n \/ u # t
    BY <1>1, <2>2 DEF OpenTermInv, Same
  <2>3. QED
    BY <2>1, <2>2
<1>6. CandidateInv'
  <2>1. /\ votes_received'[n] = Cardinality(vote_granted'[n]) + 1
        /\ \A p : p \notin vote_granted'[n]
    BY <1>1, FS_EmptySet, SMT
  <2>2. ASSUME NEW k \in Server \ {n}, state'[k] = "CANDIDATE"
        PROVE  /\ votes_received'[k] = Cardinality(vote_granted'[k]) + 1
               /\ k \notin vote_granted'[k]
               /\ \A p \in vote_granted'[k] : <<p, current_term'[k], k>> \in grants'
    BY <1>1, <2>2 DEF CandidateInv, Same
  <2>3. QED
    BY <1>1, <2>1, <2>2 DEF CandidateInv
<1>7. MessageInv'
  <2> SUFFICES ASSUME NEW k \in msgs'
               PROVE  /\ k.type = "RequestVote" => k.term <= current_term'[k.src]
                      /\ k.type = "RequestVoteResp" /\ k.vote_granted =>
                           <<k.src, k.term, k.dst>> \in grants' \/ k.term < current_term'[k.dst]
                      /\ k.type = "AppendEntries" => <<k.term, k.src>> \in elected'
    BY DEF MessageInv
  <2>1. CASE k \in msgs
    <3>1. k.src \in Server /\ k.dst \in Server /\ k.term \in Term
      BY <2>1, MessageFields
    <3>2. current_term'[k.src] \in Nat /\ current_term'[k.dst] \in Nat
      BY <1>0, <1>1, <3>1 DEF Same
    <3>3. QED
      BY <1>0, <1>1, <1>3, <2>1, <3>1, <3>2, SMT DEF MessageInv
  <2>2. CASE k \in RequestVotes(n, t)
    BY <1>0, <1>1, <2>2, SMT DEF RequestVotes
  <2>3. QED
    BY <1>1, <2>1, <2>2
<1>8. LeaderInv'
  BY <1>1 DEF LeaderInv, Same
<1>9. QuorumInv'
  <2>1. ASSUME NEW u \in Term, NEW v \in Server, NEW l \in Server,
               <<u, l>> \in elected, Loyal(v, u, l)
        PROVE  Loyal(v, u, l)'
    <3>1. v # n \/ u # t
      BY <1>2, <2>1 DEF Loyal
    <3>2. QED
      BY <1>1, <2>1, <3>1 DEF Loyal, Same
  <2>2. QED
    BY <2>1, QuorumKept
<1>10. QED
  BY <1>4, <1>5, <1>6, <1>7, <1>8, <1>9 DEF Rest

\* A response is counted: the counted votes and the candidate's own are distinct
\* votes of its term.  If they are a majority the candidate becomes leader; either
\* the term had no leader, and the voters are loyal to it, or it had one, which
\* shares a loyal voter with the candidate and so is the candidate.
LEMMA CountStep ==
    ASSUME ElectionInv, NEW m \in msgs, m.type = "RequestVoteResp",
           CountVote(m), Counts(m.dst, m)
    PROVE  Rest'
<1> DEFINE n == m.dst
           t == current_term[n]
           W == vote_granted[n] \cup {m.src}
           V == W \cup {n}
           wins == IsMajority(votes_received[n] + 1)
<1> USE DEF ElectionInv
<1>1. /\ n \in Server /\ m.src \in Server /\ m.src # n /\ t \in Term /\ t \in Nat
      /\ \A k \in Server : state[k] \in {"FOLLOWER", "CANDIDATE", "LEADER"}
      /\ vote_granted[n] \subseteq Server /\ votes_received[n] \in Nat
      /\ Nil \notin Server
  <2>1. n \in Server /\ m.src \in Server /\ m.src # n
    BY MessageFields
  <2>2. \A k \in Server :
            /\ state[k] \in {"FOLLOWER", "CANDIDATE", "LEADER"}
            /\ vote_granted[k] \subseteq Server /\ votes_received[k] \in Nat
            /\ current_term[k] \in Term /\ current_term[k] \in Nat
    BY SMT DEF TypeOK, Term
  <2>3. QED
    BY <2>1, <2>2, ServerAssumption
<1>2. /\ state[n] = "CANDIDATE" /\ m.term = t /\ m.vote_granted
      /\ m.src \notin vote_granted[n]
  BY DEF Counts
<1>3. /\ vote_granted'[n] = W /\ votes_received'[n] = votes_received[n] + 1
      /\ current_term' = current_term /\ voted_for' = voted_for /\ grants' = grants
      /\ \A k \in Server \ {n} : Same(k)
      /\ msgs' \subseteq msgs
      /\ \/ wins /\ state'[n] = "LEADER" /\ elected' = elected \cup {<<t, n>>}
         \/ ~wins /\ state'[n] = state[n] /\ elected' = elected
  <2>1. /\ vote_granted' = [vote_granted EXCEPT ![n] = W]
        /\ votes_received' = [votes_received EXCEPT ![n] = @ + 1]
        /\ current_term' = current_term /\ voted_for' = voted_for /\ grants' = grants
        /\ msgs' \subseteq msgs
        /\ \/ /\ wins /\ state' = [state EXCEPT ![n] = "LEADER"]
              /\ elected' = elected \cup {<<t, n>>}
           \/ ~wins /\ state' = state /\ elected' = elected
    BY DEF CountVote, BecomeLeader, Handled, Wins
  <2>2. /\ vote_granted \in [Server -> SUBSET Server]
        /\ votes_received \in [Server -> Nat]
        /\ state \in [Server -> {"FOLLOWER", "CANDIDATE", "LEADER"}]
    BY DEF TypeOK
  <2>3. QED
    BY <1>1, <2>1, <2>2 DEF Same
<1>4. /\ votes_received[n] = Cardinality(vote_granted[n]) + 1
      /\ n \notin vote_granted[n]
      /\ \A v \in V : <<v, t, n>> \in grants
  <2>1. <<m.src, t, n>> \in grants
    <3>1. <<m.src, m.term, m.dst>> \in grants \/ m.term < current_term[m.dst]
      BY <1>2 DEF MessageInv
    <3>2. QED
      BY <1>1, <1>2, <3>1, SMT
  <2>2. <<n, t, n>> \in grants
    BY <1>1, <1>2 DEF VoteInv
  <2>3. QED
    BY <1>1, <1>2, <2>1, <2>2 DEF CandidateInv
<1>5. /\ V \in SUBSET Server
      /\ Cardinality(W) = votes_received[n]
      /\ Cardinality(V) = votes_received[n] + 1
  <2>1. IsFiniteSet(vote_granted[n])
    BY <1>1, ServerAssumption, FS_Subset
  <2>2. IsFiniteSet(W) /\ Cardinality(W) = Cardinality(vote_granted[n]) + 1
    BY <1>2, <2>1, FS_AddElement
  <2>3. Cardinality(V) = Cardinality(W) + 1
    BY <1>1, <1>4, <2>2, FS_AddElement
  <2>4. QED
    BY <1>1, <1>4, <2>2, <2>3
<1> HIDE DEF n, t, V, W, wins
\* What holds whether or not the candidate wins.
<1>6. VoteInv'
  <2>1. state'[n] # "FOLLOWER" /\ voted_for[n] = n
    BY <1>1, <1>2, <1>3 DEF VoteInv
  <2>2. \A k \in Server : state'[k] # "FOLLOWER" => voted_for'[k] = k
    BY <1>3, <2>1 DEF VoteInv, Same
  <2>3. QED
    BY <1>3, <2>2 DEF VoteInv
<1>7. OpenTermInv'
  BY <1>3 DEF OpenTermInv, OpenTerm
<1>8. MessageInv'
  BY <1>3 DEF MessageInv
<1>9. LeaderInv'
  BY <1>1, <1>2, <1>3 DEF LeaderInv, Same, t
<1>10. CandidateInv'
  <2>1. ASSUME NEW k \in Server \ {n}, state'[k] = "CANDIDATE"
        PROVE  /\ votes_received'[k] = Cardinality(vote_granted'[k]) + 1
               /\ k \notin vote_granted'[k]
               /\ \A p \in vote_granted'[k] : <<p, current_term'[k], k>> \in grants'
    BY <1>3, <2>1 DEF CandidateInv, Same
  <2>2. /\ votes_received'[n] = Cardinality(vote_granted'[n]) + 1
        /\ n \notin vote_granted'[n]
        /\ \A p \in vote_granted'[n] : <<p, current_term'[n], n>> \in grants'
    <3>1. n \notin W /\ W \subseteq V
      BY <1>1, <1>4 DEF W, V
    <3>2. QED
      BY <1>3, <1>4, <1>5, <3>1 DEF t
  <2>3. QED
    BY <2>1, <2>2 DEF CandidateInv
<1>11. QuorumInv'
  <2>1. ASSUME NEW u \in Term, NEW v \in Server, NEW l \in Server, Loyal(v, u, l)
        PROVE  Loyal(v, u, l)'
    <3>1. state[v] = "FOLLOWER" => state'[v] = "FOLLOWER"
      BY <1>2, <1>3 DEF Same
    <3>2. QED
      BY <1>3, <2>1, <3>1 DEF Loyal
  <2>2. CASE elected' = elected
    BY <2>1, <2>2, QuorumKept
  <2>3. CASE wins /\ elected' = elected \cup {<<t, n>>}
    <3>1. IsMajority(Cardinality(V))
      BY <1>5, <2>3 DEF wins
    <3>2. \E Q \in SUBSET Server :
              IsMajority(Cardinality(Q)) /\ \A v \in Q : Loyal(v, t, n)
      <4>1. CASE OpenTerm(t)
        <5>1. \A v \in V : Loyal(v, t, n)
          BY <1>1, <1>4, <1>5, <4>1 DEF Loyal, OpenTermInv, VoteInv
        <5>2. QED
          BY <1>5, <3>1, <5>1
      <4>2. CASE ~OpenTerm(t)
        <5>1. PICK l \in Server : <<t, l>> \in elected
          BY <4>2 DEF OpenTerm
        <5>2. PICK Q \in SUBSET Server :
                  IsMajority(Cardinality(Q)) /\ \A v \in Q : Loyal(v, t, l)
          BY <1>1, <5>1 DEF QuorumInv
        <5>3. PICK v \in V : v \in Q
          BY <1>5, <3>1, <5>2, MajoritiesMeet
        <5>4. n = l
          BY <1>1, <1>4, <5>2, <5>3 DEF Loyal
        <5>5. QED
          BY <5>2, <5>4
      <4>3. QED
        BY <4>1, <4>2
    <3>3. \A u \in Term, l \in Server : <<u, l>> \in elected' =>
             \E Q \in SUBSET Server :
                 IsMajority(Cardinality(Q)) /\ \A v \in Q : Loyal(v, u, l)
      BY <2>3, <3>2 DEF QuorumInv
    <3>4. QED
      BY <2>1, <3>3 DEF QuorumInv, IsMajority
  <2>4. QED
    BY <1>3, <2>2, <2>3
<1>12. QED
  BY <1>6, <1>7, <1>8, <1>9, <1>10, <1>11 DEF Rest

-----------------------------------------------------------------------------
\* The four handlers and the restart are steps of the kinds above.
LEMMA RequestVoteRest ==
    ASSUME ElectionInv, TypeOK', NEW m \in msgs, HandleRequestVote(m)
    PROVE  Rest'
<1> DEFINE n == m.dst
           resp(g) == [type |-> "RequestVoteResp", src |-> n, dst |-> m.src,
                       term |-> current_term[n], vote_granted |-> g]
<1>1. /\ n \in Server /\ m.src \in Server /\ m.src # n /\ m.term \in Term
      /\ m.type = "RequestVote" /\ m.term <= current_term[m.src]
  BY MessageFields DEF ElectionInv, MessageInv, HandleRequestVote
<1>2. /\ state \in [Server -> {"FOLLOWER", "CANDIDATE", "LEADER"}]
      /\ current_term \in [Server -> Term] /\ voted_for \in [Server -> Server \cup {Nil}]
      /\ votes_received \in [Server -> Nat]
      /\ \A u \in Term : u \in Nat
  BY SMT DEF ElectionInv, TypeOK, Term
<1>3. /\ \A k \in Server \ {n} : Same(k)
      /\ vote_granted' = vote_granted /\ elected' = elected
  BY <1>1, <1>2 DEF HandleRequestVote, BecomeFollower, Same
\* The vote is given, with or without a step to the request's term.
<1>4. CASE /\ grants' = grants \cup {<<n, m.term, m.src>>}
           /\ voted_for' = [voted_for EXCEPT ![n] = m.src]
           /\ \E g \in BOOLEAN : msgs' = Handled(m, {resp(g)})
           /\ \/ /\ m.term > current_term[n]
                 /\ state' = [state EXCEPT ![n] = "FOLLOWER"]
                 /\ current_term' = [current_term EXCEPT ![n] = m.term]
              \/ /\ m.term = current_term[n] /\ voted_for[n] \in {Nil, m.src}
                 /\ UNCHANGED <<state, current_term>>
  <2>1. current_term'[n] = m.term /\ voted_for'[n] = m.src
    BY <1>1, <1>2, <1>4
  <2>2. \/ m.term > current_term[n] /\ state'[n] = "FOLLOWER"
        \/ m.term = current_term[n] /\ voted_for[n] \in {Nil, m.src} /\ state'[n] = state[n]
    BY <1>1, <1>2, <1>4
  <2>3. \A k \in msgs' : \/ k \in msgs
                         \/ /\ k.type = "RequestVoteResp"
                            /\ k.src = n /\ k.dst = m.src /\ k.term = current_term[n]
    BY <1>4, SMT DEF Handled
  <2>4. QED
    BY <1>1, <1>3, <1>4, <2>1, <2>2, <2>3, GrantStep
\* The vote is refused after a step to the request's term.
<1>5. CASE /\ grants' = grants
           /\ voted_for' = [voted_for EXCEPT ![n] = Nil]
           /\ msgs' = Handled(m, {resp(FALSE)})
           /\ m.term > current_term[n]
           /\ state' = [state EXCEPT ![n] = "FOLLOWER"]
           /\ current_term' = [current_term EXCEPT ![n] = m.term]
  <2>1. /\ state'[n] = "FOLLOWER" /\ voted_for'[n] = Nil
        /\ current_term'[n] > current_term[n]
    BY <1>1, <1>2, <1>5
  <2>2. \A k \in msgs' : k \in msgs \/ Neutral(k)
    BY <1>5, SMT DEF Handled, Neutral
  <2>3. QED
    BY <1>1, <1>3, <1>5, <2>1, <2>2, FollowerStep
\* The vote is refused and nothing else happens.
<1>6. CASE /\ UNCHANGED <<grants, state, current_term, votes_received>>
           /\ voted_for' = [voted_for EXCEPT ![n] = @]
           /\ msgs' = Handled(m, {resp(FALSE)})
  <2>1. \A k \in Server : Same(k)
    BY <1>2, <1>3, <1>6 DEF Same
  <2>2. \A k \in msgs' : k \in msgs \/ Neutral(k)
    BY <1>6, SMT DEF Handled, Neutral
  <2>3. QED
    BY <1>3, <1>6, <2>1, <2>2, QuietStep
<1>7. QED
  <2>1. ASSUME NewerTerm(n, m)
        PROVE  m.term > current_term[n] /\ m.term >= current_term[n]
    BY <1>1, <1>2, <2>1, SMT DEF NewerTerm
  <2>2. ASSUME ~NewerTerm(n, m), m.term >= current_term[n]
        PROVE  m.term = current_term[n]
    BY <1>1, <1>2, <2>2, SMT DEF NewerTerm
  <2>3. CASE NewerTerm(n, m)
    BY <1>4, <1>5, <2>1, <2>3 DEF HandleRequestVote, BecomeFollower, CanVoteFor
  <2>4. CASE ~NewerTerm(n, m)
    BY <1>4, <1>6, <2>2, <2>4 DEF HandleRequestVote, CanVoteFor
  <2>5. QED
    BY <2>3, <2>4

LEMMA AppendEntriesRest ==
    ASSUME ElectionInv, TypeOK', NEW m \in msgs, HandleAppendEntries(m)
    PROVE  Rest'
<1> DEFINE n == m.dst
<1>1. /\ n \in Server /\ m.src \in Server /\ m.src # n /\ m.term \in Term
      /\ <<m.term, m.src>> \in elected
  BY MessageFields DEF ElectionInv, MessageInv, HandleAppendEntries
<1>2. /\ state \in [Server -> {"FOLLOWER", "CANDIDATE", "LEADER"}]
      /\ current_term \in [Server -> Term] /\ voted_for \in [Server -> Server \cup {Nil}]
      /\ votes_received \in [Server -> Nat]
      /\ \A u \in Term : u \in Nat
  BY SMT DEF ElectionInv, TypeOK, Term
<1>3. /\ \A k \in Server \ {n} : Same(k)
      /\ UNCHANGED <<vote_granted, grants, elected>>
  BY <1>1, <1>2 DEF HandleAppendEntries, BecomeFollower, Same
<1>4. \A k \in msgs' : k \in msgs \/ Neutral(k)
  BY SMT DEF HandleAppendEntries, Handled, Neutral
<1>5. \/ /\ state' = [state EXCEPT ![n] = "FOLLOWER"]
         /\ current_term' = [current_term EXCEPT ![n] = m.term]
         /\ voted_for' = [voted_for EXCEPT ![n] = Nil]
         /\ \/ m.term > current_term[n]
            \/ m.term = current_term[n] /\ state[n] # "FOLLOWER"
      \/ UNCHANGED <<state, current_term, votes_received, voted_for>>
  BY DEF HandleAppendEntries, BecomeFollower, NewerTerm
<1>6. CASE UNCHANGED <<state, current_term, votes_received, voted_for>>
  BY <1>3, <1>4, <1>6, QuietStep DEF Same
<1>7. CASE /\ state' = [state EXCEPT ![n] = "FOLLOWER"]
           /\ current_term' = [current_term EXCEPT ![n] = m.term]
           /\ voted_for' = [voted_for EXCEPT ![n] = Nil]
           /\ \/ m.term > current_term[n]
              \/ m.term = current_term[n] /\ state[n] # "FOLLOWER"
  <2>1. /\ state'[n] = "FOLLOWER" /\ voted_for'[n] = Nil /\ current_term'[n] = m.term
        /\ m.src \in Server \ {n}
    BY <1>1, <1>2, <1>7
  <2>2. \/ current_term'[n] > current_term[n] /\ voted_for'[n] = Nil
        \/ /\ current_term'[n] = current_term[n] /\ voted_for'[n] = Nil
           /\ state[n] # "FOLLOWER"
           /\ \E l \in Server \ {n} : <<current_term[n], l>> \in elected
    BY <1>1, <1>7, <2>1
  <2>3. QED
    BY <1>1, <1>3, <1>4, <2>1, <2>2, FollowerStep
<1>8. QED
  BY <1>5, <1>6, <1>7

\* StepDown is become_follower in a newer term.
LEMMA StepDownRest ==
    ASSUME ElectionInv, TypeOK', NEW m \in msgs, StepDown(m)
    PROVE  Rest'
<1> DEFINE n == m.dst
<1>1. /\ n \in Server /\ m.term \in Term /\ m.term > current_term[n]
      /\ state' = [state EXCEPT ![n] = "FOLLOWER"]
      /\ current_term' = [current_term EXCEPT ![n] = m.term]
      /\ voted_for' = [voted_for EXCEPT ![n] = Nil]
      /\ votes_received' = [votes_received EXCEPT ![n] = 0]
      /\ UNCHANGED <<vote_granted, grants, elected>>
      /\ msgs' \subseteq msgs
  BY MessageFields DEF ElectionInv, StepDown, NewerTerm, BecomeFollower, Handled
<1>2. /\ state \in [Server -> {"FOLLOWER", "CANDIDATE", "LEADER"}]
      /\ current_term \in [Server -> Term] /\ voted_for \in [Server -> Server \cup {Nil}]
      /\ votes_received \in [Server -> Nat]
  BY DEF ElectionInv, TypeOK
<1>3. /\ \A k \in Server \ {n} : Same(k)
      /\ state'[n] = "FOLLOWER" /\ voted_for'[n] = Nil /\ current_term'[n] > current_term[n]
  BY <1>1, <1>2 DEF Same
<1>4. QED
  BY <1>1, <1>3, FollowerStep

LEMMA RestartRest ==
    ASSUME ElectionInv, TypeOK', NEW n \in Server, Restart(n)
    PROVE  Rest'
<1>1. /\ state'[n] = "FOLLOWER" /\ \A k \in Server \ {n} : Same(k)
      /\ current_term' = current_term /\ voted_for' = voted_for
      /\ UNCHANGED <<msgs, grants, elected>>
  BY SMT DEF ElectionInv, TypeOK, Restart, ComeBack, durable, Same
<1>2. QED
  BY <1>1, FollowerStep

-----------------------------------------------------------------------------
LEMMA InitElectionInv == Init => ElectionInv
<1> SUFFICES ASSUME Init PROVE ElectionInv
  OBVIOUS
<1>1. TypeOK
  BY InitTypeOK
<1>2. VoteInv /\ OpenTermInv /\ CandidateInv /\ MessageInv /\ LeaderInv /\ QuorumInv
  BY DEF Init, VoteInv, OpenTermInv, CandidateInv, MessageInv, LeaderInv, QuorumInv
<1>3. QED
  BY <1>1, <1>2 DEF ElectionInv

LEMMA NextElectionInv == ElectionInv /\ [Next]_vars => ElectionInv'
<1> SUFFICES ASSUME ElectionInv, [Next]_vars PROVE ElectionInv'
  OBVIOUS
<1>1. TypeOK'
  BY NextTypeOK DEF ElectionInv
<1>2. ASSUME NEW n \in Server, NEW due \in BOOLEAN, LeaderTick(n, due)
      PROVE  Rest'
  <2>1. /\ \A k \in Server : Same(k)
        /\ UNCHANGED <<grants, elected>>
    BY <1>2 DEF LeaderTick, durable, election, Same
  <2>2. \A k \in msgs' : k \in msgs \/ k \in Heartbeats(n)
    BY <1>2 DEF LeaderTick
  <2>3. \A k \in Heartbeats(n) : /\ k.type = "AppendEntries" /\ k.src = n
                                 /\ k.term = current_term[n]
    BY SMT DEF Heartbeats
  <2>4. state[n] = "LEADER"
    BY <1>2 DEF LeaderTick
  <2>5. QED
    BY <2>1, <2>2, <2>3, <2>4, QuietStep
<1>3. ASSUME NEW n \in Server, NEW due \in BOOLEAN, FollowerCandidateTick(n, due)
      PROVE  Rest'
  <2>1. CASE BecomeCandidate(n) /\ msgs' = msgs \cup RequestVotes(n, current_term[n] + 1)
    BY <1>1, <1>3, <2>1, CandidateStep DEF FollowerCandidateTick
  <2>2. CASE UNCHANGED <<state, current_term, voted_for, election, leader_id, msgs, grants>>
    BY <1>3, <2>2, QuietStep DEF FollowerCandidateTick, election, Same
  <2>3. QED
    BY <1>3, <2>1, <2>2 DEF FollowerCandidateTick
<1>4. ASSUME NEW n \in Server, Submit(n)
      PROVE  Rest'
  BY <1>4, QuietStep DEF Submit, election, Same
<1>5. ASSUME NEW m \in msgs, HandleRequestVoteResponse(m)
      PROVE  Rest'
  <2>1. CASE StepDown(m)
    BY <1>1, <2>1, StepDownRest
  <2>2. CASE CountVote(m) /\ Counts(m.dst, m)
    BY <1>5, <2>2, CountStep DEF HandleRequestVoteResponse
  <2>3. CASE CountVote(m) /\ ~Counts(m.dst, m)
    BY <2>3, QuietStep DEF CountVote, election, Handled, Same
  <2>4. QED
    BY <1>5, <2>1, <2>2, <2>3 DEF HandleRequestVoteResponse
<1>6. ASSUME NEW m \in msgs, HandleAppendEntriesResponse(m)
      PROVE  Rest'
  <2>1. CASE StepDown(m)
    BY <1>1, <2>1, StepDownRest
  <2>2. CASE RecordProgress(m)
    BY <2>2, QuietStep DEF RecordProgress, durable, election, Handled, Same
  <2>3. QED
    BY <1>6, <2>1, <2>2 DEF HandleAppendEntriesResponse
<1>7. ASSUME UNCHANGED vars
      PROVE  Rest'
  BY <1>7, QuietStep DEF vars, durable, election, Same
<1>8. Rest'
  <2>1. CASE \E n \in Server : Tick(n) \/ Submit(n) \/ Restart(n)
    BY <1>1, <1>2, <1>3, <1>4, <2>1, RestartRest DEF Tick
  <2>2. CASE \E m \in msgs : Receive(m)
    BY <1>1, <1>5, <1>6, <2>2, RequestVoteRest, AppendEntriesRest DEF Receive
  <2>3. QED
    BY <1>7, <2>1, <2>2 DEF Next
<1>9. QED
  BY <1>1, <1>8 DEF ElectionInv, Rest

\* The invariant holds in every reachable state of the protocol of raft_core.c.
THEOREM ElectionInvariant == Spec => []ElectionInv
  BY InitElectionInv, NextElectionInv, PTL DEF Spec

\* At most one node is ever elected in a term: votes forgotten by become_follower,
\* restarts, and lost, late or repeated messages included.
THEOREM ElectionSafe == Spec => []ElectionSafety
<1>1. ElectionInv => ElectionSafety
  <2> SUFFICES ASSUME ElectionInv, NEW e \in elected, NEW f \in elected, e[1] = f[1]
               PROVE  e[2] = f[2]
    BY DEF ElectionSafety
  <2>1. e \in Term \X Server /\ f \in Term \X Server
    BY DEF ElectionInv, TypeOK
  <2>2. QED
    BY <2>1, UniqueLeader, SMT DEF ElectionInv
<1>2. QED
  BY <1>1, ElectionInvariant, PTL

\* Whoever is elected has the votes of a majority in that very term: no late,
\* repeated or stale response is counted by raft_handle_request_vote_response.
THEOREM MajorityElects == Spec => []ElectedByMajority
<1>1. ElectionInv => ElectedByMajority
  <2> SUFFICES ASSUME ElectionInv, NEW e \in elected
               PROVE  IsMajority(Cardinality({v \in Server : <<v, e[1], e[2]>> \in grants}))
    BY DEF ElectedByMajority
  <2> DEFINE G == {v \in Server : <<v, e[1], e[2]>> \in grants}
  <2>1. e[1] \in Term /\ e[2] \in Server /\ e = <<e[1], e[2]>>
    BY SMT DEF ElectionInv, TypeOK
  <2>2. PICK Q \in SUBSET Server :
            IsMajority(Cardinality(Q)) /\ \A v \in Q : Loyal(v, e[1], e[2])
    BY <2>1 DEF ElectionInv, QuorumInv
  <2>3. Q \in SUBSET G /\ G \in SUBSET Server
    BY <2>2 DEF Loyal
  <2>4. IsFiniteSet(G)
    BY <2>3, ServerAssumption, FS_Subset
  <2>5. Cardinality(Q) <= Cardinality(G)
    BY <2>3, <2>4, FS_Subset
  <2>6. /\ Cardinality(Q) \in Nat /\ Cardinality(G) \in Nat
        /\ Cardinality(Server) \in Nat
    BY <2>2, <2>4, ServerAssumption, FS_Subset, FS_CardinalityType
  <2>7. QED
    BY <2>2, <2>5, <2>6, SMT DEF IsMajority
<1>2. QED
  BY <1>1, ElectionInvariant, PTL

\* leader_id is written together with the term, and only from a message of the
\* term's elected leader or by that leader itself.
LEMMA NextLeaderId ==
    ElectionInv /\ LeaderIdIsElected /\ [Next]_vars => LeaderIdIsElected'
<1> SUFFICES ASSUME ElectionInv, LeaderIdIsElected, [Next]_vars
             PROVE  LeaderIdIsElected'
  OBVIOUS
<1> DEFINE Named(k) == leader_id'[k] = Nil \/ <<current_term'[k], leader_id'[k]>> \in elected'
           Kept(k) == leader_id'[k] = leader_id[k] /\ current_term'[k] = current_term[k]
<1>1. /\ leader_id \in [Server -> Server \cup {Nil}] /\ current_term \in [Server -> Term]
      /\ \A t \in Term : t \in Nat
  BY SMT DEF ElectionInv, TypeOK, Term
<1>2. ASSUME elected \subseteq elected', \A k \in Server : Kept(k) \/ Named(k)
      PROVE  LeaderIdIsElected'
  BY <1>2 DEF LeaderIdIsElected
<1>3. ASSUME NEW n \in Server, Tick(n) \/ Submit(n) \/ Restart(n)
      PROVE  LeaderIdIsElected'
  <2>1. CASE Tick(n)
    BY <1>1, <1>2, <2>1
       DEF Tick, LeaderTick, FollowerCandidateTick, BecomeCandidate, durable
  <2>2. CASE Submit(n) \/ Restart(n)
    BY <1>1, <1>2, <2>2 DEF Submit, Restart, ComeBack, durable
  <2>3. QED
    BY <1>3, <2>1, <2>2
<1>4. ASSUME NEW m \in msgs, Receive(m)
      PROVE  LeaderIdIsElected'
  <2>1. m.dst \in Server /\ m.term \in Term
    BY MessageFields DEF ElectionInv
  <2>2. CASE HandleRequestVote(m)
    BY <1>1, <1>2, <2>2 DEF HandleRequestVote, BecomeFollower
  <2>3. CASE StepDown(m)
    BY <1>1, <1>2, <2>3 DEF StepDown, BecomeFollower
  <2>4. CASE CountVote(m)
    BY <1>1, <1>2, <2>1, <2>4 DEF CountVote, BecomeLeader
  <2>5. CASE RecordProgress(m)
    BY <1>1, <1>2, <2>5 DEF RecordProgress, durable
  <2>6. CASE HandleAppendEntries(m)
    <3>1. <<m.term, m.src>> \in elected
      BY <2>6 DEF ElectionInv, MessageInv, HandleAppendEntries
    <3>2. elected' = elected
      BY <2>6 DEF HandleAppendEntries
    <3>3. \/ /\ current_term' = [current_term EXCEPT ![m.dst] = m.term]
             /\ \E l \in {Nil, m.src} : leader_id' = [leader_id EXCEPT ![m.dst] = l]
          \/ /\ current_term' = current_term
             /\ \/ leader_id' = [leader_id EXCEPT ![m.dst] = @]
                \/ /\ leader_id' = [leader_id EXCEPT ![m.dst] = m.src]
                   /\ m.term = current_term[m.dst]
      <4>1. \/ m.term < current_term[m.dst]
            \/ m.term = current_term[m.dst]
            \/ m.term > current_term[m.dst]
        BY <1>1, <2>1, SMT
      <4>2. QED
        BY <2>6, <4>1 DEF HandleAppendEntries, BecomeFollower, NewerTerm
    <3>4. QED
      BY <1>1, <1>2, <2>1, <3>1, <3>2, <3>3
  <2>7. QED
    BY <1>4, <2>2, <2>3, <2>4, <2>5, <2>6
       DEF Receive, HandleRequestVoteResponse, HandleAppendEntriesResponse
<1>5. CASE UNCHANGED vars
  BY <1>2, <1>5 DEF vars, durable
<1>6. QED
  BY <1>3, <1>4, <1>5 DEF Next

\* Whoever a node names as its leader (raft_get_leader_id) was elected in the
\* node's current term.
THEOREM LeaderIdElected == Spec => []LeaderIdIsElected
<1>1. Init => LeaderIdIsElected
  BY DEF Init, LeaderIdIsElected
<1>2. QED
  BY <1>1, NextLeaderId, ElectionInvariant, PTL DEF Spec

-----------------------------------------------------------------------------
\* Every entry of a log is of a term in which the node was elected.
OwnEntries == \A n \in Server : \A i \in 1..Len(log[n]) : <<log[n][i], n>> \in elected

\* With one winner in a term, two logs with an entry of the same term are the same.
LEMMA EntriesMatch == ElectionSafety /\ OwnEntries => LogMatching
<1> SUFFICES ASSUME ElectionSafety, OwnEntries, NEW n \in Server, NEW p \in Server,
                    NEW i \in 1..Len(log[n]), i \in 1..Len(log[p]), log[n][i] = log[p][i]
             PROVE  n = p
  BY SMT DEF LogMatching
<1>1. <<log[n][i], n>> \in elected /\ <<log[n][i], p>> \in elected
  BY DEF OwnEntries
<1>2. QED
  BY <1>1 DEF ElectionSafety

\* Two logs never differ below an entry of the same term at the same index: leaders
\* send no entries yet, so the entries of a term are all in the log of the
\* one node that was elected in it.
THEOREM LogsMatch == Spec => []LogMatching
<1>1. Init => OwnEntries
  <2> SUFFICES ASSUME Init PROVE OwnEntries
    OBVIOUS
  <2>1. \A n \in Server : 1..Len(log[n]) = {}
    BY SMT DEF Init
  <2>2. QED
    BY <2>1 DEF OwnEntries
<1>2. ElectionInv /\ OwnEntries /\ [Next]_vars => OwnEntries'
  <2> SUFFICES ASSUME ElectionInv, OwnEntries, [Next]_vars, NEW n \in Server,
                      NEW i \in 1..Len(log'[n])
               PROVE  <<log'[n][i], n>> \in elected'
    BY DEF OwnEntries
  <2>1. TypeOK /\ current_term[n] \in Term
    BY DEF ElectionInv, TypeOK
  <2>2. Extends(n) /\ elected \subseteq elected'
    BY <2>1, LogsExtend
  <2>3. CASE log'[n] = log[n]
    BY <2>2, <2>3 DEF OwnEntries
  <2>4. CASE /\ log'[n] = Append(log[n], current_term[n])
             /\ state[n] = "LEADER" \/ <<current_term[n], n>> \in elected'
    <3>1. i \in 1..Len(log[n]) \/ i = Len(log[n]) + 1
      BY <2>1, <2>4, Appended, SMT
    <3>2. CASE i \in 1..Len(log[n])
      <4>1. log'[n][i] = log[n][i]
        BY <2>1, <2>4, <3>2, Appended
      <4>2. QED
        BY <2>2, <3>2, <4>1 DEF OwnEntries
    <3>3. CASE i = Len(log[n]) + 1
      <4>1. log'[n][i] = current_term[n]
        BY <2>1, <2>4, <3>3, Appended, ZenonT(30)
      <4>2. <<current_term[n], n>> \in elected'
        BY <2>2, <2>4 DEF ElectionInv, LeaderInv
      <4>3. QED
        BY <4>1, <4>2
    <3>4. QED
      BY <3>1, <3>2, <3>3
  <2>5. QED
    BY <2>2, <2>3, <2>4 DEF Extends
<1>3. ElectionSafety /\ OwnEntries => LogMatching
  BY EntriesMatch
<1>4. QED
  BY <1>1, <1>2, <1>3, ElectionInvariant, ElectionSafe, PTL DEF Spec
=============================================================================
