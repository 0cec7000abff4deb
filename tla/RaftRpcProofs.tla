---------------------------- MODULE RaftRpcProofs ----------------------------
(***************************************************************************)
(* Safety of RaftRpc, for every set of servers, bound and set of failing   *)
(* connections.                                                            *)
(*                                                                         *)
(* The argument of RaftCoreProofs is not available: a leader that an       *)
(* answer has demoted sends the rest of its heartbeats in the new term,    *)
(* so a candidate may be demoted, and forget its vote, in a term that has  *)
(* no leader.  What holds instead:                                         *)
(*   - only a vote for itself is ever forgotten, so a node votes at most   *)
(*     for itself and for one other node in a term (TwoVotesInv);          *)
(*   - a node that won in a term has an entry of that term, and no request *)
(*     of the term comes from a log with one, so its log refuses the other *)
(*     vote (ElectedInv).                                                  *)
(* A node in two majorities of a term is thus the winner of both.          *)
(***************************************************************************)
EXTENDS RaftRpc, RaftCoreProofs

\* Most leaves are set and first-order reasoning; those with arithmetic ask for SMT.
USE Zenon

\* n has been elected in term t or before.
WasElected(n, t) == \E u \in Term : u <= t /\ <<u, n>> \in elected

\* The votes of a node in a term are for itself and one other node, and it
\* remembers the vote for the other.
TwoVotesInv ==
    \A v, c \in Server : \A t \in Term : <<v, t, c>> \in grants /\ c # v =>
        /\ \A d \in Server : <<v, t, d>> \in grants => d \in {v, c}
        /\ current_term[v] = t => voted_for[v] = c /\ state[v] = "FOLLOWER"

\* No log has an entry of a term its node has not reached.
LogTermInv ==
    \A n \in Server : \A i \in 1..Len(log[n]) : log[n][i] <= current_term[n]

\* A node elected in t has an entry of t or later, has voted for nobody else in t,
\* and was voted for by a majority.
ElectedInv ==
    \A t \in Term, c \in Server : <<t, c>> \in elected =>
        /\ t <= LastLogTerm(c)
        /\ \A d \in Server : <<c, t, d>> \in grants => d = c
        /\ \E Q \in SUBSET Server :
              IsMajority(Cardinality(Q)) /\ \A v \in Q : <<v, t, c>> \in grants

Core == VoteInv /\ TwoVotesInv /\ CandidateInv /\ ElectedInv

\* What a message says is true: a request for votes was built from a log that has
\* no entry of its term; a granting response that the candidate may still count
\* stands for a vote; a heartbeat is of a node that was a leader.
Sound(m) ==
    /\ m.type = "RequestVote" => m.term <= current_term[m.src] /\ m.last_log_term < m.term
    /\ m.type = "RequestVoteResp" /\ m.vote_granted =>
          <<m.src, m.term, m.dst>> \in grants \/ m.term < current_term[m.dst]
    /\ m.type = "AppendEntries" => WasElected(m.src, m.term)

SoundInv ==
    /\ \A m \in msgs : Sound(m)
    /\ \A n \in Server : \A m \in thread[n].ballot : m.type = "RequestVote" /\ Sound(m)

\* Leaders, nodes in the heartbeat loop and nodes that are followed were elected.
LeadInv ==
    \A n \in Server :
        /\ state[n] = "LEADER" => <<current_term[n], n>> \in elected
        /\ thread[n].loop = "beat" => WasElected(n, current_term[n])
        /\ leader_id[n] # Nil => WasElected(leader_id[n], current_term[n])

\* A node in the heartbeat loop is the leader, or an answer has brought it to a
\* term of which it has no entry.
BeatInv ==
    \A n \in Server : thread[n].loop = "beat" =>
        \/ state[n] = "LEADER"
        \/ /\ state[n] = "FOLLOWER"
           /\ \A i \in 1..Len(log[n]) : log[n][i] < current_term[n]

RpcInv == RpcTypeOK /\ Core /\ LogTermInv /\ SoundInv /\ LeadInv /\ BeatInv

-----------------------------------------------------------------------------
\* What a step may do to terms, logs and history.
Grows ==
    /\ \A k \in Server : /\ current_term'[k] >= current_term[k]
                         /\ log'[k] \in {log[k], Append(log[k], current_term'[k])}
    /\ grants \subseteq grants' /\ elected \subseteq elected'

\* The fields of a node, and the term of the last entry of its log.
LEMMA NodeTypes ==
    ASSUME TypeOK, NEW n \in Server
    PROVE  /\ current_term[n] \in Term /\ current_term[n] \in Nat
           /\ voted_for[n] \in Server \cup {Nil} /\ leader_id[n] \in Server \cup {Nil}
           /\ state[n] \in {"FOLLOWER", "CANDIDATE", "LEADER"}
           /\ log[n] \in Seq(Term) /\ Len(log[n]) \in Nat
           /\ \A i \in 1..Len(log[n]) : log[n][i] \in Term /\ log[n][i] \in Nat
           /\ LastLogTerm(n) \in Nat
           /\ vote_granted[n] \subseteq Server /\ votes_received[n] \in Nat
<1>1. /\ current_term[n] \in Term /\ current_term[n] \in Nat
      /\ voted_for[n] \in Server \cup {Nil} /\ leader_id[n] \in Server \cup {Nil}
      /\ state[n] \in {"FOLLOWER", "CANDIDATE", "LEADER"}
      /\ log[n] \in Seq(Term)
      /\ vote_granted[n] \subseteq Server /\ votes_received[n] \in Nat
  BY SMT DEF TypeOK, Term
<1>2. Len(log[n]) \in Nat /\ \A i \in 1..Len(log[n]) : log[n][i] \in Term /\ log[n][i] \in Nat
  <2>1. \A u \in Term : u \in Nat
    BY SMT DEF Term
  <2> QED
    BY <1>1, <2>1, SeqLen, SeqElement
<1>3. LastLogTerm(n) \in Nat
  <2>1. log[n] # <<>> => Len(log[n]) \in 1..Len(log[n])
    BY <1>1, <1>2, SeqEmpty, SMT
  <2> QED
    BY <1>2, <2>1 DEF LastLogTerm
<1> QED
  BY <1>1, <1>2, <1>3

LEMMA LastTermBound ==
    ASSUME TypeOK, LogTermInv, NEW n \in Server
    PROVE  LastLogTerm(n) <= current_term[n]
<1>1. log[n] # <<>> => Len(log[n]) \in 1..Len(log[n])
  BY NodeTypes, SeqEmpty, SMT
<1> QED
  BY <1>1, NodeTypes, SMT DEF LastLogTerm, LogTermInv

\* Entries are appended with the term of the node, so the last term never falls.
LEMMA LogsGrow ==
    ASSUME TypeOK, TypeOK', LogTermInv, Grows
    PROVE  /\ LogTermInv'
           /\ \A k \in Server : LastLogTerm(k)' >= LastLogTerm(k)
           /\ \A k \in Server : log'[k] = Append(log[k], current_term'[k])
                                    => LastLogTerm(k)' = current_term'[k]
<1> SUFFICES ASSUME NEW k \in Server
             PROVE  /\ \A i \in 1..Len(log'[k]) : log'[k][i] <= current_term'[k]
                    /\ LastLogTerm(k)' >= LastLogTerm(k)
                    /\ log'[k] = Append(log[k], current_term'[k])
                           => LastLogTerm(k)' = current_term'[k]
  BY DEF LogTermInv
<1>1. /\ current_term[k] \in Nat /\ current_term'[k] \in Nat /\ current_term'[k] \in Term
      /\ current_term'[k] >= current_term[k]
      /\ log[k] \in Seq(Term) /\ Len(log[k]) \in Nat
      /\ \A i \in 1..Len(log[k]) : log[k][i] \in Nat /\ log[k][i] <= current_term[k]
      /\ LastLogTerm(k) \in Nat /\ LastLogTerm(k) <= current_term[k]
  <2>1. current_term'[k] \in Term /\ current_term'[k] \in Nat
    BY SMT DEF TypeOK, Term
  <2>2. current_term'[k] >= current_term[k]
    BY DEF Grows
  <2> QED
    BY <2>1, <2>2, NodeTypes, LastTermBound DEF LogTermInv
<1>2. CASE log'[k] = Append(log[k], current_term'[k])
  <2>1. /\ Len(log'[k]) = Len(log[k]) + 1
        /\ log'[k][Len(log[k]) + 1] = current_term'[k]
        /\ \A i \in 1..Len(log[k]) : log'[k][i] = log[k][i]
    BY <1>1, <1>2, SeqAppend, SMT
  <2>2. LastLogTerm(k)' = current_term'[k]
    <3>1. log'[k] # <<>>
      BY <1>1, <2>1, SeqEmpty, SMT
    <3>2. LastLogTerm(k)' = log'[k][Len(log'[k])]
      BY <3>1 DEF LastLogTerm
    <3> QED
      BY <2>1, <3>2
  <2>3. \A i \in 1..Len(log'[k]) : i \in 1..Len(log[k]) \/ i = Len(log[k]) + 1
    BY <1>1, <2>1, SMT
  <2>4. \A i \in 1..Len(log'[k]) : log'[k][i] <= current_term'[k]
    <3> TAKE i \in 1..Len(log'[k])
    <3>1. CASE i \in 1..Len(log[k])
      <4>1. log'[k][i] = log[k][i] /\ log[k][i] \in Nat /\ log[k][i] <= current_term[k]
        BY <1>1, <2>1, <3>1
      <4> QED
        BY <4>1, <1>1, SMT
    <3>2. CASE i = Len(log[k]) + 1
      BY <1>1, <2>1, <3>2, SMT
    <3> QED
      BY <2>3, <3>1, <3>2
  <2> QED
    BY <1>1, <2>2, <2>4, SMT
<1>3. CASE log'[k] = log[k] /\ log'[k] # Append(log[k], current_term'[k])
  <2>1. LastLogTerm(k)' = LastLogTerm(k)
    BY <1>3 DEF LastLogTerm
  <2>2. \A i \in 1..Len(log'[k]) : log'[k][i] <= current_term'[k]
    BY <1>1, <1>3, SMT
  <2> QED
    BY <1>1, <1>3, <2>1, <2>2, SMT
<1> QED
  BY <1>2, <1>3 DEF Grows

\* What was true of a message stays true.
LEMMA StaysSound ==
    ASSUME TypeOK, TypeOK', Grows, NEW m \in Message, Sound(m)
    PROVE  Sound(m)'
<1>1. m.src \in Server /\ m.dst \in Server /\ m.term \in Nat
  <2>1. m.src \in Server /\ m.dst \in Server /\ m.term \in Term
    BY DEF Message
  <2> QED
    BY <2>1, SMT DEF Term
<1>2. /\ current_term[m.src] \in Nat /\ current_term'[m.src] \in Nat
      /\ current_term[m.dst] \in Nat /\ current_term'[m.dst] \in Nat
      /\ current_term'[m.src] >= current_term[m.src]
      /\ current_term'[m.dst] >= current_term[m.dst]
  <2>1. \A k \in Server : current_term[k] \in Nat /\ current_term'[k] \in Nat
    BY SMT DEF TypeOK, Term
  <2> QED
    BY <1>1, <2>1 DEF Grows
<1>3. WasElected(m.src, m.term) => WasElected(m.src, m.term)'
  BY DEF WasElected, Grows
<1>4. <<m.src, m.term, m.dst>> \in grants => <<m.src, m.term, m.dst>> \in grants'
  BY DEF Grows
<1> QED
  BY <1>1, <1>2, <1>3, <1>4, SMT DEF Sound

-----------------------------------------------------------------------------
\* The majorities and last terms behind the elections that were already won.
LEMMA ElectedKept ==
    ASSUME TypeOK, TypeOK', LogTermInv, Grows, ElectedInv,
           NEW t \in Term, NEW c \in Server, <<t, c>> \in elected
    PROVE  /\ t <= LastLogTerm(c)'
           /\ \E Q \in SUBSET Server :
                 IsMajority(Cardinality(Q)) /\ \A v \in Q : <<v, t, c>> \in grants'
<1>1. t <= LastLogTerm(c) /\ LastLogTerm(c)' >= LastLogTerm(c)
  BY LogsGrow DEF ElectedInv
<1>2. t \in Nat /\ LastLogTerm(c) \in Nat
  BY NodeTypes, SMT DEF Term
<1>3. LastLogTerm(c)' \in Nat
  <2>1. /\ log'[c] \in Seq(Term) /\ \A u \in Term : u \in Nat
    BY SMT DEF TypeOK, Term
  <2>2. log'[c] # <<>> => Len(log'[c]) \in 1..Len(log'[c])
    BY <2>1, SeqEmpty, SeqLen, SMT
  <2>3. log'[c] # <<>> => log'[c][Len(log'[c])] \in Nat
    BY <2>1, <2>2, SeqElement
  <2> QED
    BY <2>3 DEF LastLogTerm
<1>4. PICK Q \in SUBSET Server :
        IsMajority(Cardinality(Q)) /\ \A v \in Q : <<v, t, c>> \in grants
  BY DEF ElectedInv
<1>5. \A v \in Q : <<v, t, c>> \in grants'
  BY <1>4 DEF Grows
<1> QED
  BY <1>1, <1>2, <1>3, <1>4, <1>5, SMT

\* A step that gives no vote and elects nobody, and in which at most one node n
\* becomes a follower: in a newer term without a vote, in its term with its vote
\* or, if it was not a follower, in its term without it.
LEMMA NoVoteStep ==
    ASSUME TypeOK, TypeOK', LogTermInv, Grows, Core, UNCHANGED <<grants, elected>>,
           NEW n \in Server, \A k \in Server \ {n} : Same(k),
           \/ Same(n)
           \/ /\ state'[n] = "FOLLOWER"
              /\ \/ current_term'[n] > current_term[n] /\ voted_for'[n] = Nil
                 \/ /\ current_term'[n] = current_term[n]
                    /\ \/ voted_for'[n] = voted_for[n]
                       \/ state[n] # "FOLLOWER" /\ voted_for'[n] = Nil
    PROVE  Core'
<1> USE DEF Core
<1>1. \A k \in Server : /\ current_term[k] \in Nat /\ current_term'[k] \in Nat
                        /\ voted_for[k] \in Server \cup {Nil}
  BY SMT DEF TypeOK, Term
<1>2. Nil \notin Server /\ \A t \in Term : t \in Nat
  BY ServerAssumption, SMT DEF Term
<1>3. VoteInv'
  <2>1. ASSUME NEW k \in Server
        PROVE  /\ voted_for'[k] # Nil => <<k, current_term'[k], voted_for'[k]>> \in grants
               /\ current_term'[k] >= current_term[k]
               /\ state'[k] # "FOLLOWER" => voted_for'[k] = k
    <3>1. CASE Same(k)
      BY <3>1, <1>1, SMT DEF Same, VoteInv
    <3>2. CASE k = n /\ ~Same(n)
      BY <3>2, <1>1, SMT DEF VoteInv
    <3> QED
      BY <3>1, <3>2
  <2>2. ASSUME NEW v \in Server, NEW c \in Server, NEW t \in Term, <<v, t, c>> \in grants
        PROVE  t <= current_term'[v]
    <3>1. t <= current_term[v] /\ current_term'[v] >= current_term[v]
      BY <2>1, <2>2 DEF VoteInv
    <3> QED
      BY <3>1, <1>1, <1>2, SMT
  <2> QED
    BY <2>1, <2>2 DEF VoteInv
<1>4. TwoVotesInv'
  <2> SUFFICES ASSUME NEW v \in Server, NEW c \in Server, NEW t \in Term,
                      <<v, t, c>> \in grants, c # v, current_term'[v] = t
               PROVE  voted_for'[v] = c /\ state'[v] = "FOLLOWER"
    BY DEF TwoVotesInv
  <2>1. CASE Same(v)
    BY <2>1 DEF Same, TwoVotesInv
  <2>2. CASE v = n /\ ~Same(n)
    <3>1. t <= current_term[n]
      BY <2>2 DEF VoteInv
    <3>2. current_term'[n] = current_term[n]
      BY <2>2, <3>1, <1>1, <1>2, SMT
    <3>3. voted_for[n] = c /\ state[n] = "FOLLOWER"
      BY <2>2, <3>2 DEF TwoVotesInv
    <3> QED
      BY <2>2, <3>2, <3>3, <1>1, SMT
  <2> QED
    BY <2>1, <2>2
<1>5. CandidateInv'
  <2> SUFFICES ASSUME NEW k \in Server, state'[k] = "CANDIDATE"
               PROVE  /\ votes_received'[k] = Cardinality(vote_granted'[k]) + 1
                      /\ k \notin vote_granted'[k]
                      /\ \A p \in vote_granted'[k] : <<p, current_term'[k], k>> \in grants
    BY DEF CandidateInv
  <2>1. Same(k)
    OBVIOUS
  <2> QED
    BY <2>1 DEF Same, CandidateInv
<1>6. ElectedInv'
  BY ElectedKept DEF ElectedInv
<1> QED
  BY <1>3, <1>4, <1>5, <1>6

\* Node n gives its vote in term t to another node, whose log has no entry of t and
\* is as up to date as its own.
LEMMA VoteStep ==
    ASSUME TypeOK, TypeOK', LogTermInv, Grows, Core, elected' = elected,
           NEW n \in Server, \A k \in Server \ {n} : Same(k),
           NEW t \in Term, NEW c \in Server \ {n}, LastLogTerm(n) < t,
           grants' = grants \cup {<<n, t, c>>},
           current_term'[n] = t, voted_for'[n] = c,
           \/ t > current_term[n] /\ state'[n] = "FOLLOWER"
           \/ t = current_term[n] /\ voted_for[n] \in {Nil, c} /\ state'[n] = state[n]
    PROVE  Core'
<1> USE DEF Core
<1>1. /\ \A k \in Server : /\ current_term[k] \in Nat /\ current_term'[k] \in Nat
                           /\ state[k] \in {"FOLLOWER", "CANDIDATE", "LEADER"}
                           /\ voted_for[k] \in Server \cup {Nil}
      /\ Nil \notin Server /\ \A u \in Term : u \in Nat
  <2>1. current_term' \in [Server -> Term] /\ \A u \in Term : u \in Nat
    BY SMT DEF TypeOK, Term
  <2> QED
    BY <2>1, NodeTypes, ServerAssumption
<1>2. state'[n] = "FOLLOWER"
  BY <1>1 DEF VoteInv
<1>3. \A d \in Server : <<n, t, d>> \in grants => d \in {n, c}
  <2> SUFFICES ASSUME NEW d \in Server, <<n, t, d>> \in grants, d # n
               PROVE  d = c
    OBVIOUS
  <2>1. t <= current_term[n]
    BY DEF VoteInv
  <2>2. t = current_term[n]
    BY <2>1, <1>1, SMT
  <2>3. voted_for[n] = d
    BY <2>2 DEF TwoVotesInv
  <2> QED
    BY <2>2, <2>3, <1>1, SMT
<1>4. VoteInv'
  <2>1. ASSUME NEW k \in Server
        PROVE  /\ voted_for'[k] # Nil => <<k, current_term'[k], voted_for'[k]>> \in grants'
               /\ state'[k] # "FOLLOWER" => voted_for'[k] = k
    <3>1. CASE k # n
      BY <3>1 DEF Same, VoteInv
    <3>2. CASE k = n
      BY <3>2, <1>2
    <3> QED
      BY <3>1, <3>2
  <2>2. ASSUME NEW v \in Server, NEW d \in Server, NEW u \in Term, <<v, u, d>> \in grants'
        PROVE  u <= current_term'[v]
    <3>1. CASE <<v, u, d>> \in grants
      <4>1. u <= current_term[v] /\ current_term'[v] >= current_term[v]
        BY <3>1 DEF VoteInv, Grows
      <4> QED
        BY <4>1, <1>1, SMT
    <3>2. CASE v = n /\ u = t
      BY <3>2, <1>1, SMT
    <3> QED
      BY <2>2, <3>1, <3>2
  <2> QED
    BY <2>1, <2>2 DEF VoteInv
<1>5. TwoVotesInv'
  <2> SUFFICES ASSUME NEW v \in Server, NEW d \in Server, NEW u \in Term,
                      <<v, u, d>> \in grants', d # v
               PROVE  /\ \A e \in Server : <<v, u, e>> \in grants' => e \in {v, d}
                      /\ current_term'[v] = u => voted_for'[v] = d /\ state'[v] = "FOLLOWER"
    BY DEF TwoVotesInv
  <2>1. CASE v = n /\ u = t
    <3>1. d = c
      BY <2>1, <1>3
    <3> QED
      BY <2>1, <3>1, <1>2, <1>3
  <2>2. CASE ~(v = n /\ u = t)
    <3>1. /\ <<v, u, d>> \in grants
          /\ \A e \in Server : <<v, u, e>> \in grants' => <<v, u, e>> \in grants
      BY <2>2
    <3>2. \A e \in Server : <<v, u, e>> \in grants' => e \in {v, d}
      BY <3>1 DEF TwoVotesInv
    <3>3. current_term'[v] = u => v # n
      BY <2>2
    <3> QED
      BY <3>1, <3>2, <3>3, SMT DEF TwoVotesInv, Same
  <2> QED
    BY <2>1, <2>2
<1>6. CandidateInv'
  <2> SUFFICES ASSUME NEW k \in Server, state'[k] = "CANDIDATE"
               PROVE  /\ votes_received'[k] = Cardinality(vote_granted'[k]) + 1
                      /\ k \notin vote_granted'[k]
                      /\ \A p \in vote_granted'[k] : <<p, current_term'[k], k>> \in grants'
    BY DEF CandidateInv
  <2>1. Same(k)
    BY <1>2
  <2> QED
    BY <2>1 DEF Same, CandidateInv
<1>7. ElectedInv'
  <2>1. <<t, n>> \notin elected
    <3>1. LastLogTerm(n) \in Nat
      BY NodeTypes
    <3> QED
      BY <3>1, <1>1, SMT DEF ElectedInv
  <2>2. ASSUME NEW u \in Term, NEW l \in Server, <<u, l>> \in elected, NEW d \in Server,
               <<l, u, d>> \in grants'
        PROVE  d = l
    BY <2>1, <2>2 DEF ElectedInv
  <2> QED
    BY <2>2, ElectedKept DEF ElectedInv
<1> QED
  BY <1>4, <1>5, <1>6, <1>7

\* Node n becomes a candidate.
LEMMA CandidacyStep ==
    ASSUME TypeOK, TypeOK', LogTermInv, Grows, Core, elected' = elected,
           NEW n \in Server, BecomeCandidate(n)
    PROVE  Core'
<1> USE DEF Core
<1> DEFINE t == current_term[n] + 1
<1>1. /\ \A k \in Server : current_term[k] \in Nat /\ current_term'[k] \in Nat
      /\ t \in Nat /\ \A u \in Term : u \in Nat
  BY SMT DEF TypeOK, Term
<1>2. /\ \A k \in Server \ {n} : Same(k)
      /\ state'[n] = "CANDIDATE" /\ current_term'[n] = t /\ voted_for'[n] = n
      /\ votes_received'[n] = 1 /\ vote_granted'[n] = {}
      /\ grants' = grants \cup {<<n, t, n>>}
  BY SMT DEF BecomeCandidate, TypeOK, Same
<1>3. \A d \in Server : <<n, t, d>> \notin grants
  <2>1. t \in Term
    BY <1>2 DEF TypeOK
  <2>2. ~(t <= current_term[n])
    BY <1>1, SMT
  <2> QED
    BY <2>1, <2>2 DEF VoteInv
<1> HIDE DEF t
<1>4. VoteInv'
  <2>1. \A k \in Server :
          /\ voted_for'[k] # Nil => <<k, current_term'[k], voted_for'[k]>> \in grants'
          /\ state'[k] # "FOLLOWER" => voted_for'[k] = k
    BY <1>2 DEF Same, VoteInv
  <2>2. ASSUME NEW v \in Server, NEW d \in Server, NEW u \in Term, <<v, u, d>> \in grants'
        PROVE  u <= current_term'[v]
    <3>1. CASE <<v, u, d>> \in grants
      <4>1. u <= current_term[v] /\ current_term'[v] >= current_term[v]
        BY <3>1 DEF VoteInv, Grows
      <4> QED
        BY <4>1, <1>1, SMT
    <3>2. CASE v = n /\ u = t
      BY <3>2, <1>1, <1>2, SMT
    <3> QED
      BY <2>2, <1>2, <3>1, <3>2
  <2> QED
    BY <2>1, <2>2 DEF VoteInv
<1>5. TwoVotesInv'
  <2> SUFFICES ASSUME NEW v \in Server, NEW d \in Server, NEW u \in Term,
                      <<v, u, d>> \in grants', d # v
               PROVE  /\ \A e \in Server : <<v, u, e>> \in grants' => e \in {v, d}
                      /\ current_term'[v] = u => voted_for'[v] = d /\ state'[v] = "FOLLOWER"
    BY DEF TwoVotesInv
  <2>1. <<v, u, d>> \in grants /\ ~(v = n /\ u = t)
    BY <1>2, <1>3
  <2>2. \A e \in Server : <<v, u, e>> \in grants' => <<v, u, e>> \in grants
    BY <1>2, <2>1
  <2>3. current_term'[v] = u => v # n
    BY <1>2, <2>1
  <2> QED
    BY <2>1, <2>2, <2>3, <1>2, SMT DEF TwoVotesInv, Same
<1>6. CandidateInv'
  <2> SUFFICES ASSUME NEW k \in Server, state'[k] = "CANDIDATE"
               PROVE  /\ votes_received'[k] = Cardinality(vote_granted'[k]) + 1
                      /\ k \notin vote_granted'[k]
                      /\ \A p \in vote_granted'[k] : <<p, current_term'[k], k>> \in grants'
    BY DEF CandidateInv
  <2>1. CASE k = n
    BY <2>1, <1>2, FS_EmptySet, SMT
  <2>2. CASE k # n
    BY <2>2, <1>2 DEF Same, CandidateInv
  <2> QED
    BY <2>1, <2>2
<1>7. ElectedInv'
  <2>1. ASSUME NEW u \in Term, NEW l \in Server, <<u, l>> \in elected, NEW d \in Server,
               <<l, u, d>> \in grants'
        PROVE  d = l
    BY <2>1, <1>2 DEF ElectedInv
  <2> QED
    BY <2>1, ElectedKept DEF ElectedInv
<1> QED
  BY <1>4, <1>5, <1>6, <1>7

\* A response that stands for a vote is counted: the counted votes and the
\* candidate's own are distinct votes of its term, so a candidate that wins has the
\* votes of a majority.
LEMMA CountingStep ==
    ASSUME TypeOK, TypeOK', LogTermInv, Grows, Core,
           NEW m \in msgs, m.src # m.dst, m.type = "RequestVoteResp", Sound(m),
           CountVote(m), Counts(m.dst, m)
    PROVE  Core'
<1> DEFINE n == m.dst
           t == current_term[n]
           W == vote_granted[n] \cup {m.src}
           V == W \cup {n}
           wins == IsMajority(votes_received[n] + 1)
<1> USE DEF Core
<1>1. n \in Server /\ m.src \in Server /\ t \in Term /\ t \in Nat /\ Nil \notin Server
  BY MessageFields, NodeTypes, ServerAssumption
<1>2. /\ state[n] = "CANDIDATE" /\ m.term = t /\ m.vote_granted
      /\ m.src \notin vote_granted[n]
  BY DEF Counts
<1>3. /\ vote_granted'[n] = W /\ votes_received'[n] = votes_received[n] + 1
      /\ current_term' = current_term /\ voted_for' = voted_for /\ grants' = grants
      /\ \A k \in Server \ {n} : Same(k)
      /\ \/ /\ wins /\ state'[n] = "LEADER" /\ elected' = elected \cup {<<t, n>>}
            /\ log'[n] = Append(log[n], t)
         \/ ~wins /\ state'[n] = state[n] /\ elected' = elected
  <2>1. /\ vote_granted' = [vote_granted EXCEPT ![n] = W]
        /\ votes_received' = [votes_received EXCEPT ![n] = @ + 1]
        /\ current_term' = current_term /\ voted_for' = voted_for /\ grants' = grants
        /\ \/ /\ wins /\ state' = [state EXCEPT ![n] = "LEADER"]
              /\ elected' = elected \cup {<<t, n>>}
              /\ log' = [log EXCEPT ![n] = Append(@, t)]
           \/ ~wins /\ state' = state /\ elected' = elected
    BY DEF CountVote, BecomeLeader, Wins
  <2>2. /\ vote_granted \in [Server -> SUBSET Server]
        /\ votes_received \in [Server -> Nat]
        /\ state \in [Server -> {"FOLLOWER", "CANDIDATE", "LEADER"}]
        /\ log \in [Server -> Seq(Term)]
    BY DEF TypeOK
  <2> QED
    BY <1>1, <2>1, <2>2 DEF Same
<1>4. /\ votes_received[n] = Cardinality(vote_granted[n]) + 1
      /\ n \notin vote_granted[n]
      /\ \A v \in V : <<v, t, n>> \in grants
  <2>1. <<m.src, t, n>> \in grants
    <3>1. <<m.src, m.term, m.dst>> \in grants \/ m.term < current_term[m.dst]
      BY <1>2 DEF Sound
    <3> QED
      BY <1>1, <1>2, <3>1, SMT
  <2>2. <<n, t, n>> \in grants
    BY <1>1, <1>2 DEF VoteInv
  <2> QED
    BY <1>1, <1>2, <2>1, <2>2 DEF CandidateInv
<1>5. /\ V \in SUBSET Server
      /\ Cardinality(W) = votes_received[n]
      /\ Cardinality(V) = votes_received[n] + 1
  <2>1. IsFiniteSet(vote_granted[n])
    BY <1>1, NodeTypes, ServerAssumption, FS_Subset
  <2>2. IsFiniteSet(W) /\ Cardinality(W) = Cardinality(vote_granted[n]) + 1
    BY <1>2, <2>1, FS_AddElement
  <2>3. Cardinality(V) = Cardinality(W) + 1
    BY <1>1, <1>4, <2>2, FS_AddElement
  <2> QED
    BY <1>1, <1>4, <2>2, <2>3, NodeTypes
<1>6. n \notin W /\ W \subseteq V
  BY <1>4
<1>7. <<n, t, n>> \in grants /\ voted_for[n] = n
  BY <1>1, <1>2, <1>4 DEF VoteInv
<1> HIDE DEF n, t, V, W, wins
<1>8. VoteInv'
  <2>1. \A k \in Server : state'[k] # "FOLLOWER" => voted_for'[k] = k
    BY <1>3, <1>7 DEF VoteInv, Same
  <2> QED
    BY <1>3, <2>1 DEF VoteInv
<1>9. TwoVotesInv'
  <2>1. \A k \in Server : state[k] = "FOLLOWER" => state'[k] = "FOLLOWER"
    BY <1>2, <1>3 DEF Same
  <2> QED
    BY <1>3, <2>1, SMT DEF TwoVotesInv
<1>10. CandidateInv'
  <2> SUFFICES ASSUME NEW k \in Server, state'[k] = "CANDIDATE"
               PROVE  /\ votes_received'[k] = Cardinality(vote_granted'[k]) + 1
                      /\ k \notin vote_granted'[k]
                      /\ \A p \in vote_granted'[k] : <<p, current_term'[k], k>> \in grants'
    BY DEF CandidateInv
  <2>1. CASE k = n
    BY <2>1, <1>3, <1>4, <1>5, <1>6 DEF t
  <2>2. CASE k # n
    BY <2>2, <1>3 DEF CandidateInv, Same
  <2> QED
    BY <2>1, <2>2
<1>11. ElectedInv'
  <2>1. CASE elected' = elected
    <3>1. \A u \in Term, l \in Server : <<u, l>> \in elected' =>
             \A d \in Server : <<l, u, d>> \in grants' => d = l
      BY <2>1, <1>3 DEF ElectedInv
    <3> QED
      BY <2>1, <3>1, ElectedKept DEF ElectedInv
  <2>2. CASE /\ wins /\ elected' = elected \cup {<<t, n>>}
             /\ log'[n] = Append(log[n], t)
    <3>1. ASSUME NEW u \in Term, NEW l \in Server, <<u, l>> \in elected
          PROVE  /\ u <= LastLogTerm(l)'
                 /\ \A d \in Server : <<l, u, d>> \in grants' => d = l
                 /\ \E Q \in SUBSET Server :
                       IsMajority(Cardinality(Q)) /\ \A v \in Q : <<v, u, l>> \in grants'
      BY <3>1, <1>3, ElectedKept DEF ElectedInv
    <3>2. t <= LastLogTerm(n)'
      <4>1. LastLogTerm(n)' = current_term'[n]
        BY <2>2, <1>1, <1>3, LogsGrow DEF t
      <4> QED
        BY <4>1, <1>1, <1>3, SMT DEF t
    <3>3. \A d \in Server : <<n, t, d>> \in grants' => d = n
      BY <1>1, <1>2, <1>3 DEF TwoVotesInv, t
    <3>4. IsMajority(Cardinality(V)) /\ \A v \in V : <<v, t, n>> \in grants'
      BY <2>2, <1>3, <1>4, <1>5 DEF wins
    <3> QED
      BY <2>2, <1>5, <3>1, <3>2, <3>3, <3>4 DEF ElectedInv
  <2> QED
    BY <1>3, <2>1, <2>2
<1> QED
  BY <1>8, <1>9, <1>10, <1>11

-----------------------------------------------------------------------------
\* What the steps do to the thread of n; nobody else's thread is touched.
Moves(n, loop, left, ballot) ==
    /\ \A k \in Server \ {n} : thread'[k] = thread[k]
    /\ thread'[n].loop = loop /\ thread'[n].left = left /\ thread'[n].ballot = ballot

ThreadType ==
    thread \in [Server -> [loop : {"none", "vote", "beat"}, left : SUBSET Server,
                           ballot : SUBSET Message, peer : Server \cup {Nil}]]

LEMMA Threads ==
    ASSUME RpcTypeOK, NEW n \in Server
    PROVE  /\ StartElection(n) /\ current_term[n] + 1 \in Term =>
                 /\ ThreadType'
                 /\ Moves(n, "vote", Peers(n), RequestVotes(n, current_term[n] + 1))
           /\ StartHeartbeats(n) => ThreadType' /\ Moves(n, "beat", Peers(n), {})
           /\ CallPeer(n) \/ CallRefused(n) \/ CallReturns(n) \/ CallLost(n) =>
                 /\ ThreadType'
                 /\ \E left \in SUBSET thread[n].left :
                        Moves(n, thread[n].loop, left, thread[n].ballot)
           /\ TickEnds(n) \/ Crash(n) => ThreadType' /\ Moves(n, "none", {}, {})
<1>1. /\ ThreadType /\ thread[n].left \subseteq Server
      /\ \A p \in thread[n].left : p \in Server
      /\ TypeOK
  BY DEF RpcTypeOK, ThreadType
<1>2. ASSUME StartElection(n), current_term[n] + 1 \in Term
      PROVE  ThreadType' /\ Moves(n, "vote", Peers(n), RequestVotes(n, current_term[n] + 1))
  <2>1. RequestVotes(n, current_term[n] + 1) \subseteq Message
    BY <1>1, <1>2, SentMessages
  <2> QED
    BY <1>1, <1>2, <2>1 DEF StartElection, ThreadType, Moves, Peers
<1>3. ASSUME StartHeartbeats(n)
      PROVE  ThreadType' /\ Moves(n, "beat", Peers(n), {})
  BY <1>1, <1>3 DEF StartHeartbeats, ThreadType, Moves, Peers, Idle
<1>4. ASSUME TickEnds(n) \/ Crash(n)
      PROVE  ThreadType' /\ Moves(n, "none", {}, {})
  <2>1. thread' = [thread EXCEPT ![n] = Idle]
    BY <1>4 DEF TickEnds, Crash
  <2> QED
    BY <1>1, <2>1 DEF ThreadType, Moves, Idle
<1>5. ASSUME NEW left \in SUBSET thread[n].left, NEW p \in Server \cup {Nil},
             thread' = [thread EXCEPT ![n].left = left, ![n].peer = p]
      PROVE  ThreadType' /\ Moves(n, thread[n].loop, left, thread[n].ballot)
  <2> DEFINE Rec == [loop : {"none", "vote", "beat"}, left : SUBSET Server,
                     ballot : SUBSET Message, peer : Server \cup {Nil}]
             r == [thread[n] EXCEPT !.left = left, !.peer = p]
  <2>1. thread[n] \in Rec /\ thread \in [Server -> Rec]
    BY <1>1 DEF ThreadType
  <2>2. /\ r \in Rec /\ r.loop = thread[n].loop /\ r.left = left
        /\ r.ballot = thread[n].ballot
    BY <1>1, <2>1
  <2>3. thread' = [thread EXCEPT ![n] = r]
    BY <1>5, <2>1
  <2> HIDE DEF r, Rec
  <2>4. thread' \in [Server -> Rec] /\ \A k \in Server \ {n} : thread'[k] = thread[k]
    BY <2>1, <2>2, <2>3
  <2>5. thread'[n] = r
    BY <2>1, <2>3
  <2> QED
    BY <2>2, <2>4, <2>5 DEF ThreadType, Moves, Rec
<1>6. ASSUME CallPeer(n) \/ CallRefused(n) \/ CallReturns(n) \/ CallLost(n)
      PROVE  /\ ThreadType'
             /\ \E left \in SUBSET thread[n].left :
                    Moves(n, thread[n].loop, left, thread[n].ballot)
  <2>1. CASE CallPeer(n)
    <3>1. PICK p \in thread[n].left :
              thread' = [thread EXCEPT ![n].left = @ \ {p}, ![n].peer = p]
      BY <2>1 DEF CallPeer
    <3>2. thread' = [thread EXCEPT ![n].left = thread[n].left \ {p}, ![n].peer = p]
      BY <3>1
    <3> QED
      BY <1>1, <1>5, <3>2
  <2>2. CASE CallRefused(n)
    <3>1. PICK p \in thread[n].left : thread' = [thread EXCEPT ![n].left = @ \ {p}]
      BY <2>2 DEF CallRefused
    <3>2. ThreadType' /\ Moves(n, thread[n].loop, thread[n].left \ {p}, thread[n].ballot)
      BY <1>1, <3>1, SMT DEF ThreadType, Moves
    <3> QED
      BY <3>2
  <2>3. CASE CallReturns(n) \/ CallLost(n)
    <3>1. thread' = [thread EXCEPT ![n].peer = Nil]
      BY <2>3 DEF CallReturns, CallLost
    <3>2. ThreadType' /\ Moves(n, thread[n].loop, thread[n].left, thread[n].ballot)
      BY <1>1, <3>1, SMT DEF ThreadType, Moves
    <3> QED
      BY <3>2
  <2> QED
    BY <1>6, <2>1, <2>2, <2>3
<1> QED
  BY <1>2, <1>3, <1>4, <1>6

\* The steps that are steps of RaftCore, or change nothing of it.
LEMMA CoreSteps ==
    ASSUME NEW n \in Server,
           \/ StartHeartbeats(n) \/ QuietTick(n) \/ CallRefused(n)
           \/ Serve(n) \/ CallReturns(n) \/ SubmitWrite(n)
    PROVE  [Next]_vars
<1>1. CASE QuietTick(n)
  BY <1>1 DEF QuietTick, Next, Tick
<1>2. CASE Serve(n)
  BY <1>2 DEF Serve, Next, Receive
<1>3. CASE CallReturns(n)
  BY <1>3 DEF CallReturns, Exchange, Next, Receive
<1>4. CASE SubmitWrite(n)
  BY <1>4 DEF SubmitWrite, Next
<1> QED
  BY <1>1, <1>2, <1>3, <1>4 DEF StartHeartbeats, CallRefused

\* No handler takes a next_index of 1 or more below 1: become_leader starts from
\* last_log_index + 1, and a rejection decrements only what is above 1.
LEMMA IndexKept ==
    ASSUME TypeOK, NEW n \in Server,
           \/ UNCHANGED next_index
           \/ \E m \in msgs : Receive(m),
           NEW k \in Server, \A p \in Server : next_index[k][p] >= 1
    PROVE  \A p \in Server : next_index'[k][p] >= 1
<1>1. /\ next_index \in [Server -> [Server -> Nat]]
      /\ LastLogIndex(k) \in Nat
  BY SeqLen DEF TypeOK, LastLogIndex
<1>2. ASSUME NEW m \in msgs, Receive(m), next_index' # next_index
      PROVE  \A p \in Server : next_index'[k][p] >= 1
  <2>1. /\ m.src \in Server /\ m.dst \in Server
        /\ m.type = "AppendEntriesResp" => m.match_index \in Nat
    BY MessageFields
  <2>2. \/ next_index' = [next_index EXCEPT ![m.dst] = [p \in Server |-> LastLogIndex(m.dst) + 1]]
        \/ /\ m.type = "AppendEntriesResp"
           /\ next_index' = [next_index EXCEPT ![m.dst][m.src] =
                               IF m.success THEN m.match_index + 1
                               ELSE IF @ > 1 THEN @ - 1 ELSE @]
    BY <1>2 DEF Receive, HandleRequestVote, HandleAppendEntries, HandleRequestVoteResponse,
                HandleAppendEntriesResponse, StepDown, CountVote, BecomeLeader, RecordProgress,
                InitialNextIndex, replication
  <2>3. CASE next_index' = [next_index EXCEPT ![m.dst] = [p \in Server |-> LastLogIndex(m.dst) + 1]]
    <3>1. CASE k = m.dst
      BY <1>1, <2>1, <2>3, <3>1, SMT
    <3>2. CASE k # m.dst
      BY <1>1, <2>1, <2>3, <3>2
    <3> QED
      BY <3>1, <3>2
  <2>4. CASE /\ m.type = "AppendEntriesResp"
             /\ next_index' = [next_index EXCEPT ![m.dst][m.src] =
                                 IF m.success THEN m.match_index + 1
                                 ELSE IF @ > 1 THEN @ - 1 ELSE @]
    <3> SUFFICES ASSUME NEW p \in Server PROVE next_index'[k][p] >= 1
      OBVIOUS
    <3>1. next_index[k][p] \in Nat /\ next_index[k][p] >= 1
      BY <1>1
    <3>2. CASE k = m.dst /\ p = m.src
      BY <1>1, <2>1, <2>4, <3>1, <3>2, SMT
    <3>3. CASE ~(k = m.dst /\ p = m.src)
      <4>1. next_index'[k][p] = next_index[k][p]
        BY <1>1, <2>1, <2>4, <3>3
      <4> QED
        BY <3>1, <4>1
    <3> QED
      BY <3>2, <3>3
  <2> QED
    BY <2>2, <2>3, <2>4
<1> QED
  BY <1>2

\* A heartbeat names its sender and the sender's term.
LEMMA HeartbeatFields ==
    ASSUME NEW n, NEW m \in Heartbeats(n)
    PROVE  m.type = "AppendEntries" /\ m.src = n /\ m.term = current_term[n]
  BY SMT DEF Heartbeats

\* Heartbeats are well formed whatever the node is.
LEMMA HeartbeatMessages ==
    ASSUME TypeOK, NEW n \in Server, \A p \in Server : next_index[n][p] >= 1
    PROVE  \A m \in Heartbeats(n) : m \in Message /\ m.src # m.dst
<1>1. /\ current_term[n] \in Term /\ commit_index[n] \in Nat
      /\ \A p \in Server : next_index[n][p] - 1 \in Nat
  <2>1. /\ current_term[n] \in Term /\ commit_index[n] \in Nat
        /\ \A p \in Server : next_index[n][p] \in Nat
    BY DEF TypeOK
  <2> QED
    BY <2>1, SMT
<1>2. \A i : TermAtIndex(n, i) \in Nat
  BY NodeTypes DEF TermAtIndex
<1> QED
  BY <1>1, <1>2, SMT DEF Heartbeats, Peers, Message

LEMMA NextRpcTypeOK == RpcTypeOK /\ [NextRpc]_rpcVars => RpcTypeOK'
<1> SUFFICES ASSUME RpcTypeOK, [NextRpc]_rpcVars PROVE RpcTypeOK'
  OBVIOUS
<1> DEFINE BallotsOK == \A k \in Server : \A m \in thread[k].ballot : m.src # m.dst
           IdleOK == \A k \in Server : IsIdle(k) => thread[k].left = {}
           BeatsOK == \A k \in Server : thread[k].loop = "beat" =>
                          \A p \in Server : next_index[k][p] >= 1
<1>1. TypeOK /\ ThreadType /\ BallotsOK /\ IdleOK /\ BeatsOK
  BY DEF RpcTypeOK, ThreadType
<1>2. RpcTypeOK' <=> TypeOK' /\ ThreadType' /\ BallotsOK' /\ IdleOK' /\ BeatsOK'
  BY DEF RpcTypeOK, ThreadType
\* The thread of one node moves, and its ballot is as before or empty.
<1>3. ASSUME NEW n \in Server, NEW left \in SUBSET thread[n].left,
             Moves(n, thread[n].loop, left, thread[n].ballot)
      PROVE  /\ BallotsOK' /\ IdleOK'
             /\ \A k \in Server : thread'[k].loop = thread[k].loop
  BY <1>1, <1>3 DEF Moves, IsIdle
<1>4. ASSUME NEW n \in Server, Moves(n, "none", {}, {})
      PROVE  /\ BallotsOK' /\ IdleOK'
             /\ \A k \in Server : thread'[k].loop = "beat" => k # n /\ thread[k].loop = "beat"
  BY <1>1, <1>4 DEF Moves, IsIdle
<1>5. ASSUME NEW n \in Server, StartElection(n) PROVE RpcTypeOK'
  <2>1. current_term[n] + 1 \in Term
    BY <1>1, <1>5, BoundAssumption, SMT DEF StartElection, BecomeCandidate, TypeOK, Term
  <2>2. ThreadType' /\ Moves(n, "vote", Peers(n), RequestVotes(n, current_term[n] + 1))
    BY <1>5, <2>1, Threads
  <2>3. TypeOK'
    BY <1>1, <1>5, <2>1, SMT DEF StartElection, BecomeCandidate, TypeOK, progress, replication
  <2>4. BallotsOK' /\ IdleOK' /\ \A k \in Server : thread'[k].loop = "beat" => thread[k].loop = "beat"
    BY <1>1, <2>1, <2>2, SentMessages DEF Moves, IsIdle
  <2>5. BeatsOK'
    BY <1>1, <1>5, <2>4 DEF StartElection, replication
  <2> QED
    BY <1>2, <2>2, <2>3, <2>4, <2>5
<1>6. ASSUME NEW n \in Server, StartHeartbeats(n) PROVE RpcTypeOK'
  <2>1. ThreadType' /\ Moves(n, "beat", Peers(n), {}) /\ state[n] = "LEADER" /\ UNCHANGED vars
    BY <1>6, Threads DEF StartHeartbeats
  <2>2. TypeOK'
    BY <1>1, <1>6, <2>1, CoreSteps, NextTypeOK
  <2>3. BallotsOK' /\ IdleOK'
    BY <1>1, <2>1 DEF Moves, IsIdle
  <2>4. BeatsOK'
    BY <1>1, <2>1 DEF Moves, TypeOK, vars, replication
  <2> QED
    BY <1>2, <2>1, <2>2, <2>3, <2>4
<1>7. ASSUME NEW n \in Server, CallPeer(n) PROVE RpcTypeOK'
  <2>1. PICK left \in SUBSET thread[n].left :
            ThreadType' /\ Moves(n, thread[n].loop, left, thread[n].ballot)
    BY <1>7, Threads
  <2>2. thread[n].loop \in {"vote", "beat"}
    BY <1>1, <1>7 DEF CallPeer, IsIdle, ThreadType
  <2>3. \A m \in Outgoing(n) : m \in Message /\ m.src # m.dst
    <3>1. thread[n].ballot \subseteq Message
      BY <1>1 DEF ThreadType
    <3> QED
      BY <1>1, <2>2, <3>1, HeartbeatMessages DEF Outgoing
  <2>4. msgs' \subseteq Message /\ \A m \in msgs' : m.src # m.dst
    BY <1>1, <1>7, <2>3 DEF CallPeer, TypeOK
  <2>5. TypeOK' /\ next_index' = next_index
    BY <1>1, <1>7, <2>4 DEF CallPeer, TypeOK, durable, progress, election, replication
  <2> QED
    BY <1>1, <1>2, <1>3, <2>1, <2>5
<1>8. ASSUME NEW n \in Server, CallRefused(n) \/ CallReturns(n) PROVE RpcTypeOK'
  <2>1. PICK left \in SUBSET thread[n].left :
            ThreadType' /\ Moves(n, thread[n].loop, left, thread[n].ballot)
    BY <1>8, Threads
  <2>2. TypeOK'
    BY <1>1, <1>8, CoreSteps, NextTypeOK
  <2>3. UNCHANGED next_index \/ \E m \in msgs : Receive(m)
    BY <1>8 DEF CallRefused, CallReturns, Exchange, Receive, vars, replication
  <2>4. BeatsOK'
    BY <1>1, <1>3, <2>1, <2>3, IndexKept
  <2> QED
    BY <1>2, <1>3, <2>1, <2>2, <2>4
<1>9. ASSUME NEW n \in Server, CallLost(n) PROVE RpcTypeOK'
  <2>1. PICK left \in SUBSET thread[n].left :
            ThreadType' /\ Moves(n, thread[n].loop, left, thread[n].ballot)
    BY <1>9, Threads
  <2>2. TypeOK' /\ next_index' = next_index
    BY <1>1, <1>9 DEF CallLost, TypeOK, durable, progress, election, replication
  <2> QED
    BY <1>1, <1>2, <1>3, <2>1, <2>2
<1>10. ASSUME NEW n \in Server, QuietTick(n) \/ Serve(n) \/ SubmitWrite(n) PROVE RpcTypeOK'
  <2>1. TypeOK' /\ thread' = thread
    BY <1>1, <1>10, CoreSteps, NextTypeOK DEF QuietTick, Serve, SubmitWrite
  <2>2. UNCHANGED next_index \/ \E m \in msgs : Receive(m)
    BY <1>10 DEF QuietTick, LeaderTick, FollowerCandidateTick, Serve, Receive, SubmitWrite,
                 Submit, replication
  <2>3. BeatsOK'
    BY <1>1, <2>1, <2>2, IndexKept
  <2> QED
    BY <1>1, <1>2, <2>1, <2>3 DEF ThreadType, IsIdle
<1>11. ASSUME NEW n \in Server, TickEnds(n) PROVE RpcTypeOK'
  <2>1. ThreadType' /\ Moves(n, "none", {}, {})
    BY <1>11, Threads
  <2>2. commit_index' \in [Server -> Nat] /\ last_applied' \in [Server -> Nat]
    <3>1. /\ Len(log[n]) \in Nat /\ commit_index \in [Server -> Nat]
          /\ last_applied \in [Server -> Nat]
      BY <1>1, NodeTypes DEF TypeOK
    <3>2. \A c \in {commit_index[n]} \cup Committable(n) : c \in Nat
      BY <3>1, SMT DEF Committable, LastLogIndex
    <3>3. PICK c \in {commit_index[n]} \cup Committable(n) :
              /\ commit_index' \in {commit_index, [commit_index EXCEPT ![n] = c]}
              /\ ApplyCommitted(n, c)
      <4>1. CASE thread[n].loop = "beat"
        BY <1>11, <4>1 DEF TickEnds, CommitAndApply
      <4>2. CASE thread[n].loop # "beat"
        BY <1>11, <4>2 DEF TickEnds
      <4> QED
        BY <4>1, <4>2
    <3>4. c \in Nat
      BY <3>2
    <3>5. commit_index' \in [Server -> Nat]
      BY <3>1, <3>3, <3>4
    <3>6. last_applied' \in [Server -> Nat]
      BY <3>1, <3>3, <3>4, SMT DEF ApplyCommitted
    <3> QED
      BY <3>5, <3>6
  <2>3. TypeOK' /\ next_index' = next_index
    BY <1>1, <1>11, <2>2 DEF TickEnds, TypeOK, durable, election, replication
  <2> QED
    BY <1>1, <1>2, <1>4, <2>1, <2>3
<1>12. ASSUME NEW n \in Server, Crash(n) PROVE RpcTypeOK'
  <2>1. ThreadType' /\ Moves(n, "none", {}, {})
    BY <1>12, Threads
  <2>2. TypeOK'
    BY <1>1, <1>12 DEF Crash, ComeBack, TypeOK, durable
  <2>3. \A k \in Server \ {n} : next_index'[k] = next_index[k]
    BY <1>1, <1>12 DEF Crash, ComeBack, TypeOK
  <2> QED
    BY <1>1, <1>2, <1>4, <2>1, <2>2, <2>3
<1>13. CASE UNCHANGED rpcVars
  BY <1>1, <1>2, <1>13 DEF rpcVars, vars, TypeOK, ThreadType, durable, progress, election,
                           replication, IsIdle
<1> QED
  BY <1>5, <1>6, <1>7, <1>8, <1>9, <1>10, <1>11, <1>12, <1>13 DEF NextRpc

-----------------------------------------------------------------------------
\* Every step only raises terms, extends logs and adds to the history.
LEMMA NextGrows ==
    ASSUME RpcTypeOK, [NextRpc]_rpcVars
    PROVE  Grows
<1>1. /\ current_term \in [Server -> Term] /\ log \in [Server -> Seq(Term)]
      /\ \A u \in Term : u \in Nat
  BY SMT DEF RpcTypeOK, TypeOK, Term
<1>2. ASSUME UNCHANGED <<current_term, log>>, grants \subseteq grants', elected \subseteq elected'
      PROVE  Grows
  <2>1. \A k \in Server : current_term[k] \in Nat
    BY <1>1
  <2> QED
    BY <1>2, <2>1, SMT DEF Grows
<1>3. ASSUME NEW n \in Server, NEW t \in Nat, t >= current_term[n],
             current_term' = [current_term EXCEPT ![n] = t], log' = log,
             grants \subseteq grants', elected' = elected
      PROVE  Grows
  <2>1. \A k \in Server : current_term'[k] >= current_term[k]
    BY <1>1, <1>3, SMT
  <2> QED
    BY <1>3, <2>1 DEF Grows
<1>4. ASSUME NEW n \in Server, current_term' = current_term,
             log' = [log EXCEPT ![n] = Append(@, current_term[n])],
             grants' = grants, elected \subseteq elected'
      PROVE  Grows
  <2>1. \A k \in Server : current_term'[k] >= current_term[k]
    BY <1>1, <1>4, SMT
  <2>2. \A k \in Server : log'[k] \in {log[k], Append(log[k], current_term'[k])}
    BY <1>1, <1>4
  <2> QED
    BY <1>4, <2>1, <2>2 DEF Grows
<1>5. ASSUME NEW m \in msgs, Receive(m) PROVE Grows
  <2>1. m.dst \in Server /\ m.term \in Nat /\ current_term[m.dst] \in Nat
    BY <1>1, MessageFields DEF RpcTypeOK
  <2>2. CASE UNCHANGED <<current_term, log>> /\ elected' = elected
    BY <1>2, <1>5, <2>2 DEF Receive, HandleRequestVote, HandleAppendEntries,
         HandleRequestVoteResponse, HandleAppendEntriesResponse, StepDown, CountVote,
         RecordProgress
  <2>3. CASE /\ current_term' = [current_term EXCEPT ![m.dst] = m.term]
             /\ m.term >= current_term[m.dst] /\ log' = log /\ elected' = elected
             /\ grants \subseteq grants'
    BY <1>3, <2>1, <2>3
  <2>4. CASE /\ current_term' = current_term /\ grants' = grants /\ elected \subseteq elected'
             /\ log' = [log EXCEPT ![m.dst] = Append(@, current_term[m.dst])]
    BY <1>4, <2>1, <2>4
  <2>5. NewerTerm(m.dst, m) => m.term >= current_term[m.dst]
    BY <2>1, SMT DEF NewerTerm
  <2>6. CASE HandleRequestVote(m)
    BY <2>2, <2>3, <2>5, <2>6 DEF HandleRequestVote, BecomeFollower
  <2>7. CASE HandleAppendEntries(m)
    <3>1. m.term = current_term[m.dst] => m.term >= current_term[m.dst]
      BY <2>1, SMT
    <3> QED
      BY <2>2, <2>3, <2>5, <2>7, <3>1 DEF HandleAppendEntries, BecomeFollower
  <2>8. CASE StepDown(m)
    BY <2>3, <2>5, <2>8 DEF StepDown, BecomeFollower
  <2>9. CASE CountVote(m)
    BY <2>2, <2>4, <2>9 DEF CountVote, BecomeLeader
  <2>10. CASE RecordProgress(m)
    BY <2>2, <2>10 DEF RecordProgress, durable
  <2> QED
    BY <1>5, <2>6, <2>7, <2>8, <2>9, <2>10
    DEF Receive, HandleRequestVoteResponse, HandleAppendEntriesResponse
<1>6. ASSUME NEW n \in Server, StartElection(n) PROVE Grows
  <2>1. current_term[n] + 1 \in Nat /\ current_term[n] + 1 >= current_term[n]
    BY <1>1, SMT
  <2>2. /\ current_term' = [current_term EXCEPT ![n] = current_term[n] + 1]
        /\ log' = log /\ grants \subseteq grants' /\ elected' = elected
    BY <1>6 DEF StartElection, BecomeCandidate
  <2> QED
    BY <1>3, <2>1, <2>2
<1>7. ASSUME NEW n \in Server, SubmitWrite(n) PROVE Grows
  BY <1>4, <1>7 DEF SubmitWrite, Submit
<1>8. ASSUME NEW n \in Server, Serve(n) \/ CallReturns(n) PROVE Grows
  BY <1>5, <1>8 DEF Serve, CallReturns, Exchange, Receive
<1>9. ASSUME NEW n \in Server, QuietTick(n) PROVE Grows
  BY <1>2, <1>9 DEF QuietTick, LeaderTick, FollowerCandidateTick, durable
<1>10. ASSUME NEW n \in Server,
              \/ StartHeartbeats(n) \/ CallPeer(n) \/ CallRefused(n) \/ CallLost(n)
              \/ TickEnds(n) \/ Crash(n)
       PROVE  Grows
  BY <1>2, <1>10 DEF StartHeartbeats, CallPeer, CallRefused, CallLost, TickEnds, Crash,
                     ComeBack, durable, vars
<1>11. CASE UNCHANGED rpcVars
  BY <1>2, <1>11 DEF rpcVars, vars, durable
<1> QED
  BY <1>6, <1>7, <1>8, <1>9, <1>10, <1>11 DEF NextRpc

-----------------------------------------------------------------------------
\* WasElected(c, t) after the step.
NowElected(c, t) == \E u \in Term : u <= t /\ <<u, c>> \in elected'

\* What a step leaves of node k for LeadInv, BeatInv and its part of SoundInv.
Follows(k) ==
    /\ state'[k] = "LEADER" => \/ state[k] = "LEADER" /\ current_term'[k] = current_term[k]
                               \/ <<current_term'[k], k>> \in elected'
    /\ \/ leader_id'[k] \in {Nil, leader_id[k]}
       \/ NowElected(leader_id'[k], current_term'[k])
    /\ thread'[k].loop = "beat" =>
         \/ state[k] = "LEADER" /\ state'[k] = "LEADER" /\ current_term'[k] = current_term[k]
         \/ /\ thread[k].loop = "beat" /\ log'[k] = log[k]
            /\ \/ state'[k] = state[k] /\ current_term'[k] = current_term[k]
               \/ state'[k] = "FOLLOWER" /\ current_term'[k] > current_term[k]
    /\ \A m \in thread'[k].ballot :
         m \in thread[k].ballot \/ (m.type = "RequestVote" /\ Sound(m)')

\* What every step has to show.
Stands == /\ Core' /\ \A k \in Server : Follows(k)
          /\ \A m \in msgs' : m \in msgs \/ Sound(m)'

LEMMA StandsSuffices ==
    ASSUME RpcInv, RpcTypeOK', Grows, Stands
    PROVE  RpcInv'
<1>1. /\ TypeOK /\ TypeOK' /\ LogTermInv /\ SoundInv /\ LeadInv /\ BeatInv
      /\ thread \in [Server -> [loop : {"none", "vote", "beat"}, left : SUBSET Server,
                                ballot : SUBSET Message, peer : Server \cup {Nil}]]
  BY DEF RpcInv, RpcTypeOK
<1>2. LogTermInv'
  BY <1>1, LogsGrow
<1>3. \A k \in Server : /\ current_term[k] \in Nat /\ current_term'[k] \in Nat
                        /\ current_term[k] \in Term /\ current_term'[k] \in Term
                        /\ current_term'[k] >= current_term[k]
  <2>1. /\ \A u \in Term : u \in Nat
        /\ current_term \in [Server -> Term] /\ current_term' \in [Server -> Term]
    BY <1>1, SMT DEF TypeOK, Term
  <2> QED
    BY <2>1 DEF Grows
<1>4. SoundInv'
  <2>1. \A m \in msgs' : Sound(m)'
    <3> SUFFICES ASSUME NEW m \in msgs', m \in msgs PROVE Sound(m)'
      BY DEF Stands
    <3>1. m \in Message /\ Sound(m)
      BY <1>1 DEF TypeOK, SoundInv
    <3> QED
      BY <1>1, <3>1, StaysSound
  <2>2. ASSUME NEW k \in Server, NEW m \in thread'[k].ballot
        PROVE  m.type = "RequestVote" /\ Sound(m)'
    <3> SUFFICES ASSUME m \in thread[k].ballot PROVE m.type = "RequestVote" /\ Sound(m)'
      BY DEF Stands, Follows
    <3>1. m \in Message /\ Sound(m) /\ m.type = "RequestVote"
      BY <1>1 DEF SoundInv
    <3> QED
      BY <1>1, <3>1, StaysSound
  <2> QED
    BY <2>1, <2>2 DEF SoundInv
<1>5. ASSUME NEW k \in Server, NEW c, WasElected(c, current_term[k])
      PROVE  NowElected(c, current_term'[k])
  <2>1. PICK u \in Term : u <= current_term[k] /\ <<u, c>> \in elected
    BY <1>5 DEF WasElected
  <2>2. u \in Nat
    BY SMT DEF Term
  <2>3. u <= current_term'[k]
    BY <1>3, <2>1, <2>2, SMT
  <2> QED
    BY <2>1, <2>3 DEF WasElected, NowElected, Grows
<1>6. ASSUME NEW k \in Server, NEW c, <<current_term[k], c>> \in elected
      PROVE  NowElected(c, current_term'[k])
  BY <1>3, <1>6 DEF WasElected, NowElected, Grows
<1>7. LeadInv'
  <2> SUFFICES ASSUME NEW k \in Server
               PROVE  /\ state'[k] = "LEADER" => <<current_term'[k], k>> \in elected'
                      /\ thread'[k].loop = "beat" => NowElected(k, current_term'[k])
                      /\ leader_id'[k] # Nil => NowElected(leader_id'[k], current_term'[k])
    BY DEF LeadInv, WasElected, NowElected
  <2>1. Follows(k)
    BY DEF Stands
  <2>2. state'[k] = "LEADER" => <<current_term'[k], k>> \in elected'
    BY <1>1, <2>1 DEF Follows, LeadInv, Grows
  <2>3. thread'[k].loop = "beat" => NowElected(k, current_term'[k])
    BY <1>1, <1>5, <1>6, <2>1 DEF Follows, LeadInv
  <2>4. leader_id'[k] # Nil => NowElected(leader_id'[k], current_term'[k])
    BY <1>1, <1>5, <2>1 DEF Follows, LeadInv
  <2> QED
    BY <2>2, <2>3, <2>4
<1>8. BeatInv'
  <2> SUFFICES ASSUME NEW k \in Server, thread'[k].loop = "beat", state'[k] # "LEADER"
               PROVE  /\ state'[k] = "FOLLOWER"
                      /\ \A i \in 1..Len(log'[k]) : log'[k][i] < current_term'[k]
    BY DEF BeatInv
  <2>1. /\ thread[k].loop = "beat" /\ log'[k] = log[k]
        /\ \/ state'[k] = state[k] /\ current_term'[k] = current_term[k]
           \/ state'[k] = "FOLLOWER" /\ current_term'[k] > current_term[k]
    BY DEF Stands, Follows
  <2>2. CASE state'[k] = state[k] /\ current_term'[k] = current_term[k]
    BY <1>1, <2>1, <2>2 DEF BeatInv
  <2>3. CASE state'[k] = "FOLLOWER" /\ current_term'[k] > current_term[k]
    <3>1. \A i \in 1..Len(log[k]) : log[k][i] \in Nat /\ log[k][i] <= current_term[k]
      BY <1>1, NodeTypes DEF LogTermInv
    <3> QED
      BY <1>3, <2>1, <2>3, <3>1, SMT
  <2> QED
    BY <2>1, <2>2, <2>3
<1> QED
  BY <1>2, <1>4, <1>7, <1>8 DEF RpcInv, Stands

\* A node whose role, term and leader stay follows.
LEMMA AsBefore ==
    ASSUME NEW k \in Server, state'[k] = state[k], current_term'[k] = current_term[k],
           leader_id'[k] \in {Nil, leader_id[k]}, thread'[k].ballot \subseteq thread[k].ballot,
           thread'[k].loop = "beat" => thread[k].loop = "beat" /\ log'[k] = log[k]
    PROVE  Follows(k)
BY DEF Follows

\* A handler touches only the node that runs it.
LEMMA HandlerTouches ==
    ASSUME TypeOK, NEW m \in msgs, Receive(m), NEW k \in Server \ {m.dst}
    PROVE  Same(k) /\ leader_id'[k] = leader_id[k] /\ log'[k] = log[k]
<1>1. /\ state \in [Server -> {"FOLLOWER", "CANDIDATE", "LEADER"}]
      /\ current_term \in [Server -> Term] /\ voted_for \in [Server -> Server \cup {Nil}]
      /\ votes_received \in [Server -> Nat] /\ vote_granted \in [Server -> SUBSET Server]
      /\ leader_id \in [Server -> Server \cup {Nil}] /\ log \in [Server -> Seq(Term)]
      /\ m.dst \in Server
  BY MessageFields DEF TypeOK
<1>2. CASE HandleRequestVote(m)
  <2>1. PICK t, v :
           \/ BecomeFollower(m.dst, t, v, Nil)
           \/ /\ voted_for' = [voted_for EXCEPT ![m.dst] = v]
              /\ UNCHANGED <<state, current_term, votes_received, leader_id>>
    BY <1>2 DEF HandleRequestVote
  <2>2. UNCHANGED <<log, vote_granted>>
    BY <1>2 DEF HandleRequestVote
  <2>3. QED
    BY <1>1, <2>1, <2>2, SMT DEF BecomeFollower, Same
<1>3. CASE HandleAppendEntries(m)
  BY <1>1, <1>3, SMT DEF HandleAppendEntries, BecomeFollower, Same
<1>4. CASE StepDown(m)
  BY <1>1, <1>4 DEF StepDown, BecomeFollower, Same
<1>5. CASE CountVote(m)
  BY <1>1, <1>5, SMT DEF CountVote, BecomeLeader, Same, election
<1>6. CASE RecordProgress(m)
  BY <1>1, <1>6 DEF RecordProgress, Same, durable, election
<1> QED
  BY <1>2, <1>3, <1>4, <1>5, <1>6
  DEF Receive, HandleRequestVoteResponse, HandleAppendEntriesResponse

LEMMA ServeVote ==
    ASSUME RpcInv, RpcTypeOK', Grows, NEW m \in msgs, HandleRequestVote(m),
           thread' = thread, IsIdle(m.dst)
    PROVE  Stands
<1> DEFINE n == m.dst
           resp(g) == [type |-> "RequestVoteResp", src |-> n, dst |-> m.src,
                       term |-> current_term[n], vote_granted |-> g]
<1>1. /\ TypeOK /\ TypeOK' /\ LogTermInv /\ Core /\ Sound(m)
      /\ n \in Server /\ m.src \in Server /\ m.src # n /\ m.term \in Term
      /\ m.type = "RequestVote"
  BY MessageFields DEF RpcInv, RpcTypeOK, SoundInv, HandleRequestVote
<1>2. /\ current_term[n] \in Nat /\ m.term \in Nat /\ LastLogTerm(n) \in Nat
      /\ current_term[m.src] \in Nat /\ m.last_log_term \in Nat
  <2>1. m \in Message
    BY <1>1 DEF TypeOK
  <2>2. m.last_log_term \in Nat
    BY <1>1, <2>1 DEF Message
  <2> QED
    BY <1>1, <2>2, NodeTypes, SMT DEF Term
<1>3. m.term <= current_term[m.src] /\ m.last_log_term < m.term
  BY <1>1 DEF Sound
<1>4. /\ state \in [Server -> {"FOLLOWER", "CANDIDATE", "LEADER"}]
      /\ current_term \in [Server -> Term] /\ voted_for \in [Server -> Server \cup {Nil}]
      /\ leader_id \in [Server -> Server \cup {Nil}]
  BY <1>1 DEF TypeOK
<1>5. /\ \A k \in Server \ {n} : Same(k) /\ leader_id'[k] = leader_id[k] /\ log'[k] = log[k]
      /\ elected' = elected
      /\ vote_granted' = vote_granted
  BY <1>1, HandlerTouches DEF Receive, HandleRequestVote
<1>6. \/ /\ m.term > current_term[n]
         /\ state'[n] = "FOLLOWER" /\ current_term'[n] = m.term
         /\ leader_id'[n] = Nil
      \/ /\ m.term <= current_term[n]
         /\ state'[n] = state[n] /\ current_term'[n] = current_term[n]
         /\ leader_id'[n] = leader_id[n] /\ votes_received'[n] = votes_received[n]
  <2>1. CASE NewerTerm(n, m)
    BY <1>1, <1>4, <2>1, ZenonT(30) DEF HandleRequestVote, BecomeFollower, NewerTerm
  <2>2. CASE ~NewerTerm(n, m)
    <3>1. m.term <= current_term[n]
      BY <1>2, <2>2, SMT DEF NewerTerm
    <3>2. UNCHANGED <<state, current_term, votes_received, leader_id>>
      BY <2>2 DEF HandleRequestVote
    <3>3. QED
      BY <3>1, <3>2
  <2> QED
    BY <2>1, <2>2
<1>7. \A k \in Server : Follows(k)
  <2>1. ASSUME NEW k \in Server \ {n} PROVE Follows(k)
    BY <1>5, AsBefore DEF Same
  <2>2. Follows(n)
    BY <1>1, <1>6 DEF Follows, IsIdle
  <2> QED
    BY <2>1, <2>2
\* The vote is given.
<1>8. CASE /\ grants' = grants \cup {<<n, m.term, m.src>>} /\ voted_for'[n] = m.src
           /\ LogUpToDate(n, m) /\ m.term >= current_term[n]
           /\ m.term > current_term[n] \/ voted_for[n] \in {Nil, m.src}
           /\ \E g \in BOOLEAN : msgs' = Handled(m, {resp(g)})
  <2>1. LastLogTerm(n) < m.term
    <3>1. m.last_log_term > LastLogTerm(n) \/ m.last_log_term = LastLogTerm(n)
      BY <1>8 DEF LogUpToDate
    <3>2. QED
      BY <1>2, <1>3, <3>1, SMT
  <2>2. /\ current_term'[n] = m.term
        /\ \/ m.term > current_term[n] /\ state'[n] = "FOLLOWER"
           \/ /\ m.term = current_term[n] /\ voted_for[n] \in {Nil, m.src}
              /\ state'[n] = state[n]
    BY <1>2, <1>6, <1>8, SMT
  <2>3. Core'
    <3>1. m.src \in Server \ {n} /\ \A k \in Server \ {n} : Same(k)
      BY <1>1, <1>5
    <3> HIDE DEF n
    <3> QED
      BY <1>1, <1>5, <1>8, <2>1, <2>2, <3>1, VoteStep
  <2>4. ASSUME NEW k \in msgs', k \notin msgs PROVE Sound(k)'
    <3>1. /\ k.type = "RequestVoteResp" /\ k.src = n /\ k.dst = m.src
          /\ k.term = current_term[n]
      BY <1>8, <2>4, SMT DEF Handled
    <3>2. <<n, current_term[n], m.src>> \in grants' \/ current_term[n] < current_term'[m.src]
      <4>1. CASE m.term = current_term[n]
        BY <1>8, <4>1
      <4>2. CASE m.term > current_term[n]
        <5>1. current_term'[m.src] = current_term[m.src]
          BY <1>1, <1>5, ZenonT(30) DEF Same
        <5> QED
          BY <1>2, <1>3, <4>2, <5>1, SMT
      <4> QED
        BY <2>2, <4>1, <4>2
    <3> QED
      BY <3>1, <3>2 DEF Sound
  <2> QED
    BY <1>7, <2>3, <2>4, ZenonT(30) DEF Stands
\* The vote is refused.
<1>9. CASE /\ grants' = grants /\ msgs' = Handled(m, {resp(FALSE)})
           /\ voted_for'[n] = IF m.term > current_term[n] THEN Nil ELSE voted_for[n]
  <2>1. \/ Same(n)
        \/ /\ state'[n] = "FOLLOWER"
           /\ current_term'[n] > current_term[n] /\ voted_for'[n] = Nil
    BY <1>2, <1>5, <1>6, <1>9, SMT DEF Same
  <2>2. Core'
    <3> HIDE DEF n
    <3> QED
      BY <1>1, <1>5, <1>9, <2>1, NoVoteStep
  <2>3. ASSUME NEW k \in msgs', k \notin msgs PROVE Sound(k)'
    <3>1. k = resp(FALSE)
      BY <1>9, <2>3 DEF Handled
    <3>2. k.type = "RequestVoteResp" /\ ~k.vote_granted
      BY <3>1
    <3> QED
      BY <3>2 DEF Sound
  <2> QED
    BY <1>7, <2>2, <2>3 DEF Stands
<1> QED
  <2>1. CASE NewerTerm(n, m)
    <3>1. m.term > current_term[n] /\ m.term >= current_term[n]
      BY <1>2, <2>1, SMT DEF NewerTerm
    <3> QED
      BY <1>1, <1>4, <1>8, <1>9, <2>1, <3>1 DEF HandleRequestVote, BecomeFollower, CanVoteFor
  <2>2. CASE ~NewerTerm(n, m)
    <3>1. ~(m.term > current_term[n])
      BY <2>2 DEF NewerTerm
    <3> QED
      BY <1>1, <1>4, <1>8, <1>9, <2>2, <3>1 DEF HandleRequestVote, CanVoteFor
  <2> QED
    BY <2>1, <2>2

LEMMA ServeAppend ==
    ASSUME RpcInv, RpcTypeOK', Grows, NEW m \in msgs, HandleAppendEntries(m),
           thread' = thread, IsIdle(m.dst)
    PROVE  Stands
<1> DEFINE n == m.dst
<1>1. /\ TypeOK /\ TypeOK' /\ LogTermInv /\ Core /\ WasElected(m.src, m.term)
      /\ n \in Server /\ m.src \in Server /\ m.term \in Term
  BY MessageFields DEF RpcInv, RpcTypeOK, SoundInv, Sound, HandleAppendEntries
<1>2. current_term[n] \in Nat /\ m.term \in Nat
  BY <1>1, NodeTypes, SMT DEF Term
<1>3. /\ state \in [Server -> {"FOLLOWER", "CANDIDATE", "LEADER"}]
      /\ current_term \in [Server -> Term] /\ voted_for \in [Server -> Server \cup {Nil}]
      /\ leader_id \in [Server -> Server \cup {Nil}]
  BY <1>1 DEF TypeOK
<1>4. /\ \A k \in Server \ {n} : Same(k) /\ leader_id'[k] = leader_id[k] /\ log'[k] = log[k]
      /\ UNCHANGED <<grants, elected, vote_granted>>
  BY <1>1, HandlerTouches DEF Receive, HandleAppendEntries
<1>5. \/ /\ state'[n] = "FOLLOWER" /\ current_term'[n] = m.term /\ voted_for'[n] = Nil
         /\ leader_id'[n] \in {Nil, m.src}
         /\ m.term > current_term[n] \/ (m.term = current_term[n] /\ state[n] # "FOLLOWER")
      \/ /\ Same(n)
         /\ leader_id'[n] = leader_id[n] \/ (leader_id'[n] = m.src /\ ~(m.term < current_term[n]))
         /\ ~(m.term > current_term[n])
  <2>1. CASE NewerTerm(n, m) \/ (m.term = current_term[n] /\ state[n] # "FOLLOWER")
    BY <1>1, <1>3, <2>1 DEF HandleAppendEntries, BecomeFollower, NewerTerm
  <2>2. CASE ~(NewerTerm(n, m) \/ (m.term = current_term[n] /\ state[n] # "FOLLOWER"))
    BY <1>1, <1>3, <2>2 DEF HandleAppendEntries, NewerTerm, Same
  <2> QED
    BY <2>1, <2>2
<1>6. \A t : t = m.term => NowElected(m.src, t)
  BY <1>1 DEF WasElected, NowElected, Grows
<1>7. \A k \in Server : Follows(k)
  <2>1. ASSUME NEW k \in Server \ {n} PROVE Follows(k)
    BY <1>4, AsBefore DEF Same
  <2>2. Follows(n)
    <3>1. leader_id'[n] \in {Nil, leader_id[n]} \/ NowElected(leader_id'[n], current_term'[n])
      <4>1. ~(m.term > current_term[n]) /\ ~(m.term < current_term[n]) => m.term = current_term[n]
        BY <1>2, SMT
      <4> QED
        BY <1>5, <1>6, <4>1 DEF Same
    <3>2. state'[n] = "LEADER" => state[n] = "LEADER" /\ current_term'[n] = current_term[n]
      BY <1>5 DEF Same
    <3> QED
      BY <3>1, <3>2 DEF Follows, IsIdle
  <2> QED
    BY <2>1, <2>2
<1>8. Core'
  <2>1. \/ Same(n)
        \/ /\ state'[n] = "FOLLOWER"
           /\ \/ current_term'[n] > current_term[n] /\ voted_for'[n] = Nil
              \/ /\ current_term'[n] = current_term[n]
                 /\ state[n] # "FOLLOWER" /\ voted_for'[n] = Nil
    BY <1>5
  <2> HIDE DEF n
  <2> QED
    BY <1>1, <1>4, <2>1, NoVoteStep
<1>9. ASSUME NEW k \in msgs', k \notin msgs PROVE Sound(k)'
  <2>1. k.type = "AppendEntriesResp"
    BY <1>9, SMT DEF HandleAppendEntries, Handled
  <2> QED
    BY <2>1 DEF Sound
<1> QED
  BY <1>7, <1>8, <1>9 DEF Stands

LEMMA ReturnStands ==
    ASSUME RpcInv, RpcTypeOK', Grows, NEW n \in Server, CallReturns(n)
    PROVE  Stands
<1>1. /\ TypeOK /\ TypeOK' /\ LogTermInv /\ Core /\ RpcTypeOK /\ BeatInv
  BY DEF RpcInv, RpcTypeOK
<1>2. PICK m \in msgs : /\ m.dst = n /\ Receive(m)
                        /\ HandleRequestVoteResponse(m) \/ HandleAppendEntriesResponse(m)
  BY DEF CallReturns, Exchange, HandleRequestVoteResponse, HandleAppendEntriesResponse, Receive
<1>3. /\ Sound(m) /\ m.src # m.dst /\ m.term \in Nat /\ current_term[n] \in Nat
      /\ current_term[n] \in Term
  BY <1>1, MessageFields, NodeTypes, SMT DEF RpcInv, SoundInv, Term
<1>4. /\ \A k \in Server \ {n} : thread'[k] = thread[k]
      /\ thread'[n].loop = thread[n].loop /\ thread'[n].ballot = thread[n].ballot
  <2>1. \E left \in SUBSET thread[n].left : Moves(n, thread[n].loop, left, thread[n].ballot)
    BY <1>1, Threads
  <2> QED
    BY <2>1 DEF Moves
<1>5. ASSUME NEW k \in Server \ {n} PROVE Same(k) /\ Follows(k)
  BY <1>1, <1>2, <1>4, HandlerTouches, AsBefore DEF Same
<1>6. msgs' \subseteq msgs
  BY <1>2 DEF HandleRequestVoteResponse, HandleAppendEntriesResponse, StepDown, CountVote,
              RecordProgress, Handled
<1>7. /\ state \in [Server -> {"FOLLOWER", "CANDIDATE", "LEADER"}]
      /\ current_term \in [Server -> Term] /\ voted_for \in [Server -> Server \cup {Nil}]
      /\ leader_id \in [Server -> Server \cup {Nil}] /\ log \in [Server -> Seq(Term)]
  BY <1>1 DEF TypeOK
<1>8. CASE StepDown(m)
  <2>1. /\ state'[n] = "FOLLOWER" /\ current_term'[n] > current_term[n]
        /\ voted_for'[n] = Nil /\ leader_id'[n] = Nil /\ log' = log
        /\ UNCHANGED <<grants, elected>>
    BY <1>2, <1>7, <1>8 DEF StepDown, BecomeFollower, NewerTerm
  <2>2. Core'
    BY <1>1, <1>5, <2>1, NoVoteStep
  <2>3. Follows(n)
    BY <1>4, <2>1 DEF Follows
  <2> QED
    BY <1>5, <1>6, <2>2, <2>3 DEF Stands
<1>9. CASE CountVote(m) /\ m.type = "RequestVoteResp" /\ Counts(n, m)
  <2>1. Core'
    BY <1>1, <1>2, <1>3, <1>9, CountingStep
  <2>2. state[n] = "CANDIDATE" /\ thread[n].loop # "beat"
    BY <1>1, <1>9 DEF Counts, BeatInv
  <2>3. \/ /\ state'[n] = state[n] /\ leader_id'[n] = leader_id[n]
           /\ current_term' = current_term
        \/ /\ leader_id'[n] = n /\ current_term'[n] = current_term[n]
           /\ <<current_term[n], n>> \in elected'
    BY <1>2, <1>7, <1>9 DEF CountVote, BecomeLeader
  <2>4. <<current_term[n], n>> \in elected' => NowElected(n, current_term[n])
    BY <1>3, SMT DEF NowElected
  <2>5. Follows(n)
    BY <1>4, <2>2, <2>3, <2>4 DEF Follows
  <2> QED
    BY <1>5, <1>6, <2>1, <2>5 DEF Stands
<1>10. CASE RecordProgress(m) \/ (CountVote(m) /\ ~Counts(n, m))
  <2>1. /\ Same(n) /\ leader_id' = leader_id /\ log' = log
        /\ UNCHANGED <<grants, elected>>
    BY <1>2, <1>10 DEF RecordProgress, CountVote, Same, durable, election
  <2>2. Core'
    BY <1>1, <1>5, <2>1, NoVoteStep
  <2>3. Follows(n)
    BY <1>4, <2>1, AsBefore DEF Same
  <2> QED
    BY <1>5, <1>6, <2>2, <2>3 DEF Stands
<1> QED
  BY <1>2, <1>8, <1>9, <1>10 DEF HandleRequestVoteResponse, HandleAppendEntriesResponse

\* become_candidate builds its request from a log whose entries are older than the
\* new term.
LEMMA ElectionStands ==
    ASSUME RpcInv, RpcTypeOK', Grows, NEW n \in Server, StartElection(n)
    PROVE  Stands
<1>1. /\ TypeOK /\ TypeOK' /\ LogTermInv /\ Core /\ RpcTypeOK
      /\ BecomeCandidate(n) /\ UNCHANGED <<log, msgs, elected>>
  BY DEF RpcInv, RpcTypeOK, StartElection
<1>2. current_term[n] + 1 \in Term /\ current_term[n] \in Nat
  BY <1>1, BoundAssumption, NodeTypes, SMT DEF BecomeCandidate, Term
<1>3. Moves(n, "vote", Peers(n), RequestVotes(n, current_term[n] + 1))
  BY <1>1, <1>2, Threads
<1>4. Core'
  BY <1>1, CandidacyStep
<1>5. /\ state'[n] = "CANDIDATE" /\ leader_id'[n] = Nil
      /\ current_term'[n] = current_term[n] + 1
      /\ \A k \in Server \ {n} : Same(k) /\ leader_id'[k] = leader_id[k]
  BY <1>1, SMT DEF BecomeCandidate, TypeOK, Same
<1>6. ASSUME NEW k \in Server \ {n} PROVE Follows(k)
  BY <1>1, <1>3, <1>5, AsBefore DEF Same, Moves
<1>7. ASSUME NEW m \in RequestVotes(n, current_term[n] + 1)
      PROVE  m.type = "RequestVote" /\ Sound(m)'
  <2>1. /\ m.type = "RequestVote" /\ m.src = n /\ m.term = current_term[n] + 1
        /\ m.last_log_term = LastLogTerm(n)
    BY SMT DEF RequestVotes
  <2>2. LastLogTerm(n) <= current_term[n] /\ LastLogTerm(n) \in Nat
    BY <1>1, LastTermBound, NodeTypes
  <2>3. m.last_log_term < m.term /\ m.term <= current_term'[m.src]
    BY <1>2, <1>5, <2>1, <2>2, SMT
  <2> QED
    BY <2>1, <2>3 DEF Sound
<1>8. Follows(n)
  BY <1>3, <1>5, <1>7 DEF Follows, Moves
<1> QED
  BY <1>1, <1>4, <1>6, <1>8 DEF Stands

\* The steps that only move the thread, the commit index or the network, and the
\* crash, after which a node is a follower with its vote.
LEMMA OthersStand ==
    ASSUME RpcInv, RpcTypeOK', Grows, NEW n \in Server,
           \/ StartHeartbeats(n) \/ QuietTick(n) \/ CallPeer(n) \/ CallRefused(n)
           \/ CallLost(n) \/ TickEnds(n) \/ SubmitWrite(n) \/ Crash(n)
    PROVE  Stands
<1>1. /\ TypeOK /\ TypeOK' /\ LogTermInv /\ Core /\ RpcTypeOK /\ LeadInv /\ SoundInv
  BY DEF RpcInv, RpcTypeOK
<1>2. ASSUME UNCHANGED <<state, current_term, voted_for, votes_received, vote_granted,
                         grants, elected>>
      PROVE  Core'
  <2>1. \A k \in Server : Same(k)
    BY <1>2 DEF Same
  <2> QED
    BY <1>1, <1>2, <2>1, NoVoteStep
<1>3. ASSUME UNCHANGED <<state, current_term, leader_id, log>>,
             \A k \in Server : /\ thread'[k].ballot \subseteq thread[k].ballot
                               /\ thread'[k].loop = "beat" => thread[k].loop = "beat"
      PROVE  \A k \in Server : Follows(k)
  BY <1>3, AsBefore
<1>4. CASE StartHeartbeats(n)
  <2>1. /\ Moves(n, "beat", Peers(n), {}) /\ UNCHANGED vars /\ state[n] = "LEADER"
    BY <1>1, <1>4, Threads DEF StartHeartbeats
  <2>2. /\ UNCHANGED <<state, current_term, voted_for, votes_received, vote_granted,
                       grants, elected, leader_id, log, msgs>>
    BY <2>1 DEF vars, durable, election
  <2>3. ASSUME NEW k \in Server \ {n} PROVE Follows(k)
    BY <2>1, <2>2, AsBefore DEF Moves
  <2>4. Follows(n)
    BY <2>1, <2>2 DEF Follows, Moves
  <2> QED
    BY <1>2, <2>2, <2>3, <2>4 DEF Stands
<1>5. CASE QuietTick(n)
  BY <1>2, <1>3, <1>5
  DEF QuietTick, LeaderTick, FollowerCandidateTick, durable, election, Stands
<1>6. CASE CallPeer(n)
  <2>1. \E left \in SUBSET thread[n].left : Moves(n, thread[n].loop, left, thread[n].ballot)
    BY <1>1, <1>6, Threads
  <2>2. /\ UNCHANGED <<state, current_term, voted_for, votes_received, vote_granted,
                       grants, elected, leader_id, log>>
        /\ msgs' \subseteq msgs \cup Outgoing(n)
        /\ thread[n].left # {}
    BY <1>6 DEF CallPeer, durable, election
  <2>3. ASSUME NEW m \in Outgoing(n) PROVE Sound(m)'
    <3>1. Sound(m) /\ m \in Message
      <4>1. CASE thread[n].loop = "vote"
        BY <1>1, <4>1 DEF Outgoing, SoundInv, RpcTypeOK
      <4>2. CASE thread[n].loop # "vote"
        <5>1. thread[n].loop = "beat"
          <6>1. thread[n].loop \in {"none", "vote", "beat"} /\ ~IsIdle(n)
            BY <1>1, <2>2 DEF RpcTypeOK
          <6> QED
            BY <4>2, <6>1 DEF IsIdle
        <5>2. m \in Heartbeats(n) /\ m \in Message
          BY <1>1, <4>2, <5>1, HeartbeatMessages, ZenonT(30) DEF Outgoing, RpcTypeOK
        <5>3. m.type = "AppendEntries" /\ m.src = n /\ m.term = current_term[n]
          BY <5>2, HeartbeatFields
        <5> QED
          BY <1>1, <5>1, <5>2, <5>3 DEF Sound, LeadInv
      <4> QED
        BY <4>1, <4>2
    <3> QED
      BY <1>1, <3>1, StaysSound
  <2>4. \A k \in Server : Follows(k)
    BY <1>3, <2>1, <2>2 DEF Moves
  <2> QED
    BY <1>2, <2>2, <2>3, <2>4 DEF Stands
<1>7. CASE CallRefused(n) \/ CallLost(n)
  <2>1. \E left \in SUBSET thread[n].left : Moves(n, thread[n].loop, left, thread[n].ballot)
    BY <1>1, <1>7, Threads
  <2>2. /\ UNCHANGED <<state, current_term, voted_for, votes_received, vote_granted,
                       grants, elected, leader_id, log>>
        /\ msgs' \subseteq msgs
    BY <1>7 DEF CallRefused, CallLost, vars, durable, election
  <2>3. \A k \in Server : Follows(k)
    BY <1>3, <2>1, <2>2 DEF Moves
  <2> QED
    BY <1>2, <2>2, <2>3 DEF Stands
<1>8. CASE TickEnds(n)
  <2>1. Moves(n, "none", {}, {})
    BY <1>1, <1>8, Threads
  <2>2. UNCHANGED <<state, current_term, voted_for, votes_received, vote_granted,
                    grants, elected, leader_id, log, msgs>>
    BY <1>8 DEF TickEnds, durable, election
  <2>3. \A k \in Server : Follows(k)
    BY <1>3, <2>1, <2>2 DEF Moves
  <2> QED
    BY <1>2, <2>2, <2>3 DEF Stands
<1>9. CASE SubmitWrite(n)
  <2>1. /\ UNCHANGED <<state, current_term, voted_for, votes_received, vote_granted,
                       grants, elected, leader_id, msgs, thread>>
        /\ log' = [log EXCEPT ![n] = Append(@, current_term[n])]
        /\ thread[n].loop # "beat"
    BY <1>9 DEF SubmitWrite, Submit, election, IsIdle
  <2>2. \A k \in Server \ {n} : log'[k] = log[k]
    BY <1>1, <2>1 DEF TypeOK
  <2>3. \A k \in Server : Follows(k)
    BY <2>1, <2>2, AsBefore
  <2> QED
    BY <1>2, <2>1, <2>3 DEF Stands
<1>10. CASE Crash(n)
  <2>1. Moves(n, "none", {}, {})
    BY <1>1, <1>10, Threads
  <2>2. /\ state'[n] = "FOLLOWER" /\ leader_id'[n] = Nil
        /\ UNCHANGED <<current_term, voted_for, log, grants, elected>>
        /\ \A k \in Server \ {n} : Same(k) /\ leader_id'[k] = leader_id[k]
        /\ msgs' \subseteq msgs
    <3>1. /\ state \in [Server -> {"FOLLOWER", "CANDIDATE", "LEADER"}]
          /\ leader_id \in [Server -> Server \cup {Nil}]
          /\ votes_received \in [Server -> Nat] /\ vote_granted \in [Server -> SUBSET Server]
      BY <1>1 DEF TypeOK
    <3> QED
      BY <1>10, <3>1 DEF Crash, ComeBack, Same, durable
  <2>3. Core'
    BY <1>1, <2>2, NoVoteStep
  <2>4. ASSUME NEW k \in Server \ {n} PROVE Follows(k)
    BY <2>1, <2>2, AsBefore DEF Same, Moves
  <2>5. Follows(n)
    BY <2>1, <2>2 DEF Follows, Moves
  <2> QED
    BY <2>2, <2>3, <2>4, <2>5 DEF Stands
<1> QED
  BY <1>4, <1>5, <1>6, <1>7, <1>8, <1>9, <1>10

-----------------------------------------------------------------------------
LEMMA InitRpcInv == InitRpc => RpcInv
<1> SUFFICES ASSUME InitRpc PROVE RpcInv
  OBVIOUS
<1>1. TypeOK /\ Init /\ thread = [n \in Server |-> Idle]
  BY InitTypeOK DEF InitRpc
<1>2. \A n \in Server : thread[n].loop = "none" /\ thread[n].left = {} /\ thread[n].ballot = {}
  BY <1>1 DEF Idle
<1>3. RpcTypeOK
  <2>1. thread \in [Server -> [loop : {"none", "vote", "beat"}, left : SUBSET Server,
                               ballot : SUBSET Message, peer : Server \cup {Nil}]]
    BY <1>1 DEF Idle
  <2> QED
    BY <1>1, <1>2, <2>1 DEF RpcTypeOK
<1>4. Core
  BY <1>1 DEF Init, Core, VoteInv, TwoVotesInv, CandidateInv, ElectedInv
<1>5. LogTermInv
  <2>1. \A n \in Server : 1..Len(log[n]) = {}
    BY <1>1, SMT DEF Init
  <2> QED
    BY <2>1 DEF LogTermInv
<1>6. SoundInv /\ LeadInv /\ BeatInv
  BY <1>1, <1>2 DEF Init, SoundInv, LeadInv, BeatInv
<1> QED
  BY <1>3, <1>4, <1>5, <1>6 DEF RpcInv

LEMMA NextRpcInv == RpcInv /\ [NextRpc]_rpcVars => RpcInv'
<1> SUFFICES ASSUME RpcInv, [NextRpc]_rpcVars PROVE RpcInv'
  OBVIOUS
<1>1. RpcTypeOK' /\ Grows
  BY NextRpcTypeOK, NextGrows DEF RpcInv
<1>2. ASSUME NEW n \in Server, Serve(n) PROVE Stands
  <2>1. PICK m \in msgs : m.dst = n /\ (HandleRequestVote(m) \/ HandleAppendEntries(m))
    BY <1>2 DEF Serve
  <2>2. thread' = thread /\ IsIdle(m.dst)
    BY <1>2, <2>1 DEF Serve
  <2> QED
    BY <1>1, <2>1, <2>2, ServeVote, ServeAppend
<1>3. ASSUME NextRpc PROVE Stands
  BY <1>1, <1>2, <1>3, ReturnStands, ElectionStands, OthersStand DEF NextRpc
<1>4. CASE NextRpc
  BY <1>1, <1>3, <1>4, StandsSuffices
<1>5. CASE UNCHANGED rpcVars
  <2>1. /\ UNCHANGED <<state, current_term, log, leader_id, msgs, grants, elected, thread>>
        /\ \A k \in Server : Same(k)
    BY <1>5 DEF rpcVars, vars, durable, election, Same
  <2>2. TypeOK /\ TypeOK' /\ LogTermInv /\ Core
    BY <1>1 DEF RpcInv, RpcTypeOK
  <2>3. Core'
    BY <1>1, <2>1, <2>2, NoVoteStep, ServerAssumption
  <2>4. \A k \in Server : Follows(k)
    BY <2>1, AsBefore
  <2>5. Stands
    BY <2>1, <2>3, <2>4 DEF Stands
  <2> QED
    BY <1>1, <2>5, StandsSuffices
<1> QED
  BY <1>4, <1>5

\* The inductive invariant, for calls that are refused, lost or never answered, nodes
\* that crash in the middle of a loop, and answers handled between two sends.
THEOREM RpcInvariant == SpecRpc => []RpcInv
BY InitRpcInv, NextRpcInv, PTL DEF SpecRpc

\* Every field keeps its type, and prev_log_index = next_index - 1 never wraps
\* around in the heartbeat loop, also after an answer has demoted the node there.
THEOREM RpcTypesHold == SpecRpc => []RpcTypeOK
<1>1. RpcInv => RpcTypeOK
  BY DEF RpcInv
<1> QED
  BY <1>1, RpcInvariant, PTL

\* With remote calls in the send loops there is still at most one winner in a term:
\* a node in the majorities of two winners has voted for both, so it is one of
\* them, and a winner has voted for nobody but itself.
THEOREM RpcElectionSafe == SpecRpc => []ElectionSafety
<1>1. RpcInv => ElectionSafety
  <2> SUFFICES ASSUME RpcInv, NEW e \in elected, NEW f \in elected, e[1] = f[1]
               PROVE  e[2] = f[2]
    BY DEF ElectionSafety
  <2> DEFINE t == e[1]
             c == e[2]
             d == f[2]
  <2>1. /\ TypeOK /\ TwoVotesInv /\ ElectedInv
    BY DEF RpcInv, RpcTypeOK, Core
  <2>2. t \in Term /\ c \in Server /\ d \in Server /\ <<t, c>> \in elected /\ <<t, d>> \in elected
    <3>1. e \in Term \X Server /\ f \in Term \X Server
      BY <2>1 DEF TypeOK
    <3> QED
      BY <3>1, SMT
  <2> HIDE DEF t, c, d
  <2>3. PICK P \in SUBSET Server :
            IsMajority(Cardinality(P)) /\ \A v \in P : <<v, t, c>> \in grants
    BY <2>1, <2>2 DEF ElectedInv
  <2>4. PICK Q \in SUBSET Server :
            IsMajority(Cardinality(Q)) /\ \A v \in Q : <<v, t, d>> \in grants
    BY <2>1, <2>2 DEF ElectedInv
  <2>5. PICK v \in Server : <<v, t, c>> \in grants /\ <<v, t, d>> \in grants
    BY <2>3, <2>4, MajoritiesMeet
  <2>6. v = c \/ v = d \/ c = d
    BY <2>1, <2>2, <2>5, SMT DEF TwoVotesInv
  <2>7. c = d
    BY <2>1, <2>2, <2>5, <2>6 DEF ElectedInv
  <2> QED
    BY <2>7 DEF c, d
<1> QED
  BY <1>1, RpcInvariant, PTL

\* Only nodes that have won an election are ever followed (raft_get_leader_id).
THEOREM RpcFollowed == SpecRpc => []FollowedWasElected
<1>1. RpcInv => FollowedWasElected
  <2> SUFFICES ASSUME RpcInv, NEW n \in Server, leader_id[n] # Nil
               PROVE  \E t \in 0..current_term[n] : <<t, leader_id[n]>> \in elected
    BY DEF FollowedWasElected
  <2>1. current_term[n] \in Nat
    BY NodeTypes DEF RpcInv, RpcTypeOK
  <2>2. PICK u \in Term : u <= current_term[n] /\ <<u, leader_id[n]>> \in elected
    BY DEF RpcInv, LeadInv, WasElected
  <2>3. u \in Nat
    BY SMT DEF Term
  <2>4. u \in 0..current_term[n]
    BY <2>1, <2>2, <2>3, SMT
  <2> QED
    BY <2>2, <2>4
<1> QED
  BY <1>1, RpcInvariant, PTL

\* The commit loop of leader_tick commits nothing for a node that was demoted by an
\* answer: the node is in a term of which it has no entry (BeatInv).
THEOREM RpcDemoted == SpecRpc => DemotedCommitsNothing
<1> DEFINE A == \A n \in Server : thread[n].loop = "beat" /\ state[n] # "LEADER"
                                      => commit_index'[n] <= commit_index[n]
<1>1. RpcInv /\ [NextRpc]_rpcVars => [A]_rpcVars
  <2> SUFFICES ASSUME RpcInv, NextRpc, NEW n \in Server, thread[n].loop = "beat",
                      state[n] # "LEADER"
               PROVE  commit_index'[n] <= commit_index[n]
    OBVIOUS
  <2>1. commit_index \in [Server -> Nat] /\ TypeOK
    BY DEF RpcInv, RpcTypeOK, TypeOK
  <2>2. CASE commit_index'[n] = commit_index[n]
    BY <2>1, <2>2, SMT
  <2>3. ASSUME NEW k \in Server, Serve(k) PROVE commit_index'[n] = commit_index[n]
    <3>1. k # n
      BY <2>3 DEF Serve, IsIdle
    <3> QED
      BY <2>1, <2>3, <3>1 DEF Serve, HandleRequestVote, HandleAppendEntries, progress
  <2>4. ASSUME NEW k \in Server, QuietTick(k) PROVE commit_index'[n] = commit_index[n]
    <3>1. k # n
      BY <2>4 DEF QuietTick, IsIdle
    <3> QED
      BY <2>1, <2>4, <3>1 DEF QuietTick, LeaderTick, FollowerCandidateTick, CommitAndApply
  <2>5. ASSUME NEW k \in Server, TickEnds(k) PROVE commit_index'[n] = commit_index[n]
    <3>1. CASE k # n
      BY <2>1, <2>5, <3>1 DEF TickEnds, CommitAndApply
    <3>2. CASE k = n
      <4>1. Committable(n) = {}
        <5>1. \A i \in 1..Len(log[n]) : log[n][i] < current_term[n]
          BY DEF RpcInv, BeatInv
        <5>2. \A i \in 1..Len(log[n]) : log[n][i] # current_term[n]
          BY <2>1, <5>1, NodeTypes, SMT
        <5>3. \A i \in commit_index[n] + 1 .. Len(log[n]) : i \in 1..Len(log[n])
          BY <2>1, NodeTypes, SMT
        <5> QED
          BY <5>2, <5>3 DEF Committable, TermAtIndex, LastLogIndex
      <4> QED
        BY <2>1, <2>5, <3>2, <4>1 DEF TickEnds, CommitAndApply
    <3> QED
      BY <3>1, <3>2
  <2>6. ASSUME NEW k \in Server, Crash(k) PROVE commit_index'[n] <= commit_index[n]
    BY <2>1, <2>6, SMT DEF Crash, ComeBack
  <2>7. ASSUME NEW k \in Server, CallReturns(k) PROVE commit_index'[n] = commit_index[n]
    BY <2>7 DEF CallReturns, HandleRequestVoteResponse, HandleAppendEntriesResponse, StepDown,
                CountVote, RecordProgress, progress
  <2>8. ASSUME NEW k \in Server,
               \/ StartElection(k) \/ StartHeartbeats(k) \/ CallPeer(k) \/ CallRefused(k)
               \/ CallLost(k) \/ SubmitWrite(k)
        PROVE  commit_index'[n] = commit_index[n]
    BY <2>8 DEF StartElection, StartHeartbeats, CallPeer, CallRefused, CallLost, SubmitWrite,
                Submit, vars, progress
  <2> QED
    BY <2>2, <2>3, <2>4, <2>5, <2>6, <2>7, <2>8 DEF NextRpc
<1> QED
  BY <1>1, RpcInvariant, PTL DEF SpecRpc, DemotedCommitsNothing

-----------------------------------------------------------------------------
\* A step leaves the log of n or appends to it the term n leads.
LEMMA RpcLogsExtend ==
    ASSUME RpcTypeOK, [NextRpc]_rpcVars, NEW n \in Server
    PROVE  Extends(n)
<1>1. TypeOK /\ log \in [Server -> Seq(Term)]
  BY DEF RpcTypeOK, TypeOK
<1>2. CASE log' = log
  BY <1>2 DEF Extends
<1>3. ASSUME NEW m \in msgs, Receive(m) PROVE Extends(n)
  <2>1. /\ m.dst \in Server
        /\ \/ log' = log
           \/ /\ log' = [log EXCEPT ![m.dst] = Append(@, current_term[m.dst])]
              /\ <<current_term[m.dst], m.dst>> \in elected'
    BY <1>1, <1>3, LogAndCommit
  <2> QED
    BY <1>1, <2>1 DEF Extends
<1>4. ASSUME NEW k \in Server, Serve(k) \/ CallReturns(k) PROVE Extends(n)
  BY <1>3, <1>4 DEF Serve, CallReturns, Exchange, Receive
<1>5. ASSUME NEW k \in Server, SubmitWrite(k) PROVE Extends(n)
  BY <1>1, <1>5 DEF SubmitWrite, Submit, Extends
<1>6. ASSUME NEW k \in Server, StartElection(k) \/ QuietTick(k) PROVE log' = log
  BY <1>6 DEF StartElection, QuietTick, LeaderTick, FollowerCandidateTick, durable
<1>7. ASSUME NEW k \in Server,
             \/ StartHeartbeats(k) \/ CallPeer(k) \/ CallRefused(k) \/ CallLost(k)
             \/ TickEnds(k) \/ Crash(k)
      PROVE  log' = log
  BY <1>7 DEF StartHeartbeats, CallPeer, CallRefused, CallLost, TickEnds, Crash, ComeBack,
              durable, vars
<1>8. CASE UNCHANGED rpcVars
  BY <1>2, <1>8 DEF rpcVars, vars, durable
<1> QED
  BY <1>2, <1>4, <1>5, <1>6, <1>7, <1>8 DEF NextRpc

\* Terms never fall and logs are only extended, whatever answers arrive in the
\* middle of a send loop and wherever a process dies.
THEOREM RpcDurableKept == SpecRpc => DurableGrows
<1> DEFINE A == \A n \in Server : /\ current_term'[n] >= current_term[n]
                                  /\ Len(log'[n]) >= Len(log[n])
                                  /\ \A i \in 1..Len(log[n]) : log'[n][i] = log[n][i]
<1>1. RpcTypeOK /\ [NextRpc]_rpcVars => [A]_vars
  <2> SUFFICES ASSUME RpcTypeOK, [NextRpc]_rpcVars, NEW n \in Server
               PROVE  /\ current_term'[n] >= current_term[n]
                      /\ Len(log'[n]) >= Len(log[n])
                      /\ \A i \in 1..Len(log[n]) : log'[n][i] = log[n][i]
    OBVIOUS
  <2>1. TypeOK /\ current_term[n] \in Term
    BY DEF RpcTypeOK, TypeOK
  <2>2. current_term'[n] >= current_term[n]
    BY NextGrows DEF Grows
  <2>3. log'[n] = log[n] \/ log'[n] = Append(log[n], current_term[n])
    BY RpcLogsExtend DEF Extends
  <2>4. /\ Len(log[n]) \in Nat /\ Len(Append(log[n], current_term[n])) = Len(log[n]) + 1
        /\ \A i \in 1..Len(log[n]) : Append(log[n], current_term[n])[i] = log[n][i]
    BY <2>1, Appended
  <2> QED
    BY <2>2, <2>3, <2>4, SMT
<1> QED
  BY <1>1, RpcTypesHold, PTL DEF SpecRpc, DurableGrows

\* Whoever is elected has the votes of a majority in that very term, although the
\* votes are counted while become_candidate is still asking for them.
THEOREM RpcMajorityElects == SpecRpc => []ElectedByMajority
<1>1. RpcInv => ElectedByMajority
  <2> SUFFICES ASSUME RpcInv, NEW e \in elected
               PROVE  IsMajority(Cardinality({v \in Server : <<v, e[1], e[2]>> \in grants}))
    BY DEF ElectedByMajority
  <2> DEFINE G == {v \in Server : <<v, e[1], e[2]>> \in grants}
  <2>1. e[1] \in Term /\ e[2] \in Server /\ e = <<e[1], e[2]>>
    BY SMT DEF RpcInv, RpcTypeOK, TypeOK
  <2>2. PICK Q \in SUBSET Server :
            IsMajority(Cardinality(Q)) /\ \A v \in Q : <<v, e[1], e[2]>> \in grants
    <3>1. ElectedInv
      BY DEF RpcInv, Core
    <3>2. <<e[1], e[2]>> \in elected
      BY <2>1
    <3> QED
      BY <2>1, <3>1, <3>2 DEF ElectedInv
  <2>3. Q \in SUBSET G /\ G \in SUBSET Server
    BY <2>2
  <2>4. IsFiniteSet(G)
    BY <2>3, ServerAssumption, FS_Subset
  <2>5. Cardinality(Q) <= Cardinality(G)
    BY <2>3, <2>4, FS_Subset
  <2>6. /\ Cardinality(Q) \in Nat /\ Cardinality(G) \in Nat
        /\ Cardinality(Server) \in Nat
    BY <2>2, <2>4, ServerAssumption, FS_Subset, FS_CardinalityType
  <2> QED
    BY <2>2, <2>5, <2>6, SMT DEF IsMajority
<1> QED
  BY <1>1, RpcInvariant, PTL

\* Logs match with calls that block, too: the entries of a term are all in the log
\* of the one node that was elected in it.
THEOREM RpcLogsMatch == SpecRpc => []LogMatching
<1>1. InitRpc => OwnEntries
  <2> SUFFICES ASSUME InitRpc PROVE OwnEntries
    OBVIOUS
  <2>1. \A n \in Server : 1..Len(log[n]) = {}
    BY SMT DEF InitRpc, Init
  <2> QED
    BY <2>1 DEF OwnEntries
<1>2. RpcInv /\ OwnEntries /\ [NextRpc]_rpcVars => OwnEntries'
  <2> SUFFICES ASSUME RpcInv, OwnEntries, [NextRpc]_rpcVars, NEW n \in Server,
                      NEW i \in 1..Len(log'[n])
               PROVE  <<log'[n][i], n>> \in elected'
    BY DEF OwnEntries
  <2>1. TypeOK /\ current_term[n] \in Term
    BY DEF RpcInv, RpcTypeOK, TypeOK
  <2>2. Extends(n) /\ elected \subseteq elected'
    BY RpcLogsExtend, NextGrows DEF RpcInv, Grows
  <2>3. CASE log'[n] = log[n]
    BY <2>2, <2>3 DEF OwnEntries
  <2>4. CASE /\ log'[n] = Append(log[n], current_term[n])
             /\ state[n] = "LEADER" \/ <<current_term[n], n>> \in elected'
    <3>1. i \in 1..Len(log[n]) \/ i = Len(log[n]) + 1
      BY <2>1, <2>4, Appended, SMT
    <3>2. CASE i \in 1..Len(log[n])
      <4>1. log'[n][i] = log[n][i]
        BY <2>1, <2>4, <3>2, Appended
      <4> QED
        BY <2>2, <3>2, <4>1 DEF OwnEntries
    <3>3. CASE i = Len(log[n]) + 1
      <4>1. log'[n][i] = current_term[n]
        BY <2>1, <2>4, <3>3, Appended, ZenonT(30)
      <4>2. <<current_term[n], n>> \in elected'
        BY <2>2, <2>4 DEF RpcInv, LeadInv
      <4> QED
        BY <4>1, <4>2
    <3> QED
      BY <3>1, <3>2, <3>3
  <2> QED
    BY <2>2, <2>3, <2>4 DEF Extends
<1>3. ElectionSafety /\ OwnEntries => LogMatching
  BY EntriesMatch
<1> QED
  BY <1>1, <1>2, <1>3, RpcInvariant, RpcElectionSafe, PTL DEF SpecRpc

LEMMA RpcCommitStep ==
    ASSUME RpcTypeOK, CommitWithinLog, [NextRpc]_rpcVars, NEW n \in Server
    PROVE  Held(n) \/ Forgets(n)
<1>1. /\ TypeOK /\ commit_index \in [Server -> Nat] /\ last_applied \in [Server -> Nat]
      /\ leader_id \in [Server -> Server \cup {Nil}]
  BY DEF RpcTypeOK, TypeOK
<1>2. CASE commit_index'[n] = commit_index[n] /\ last_applied'[n] = last_applied[n]
  BY <1>1, <1>2, RpcLogsExtend, StaysHeld DEF Extends
<1>3. ASSUME NEW m \in msgs, Receive(m) PROVE Held(n)
  BY <1>1, <1>3, HandlerHolds
<1>4. ASSUME NEW k \in Server, Serve(k) \/ CallReturns(k) PROVE Held(n)
  BY <1>3, <1>4 DEF Serve, CallReturns, Exchange, Receive
<1>5. ASSUME NEW k \in Server, QuietTick(k) \/ TickEnds(k) PROVE Held(n)
  <2>1. log' = log
    BY <1>5 DEF QuietTick, TickEnds, LeaderTick, FollowerCandidateTick, durable
  <2>2. \/ CommitAndApply(k)
        \/ ApplyCommitted(k, commit_index[k]) /\ commit_index' = commit_index
    BY <1>5 DEF QuietTick, TickEnds, LeaderTick, FollowerCandidateTick
  <2> QED
    BY <1>1, <2>1, <2>2, TickHolds
<1>6. ASSUME NEW k \in Server,
             \/ StartElection(k) \/ StartHeartbeats(k) \/ CallPeer(k) \/ CallRefused(k)
             \/ CallLost(k) \/ SubmitWrite(k)
      PROVE  commit_index'[n] = commit_index[n] /\ last_applied'[n] = last_applied[n]
  BY <1>6 DEF StartElection, StartHeartbeats, CallPeer, CallRefused, CallLost, SubmitWrite,
              Submit, progress, vars
<1>7. ASSUME NEW k \in Server, Crash(k)
      PROVE  \/ commit_index'[n] = commit_index[n] /\ last_applied'[n] = last_applied[n]
             \/ Forgets(n)
  BY <1>1, <1>7 DEF Crash, ComeBack, Forgets
<1>8. CASE UNCHANGED rpcVars
  BY <1>2, <1>8 DEF rpcVars, vars, progress
<1> QED
  BY <1>2, <1>4, <1>5, <1>6, <1>7, <1>8 DEF NextRpc

\* leader_tick runs its commit loop for whatever the node has become during its
\* calls, and still nothing is committed that the node does not hold.
THEOREM RpcCommittedIsHeld == SpecRpc => []CommitWithinLog
<1>1. InitRpc => CommitWithinLog
  <2> SUFFICES ASSUME InitRpc PROVE CommitWithinLog
    OBVIOUS
  <2>1. \A n \in Server : last_applied[n] = 0 /\ commit_index[n] = 0 /\ Len(log[n]) = 0
    BY SMT DEF InitRpc, Init
  <2> QED
    BY <2>1, SMT DEF CommitWithinLog
<1>2. RpcTypeOK /\ CommitWithinLog /\ [NextRpc]_rpcVars => CommitWithinLog'
  <2> SUFFICES ASSUME RpcTypeOK, CommitWithinLog, [NextRpc]_rpcVars, NEW n \in Server
               PROVE  last_applied'[n] <= commit_index'[n] /\ commit_index'[n] <= Len(log'[n])
    BY DEF CommitWithinLog
  <2>1. CASE Held(n)
    BY <2>1 DEF Held
  <2>2. CASE Forgets(n)
    <3>1. TypeOK /\ current_term[n] \in Term
      BY DEF RpcTypeOK, TypeOK
    <3>2. log'[n] = log[n] \/ log'[n] = Append(log[n], current_term[n])
      BY RpcLogsExtend DEF Extends
    <3>3. Len(log[n]) \in Nat /\ Len(Append(log[n], current_term[n])) = Len(log[n]) + 1
      BY <3>1, Appended
    <3>4. commit_index'[n] = 0 /\ last_applied'[n] = 0
      BY <2>2 DEF Forgets
    <3> QED
      BY <3>2, <3>3, <3>4, SMT
  <2> QED
    BY <2>1, <2>2, RpcCommitStep
<1> QED
  BY <1>1, <1>2, RpcTypesHold, PTL DEF SpecRpc

\* Only a restart takes back a commit index.
THEOREM RpcCommitsKept == SpecRpc => CommitNeverRegresses
<1> DEFINE A == \A n \in Server :
                    \/ commit_index'[n] >= commit_index[n]
                    \/ commit_index'[n] = 0 /\ last_applied'[n] = 0 /\ leader_id'[n] = Nil
<1>1. RpcTypeOK /\ CommitWithinLog /\ [NextRpc]_rpcVars => [A]_vars
  BY RpcCommitStep DEF Held, Forgets
<1> QED
  BY <1>1, RpcCommittedIsHeld, RpcTypesHold, PTL DEF SpecRpc, CommitNeverRegresses
=============================================================================
