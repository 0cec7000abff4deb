------------------------------- MODULE RaftRpc -------------------------------
(***************************************************************************)
(* The Raft node of RaftCore with the transport raft_rpc_integration.c     *)
(* gives it.  RaftCore takes send_rpc for a call that queues a message;    *)
(* raft_send_rpc_callback is a remote call: it connects, sends, blocks     *)
(* until the peer has answered, and handles the answer before it returns.  *)
(* So the send loops of become_candidate and leader_tick stop at every     *)
(* peer, the answers are handled in the middle of them, and a node serves  *)
(* no request meanwhile, for it has one thread (loop_run).                 *)
(*                                                                         *)
(* raft_handle_incoming_rpc leaves sending the answer to its caller, which *)
(* does not exist yet ("handled by caller in production"): here the answer *)
(* is sent back on the connection.  The headers and the requests are sent  *)
(* in host byte order and read in network order, so on a little-endian     *)
(* host every call fails (CallLost); on a big-endian one the conversions   *)
(* change nothing, which is the case in which the rest happens.            *)
(*                                                                         *)
(* The peers are called in the order they were added to the node, which    *)
(* may be any: the next one is any that is left.  A request is not served  *)
(* once its caller has given up or died.                                   *)
(***************************************************************************)
EXTENDS RaftCore

CONSTANT
    Flaky        \* the nodes to which connecting, sending or receiving may fail

ASSUME FlakyAssumption == Flaky \subseteq Server

VARIABLE
    thread       \* what the event loop of every node is doing

rpcVars == <<vars, thread>>

\* The loop the thread is in, the peers it has still to call, the requests
\* become_candidate has built for it, and the peer whose answer it waits for.
Idle == [loop |-> "none", left |-> {}, ballot |-> {}, peer |-> Nil]

IsIdle(n) == thread[n].loop = "none"
Waits(n) == thread[n].peer # Nil

\* What is in flight of the call of n to p.
Exchange(n, p) ==
    {m \in msgs : \/ m.type \in {"RequestVote", "AppendEntries"} /\ m.src = n /\ m.dst = p
                  \/ m.type \in {"RequestVoteResp", "AppendEntriesResp"} /\ m.src = p /\ m.dst = n}

-----------------------------------------------------------------------------
InitRpc ==
    /\ Init
    /\ thread = [n \in Server |-> Idle]

\* raft_tick of a follower or candidate whose election timer has expired, up to
\* the send loop; the request is built once, before the loop.
StartElection(n) ==
    /\ IsIdle(n)
    /\ state[n] # "LEADER"
    /\ BecomeCandidate(n)
    /\ thread' = [thread EXCEPT ![n] =
                     [loop |-> "vote", left |-> Peers(n), peer |-> Nil,
                      ballot |-> RequestVotes(n, current_term[n] + 1)]]
    /\ UNCHANGED <<log, progress, replication, msgs, elected>>

\* raft_tick of a leader when the heartbeat is due, up to the send loop.
StartHeartbeats_AnyState(n) ==
    /\ IsIdle(n)
    /\ thread' = [thread EXCEPT ![n] = [Idle EXCEPT !.loop = "beat", !.left = Peers(n)]]
    /\ UNCHANGED vars
StartHeartbeats(n) ==
    /\ IsIdle(n)
    /\ state[n] = "LEADER"
    /\ thread' = [thread EXCEPT ![n] = [Idle EXCEPT !.loop = "beat", !.left = Peers(n)]]
    /\ UNCHANGED vars

\* raft_tick with no timer expired.
QuietTick(n) ==
    /\ IsIdle(n)
    /\ LeaderTick(n, FALSE) \/ FollowerCandidateTick(n, FALSE)
    /\ UNCHANGED thread

\* A heartbeat is built when its turn comes, from what the node is then.
Outgoing(n) == IF thread[n].loop = "vote" THEN thread[n].ballot ELSE Heartbeats(n)

\* raft_send_rpc_callback: tcp_client_connect and rpc_send_message.  The kernel
\* of p takes the connection and the request whatever the thread of p does.
CallPeer(n) ==
    /\ ~Waits(n)
    /\ \E p \in thread[n].left :
        /\ thread' = [thread EXCEPT ![n].left = @ \ {p}, ![n].peer = p]
        /\ msgs' = msgs \cup {m \in Outgoing(n) : m.dst = p}
    /\ UNCHANGED <<state, durable, progress, leader_id, election, replication, grants, elected>>

\* Connecting or sending fails: the callback returns -1, which the loops ignore.
CallRefused(n) ==
    /\ ~Waits(n)
    /\ \E p \in thread[n].left \cap Flaky : thread' = [thread EXCEPT ![n].left = @ \ {p}]
    /\ UNCHANGED vars

\* raft_handle_incoming_rpc, when the thread is in loop_run.
Serve(n) ==
    /\ IsIdle(n)
    /\ \E m \in msgs : m.dst = n /\ (HandleRequestVote(m) \/ HandleAppendEntries(m))
    /\ UNCHANGED thread

\* rpc_recv_message returns the answer, which is handled before the callback
\* returns.
CallReturns(n) ==
    /\ \E m \in Exchange(n, thread[n].peer) :
        HandleRequestVoteResponse(m) \/ HandleAppendEntriesResponse(m)
    /\ thread' = [thread EXCEPT ![n].peer = Nil]

\* rpc_recv_message fails: the connection is lost, before or after the peer has
\* handled the request.
CallLost_NoEof(n) ==
    LET p == thread[n].peer
    IN /\ Waits(n)
       /\ p \in Flaky /\ Exchange(n, p) # {}
       /\ thread' = [thread EXCEPT ![n].peer = Nil]
       /\ msgs' = msgs \ Exchange(n, p)
       /\ UNCHANGED <<state, durable, progress, leader_id, election, replication,
                      grants, elected>>
CallLost(n) ==
    LET p == thread[n].peer
    IN /\ Waits(n)
       /\ p \in Flaky \/ Exchange(n, p) = {}
       /\ thread' = [thread EXCEPT ![n].peer = Nil]
       /\ msgs' = msgs \ Exchange(n, p)
       /\ UNCHANGED <<state, durable, progress, leader_id, election, replication,
                      grants, elected>>

\* The rest of raft_tick after the send loop.  leader_tick goes on to its commit
\* loop whatever the node has become in the meantime.
TickEnds(n) ==
    /\ ~IsIdle(n) /\ ~Waits(n) /\ thread[n].left = {}
    /\ IF thread[n].loop = "beat" THEN CommitAndApply(n)
       ELSE ApplyCommitted(n, commit_index[n]) /\ UNCHANGED commit_index
    /\ thread' = [thread EXCEPT ![n] = Idle]
    /\ UNCHANGED <<state, durable, leader_id, election, replication, msgs, grants, elected>>

\* example_submit_write, called from the event loop.
SubmitWrite(n) == IsIdle(n) /\ Submit(n) /\ UNCHANGED thread

\* The process dies, in the middle of a call or not, and its connections with it.
Crash(n) ==
    /\ ComeBack(n)
    /\ thread' = [thread EXCEPT ![n] = Idle]
    /\ msgs' = {m \in msgs : n \notin {m.src, m.dst}}

NextRpc ==
    \E n \in Server :
        \/ StartElection(n) \/ StartHeartbeats(n) \/ QuietTick(n)
        \/ CallPeer(n) \/ CallRefused(n) \/ Serve(n) \/ CallReturns(n) \/ CallLost(n)
        \/ TickEnds(n) \/ SubmitWrite(n) \/ Crash(n)

SpecRpc == InitRpc /\ [][NextRpc]_rpcVars

\* The thread of a node goes on unless it is blocked; the kernel reports a
\* connection whose other end has died; and loop_run serves every connection that
\* is ready before it waits again, so a request that is there whenever the
\* thread is back in loop_run is served.
ServeCaller(n, p) == Exchange(p, n) # {} /\ thread[p].peer = n /\ Serve(n) /\ Exchange(p, n)' # Exchange(p, n)
Fairness ==
    \A n \in Server :
        /\ WF_rpcVars(CallPeer(n))
        /\ WF_rpcVars(CallReturns(n))
        /\ WF_rpcVars(Exchange(n, thread[n].peer) = {} /\ CallLost(n))
        /\ WF_rpcVars(TickEnds(n))
        /\ \A p \in Peers(n) : SF_rpcVars(ServeCaller(n, p))

FairSpecRpc == SpecRpc /\ Fairness

-----------------------------------------------------------------------------
\* Every field has its type.  A node in the heartbeat loop has next_index of 1 or
\* more even if it is no longer the leader, so that prev_log_index = next_index - 1
\* (raft_core.c:320) does not wrap around there either.
RpcTypeOK ==
    /\ TypeOK
    /\ thread \in [Server -> [loop : {"none", "vote", "beat"}, left : SUBSET Server,
                              ballot : SUBSET Message, peer : Server \cup {Nil}]]
    /\ \A n \in Server : IsIdle(n) => thread[n].left = {}
    /\ \A n \in Server : \A m \in thread[n].ballot : m.src # m.dst
    /\ \A n \in Server : thread[n].loop = "beat" => \A p \in Server : next_index[n][p] >= 1

\* A node is only ever followed, and clients sent to it (raft_get_leader_id), if
\* it has won an election, in this term or an earlier one.  It need not be the
\* leader of the term: leader_tick does not look at the role again after a call
\* has returned, and a leader that an answer has demoted announces itself to
\* the remaining peers in the term that demoted it.
FollowedWasElected ==
    \A n \in Server : leader_id[n] # Nil =>
        \E t \in 0..current_term[n] : <<t, leader_id[n]>> \in elected

\* The commit loop that leader_tick runs after its calls commits nothing for a
\* node that one of the answers has demoted: none of its entries is of the term
\* it is in then.
DemotedCommitsNothing ==
    [][\A n \in Server :
        thread[n].loop = "beat" /\ state[n] # "LEADER" => commit_index'[n] <= commit_index[n]]_rpcVars

\* Nodes that wait for each other in a circle, each with its request unserved.
MutualWait ==
    \E S \in (SUBSET Server) \ {{}} : \A n \in S :
        /\ thread[n].peer \in S
        /\ \E m \in Exchange(n, thread[n].peer) : m.src = n

\* A tick ends, whatever calls are lost and whoever dies, unless nodes have come
\* to wait for each other in a circle: raft_send_rpc_callback has no timeout,
\* and a node that waits serves nobody.
TickReturns == \A n \in Server : ~IsIdle(n) ~> (IsIdle(n) \/ MutualWait)
=============================================================================
