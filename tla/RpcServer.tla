----------------------------- MODULE RpcServer -----------------------------
(***************************************************************************)
(* The server side of the RPC layer: the client sessions of src/src/       *)
(* protocol/rpc_handler.c on the epoll loop of src/src/common/             *)
(* event_loop.c, with the sockets and the clients at their other ends.     *)
(*                                                                         *)
(* A slot is a file descriptor; it is used again once it was closed.  A    *)
(* request is its command and the payload length that its header claims;   *)
(* NOT_RPC is a header with another magic number.                          *)
(* Lengths are in units that one recv or send cannot split; HeaderLen and  *)
(* ResponseLen are what sizeof(RpcHeader) and a JOIN_RESP take, JoinLen    *)
(* and SyncLen the payloads that JOIN_REQ and SYNC_RULES ask for.          *)
(***************************************************************************)
EXTENDS Naturals, FiniteSets

CONSTANTS
    Slot, HeaderLen, JoinLen, SyncLen, ResponseLen,
    Request,      \* the requests that clients send, as [cmd, len]
    MaxLen,       \* the longest payload; a longer one is refused
    MaxClients    \* bound: how many connections are made

ASSUME RpcAssumption ==
    /\ HeaderLen \in Nat \ {0} /\ ResponseLen \in Nat \ {0}
    /\ JoinLen \in 1..MaxLen /\ SyncLen \in 1..MaxLen
    /\ Request \subseteq [cmd : {"JOIN_REQ", "LEAVE", "SYNC_RULES", "UNKNOWN", "NOT_RPC"},
                    len : Nat]
    /\ MaxLen \in Nat /\ MaxClients \in Nat

VARIABLES
    loop,      \* "starting", "waiting", "dispatching" or "stopped"
    running,   \* the flag that loop_stop clears
    batch,     \* the events of the last epoll_wait still to be dispatched
    session,   \* the ClientSession of each slot
    client,    \* the other end of each slot's connection
    clients,   \* how many connections were made
    handled    \* history: how often the request of the session was processed

vars == <<loop, running, batch, session, client, clients, handled>>

-----------------------------------------------------------------------------
NoSession == [state |-> "NONE", header |-> 0, payload |-> 0, sent |-> 0, interest |-> "NONE"]
NewSession == [NoSession EXCEPT !.state = "READING_HEADER", !.interest = "READ"]

\* A client is absent, queued for accept, or connected; wrote is how much of
\* its request it has sent, shut that it closed, reset that the connection broke.
NoClient ==
    [at |-> "NONE", cmd |-> "LEAVE", len |-> 0, wrote |-> 0, shut |-> FALSE, reset |-> FALSE]

Unread(c) == client[c].wrote - session[c].header - session[c].payload

\* What epoll reports for a registered slot (level-triggered).
Ready(c) ==
    (IF client[c].reset THEN {"ERROR"} ELSE {})
    \cup (IF session[c].interest = "READ" /\ (Unread(c) > 0 \/ client[c].shut)
          THEN {"READ"} ELSE {})
    \cup (IF session[c].interest = "WRITE" THEN {"WRITE"} ELSE {})

Registered == {c \in Slot : session[c].state # "NONE"}

Init ==
    /\ loop = "starting" /\ running = FALSE /\ batch = {}
    /\ session = [c \in Slot |-> NoSession]
    /\ client = [c \in Slot |-> NoClient]
    /\ clients = 0
    /\ handled = [c \in Slot |-> 0]

-----------------------------------------------------------------------------
\* The clients.  Free slots are alike; a connection gets one of them.
Connect(c) ==
    /\ client[c].at = "NONE" /\ clients < MaxClients
    /\ c = CHOOSE d \in Slot : client[d].at = "NONE"
    /\ \E r \in Request :
          client' = [client EXCEPT ![c] = [NoClient EXCEPT !.at = "QUEUED",
                                             !.cmd = r.cmd, !.len = r.len]]
    /\ clients' = clients + 1
    /\ UNCHANGED <<loop, running, batch, session, handled>>

ClientWrites(c) ==
    /\ client[c].at # "NONE" /\ ~client[c].shut /\ ~client[c].reset
    /\ client[c].wrote < HeaderLen + client[c].len
    /\ client' = [client EXCEPT ![c].wrote = @ + 1]
    /\ UNCHANGED <<loop, running, batch, session, clients, handled>>

ClientCloses(c) ==
    /\ client[c].at # "NONE" /\ ~client[c].shut
    /\ \/ client' = [client EXCEPT ![c].shut = TRUE]
       \/ client' = [client EXCEPT ![c].shut = TRUE, ![c].reset = TRUE]
    /\ UNCHANGED <<loop, running, batch, session, clients, handled>>

-----------------------------------------------------------------------------
\* session_destroy: the slot leaves the loop and is closed.
Destroy(c) ==
    /\ session' = [session EXCEPT ![c] = NoSession]
    /\ client' = [client EXCEPT ![c] = NoClient]
    /\ handled' = [handled EXCEPT ![c] = 0]

\* The switch of handle_processing, on a request that was read completely; s is
\* the session with the last bytes counted.
Process(c, s) ==
    LET r == client[c]
        known == \/ r.cmd = "JOIN_REQ" /\ r.len = JoinLen
                 \/ r.cmd = "LEAVE"
                 \/ r.cmd = "SYNC_RULES" /\ r.len >= SyncLen
        next == IF r.cmd = "JOIN_REQ"
                THEN [s EXCEPT !.state = "SENDING_RESPONSE", !.interest = "WRITE"]
                ELSE [s EXCEPT !.state = "DONE"]
    IN \/ /\ known
          /\ handled' = [handled EXCEPT ![c] = @ + 1]
          /\ session' = [session EXCEPT ![c] = next]
          /\ UNCHANGED client
       \/ \* not a request, or no memory for the member or the response
          /\ known => r.cmd = "JOIN_REQ"
          /\ Destroy(c)

\* read_into_buffer meets the end of the stream, or a broken connection.
ReadFails_IgnoresEof(c) == client[c].reset
ReadFails(c) ==
    \/ client[c].reset
    \/ Unread(c) = 0 /\ client[c].shut

HeaderComplete_Early(k) == k >= HeaderLen - 1
HeaderComplete(k) == k = HeaderLen

TooLarge_Unchecked(len) == FALSE
TooLarge(len) == len > MaxLen

Refused(r) == r.cmd = "NOT_RPC" \/ TooLarge(r.len)

ReadHeader(c) ==
    /\ session[c].state = "READING_HEADER"
    /\ IF ReadFails(c) THEN Destroy(c)
       ELSE \E k \in (IF Unread(c) = 0 THEN 0 ELSE 1)..Unread(c) :
              LET s == [session[c] EXCEPT !.header = @ + k]
              IN /\ s.header <= HeaderLen
                 /\ CASE k = 0 \/ ~HeaderComplete(s.header) ->
                           /\ session' = [session EXCEPT ![c] = s]
                           /\ UNCHANGED <<client, handled>>
                      [] k > 0 /\ HeaderComplete(s.header) /\ Refused(client[c]) ->
                           Destroy(c)
                      [] /\ k > 0 /\ HeaderComplete(s.header)
                         /\ client[c].len > 0 /\ ~Refused(client[c]) ->
                           /\ \/ /\ session' = [session EXCEPT ![c] =
                                                  [s EXCEPT !.state = "READING_PAYLOAD"]]
                                 /\ UNCHANGED <<client, handled>>
                              \/ Destroy(c)   \* no memory for the payload
                      [] OTHER -> Process(c, s)

ReadPayload(c) ==
    /\ session[c].state = "READING_PAYLOAD"
    /\ IF ReadFails(c) THEN Destroy(c)
       ELSE \E k \in (IF Unread(c) = 0 THEN 0 ELSE 1)..Unread(c) :
              LET s == [session[c] EXCEPT !.payload = @ + k]
              IN /\ s.payload <= client[c].len
                 /\ IF k = 0 \/ s.payload < client[c].len
                    THEN /\ session' = [session EXCEPT ![c] = s]
                         /\ UNCHANGED <<client, handled>>
                    ELSE Process(c, s)

\* handle_sending_response; send takes what the socket has room for, which is
\* nothing while a client that is there does not read.
Send(c) ==
    /\ session[c].state = "SENDING_RESPONSE"
    /\ IF client[c].reset THEN Destroy(c)
       ELSE \E k \in (IF client[c].shut THEN 1 ELSE 0)..ResponseLen - session[c].sent :
              LET s == [session[c] EXCEPT !.sent = @ + k]
              IN /\ session' = [session EXCEPT ![c] =
                                  IF s.sent = ResponseLen THEN [s EXCEPT !.state = "DONE"]
                                  ELSE s]
                 /\ UNCHANGED <<client, handled>>

\* rpc_on_client_event
ClientEvent(c, events) ==
    CASE "ERROR" \in events \/ session[c].state = "DONE" -> Destroy(c)
      [] "ERROR" \notin events /\ "READ" \in events /\ session[c].state # "DONE" ->
            ReadHeader(c) \/ ReadPayload(c)
      [] OTHER -> Send(c)

\* rpc_on_accept takes one connection from the queue, and closes it when it
\* cannot make a session for it.
Accept(c) ==
    /\ client[c].at = "QUEUED"
    /\ \/ /\ client' = [client EXCEPT ![c].at = "CONNECTED"]
          /\ session' = [session EXCEPT ![c] = NewSession]
          /\ UNCHANGED handled
       \/ Destroy(c)

-----------------------------------------------------------------------------
\* A signal: handle_shutdown calls loop_stop.
Stop ==
    /\ loop # "stopped"
    /\ running' = FALSE
    /\ UNCHANGED <<loop, batch, session, client, clients, handled>>

\* main reaches loop_run, after cluster_join.  A stop that came before is
\* forgotten, although event_loop.h:70 makes no exception for it.
LoopRun ==
    /\ loop = "starting"
    /\ loop' = "waiting" /\ running' = TRUE
    /\ UNCHANGED <<batch, session, client, clients, handled>>

\* epoll_wait returns what is ready; a timer always is, sooner or later.
EpollWait_PerEvent ==
    /\ loop = "waiting" /\ running
    /\ batch' = UNION {{<<c, {e}>> : e \in Ready(c)} : c \in Registered}
                \cup (IF \E c \in Slot : client[c].at = "QUEUED" THEN {<<"accept">>} ELSE {})
    /\ loop' = "dispatching"
    /\ UNCHANGED <<running, session, client, clients, handled>>
EpollWait_IgnoresFlag ==
    /\ loop = "waiting"
    /\ batch' = {<<c, Ready(c)>> : c \in {d \in Registered : Ready(d) # {}}}
                \cup (IF \E c \in Slot : client[c].at = "QUEUED" THEN {<<"accept">>} ELSE {})
    /\ loop' = "dispatching"
    /\ UNCHANGED <<running, session, client, clients, handled>>
EpollWait ==
    /\ loop = "waiting" /\ running
    /\ batch' = {<<c, Ready(c)>> : c \in {d \in Registered : Ready(d) # {}}}
                \cup (IF \E c \in Slot : client[c].at = "QUEUED" THEN {<<"accept">>} ELSE {})
    /\ loop' = "dispatching"
    /\ UNCHANGED <<running, session, client, clients, handled>>

Dispatch ==
    /\ loop = "dispatching"
    /\ \E e \in batch :
          /\ batch' = batch \ {e}
          /\ IF e = <<"accept">> THEN \E c \in Slot : Accept(c) ELSE ClientEvent(e[1], e[2])
    /\ UNCHANGED <<loop, running, clients>>

\* The batch is done; the flag is looked at before the next wait.
LoopAgain ==
    /\ loop = "dispatching" /\ batch = {}
    /\ loop' = "waiting"
    /\ UNCHANGED <<running, batch, session, client, clients, handled>>

LoopExits ==
    /\ loop = "waiting" /\ ~running
    /\ loop' = "stopped"
    /\ UNCHANGED <<running, batch, session, client, clients, handled>>

Next ==
    \/ \E c \in Slot : Connect(c) \/ ClientWrites(c) \/ ClientCloses(c)
    \/ Stop \/ LoopRun \/ EpollWait \/ Dispatch \/ LoopAgain \/ LoopExits

Spec == Init /\ [][Next]_vars

\* The thread that runs the loop is scheduled; clients and signals are free.
FairSpec ==
    /\ Spec
    /\ WF_vars(LoopRun) /\ WF_vars(EpollWait) /\ WF_vars(Dispatch)
    /\ WF_vars(LoopAgain) /\ WF_vars(LoopExits)

-----------------------------------------------------------------------------
\* A session reads and sends no more than its buffers hold.
TypeOK ==
    /\ loop \in {"starting", "waiting", "dispatching", "stopped"}
    /\ running \in BOOLEAN
    /\ \A c \in Slot :
          /\ session[c].state \in {"NONE", "READING_HEADER", "READING_PAYLOAD",
                                   "SENDING_RESPONSE", "DONE"}
          /\ session[c].header \in 0..HeaderLen
          /\ session[c].payload \in 0..MaxLen
          /\ session[c].sent \in 0..ResponseLen

\* No callback runs with a session that was freed: every event of the batch that
\* is still to be dispatched belongs to a session that exists, although the
\* callbacks dispatched before it destroy sessions and accept new ones in their
\* slots (the comment at event_loop.c:355 argues for this).
NoStaleDispatch ==
    \A e \in batch : e # <<"accept">> => e[1] \in Registered

\* A request is processed at most once, and only after all of its header and of
\* its payload have arrived, however the stream was cut into reads.
HandledOnceWhole ==
    \A c \in Slot :
        /\ handled[c] <= 1
        /\ handled[c] = 1 /\ session[c].state # "NONE" =>
              session[c].header = HeaderLen /\ session[c].payload = client[c].len

\* Every connection that the client closes is in the end destroyed, in whatever
\* state its session was, unless the loop is stopped first.
ClosedIsDestroyed ==
    \A c \in Slot : client[c].shut ~> (client[c].at = "NONE" \/ loop = "stopped")

\* Once the loop runs, a stop makes it exit after the current batch, whatever
\* the sessions are waiting for.
StopEndsLoop == (loop # "starting" /\ ~running) ~> loop = "stopped"
=============================================================================
