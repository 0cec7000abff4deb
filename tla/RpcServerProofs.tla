--------------------------- MODULE RpcServerProofs ---------------------------
(***************************************************************************)
(* The sessions of the RPC server, for any number of slots and any lengths *)
(* of header, payload and response: no event of a batch is dispatched to a *)
(* session that is gone, and a request is processed at most once and only  *)
(* when all of it has been read.                                           *)
(***************************************************************************)
EXTENDS RpcServer, TLAPS

States == {"NONE", "READING_HEADER", "READING_PAYLOAD", "SENDING_RESPONSE", "DONE"}
Sessions ==
    [state : States, header : Nat, payload : Nat, sent : Nat,
     interest : {"NONE", "READ", "WRITE"}]
Clients ==
    [at : {"NONE", "QUEUED", "CONNECTED"},
     cmd : {"JOIN_REQ", "LEAVE", "SYNC_RULES", "UNKNOWN", "NOT_RPC"},
     len : Nat, wrote : Nat, shut : BOOLEAN, reset : BOOLEAN]

\* How far a session s, whose request has a payload of length len, has come in
\* each state, and how often, h, that request was processed.
Progress(s, len, h) ==
    /\ s.state \in {"NONE", "READING_HEADER"} =>
          s.header < HeaderLen /\ s.payload = 0 /\ h = 0
    /\ s.state = "READING_PAYLOAD" =>
          s.header = HeaderLen /\ s.payload < len /\ len <= MaxLen /\ h = 0
    /\ s.state \in {"SENDING_RESPONSE", "DONE"} =>
          s.header = HeaderLen /\ s.payload = len /\ len <= MaxLen /\ h = 1
    /\ s.sent <= ResponseLen

SlotInv(c) ==
    /\ session[c] \in Sessions /\ client[c] \in Clients /\ handled[c] \in Nat
    /\ session[c].state # "NONE" => client[c].at = "CONNECTED"
    /\ Progress(session[c], client[c].len, handled[c])

\* The three functions are over the slots.
OverSlots ==
    /\ session = [c \in Slot |-> session[c]]
    /\ client = [c \in Slot |-> client[c]]
    /\ handled = [c \in Slot |-> handled[c]]

\* The events still to be dispatched: at most one of each session, all of
\* sessions that are registered.
BatchInv ==
    /\ \A e \in batch : e # <<"accept">> => e = <<e[1], e[2]>> /\ e[1] \in Registered
    /\ \A e, f \in batch :
          e # <<"accept">> /\ f # <<"accept">> /\ e[1] = f[1] => e = f

RpcServerInv ==
    /\ loop \in {"starting", "waiting", "dispatching", "stopped"}
    /\ running \in BOOLEAN
    /\ OverSlots
    /\ \A c \in Slot : SlotInv(c)
    /\ BatchInv

-----------------------------------------------------------------------------
\* A slot without a session, as session_destroy leaves it.
LEMMA DestroyedSlot ==
    ASSUME NEW c \in Slot, OverSlots, Destroy(c)
    PROVE  OverSlots' /\ SlotInv(c)'
<1>1. OverSlots'
  BY DEF Destroy, OverSlots
<1>2. session'[c] = NoSession /\ client'[c] = NoClient /\ handled'[c] = 0
  BY DEF Destroy, OverSlots
<1>3. HeaderLen \in Nat \ {0} /\ ResponseLen \in Nat \ {0}
  BY RpcAssumption
<1>4. NoSession \in Sessions /\ NoClient \in Clients
  BY DEF NoSession, NoClient, Sessions, Clients, States
<1>5. Progress(NoSession, NoClient.len, 0)
  BY <1>3 DEF Progress, NoSession, NoClient
<1> QED
  BY <1>1, <1>2, <1>4, <1>5 DEF SlotInv, NoSession

\* The sessions of other slots are left alone.
Others(c) ==
    \A d \in Slot \ {c} :
        session'[d] = session[d] /\ client'[d] = client[d] /\ handled'[d] = handled[d]

\* What a callback does to the slots: they stay sound, and c is the only one it
\* changes.
Kept(c) == OverSlots' /\ (\A d \in Slot : SlotInv(d)') /\ Others(c)

LEMMA KeptFromSlot ==
    ASSUME NEW c \in Slot, \A d \in Slot : SlotInv(d), OverSlots', SlotInv(c)', Others(c)
    PROVE  Kept(c)
<1> SUFFICES ASSUME NEW d \in Slot PROVE SlotInv(d)'
  BY DEF Kept
<1> QED
  BY DEF SlotInv, Others

LEMMA DestroyKeeps ==
    ASSUME NEW c \in Slot, RpcServerInv, Destroy(c)
    PROVE  Kept(c)
<1>1. OverSlots' /\ SlotInv(c)'
  BY DestroyedSlot DEF RpcServerInv
<1>2. Others(c)
  BY DEF Others, Destroy, RpcServerInv, OverSlots
<1> QED
  BY <1>1, <1>2, KeptFromSlot DEF RpcServerInv

\* A session of slot c replaced by s, which has come as far as its state says.
LEMMA ReplaceKeeps ==
    ASSUME NEW c \in Slot, RpcServerInv, NEW s \in Sessions, NEW h \in Nat,
           session[c].state # "NONE", Progress(s, client[c].len, h),
           session' = [session EXCEPT ![c] = s], client' = client,
           handled' = [handled EXCEPT ![c] = h]
    PROVE  Kept(c)
<1>1. OverSlots' /\ session'[c] = s /\ handled'[c] = h
  BY DEF RpcServerInv, OverSlots
<1>2. SlotInv(c)'
  BY <1>1 DEF RpcServerInv, SlotInv
<1>3. Others(c)
  BY DEF Others, RpcServerInv, OverSlots
<1> QED
  BY <1>1, <1>2, <1>3, KeptFromSlot DEF RpcServerInv

-----------------------------------------------------------------------------
\* handle_processing of a request that was read completely.
LEMMA ProcessKeeps ==
    ASSUME NEW c \in Slot, RpcServerInv, NEW s \in Sessions,
           session[c].state \in {"READING_HEADER", "READING_PAYLOAD"},
           s.header = HeaderLen, s.payload = client[c].len, client[c].len <= MaxLen,
           s.sent <= ResponseLen, Process(c, s)
    PROVE  Kept(c)
<1> DEFINE r == client[c]
           known == \/ r.cmd = "JOIN_REQ" /\ r.len = JoinLen
                    \/ r.cmd = "LEAVE"
                    \/ r.cmd = "SYNC_RULES" /\ r.len >= SyncLen
           next == IF r.cmd = "JOIN_REQ"
                   THEN [s EXCEPT !.state = "SENDING_RESPONSE", !.interest = "WRITE"]
                   ELSE [s EXCEPT !.state = "DONE"]
<1>1. CASE /\ handled' = [handled EXCEPT ![c] = @ + 1]
           /\ session' = [session EXCEPT ![c] = next]
           /\ UNCHANGED client
  <2>1. handled[c] = 0
    BY DEF RpcServerInv, SlotInv, Progress
  <2>2. handled' = [handled EXCEPT ![c] = 1]
    BY <1>1, <2>1
  <2>3. next \in Sessions
    BY DEF Sessions, States
  <2>4. Progress(next, client[c].len, 1)
    BY DEF Progress, Sessions
  <2> HIDE DEF next
  <2> QED
    BY <1>1, <2>2, <2>3, <2>4, ReplaceKeeps
<1>2. CASE Destroy(c)
  BY <1>2, DestroyKeeps
<1> QED
  BY <1>1, <1>2 DEF Process

\* handle_reading_header, whatever part of the header arrived.
LEMMA ReadHeaderKeeps ==
    ASSUME NEW c \in Slot, RpcServerInv, ReadHeader(c)
    PROVE  Kept(c)
<1>1. CASE ReadFails(c)
  BY <1>1, DestroyKeeps DEF ReadHeader
<1>2. CASE ~ReadFails(c)
  <2>1. /\ session[c] \in Sessions /\ client[c] \in Clients /\ handled[c] = 0
        /\ session[c].state = "READING_HEADER"
        /\ session[c].payload = 0 /\ session[c].sent <= ResponseLen
    BY DEF ReadHeader, RpcServerInv, SlotInv, Progress
  <2>2. HeaderLen \in Nat \ {0} /\ MaxLen \in Nat
    BY RpcAssumption
  <2>3. PICK k \in (IF Unread(c) = 0 THEN 0 ELSE 1)..Unread(c) :
              LET s == [session[c] EXCEPT !.header = @ + k]
              IN /\ s.header <= HeaderLen
                 /\ CASE k = 0 \/ ~HeaderComplete(s.header) ->
                           /\ session' = [session EXCEPT ![c] = s]
                           /\ UNCHANGED <<client, handled>>
                      [] k > 0 /\ HeaderComplete(s.header) /\ Refused(client[c]) ->
                           Destroy(c)
                      [] /\ k > 0 /\ HeaderComplete(s.header)
                         /\ client[c].len > 0 /\ ~Refused(client[c]) ->
                           /\ \/ /\ session' = [session EXCEPT ![c] =
                                                  [s EXCEPT !.state = "READING_PAYLOAD"]]
                                 /\ UNCHANGED <<client, handled>>
                              \/ Destroy(c)
                      [] OTHER -> Process(c, s)
    BY <1>2 DEF ReadHeader
  <2>4. k \in Nat
    OBVIOUS
  <2> DEFINE s == [session[c] EXCEPT !.header = @ + k]
  <2>5. /\ s \in Sessions /\ s.header = session[c].header + k
        /\ s.state = "READING_HEADER" /\ s.payload = 0 /\ s.sent <= ResponseLen
    BY <2>1, <2>4 DEF Sessions
  <2>6. s.header <= HeaderLen
    BY <2>3
  <2>7. session[c].header \in Nat /\ session[c].header < HeaderLen
    BY <2>1 DEF RpcServerInv, SlotInv, Progress, Sessions
  <2>8. handled = [handled EXCEPT ![c] = 0]
    BY <2>1 DEF RpcServerInv, OverSlots
  <2> HIDE DEF s
  <2>9. CASE k = 0 \/ ~HeaderComplete(s.header)
    <3>1. session' = [session EXCEPT ![c] = s] /\ client' = client /\ handled' = handled
      BY <2>3, <2>9 DEF s
    <3>2. s.header < HeaderLen
      BY <2>2, <2>4, <2>5, <2>6, <2>7, <2>9 DEF HeaderComplete
    <3>3. Progress(s, client[c].len, 0)
      BY <2>5, <3>2 DEF Progress
    <3> QED
      BY <2>1, <2>5, <2>8, <3>1, <3>3, ReplaceKeeps
  <2>10. CASE k > 0 /\ HeaderComplete(s.header) /\ Refused(client[c])
    BY <2>3, <2>4, <2>10, DestroyKeeps DEF s
  <2>11. ASSUME k > 0, HeaderComplete(s.header), ~Refused(client[c])
         PROVE  client[c].len <= MaxLen /\ client[c].len \in Nat /\ s.header = HeaderLen
    BY <2>1, <2>2, <2>11 DEF Refused, TooLarge, HeaderComplete, Clients
  <2>12. CASE k > 0 /\ HeaderComplete(s.header) /\ client[c].len > 0 /\ ~Refused(client[c])
    <3>1. CASE Destroy(c)
      BY <3>1, DestroyKeeps
    <3>2. CASE /\ session' = [session EXCEPT ![c] = [s EXCEPT !.state = "READING_PAYLOAD"]]
               /\ UNCHANGED <<client, handled>>
      <4> DEFINE p == [s EXCEPT !.state = "READING_PAYLOAD"]
      <4>1. p \in Sessions
        BY <2>5 DEF Sessions, States
      <4>2. Progress(p, client[c].len, 0)
        BY <2>5, <2>11, <2>12 DEF Progress, Sessions
      <4> HIDE DEF p
      <4>3. session' = [session EXCEPT ![c] = p]
        BY <3>2 DEF p
      <4> QED
        BY <2>1, <2>8, <3>2, <4>1, <4>2, <4>3, ReplaceKeeps
    <3> QED
      BY <2>3, <2>4, <2>12, <3>1, <3>2 DEF s
  <2>13. CASE k > 0 /\ HeaderComplete(s.header) /\ ~(client[c].len > 0) /\ ~Refused(client[c])
    <3>1. Process(c, s)
      BY <2>3, <2>4, <2>13 DEF s
    <3>2. client[c].len = 0
      BY <2>11, <2>13
    <3> QED
      BY <2>1, <2>5, <2>11, <2>13, <3>1, <3>2, ProcessKeeps
  <2> QED
    BY <2>4, <2>9, <2>10, <2>12, <2>13
<1> QED
  BY <1>1, <1>2

\* handle_reading_payload.
LEMMA ReadPayloadKeeps ==
    ASSUME NEW c \in Slot, RpcServerInv, ReadPayload(c)
    PROVE  Kept(c)
<1>1. CASE ReadFails(c)
  BY <1>1, DestroyKeeps DEF ReadPayload
<1>2. CASE ~ReadFails(c)
  <2>1. /\ session[c] \in Sessions /\ client[c] \in Clients /\ handled[c] = 0
        /\ session[c].state = "READING_PAYLOAD" /\ session[c].header = HeaderLen
        /\ session[c].payload < client[c].len /\ client[c].len <= MaxLen
        /\ session[c].sent <= ResponseLen
    BY DEF ReadPayload, RpcServerInv, SlotInv, Progress
  <2>2. PICK k \in (IF Unread(c) = 0 THEN 0 ELSE 1)..Unread(c) :
              LET s == [session[c] EXCEPT !.payload = @ + k]
              IN /\ s.payload <= client[c].len
                 /\ IF k = 0 \/ s.payload < client[c].len
                    THEN /\ session' = [session EXCEPT ![c] = s]
                         /\ UNCHANGED <<client, handled>>
                    ELSE Process(c, s)
    BY <1>2 DEF ReadPayload
  <2>3. k \in Nat
    OBVIOUS
  <2> DEFINE s == [session[c] EXCEPT !.payload = @ + k]
  <2>4. /\ s \in Sessions /\ s.payload = session[c].payload + k
        /\ s.state = "READING_PAYLOAD" /\ s.header = HeaderLen /\ s.sent <= ResponseLen
    BY <2>1, <2>3 DEF Sessions
  <2>5. s.payload <= client[c].len
    BY <2>2
  <2>6. session[c].payload \in Nat /\ s.payload \in Nat /\ client[c].len \in Nat
    BY <2>1, <2>4 DEF Sessions, Clients
  <2>7. handled = [handled EXCEPT ![c] = 0]
    BY <2>1 DEF RpcServerInv, OverSlots
  <2> HIDE DEF s
  <2>8. CASE k = 0 \/ s.payload < client[c].len
    <3>1. session' = [session EXCEPT ![c] = s] /\ client' = client /\ handled' = handled
      BY <2>2, <2>8 DEF s
    <3>2. s.payload < client[c].len
      BY <2>1, <2>4, <2>6, <2>8
    <3>3. Progress(s, client[c].len, 0)
      BY <2>1, <2>4, <3>2 DEF Progress
    <3>4. session[c].state # "NONE" /\ handled' = [handled EXCEPT ![c] = 0] /\ s \in Sessions
      BY <2>1, <2>4, <2>7, <3>1
    <3> QED
      BY <3>1, <3>3, <3>4, ReplaceKeeps
  <2>9. CASE ~(k = 0 \/ s.payload < client[c].len)
    <3>1. Process(c, s)
      BY <2>2, <2>9 DEF s
    <3>2. s.payload = client[c].len
      BY <2>5, <2>6, <2>9
    <3> QED
      BY <2>1, <2>4, <3>1, <3>2, ProcessKeeps
  <2> QED
    BY <2>8, <2>9
<1> QED
  BY <1>1, <1>2

\* handle_sending_response.
LEMMA SendKeeps ==
    ASSUME NEW c \in Slot, RpcServerInv, Send(c)
    PROVE  Kept(c)
<1>1. CASE client[c].reset
  BY <1>1, DestroyKeeps DEF Send
<1>2. CASE ~client[c].reset
  <2>1. /\ session[c] \in Sessions /\ session[c].state = "SENDING_RESPONSE"
        /\ Progress(session[c], client[c].len, 1) /\ handled[c] = 1
    BY DEF Send, RpcServerInv, SlotInv, Progress
  <2>2. PICK k \in (IF client[c].shut THEN 1 ELSE 0)..ResponseLen - session[c].sent :
              LET s == [session[c] EXCEPT !.sent = @ + k]
              IN /\ session' = [session EXCEPT ![c] =
                                  IF s.sent = ResponseLen THEN [s EXCEPT !.state = "DONE"]
                                  ELSE s]
                 /\ UNCHANGED <<client, handled>>
    BY <1>2 DEF Send
  <2>3. k \in Nat /\ session[c].sent \in Nat /\ session[c].sent + k <= ResponseLen
    BY <2>1, RpcAssumption DEF Sessions
  <2> DEFINE s == [session[c] EXCEPT !.sent = @ + k]
             next == IF s.sent = ResponseLen THEN [s EXCEPT !.state = "DONE"] ELSE s
  <2>4. s \in Sessions /\ Progress(s, client[c].len, 1) /\ s.state = "SENDING_RESPONSE"
    BY <2>1, <2>3 DEF Sessions, Progress
  <2>5. session' = [session EXCEPT ![c] = next] /\ client' = client /\ handled' = handled
    BY <2>2
  <2> HIDE DEF s
  <2>6. next \in Sessions /\ Progress(next, client[c].len, 1)
    BY <2>4 DEF Sessions, States, Progress
  <2>7. handled' = [handled EXCEPT ![c] = 1] /\ session[c].state # "NONE"
    BY <2>1, <2>5 DEF RpcServerInv, OverSlots
  <2> HIDE DEF next
  <2> QED
    BY <2>5, <2>6, <2>7, ReplaceKeeps
<1> QED
  BY <1>1, <1>2

\* rpc_on_client_event, whatever the events.
LEMMA ClientEventKeeps ==
    ASSUME NEW c \in Slot, RpcServerInv, NEW events, ClientEvent(c, events)
    PROVE  Kept(c)
<1>1. Destroy(c) \/ ReadHeader(c) \/ ReadPayload(c) \/ Send(c)
  BY DEF ClientEvent
<1> QED
  BY <1>1, DestroyKeeps, ReadHeaderKeeps, ReadPayloadKeeps, SendKeeps

\* rpc_on_accept: the slot had no session.
LEMMA AcceptKeeps ==
    ASSUME NEW c \in Slot, RpcServerInv, Accept(c)
    PROVE  Kept(c) /\ c \notin Registered
<1>1. client[c].at = "QUEUED" /\ session[c].state = "NONE" /\ client[c] \in Clients
  BY DEF Accept, RpcServerInv, SlotInv
<1>2. c \notin Registered
  BY <1>1 DEF Registered
<1>3. CASE Destroy(c)
  BY <1>2, <1>3, DestroyKeeps
<1>4. CASE /\ client' = [client EXCEPT ![c].at = "CONNECTED"]
           /\ session' = [session EXCEPT ![c] = NewSession]
           /\ UNCHANGED handled
  <2>1. /\ OverSlots' /\ session'[c] = NewSession
        /\ client'[c] = [client[c] EXCEPT !.at = "CONNECTED"] /\ handled'[c] = handled[c]
    BY <1>4 DEF RpcServerInv, OverSlots
  <2>2. handled[c] = 0 /\ HeaderLen \in Nat \ {0} /\ ResponseLen \in Nat \ {0}
    BY <1>1, RpcAssumption DEF RpcServerInv, SlotInv, Progress
  <2>3. /\ NoSession \in Sessions
        /\ NoSession.header = 0 /\ NoSession.payload = 0 /\ NoSession.sent = 0
    BY DEF NoSession, Sessions, States
  <2>4. /\ NewSession \in Sessions /\ NewSession.state = "READING_HEADER"
        /\ NewSession.header = 0 /\ NewSession.payload = 0 /\ NewSession.sent = 0
    BY <2>3 DEF NewSession, Sessions, States
  <2>5. Progress(NewSession, client'[c].len, 0)
    BY <2>2, <2>4 DEF Progress
  <2>6. client'[c] \in Clients /\ client'[c].at = "CONNECTED"
    BY <1>1, <2>1 DEF Clients
  <2>7. SlotInv(c)'
    <3>1. session'[c] \in Sessions /\ handled'[c] = 0 /\ handled'[c] \in Nat
      BY <2>1, <2>2, <2>4
    <3>2. Progress(session'[c], client'[c].len, handled'[c])
      BY <2>1, <2>5, <3>1
    <3> QED
      BY <2>6, <3>1, <3>2 DEF SlotInv
  <2>8. Others(c)
    BY <1>4 DEF Others, RpcServerInv, OverSlots
  <2> QED
    BY <1>2, <2>1, <2>7, <2>8, KeptFromSlot DEF RpcServerInv
<1> QED
  BY <1>3, <1>4 DEF Accept

-----------------------------------------------------------------------------
\* One event e of the batch is dispatched.  Its callback changes one slot, and
\* no event that is left belongs to that slot.
LEMMA DispatchStep ==
    ASSUME RpcServerInv, Dispatch
    PROVE  RpcServerInv'
<1>1. PICK e \in batch :
          /\ batch' = batch \ {e}
          /\ IF e = <<"accept">> THEN \E c \in Slot : Accept(c) ELSE ClientEvent(e[1], e[2])
  BY DEF Dispatch
<1>2. PICK c \in Slot : /\ Kept(c)
                        /\ \A f \in batch \ {e} : f # <<"accept">> => f[1] # c
  <2>1. CASE e = <<"accept">>
    <3>1. PICK c \in Slot : Accept(c)
      BY <1>1, <2>1
    <3>2. Kept(c) /\ c \notin Registered
      BY <3>1, AcceptKeeps
    <3> QED
      BY <3>2 DEF RpcServerInv, BatchInv
  <2>2. CASE e # <<"accept">>
    <3>1. e[1] \in Registered
      BY <2>2 DEF RpcServerInv, BatchInv
    <3>2. e[1] \in Slot
      BY <3>1 DEF Registered
    <3>3. Kept(e[1])
      BY <1>1, <2>2, <3>2, ClientEventKeeps
    <3>4. \A f \in batch \ {e} : f # <<"accept">> => f[1] # e[1]
      BY <2>2 DEF RpcServerInv, BatchInv
    <3> QED
      BY <3>2, <3>3, <3>4
  <2> QED
    BY <2>1, <2>2
<1>3. BatchInv'
  <2>1. \A d \in Slot \ {c} : d \in Registered => d \in Registered'
    BY <1>2 DEF Kept, Others, Registered
  <2>2. \A f \in batch' : f # <<"accept">> => f[1] \in Registered /\ f[1] \in Slot \ {c}
    BY <1>1, <1>2 DEF RpcServerInv, BatchInv, Registered
  <2> QED
    BY <1>1, <2>1, <2>2 DEF RpcServerInv, BatchInv
<1> QED
  BY <1>2, <1>3 DEF RpcServerInv, Kept, Dispatch

\* epoll_wait reports a registered slot once, with all its events.
LEMMA EpollWaitStep ==
    ASSUME RpcServerInv, EpollWait
    PROVE  RpcServerInv'
<1>1. Registered' = Registered
  BY DEF EpollWait, Registered
<1>2. \A e \in batch' : e # <<"accept">> => \E c \in Registered : e = <<c, Ready(c)>>
  BY DEF EpollWait
<1>3. BatchInv'
  BY <1>1, <1>2 DEF BatchInv
<1>4. (\A c \in Slot : SlotInv(c)') /\ OverSlots'
  BY DEF RpcServerInv, SlotInv, OverSlots, EpollWait
<1> QED
  BY <1>3, <1>4 DEF RpcServerInv, EpollWait

\* What a client does changes only its own end, and not the length it claims.
LEMMA ClientStep ==
    ASSUME RpcServerInv, NEW c \in Slot, Connect(c) \/ ClientWrites(c) \/ ClientCloses(c)
    PROVE  RpcServerInv'
<1>1. session' = session /\ handled' = handled /\ batch' = batch /\ loop' = loop /\ running' = running
  BY DEF Connect, ClientWrites, ClientCloses
<1>2. PICK r : /\ client' = [client EXCEPT ![c] = r] /\ r \in Clients
               /\ session[c].state # "NONE" => r.at = "CONNECTED" /\ r.len = client[c].len
  <2>1. client[c] \in Clients /\ (session[c].state # "NONE" => client[c].at = "CONNECTED")
    BY DEF RpcServerInv, SlotInv
  <2>2. CASE Connect(c)
    <3>1. PICK q \in Request : client' = [client EXCEPT ![c] =
                     [NoClient EXCEPT !.at = "QUEUED", !.cmd = q.cmd, !.len = q.len]]
      BY <2>2 DEF Connect
    <3> DEFINE r == [NoClient EXCEPT !.at = "QUEUED", !.cmd = q.cmd, !.len = q.len]
    <3>2. NoClient \in Clients
      BY DEF NoClient, Clients
    <3>3. q.cmd \in {"JOIN_REQ", "LEAVE", "SYNC_RULES", "UNKNOWN", "NOT_RPC"} /\ q.len \in Nat
      BY RpcAssumption
    <3>4. r \in Clients
      BY <3>2, <3>3 DEF Clients
    <3>5. session[c].state = "NONE"
      BY <2>1, <2>2 DEF Connect
    <3> HIDE DEF r
    <3> QED
      BY <3>1, <3>4, <3>5 DEF r
  <2>3. CASE ClientWrites(c)
    <3> DEFINE r == [client[c] EXCEPT !.wrote = @ + 1]
    <3>1. client' = [client EXCEPT ![c] = r]
      BY <2>3 DEF ClientWrites
    <3>2. r \in Clients /\ r.at = client[c].at /\ r.len = client[c].len
      BY <2>1 DEF Clients
    <3> HIDE DEF r
    <3> QED
      BY <2>1, <3>1, <3>2
  <2>4. CASE ClientCloses(c)
    <3> DEFINE r == [client[c] EXCEPT !.shut = TRUE]
               q == [r EXCEPT !.reset = TRUE]
    <3>1. client' = [client EXCEPT ![c] = r] \/ client' = [client EXCEPT ![c] = q]
      BY <2>4 DEF ClientCloses, RpcServerInv, OverSlots
    <3>2. r \in Clients /\ r.at = client[c].at /\ r.len = client[c].len
      BY <2>1 DEF Clients
    <3>3. q \in Clients /\ q.at = client[c].at /\ q.len = client[c].len
      BY <2>1 DEF Clients
    <3> HIDE DEF r, q
    <3> QED
      BY <2>1, <3>1, <3>2, <3>3
  <2> QED
    BY <2>2, <2>3, <2>4
<1>3. OverSlots'
  BY <1>1, <1>2 DEF RpcServerInv, OverSlots
<1>4. ASSUME NEW d \in Slot PROVE SlotInv(d)'
  <2>1. CASE d # c
    BY <1>1, <1>2, <2>1 DEF RpcServerInv, SlotInv, OverSlots
  <2>2. CASE d = c
    <3>1. client'[c] = r
      BY <1>2 DEF RpcServerInv, OverSlots
    <3>2. Progress(session[c], r.len, handled[c])
      BY <1>2 DEF RpcServerInv, SlotInv, Progress, Sessions, States
    <3> QED
      BY <1>1, <1>2, <2>2, <3>1, <3>2 DEF RpcServerInv, SlotInv
  <2> QED
    BY <2>1, <2>2
<1>5. BatchInv'
  BY <1>1 DEF RpcServerInv, BatchInv, Registered
<1> QED
  BY <1>1, <1>3, <1>4, <1>5 DEF RpcServerInv

\* The invariant from which the properties of the server follow: it holds when
\* the loop has not started, and every callback, client and signal keeps it.
THEOREM ServerInvariant == Spec => []RpcServerInv
<1>1. Init => RpcServerInv
  <2> SUFFICES ASSUME Init PROVE RpcServerInv
    OBVIOUS
  <2>1. HeaderLen \in Nat \ {0} /\ ResponseLen \in Nat \ {0}
    BY RpcAssumption
  <2>2. NoSession \in Sessions /\ NoClient \in Clients
    BY DEF NoSession, NoClient, Sessions, Clients, States
  <2>3. Progress(NoSession, NoClient.len, 0)
    BY <2>1 DEF Progress, NoSession, NoClient
  <2>4. \A c \in Slot : SlotInv(c)
    BY <2>2, <2>3 DEF Init, SlotInv, NoSession
  <2> QED
    BY <2>4 DEF Init, RpcServerInv, OverSlots, BatchInv
<1>2. RpcServerInv /\ [Next]_vars => RpcServerInv'
  <2> SUFFICES ASSUME RpcServerInv, [Next]_vars PROVE RpcServerInv'
    OBVIOUS
  <2>1. ASSUME UNCHANGED <<batch, session, client, handled>>,
               loop' \in {"starting", "waiting", "dispatching", "stopped"},
               running' \in BOOLEAN
        PROVE  RpcServerInv'
    BY <2>1 DEF RpcServerInv, OverSlots, SlotInv, BatchInv, Registered
  <2>2. CASE Stop
    BY <2>1, <2>2 DEF Stop, RpcServerInv
  <2>3. CASE LoopRun
    BY <2>1, <2>3 DEF LoopRun, RpcServerInv
  <2>4. CASE LoopAgain
    BY <2>1, <2>4 DEF LoopAgain, RpcServerInv
  <2>5. CASE LoopExits
    BY <2>1, <2>5 DEF LoopExits, RpcServerInv
  <2>6. CASE UNCHANGED vars
    BY <2>1, <2>6 DEF vars, RpcServerInv
  <2> QED
    BY <2>2, <2>3, <2>4, <2>5, <2>6, ClientStep, EpollWaitStep, DispatchStep DEF Next
<1> QED
  BY <1>1, <1>2, PTL DEF Spec

\* The buffers are never overrun: what a session has read of the header and of
\* the payload and sent of the response stays within their lengths.
THEOREM BuffersHold == Spec => []TypeOK
<1>1. RpcServerInv => TypeOK
  <2> SUFFICES ASSUME RpcServerInv, NEW c \in Slot
               PROVE  /\ session[c].state \in States
                      /\ session[c].header \in 0..HeaderLen
                      /\ session[c].payload \in 0..MaxLen
                      /\ session[c].sent \in 0..ResponseLen
    BY DEF RpcServerInv, TypeOK, States
  <2>1. /\ session[c].state \in States /\ session[c].header \in Nat
        /\ session[c].payload \in Nat /\ session[c].sent \in Nat /\ client[c].len \in Nat
    BY DEF RpcServerInv, SlotInv, Sessions, Clients
  <2>2. HeaderLen \in Nat /\ MaxLen \in Nat /\ ResponseLen \in Nat
    BY RpcAssumption
  <2>3. Progress(session[c], client[c].len, handled[c])
    BY DEF RpcServerInv, SlotInv
  <2> QED
    BY <2>1, <2>2, <2>3 DEF Progress, States
<1> QED
  BY <1>1, ServerInvariant, PTL

\* No callback runs with a session that was freed, however many slots there are
\* and whatever the callbacks dispatched before it destroyed or accepted.
THEOREM DispatchIsLive == Spec => []NoStaleDispatch
<1>1. RpcServerInv => NoStaleDispatch
  BY DEF RpcServerInv, BatchInv, NoStaleDispatch
<1> QED
  BY <1>1, ServerInvariant, PTL

\* A request is processed at most once, and only when all of it was read, for
\* any lengths and however the stream was cut into reads.
THEOREM RequestHandledOnce == Spec => []HandledOnceWhole
<1>1. RpcServerInv => HandledOnceWhole
  <2> SUFFICES ASSUME RpcServerInv, NEW c \in Slot
               PROVE  /\ handled[c] <= 1
                      /\ handled[c] = 1 /\ session[c].state # "NONE" =>
                            session[c].header = HeaderLen /\ session[c].payload = client[c].len
    BY DEF HandledOnceWhole
  <2>1. session[c].state \in States /\ Progress(session[c], client[c].len, handled[c])
    BY DEF RpcServerInv, SlotInv, Sessions
  <2> QED
    BY <2>1 DEF Progress, States
<1> QED
  BY <1>1, ServerInvariant, PTL
=============================================================================
