----------------------------- MODULE Membership -----------------------------
(***************************************************************************)
(* The membership protocol that src/src/main.c runs: nodes join through a  *)
(* seed over TCP, heartbeat to each other over UDP, age what they have not *)
(* heard of, and say goodbye when they are stopped (src/src/cluster/       *)
(* cluster_manager.c, and the JOIN and LEAVE commands of rpc_handler.c).   *)
(*                                                                         *)
(* A process that is joining blocks in cluster_join before it enters its   *)
(* event loop; its sockets are open, so what is sent to it waits.  The     *)
(* list of a node is a sequence, searched from its start.  An entry's      *)
(* last_updated_ts is modelled by its distance from the node's clock:      *)
(*   recent, up to 1500 ms; late, up to 3000 ms; old, more;                *)
(*   future, ahead of the clock, which the reaper takes for no distance.   *)
(* cluster_handle_join_req stores time(NULL), seconds since 1970, where    *)
(* the reaper compares milliseconds since boot: that is in the future for  *)
(* the first twenty days the machine is up, and long ago on a machine of   *)
(* LongUp.                                                                 *)
(***************************************************************************)
EXTENDS Naturals, Sequences, FiniteSets

CONSTANTS
    Node,
    Seeds,       \* the nodes given to others as seed
    LongUp,      \* the nodes on machines that have been up for long
    Fanout,      \* how many members a heartbeat or a LEAVE goes to; 3 in the code
    Gossipers,   \* bound: the nodes whose heartbeat timer fires
    Ageing,      \* bound: the nodes on which time passes
    Mortal,      \* bound: the nodes that may crash
    Leavers,     \* bound: the nodes that may be stopped
    MaxStarts,   \* bound: how often a node is started
    Lossy        \* whether gossip may be lost

ASSUME MembershipAssumption ==
    /\ IsFiniteSet(Node)
    /\ Seeds \subseteq Node /\ LongUp \subseteq Node
    /\ Gossipers \subseteq Node /\ Ageing \subseteq Node
    /\ Mortal \subseteq Node /\ Leavers \subseteq Node
    /\ Fanout \in Nat /\ MaxStarts \in Nat
    /\ Lossy \in BOOLEAN

VARIABLES
    proc,      \* "down", "joining" or "up"
    members,   \* the member list of each node
    starts,    \* how often each node was started: which process it is
    rpc,       \* TCP requests and responses on their way
    gossip,    \* heartbeats <<from, to>> on their way
    via        \* history: <<seed, its starts>> of the join that succeeded

vars == <<proc, members, starts, rpc, gossip, via>>

-----------------------------------------------------------------------------
Entry(id, status, age) == [id |-> id, status |-> status, age |-> age]

\* The first position of m in a list, 0 when it is not there.
Position(list, m) ==
    LET found == {i \in 1..Len(list) : list[i].id = m}
    IN IF found = {} THEN 0 ELSE CHOOSE i \in found : \A j \in found : i <= j

Knows(n, m) == Position(members[n], m) # 0

EntryOf(n, m) == members[n][Position(members[n], m)]

\* cluster_update_member_status: a node that is not in the list stays unknown.
UpdateStatus(list, m, status) ==
    IF Position(list, m) = 0 THEN list
    ELSE [list EXCEPT ![Position(list, m)] = Entry(m, status, "recent")]

\* The distance between time(NULL) and the clock the reaper uses.
WallClockAge(n) == IF n \in LongUp THEN "old" ELSE "future"

\* The list part of cluster_handle_join_req.
WithJoiner_NoSearch(n, m) == Append(members[n], Entry(m, "ALIVE", WallClockAge(n)))
WithJoiner(n, m) ==
    LET e == Entry(m, "ALIVE", WallClockAge(n))
        i == Position(members[n], m)
    IN IF i = 0 THEN Append(members[n], e) ELSE [members[n] EXCEPT ![i] = e]

\* cluster_join's import loop: the seed's members but the node itself, after
\* what the list holds already.
Copied(n, list) ==
    LET copied[i \in 0..Len(list)] ==
            IF i = 0 THEN members[n]
            ELSE IF list[i].id = n THEN copied[i - 1]
            ELSE Append(copied[i - 1], Entry(list[i].id, list[i].status, "recent"))
    IN copied[Len(list)]

\* cluster_join's list, with the seed at the end unless it was among the members.
Imported_NoSeed(n, seed, list) == Copied(n, list)
Imported(n, seed, list) ==
    IF Position(Copied(n, list), seed) # 0 THEN Copied(n, list)
    ELSE Append(Copied(n, list), Entry(seed, "ALIVE", "recent"))

-----------------------------------------------------------------------------
Init ==
    /\ proc = [n \in Node |-> "down"]
    /\ members = [n \in Node |-> <<>>]
    /\ starts = [n \in Node |-> 0]
    /\ rpc = {}
    /\ gossip = {}
    /\ via = [n \in Node |-> <<>>]

\* main without a seed, or with one it cannot connect to.
StartAlone(n) ==
    /\ proc[n] = "down" /\ starts[n] < MaxStarts
    /\ proc' = [proc EXCEPT ![n] = "up"]
    /\ starts' = [starts EXCEPT ![n] = @ + 1]
    /\ UNCHANGED <<members, rpc, gossip, via>>

\* cluster_join up to the blocking read of the response.  The listening socket
\* of the seed accepts the connection whatever the seed is doing.
StartJoin(n, s) ==
    /\ proc[n] = "down" /\ starts[n] < MaxStarts
    /\ s # n /\ proc[s] # "down"
    /\ proc' = [proc EXCEPT ![n] = "joining"]
    /\ starts' = [starts EXCEPT ![n] = @ + 1]
    /\ rpc' = rpc \cup {[type |-> "JOIN_REQ", src |-> n, dst |-> s,
                         conn |-> starts[n] + 1]}
    /\ UNCHANGED <<members, gossip, via>>

\* The seed's handle_processing of JOIN_REQ.  It answers over the connection;
\* the process at the other end may be gone.
HandleJoinReq(m) ==
    /\ m.type = "JOIN_REQ" /\ proc[m.dst] = "up"
    /\ members' = [members EXCEPT ![m.dst] = WithJoiner(m.dst, m.src)]
    /\ rpc' = (rpc \ {m}) \cup
              (IF proc[m.src] = "joining" /\ starts[m.src] = m.conn
               THEN {[type |-> "JOIN_RESP", src |-> m.dst, dst |-> m.src,
                      conn |-> starts[m.dst], list |-> members'[m.dst]]}
               ELSE {})
    /\ UNCHANGED <<proc, starts, gossip, via>>

\* The rest of cluster_join, and loop_run.
HandleJoinResp(m) ==
    /\ m.type = "JOIN_RESP" /\ proc[m.dst] = "joining"
    /\ members' = [members EXCEPT ![m.dst] = Imported(m.dst, m.src, m.list)]
    /\ proc' = [proc EXCEPT ![m.dst] = "up"]
    /\ rpc' = rpc \ {m}
    /\ via' = [via EXCEPT ![m.dst] = <<m.src, m.conn>>]
    /\ UNCHANGED <<starts, gossip>>

\* The seed died and the connection with it: the node starts in isolation.
JoinFails_KeepsReading(n) == FALSE
JoinFails(n) ==
    /\ proc[n] = "joining"
    /\ \A m \in rpc : /\ m.type = "JOIN_REQ" => m.src # n \/ m.conn # starts[n]
                      /\ m.type = "JOIN_RESP" => m.dst # n
    /\ proc' = [proc EXCEPT ![n] = "up"]
    /\ UNCHANGED <<members, starts, rpc, gossip, via>>

\* rpc_handler.c on LEAVE.
HandleLeave(m) ==
    /\ m.type = "LEAVE" /\ proc[m.dst] = "up"
    /\ members' = [members EXCEPT ![m.dst] = UpdateStatus(@, m.src, "DEAD")]
    /\ rpc' = rpc \ {m}
    /\ UNCHANGED <<proc, starts, gossip, via>>

-----------------------------------------------------------------------------
\* The list from a random start, round to where it began.
Rotated(list, start) ==
    [i \in 1..Len(list) |-> list[((start + i - 2) % Len(list)) + 1]]

\* The ids of the first Fanout of the entries at these places.
FirstIds(list, places) ==
    {list[i].id : i \in {k \in places : Cardinality({j \in places : j < k}) < Fanout}}

GossipTargets(n, start) ==
    LET list == Rotated(members[n], start)
    IN FirstIds(list, {i \in 1..Len(list) : list[i].id # n /\ list[i].status # "DEAD"})

\* on_heartbeat_timer
Heartbeat(n) ==
    /\ n \in Gossipers /\ proc[n] = "up"
    /\ \E start \in 1..Len(members[n]) :
          gossip' = gossip \cup {<<n, t>> : t \in GossipTargets(n, start)}
    /\ UNCHANGED <<proc, members, starts, rpc, via>>

\* on_gossip_receive
GossipReceive(g) ==
    /\ proc[g[2]] = "up"
    /\ members' = [members EXCEPT ![g[2]] = UpdateStatus(@, g[1], "ALIVE")]
    /\ gossip' = gossip \ {g}
    /\ UNCHANGED <<proc, starts, rpc, via>>

\* A datagram is lost, or finds nobody at its port.
GossipLost(g) ==
    /\ Lossy \/ proc[g[2]] = "down"
    /\ gossip' = gossip \ {g}
    /\ UNCHANGED <<proc, members, starts, rpc, via>>

Reaped_SuspectStays(e) ==
    CASE e.status # "ALIVE" -> e
      [] e.age = "old" -> [e EXCEPT !.status = "DEAD"]
      [] e.age = "late" -> [e EXCEPT !.status = "SUSPECT"]
      [] OTHER -> e
Reaped(e) ==
    CASE e.age = "old" -> [e EXCEPT !.status = "DEAD"]
      [] e.age = "late" /\ e.status = "ALIVE" -> [e EXCEPT !.status = "SUSPECT"]
      [] OTHER -> e

\* cluster_reaper_tick
Reap(n) ==
    /\ proc[n] = "up"
    /\ members' = [members EXCEPT ![n] = [i \in DOMAIN @ |-> Reaped(@[i])]]
    /\ UNCHANGED <<proc, starts, rpc, gossip, via>>

\* Time passes without news of the i-th member.
GrowOlder(n, i) ==
    /\ n \in Ageing
    /\ i \in DOMAIN members[n]
    /\ members[n][i].age \in {"recent", "late"}
    /\ members' = [members EXCEPT ![n][i].age = IF @ = "recent" THEN "late" ELSE "old"]
    /\ UNCHANGED <<proc, starts, rpc, gossip, via>>

-----------------------------------------------------------------------------
\* The process ends: its list is gone and connections to it are broken.
Gone(n) ==
    /\ proc' = [proc EXCEPT ![n] = "down"]
    /\ members' = [members EXCEPT ![n] = <<>>]
    /\ via' = [via EXCEPT ![n] = <<>>]

Crash(n) ==
    /\ n \in Mortal /\ proc[n] # "down"
    /\ Gone(n)
    /\ rpc' = {m \in rpc : m.dst # n}
    /\ UNCHANGED <<starts, gossip>>

\* cluster_leave after loop_run: LEAVE to the first Fanout members that are
\* ALIVE and can be connected to.
Leave(n) ==
    /\ n \in Leavers /\ proc[n] = "up"
    /\ Gone(n)
    /\ LET Reached(e) == e.id # n /\ e.status = "ALIVE" /\ proc[e.id] # "down"
           told == FirstIds(members[n], {i \in 1..Len(members[n]) : Reached(members[n][i])})
       IN rpc' = {m \in rpc : m.dst # n}
                 \cup {[type |-> "LEAVE", src |-> n, dst |-> t] : t \in told}
    /\ UNCHANGED <<starts, gossip>>

Next ==
    \/ \E n \in Node : \/ StartAlone(n) \/ JoinFails(n) \/ Heartbeat(n) \/ Reap(n)
                       \/ Crash(n) \/ Leave(n)
                       \/ \E s \in Seeds : StartJoin(n, s)
                       \/ \E i \in 1..Cardinality(Node) : GrowOlder(n, i)
    \/ \E m \in rpc : HandleJoinReq(m) \/ HandleJoinResp(m) \/ HandleLeave(m)
    \/ \E g \in gossip : GossipReceive(g) \/ GossipLost(g)

Spec == Init /\ [][Next]_vars

\* Timers keep firing, clocks advance, and the event loop of a running process
\* gets to every socket that has something to read.
Fairness ==
    /\ \A n \in Node :
          /\ WF_vars(Heartbeat(n)) /\ WF_vars(Reap(n)) /\ WF_vars(JoinFails(n))
          /\ \A i \in 1..Cardinality(Node) : WF_vars(GrowOlder(n, i))
          /\ \A o \in Node :
                /\ WF_vars(\E m \in rpc : m.src = o /\ m.dst = n /\
                              (HandleJoinReq(m) \/ HandleJoinResp(m) \/ HandleLeave(m)))
                /\ WF_vars(<<o, n>> \in gossip /\
                              (GossipReceive(<<o, n>>) \/ GossipLost(<<o, n>>)))

FairSpec == Spec /\ Fairness

-----------------------------------------------------------------------------
Status == {"ALIVE", "SUSPECT", "DEAD"}
EntryType == [id : Node, status : Status, age : {"future", "recent", "late", "old"}]

\* Lists, processes and messages have their types, and the array of members,
\* which is never shrunk, needs no more places than there are other nodes.
TypeOK ==
    /\ proc \in [Node -> {"down", "joining", "up"}]
    /\ \A n \in Node :
          members[n] \in Seq(EntryType) /\ Len(members[n]) < Cardinality(Node)
    /\ starts \in [Node -> 0..MaxStarts]
    /\ \A m \in rpc : m.type \in {"JOIN_REQ", "JOIN_RESP", "LEAVE"} /\ m.src # m.dst
    /\ gossip \subseteq Node \X Node

\* No list names a node twice, or its owner: the updates by id, that stop at the
\* first match, reach all there is.  cluster_join appends without searching, so
\* this rests on its running before anything else can fill the list, and on
\* every list sent in a JOIN_RESP having the property.
UniqueMembers ==
    \A n \in Node : \A i \in DOMAIN members[n] :
        /\ members[n][i].id # n
        /\ \A j \in DOMAIN members[n] : members[n][i].id = members[n][j].id => i = j

\* A join that succeeded is mutual for as long as the two processes live: the
\* seed lists the node and the node lists the seed, whatever else crashed, left
\* or joined again meanwhile.
JoinIsMutual ==
    \A n, s \in Node :
        via[n] = <<s, starts[s]>> /\ proc[s] = "up" => Knows(s, n) /\ Knows(n, s)

\* A process that joins gets out of cluster_join, one way or the other
\* (main.c:266, "Could not join via seed, starting in isolation").
JoinReturns == \A n \in Node : proc[n] = "joining" ~> proc[n] # "joining"

HasStatus(n, m, status) == Knows(n, m) /\ EntryOf(n, m).status = status

\* A node that is gone for good is in the end DEAD, for good, in the list of a
\* node that once heard from it: neither heartbeats that arrive late nor a
\* LEAVE overtaken by them change that.
HeardThenDead ==
    \A n, m \in Node :
        <>[](/\ proc[n] = "up" /\ proc[m] = "down"
             /\ Knows(n, m) /\ EntryOf(n, m).age # "future")
            => <>[]HasStatus(n, m, "DEAD")
=============================================================================
