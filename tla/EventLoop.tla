------------------------------ MODULE EventLoop ------------------------------
(***************************************************************************)
(* The descriptor table of src/src/common/event_loop.c: a hash table of    *)
(* FileContexts, the pointers to them that epoll keeps, and the batches of *)
(* these pointers that loop_run dispatches.                                *)
(*                                                                         *)
(* A FileContext has an address.  The ones in `live' are allocated, and    *)
(* malloc may return an address that was freed.  Memory that is not        *)
(* allocated holds Garbage.  A chain of the table is the sequence of the   *)
(* addresses on it.                                                        *)
(*                                                                         *)
(* The callers keep to event_loop.h: a callback deletes no descriptor but  *)
(* its own, and a descriptor is deleted from the loop before it is closed. *)
(***************************************************************************)
EXTENDS Naturals, Sequences, FiniteSets

CONSTANTS
    Fd,          \* the descriptors a process may have
    HashSize,    \* FD_HASH_SIZE, a divisor of 256
    Address, Callback,
    None         \* NULL

ASSUME LoopAssumption ==
    /\ Fd \subseteq Nat /\ IsFiniteSet(Fd)
    /\ HashSize \in Nat \ {0}
    /\ None \notin Address /\ None \notin Callback /\ None \notin Fd

VARIABLES
    phase,       \* where main is: "setup", "waiting", "dispatching", "stopped", "freed"
    open,        \* the descriptors that are open
    live, ctx,   \* the allocated addresses, and what is at each address
    fd_table,
    epoll,       \* the data.ptr of each descriptor registered with epoll, or None
    batch,       \* the events of the last epoll_wait still to be dispatched
    calling      \* the callback that is running, as <<fd, callback>>, or None

memory == <<live, ctx, fd_table>>
vars == <<phase, open, memory, epoll, batch, calling>>

-----------------------------------------------------------------------------
Bucket == 0..HashSize - 1

\* fd * 2654435761 modulo 2^32 and masked: the factor is 177 modulo 256.
fd_hash(fd) == (fd * 177) % HashSize

\* find_file_context: the first one on the chain, or NULL.
Found(table, contents, fd) ==
    LET chain == table[fd_hash(fd)]
        hits == {i \in 1..Len(chain) : contents[chain[i]].fd = fd}
    IN IF hits = {} THEN None
       ELSE chain[CHOOSE i \in hits : \A j \in hits : i <= j]
Find(fd) == Found(fd_table, ctx, fd)

\* insert_file_context puts it at the head of its chain.
Linked(table, a, fd) == [table EXCEPT ![fd_hash(fd)] = <<a>> \o @]

\* A chain without its element a.
Without(chain, a) ==
    LET i == CHOOSE j \in 1..Len(chain) : chain[j] = a
    IN [j \in 1..Len(chain) - 1 |-> IF j < i THEN chain[j] ELSE chain[j + 1]]

\* remove_file_context unlinks the address a it has found.
Unlinked_DropsTail(table, a, fd) ==
    [table EXCEPT ![fd_hash(fd)] =
        SubSeq(@, 1, (CHOOSE i \in 1..Len(@) : @[i] = a) - 1)]
Unlinked(table, a, fd) == [table EXCEPT ![fd_hash(fd)] = Without(@, a)]

Garbage == [fd |-> None, callback |-> None]

Init ==
    /\ phase = "setup"
    /\ open = {} /\ live = {} /\ batch = {}
    /\ ctx = [a \in Address |-> Garbage]
    /\ fd_table = [b \in Bucket |-> <<>>]
    /\ epoll = [fd \in Fd |-> None]
    /\ calling = None

\* The thread is not in loop_run, or it is in a callback.
InUserCode == phase \in {"setup", "stopped"} \/ calling # None

-----------------------------------------------------------------------------
\* socket, accept and timerfd_create return the lowest number that is free.
Lowest(fd) == fd \in Fd \ open /\ \A other \in Fd \ open : fd <= other

OpenFd(fd) ==
    /\ InUserCode
    /\ Lowest(fd)
    /\ open' = open \cup {fd}
    /\ UNCHANGED <<phase, memory, epoll, batch, calling>>

\* close; the kernel drops the registration with epoll.
CloseFd(fd) ==
    /\ InUserCode
    /\ fd \in open /\ Find(fd) = None
    /\ open' = open \ {fd}
    /\ epoll' = [epoll EXCEPT ![fd] = None]
    /\ UNCHANGED <<phase, memory, batch, calling>>

\* What loop_add_fd does when it succeeds, for a descriptor of the set `opened'.
Registers_NoSearch(fd, cb, opened) ==
    /\ fd \in opened /\ epoll[fd] = None
    /\ \E a \in Address \ live :
        /\ live' = live \cup {a}
        /\ ctx' = [ctx EXCEPT ![a] = [fd |-> fd, callback |-> cb]]
        /\ fd_table' = Linked(fd_table, a, fd)
        /\ epoll' = [epoll EXCEPT ![fd] = a]
    /\ UNCHANGED <<phase, batch, calling>>
Registers(fd, cb, opened) ==
    /\ Find(fd) = None
    /\ fd \in opened /\ epoll[fd] = None
    /\ \E a \in Address \ live :
        /\ live' = live \cup {a}
        /\ ctx' = [ctx EXCEPT ![a] = [fd |-> fd, callback |-> cb]]
        /\ fd_table' = Linked(fd_table, a, fd)
        /\ epoll' = [epoll EXCEPT ![fd] = a]
    /\ UNCHANGED <<phase, batch, calling>>

\* loop_add_fd
AddFd(fd, cb) == InUserCode /\ Registers(fd, cb, open) /\ UNCHANGED open

\* loop_add_fd when epoll_ctl fails: what was linked is unlinked and freed.  The
\* other failures (no memory, EEXIST) change nothing.
AddFails(fd) ==
    /\ InUserCode
    /\ Find(fd) = None
    /\ \E a \in Address \ live : fd_table' = Unlinked(Linked(fd_table, a, fd), a, fd)
    /\ UNCHANGED <<phase, open, live, ctx, epoll, batch, calling>>

\* loop_add_timer: it opens a timerfd and adds it, or undoes both.
AddTimer(fd, cb) ==
    /\ InUserCode
    /\ Lowest(fd)
    /\ open' = open \cup {fd}
    /\ Registers(fd, cb, open')

\* loop_mod_fd.  The callback is replaced whether or not epoll_ctl succeeds.
ModFd(fd, cb) ==
    /\ InUserCode
    /\ Find(fd) # None
    /\ ctx' = [ctx EXCEPT ![Find(fd)].callback = cb]
    /\ epoll' = [epoll EXCEPT ![fd] = IF @ = None THEN @ ELSE Find(fd)]
    /\ UNCHANGED <<phase, open, live, fd_table, batch, calling>>

\* loop_del_fd.  EPOLL_CTL_DEL fails only where nothing is registered.
DelFd_NoEpoll(fd) ==
    /\ InUserCode
    /\ calling # None => calling[1] = fd
    /\ Find(fd) # None
    /\ fd_table' = Unlinked(fd_table, Find(fd), fd)
    /\ live' = live \ {Find(fd)}
    /\ ctx' = [ctx EXCEPT ![Find(fd)] = Garbage]
    /\ UNCHANGED <<phase, open, epoll, batch, calling>>
DelFd(fd) ==
    /\ InUserCode
    /\ calling # None => calling[1] = fd
    /\ Find(fd) # None
    /\ fd_table' = Unlinked(fd_table, Find(fd), fd)
    /\ epoll' = [epoll EXCEPT ![fd] = None]
    /\ live' = live \ {Find(fd)}
    /\ ctx' = [ctx EXCEPT ![Find(fd)] = Garbage]
    /\ UNCHANGED <<phase, open, batch, calling>>

-----------------------------------------------------------------------------
\* loop_run
LoopRun ==
    /\ phase = "setup"
    /\ phase' = "waiting"
    /\ UNCHANGED <<open, memory, epoll, batch, calling>>

\* epoll_wait reports registered descriptors, one event for each.
EpollWait ==
    /\ phase = "waiting"
    /\ \E ready \in (SUBSET {fd \in Fd : epoll[fd] # None}) \ {{}} :
          batch' = {<<fd, epoll[fd]>> : fd \in ready}
    /\ phase' = "dispatching"
    /\ UNCHANGED <<open, memory, epoll, calling>>

\* The callback gets what it finds in the FileContext.
Dispatch ==
    /\ phase = "dispatching" /\ calling = None
    /\ \E e \in batch :
        /\ batch' = batch \ {e}
        /\ calling' = <<ctx[e[2]].fd, ctx[e[2]].callback>>
    /\ UNCHANGED <<phase, open, memory, epoll>>

Return ==
    /\ calling # None
    /\ calling' = None
    /\ UNCHANGED <<phase, open, memory, epoll, batch>>

\* The batch is done; loop_run goes on, or has been stopped.
LoopAgain ==
    /\ phase = "dispatching" /\ batch = {} /\ calling = None
    /\ phase' \in {"waiting", "stopped"}
    /\ UNCHANGED <<open, memory, epoll, batch, calling>>

\* loop_emergency_close_all, with the descriptors it is told to spare; the table
\* is left as it is.
EmergencyClose ==
    /\ phase = "stopped"
    /\ \E spared \in SUBSET Fd :
        LET closed == {fd \in Fd \ spared : Find(fd) # None}
        IN /\ open' = open \ closed
           /\ epoll' = [fd \in Fd |-> IF fd \in closed THEN None ELSE epoll[fd]]
    /\ UNCHANGED <<phase, memory, batch, calling>>

\* loop_free
LoopFree ==
    /\ phase \in {"setup", "stopped"}
    /\ phase' = "freed"
    /\ live' = {a \in live : \A b \in Bucket : \A i \in 1..Len(fd_table[b]) : fd_table[b][i] # a}
    /\ ctx' = [a \in Address |-> IF a \in live' THEN ctx[a] ELSE Garbage]
    /\ fd_table' = [b \in Bucket |-> <<>>]
    /\ epoll' = [fd \in Fd |-> None]
    /\ UNCHANGED <<open, batch, calling>>

Next ==
    \/ \E fd \in Fd : OpenFd(fd) \/ CloseFd(fd) \/ DelFd(fd) \/ AddFails(fd)
    \/ \E fd \in Fd, cb \in Callback : AddFd(fd, cb) \/ AddTimer(fd, cb) \/ ModFd(fd, cb)
    \/ LoopRun \/ EpollWait \/ Dispatch \/ Return \/ LoopAgain \/ EmergencyClose \/ LoopFree

Spec == Init /\ [][Next]_vars

-----------------------------------------------------------------------------
\* Every field has its type, and loop_run calls no callback that is NULL or whose
\* descriptor is none (event_loop.c:338, "should never be NULL").
TypeOK ==
    /\ phase \in {"setup", "waiting", "dispatching", "stopped", "freed"}
    /\ open \subseteq Fd /\ live \subseteq Address
    /\ ctx \in [Address -> [fd : Fd \cup {None}, callback : Callback \cup {None}]]
    /\ fd_table \in [Bucket -> Seq(Address)]
    /\ epoll \in [Fd -> Address \cup {None}]
    /\ batch \subseteq Fd \X Address
    /\ calling \in (Fd \X Callback) \cup {None}

\* The table holds exactly what is allocated: every FileContext is on one chain,
\* once, at the bucket where find_file_context looks for it, and no two are of
\* the same descriptor.  Nothing is leaked, freed twice or lost when a neighbour
\* on its chain is unlinked or a failed loop_add_fd is rolled back.
TableIsHeap ==
    /\ \A a \in live :
        \E b \in Bucket : \E i \in 1..Len(fd_table[b]) : fd_table[b][i] = a
    /\ \A b \in Bucket : \A i \in 1..Len(fd_table[b]) :
        /\ fd_table[b][i] \in live
        /\ fd_hash(ctx[fd_table[b][i]].fd) = b
        /\ \A j \in 1..Len(fd_table[b]) :
              ctx[fd_table[b][i]].fd = ctx[fd_table[b][j]].fd => i = j

\* Neither epoll nor the batch that is being dispatched holds a pointer that was
\* freed or belongs to another descriptor, although callbacks delete their own
\* descriptor, close it, and add others that get its number or its memory
\* (event_loop.c:355 says this is safe).
NoDanglingPointer ==
    /\ \A fd \in Fd : epoll[fd] # None => epoll[fd] \in live /\ ctx[epoll[fd]].fd = fd
    /\ \A e \in batch : e[2] \in live /\ ctx[e[2]].fd = e[1]

\* The table, with its chains, rollbacks and reused memory, is the map from
\* descriptors to handlers that event_loop.h describes, and every event runs
\* the handler that its descriptor has at that moment.
handler == [fd \in Fd |-> IF Find(fd) = None THEN None ELSE ctx[Find(fd)].callback]
Abstract == INSTANCE Handlers WITH call <- calling
ImplementsHandlers == Abstract!Spec
=============================================================================
