------------------------------ MODULE Handlers ------------------------------
(***************************************************************************)
(* What event_loop.h promises: every descriptor has at most one handler,   *)
(* and an event of a descriptor runs the handler it has at that moment,    *)
(* one at a time.                                                          *)
(***************************************************************************)
CONSTANTS Fd, Callback, None

VARIABLES
    handler,   \* the callback registered for each descriptor, None if it has none
    call       \* the callback that is running, as <<fd, callback>>, or None

vars == <<handler, call>>

Init == handler = [fd \in Fd |-> None] /\ call = None

\* loop_add_fd, loop_mod_fd, loop_del_fd; a callback deletes its own descriptor only.
Add(fd, cb) ==
    handler[fd] = None /\ handler' = [handler EXCEPT ![fd] = cb] /\ UNCHANGED call

Mod(fd, cb) ==
    handler[fd] # None /\ handler' = [handler EXCEPT ![fd] = cb] /\ UNCHANGED call

Del(fd) ==
    /\ handler[fd] # None
    /\ call # None => call[1] = fd
    /\ handler' = [handler EXCEPT ![fd] = None] /\ UNCHANGED call

\* loop_free
Free == call = None /\ handler' = [fd \in Fd |-> None] /\ UNCHANGED call

\* An event of fd is dispatched.
Deliver(fd) ==
    /\ handler[fd] # None /\ call = None
    /\ call' = <<fd, handler[fd]>>
    /\ UNCHANGED handler

Return == call # None /\ call' = None /\ UNCHANGED handler

Next ==
    \/ \E fd \in Fd : Deliver(fd) \/ Del(fd) \/ \E cb \in Callback : Add(fd, cb) \/ Mod(fd, cb)
    \/ Return \/ Free

Spec == Init /\ [][Next]_vars
=============================================================================
