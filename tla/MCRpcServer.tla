---------------------------- MODULE MCRpcServer ----------------------------
(* RpcServer with requests for every branch of the session's handlers. *)
EXTENDS RpcServer

Wanted(command, length) == [cmd |-> command, len |-> length]

\* Whole requests of each kind, one of the wrong size, one too large, one that
\* is no RPC.
MCRequest ==
    {Wanted("JOIN_REQ", JoinLen), Wanted("JOIN_REQ", 0), Wanted("LEAVE", 0),
     Wanted("SYNC_RULES", SyncLen), Wanted("SYNC_RULES", MaxLen + 1), Wanted("NOT_RPC", 0)}
=============================================================================
