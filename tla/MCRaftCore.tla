----------------------------- MODULE MCRaftCore -----------------------------
(* RaftCore on small instances; the nodes are interchangeable. *)
EXTENDS RaftCore, TLC

Symmetry ==
    {f \in Permutations(Server) :
        /\ {f[n] : n \in Contenders} = Contenders
        /\ {f[n] : n \in Crashers} = Crashers}
=============================================================================
