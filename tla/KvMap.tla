------------------------------- MODULE KvMap -------------------------------
(***************************************************************************)
(* What include/cluster/kv_store.h promises: a map from keys to rule lists *)
(* in which an update that returns 0 is what a later read of the key sees, *)
(* and one that returns -1 changes nothing.  Replacing the rules of a key  *)
(* always succeeds; adding a key may fail, and must when all the room is   *)
(* taken.                                                                  *)
(***************************************************************************)
EXTENDS Naturals

CONSTANTS Key, Rules, Nil, MaxEntries

VARIABLES
    rules,   \* the rule list of every key, Nil where there is none
    ret      \* what the last call returned: "ok" (0) or "error" (-1)

Present == {k \in Key : rules[k] # Nil}

\* There is room for the keys of S: MaxEntries slots hold them all.
Fits(S) ==
    \E slot \in [1..MaxEntries -> Key] :
        \A k \in S : \E i \in 1..MaxEntries : slot[i] = k

Init ==
    /\ rules = [k \in Key |-> Nil]
    /\ ret = "ok"

Update(k, r) ==
    /\ k \in Present \/ Fits(Present \cup {k})
    /\ rules' = [rules EXCEPT ![k] = r]
    /\ ret' = "ok"

Refuse(k) ==
    /\ k \notin Present
    /\ ret' = "error"
    /\ UNCHANGED rules

Clear ==
    /\ rules' = [k \in Key |-> Nil]
    /\ ret' = "ok"

Next ==
    \/ \E k \in Key : Refuse(k) \/ \E r \in Rules : Update(k, r)
    \/ Clear

Spec == Init /\ [][Next]_<<rules, ret>>
=============================================================================
