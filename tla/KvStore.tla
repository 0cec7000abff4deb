------------------------------ MODULE KvStore ------------------------------
(***************************************************************************)
(* The rule store of src/src/cluster/kv_store.c: an array that is searched *)
(* from its start with strcmp on the key as it was stored.  A key is       *)
(* stored cut to the 63 characters that fit RuleConfig.key; Prefix is what *)
(* is left of the keys of LongKey.                                         *)
(***************************************************************************)
EXTENDS Naturals, Sequences

CONSTANTS
    Key,
    LongKey,      \* the keys of 64 characters or more
    Prefix,       \* their first 63 characters, themselves a key
    Rules,        \* the rule lists, by address; NULL is not among them
    Nil,          \* NULL
    MaxEntries    \* MAX_KV_ENTRIES

ASSUME KvAssumption ==
    /\ LongKey \subseteq Key
    /\ LongKey # {} => Prefix \in Key \ LongKey
    /\ Nil \notin Rules
    /\ MaxEntries \in Nat

VARIABLES
    store,   \* the first store_count entries of the array
    ret      \* what the last call returned: "ok" (0) or "error" (-1)

vars == <<store, ret>>

-----------------------------------------------------------------------------
StoredKey(k) == IF k \in LongKey THEN Prefix ELSE k

\* The positions at which the search loop would stop for key k.
Positions(k) == {i \in 1..Len(store) : store[i].key = k}

First(k) == CHOOSE i \in Positions(k) : \A j \in Positions(k) : i <= j

kv_get_rules_Last(k) == IF Positions(k) = {} THEN Nil ELSE store[Len(store)].rules
kv_get_rules(k) == IF Positions(k) = {} THEN Nil ELSE store[First(k)].rules

Init == store = <<>> /\ ret = "ok"

Replace(k, r) ==
    /\ Positions(k) # {}
    /\ store' = [store EXCEPT ![First(k)].rules = r]
    /\ ret' = "ok"

HasRoom_OffByOne == Len(store) <= MaxEntries
HasRoom == Len(store) < MaxEntries

Insert_NoSearch(k, r) ==
    /\ HasRoom
    /\ store' = Append(store, [key |-> StoredKey(k), rules |-> r])
    /\ ret' = "ok"
Insert(k, r) ==
    /\ Positions(k) = {}
    /\ HasRoom
    /\ store' = Append(store, [key |-> StoredKey(k), rules |-> r])
    /\ ret' = "ok"

\* The array is full, or malloc fails.
Fail(k) ==
    /\ Positions(k) = {}
    /\ ret' = "error"
    /\ UNCHANGED store

kv_update_rule(k, r) == Replace(k, r) \/ Insert(k, r) \/ Fail(k)

\* kv_destroy, and kv_init: both leave no entry.
kv_destroy == store' = <<>> /\ ret' = "ok"

Next == (\E k \in Key, r \in Rules : kv_update_rule(k, r)) \/ kv_destroy

Spec == Init /\ [][Next]_vars

-----------------------------------------------------------------------------
\* Every entry is a key that fits with a rule list, and the array is not
\* written beyond its end.
TypeOK ==
    /\ store \in Seq([key : Key, rules : Rules])
    /\ Len(store) <= MaxEntries
    /\ ret \in {"ok", "error"}

\* No key has two entries, so that the entry an update replaces is the one that
\* reads find (kv_update_rule searches before it appends).
UniqueKeys ==
    \A i, j \in 1..Len(store) : store[i].key = store[j].key => i = j

Map == INSTANCE KvMap WITH rules <- [k \in Key |-> kv_get_rules(k)]

\* Seen through kv_get_rules the array is the map of kv_store.h: an accepted
\* update is what the next read returns, a refused one was for a key that is
\* not there and changes none.
ImplementsMap == Map!Spec
=============================================================================
