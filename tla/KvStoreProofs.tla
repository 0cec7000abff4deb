--------------------------- MODULE KvStoreProofs ---------------------------
(***************************************************************************)
(* The array of KvStore stays in its bounds, for any number of keys, rule  *)
(* lists and entries, whatever the keys; and as long as no key is too long *)
(* for RuleConfig.key it has one entry for each and implements KvMap.      *)
(***************************************************************************)
EXTENDS KvStore, WellFoundedInduction, SequenceTheorems, TLAPS

\* What the refinement needs of a state.
Inv == TypeOK /\ UniqueKeys

\* The value the refinement mapping gives to the map of KvMap.
Read == [k \in Key |-> kv_get_rules(k)]

\* Every entry of the array has a key and a rule list.
LEMMA EntryType ==
    ASSUME TypeOK, NEW i \in 1..Len(store)
    PROVE  /\ store[i] \in [key : Key, rules : Rules]
           /\ store[i].key \in Key
           /\ store[i].rules \in Rules
<1> DEFINE E == [key : Key, rules : Rules]
<1>1. store \in Seq(E)
  BY DEF TypeOK
<1>2. store[i] \in E
  <2> HIDE DEF E
  <2> QED
    BY <1>1, ElementOfSeq
<1> QED
  BY <1>2

\* With unique keys the search for k stops at the one entry that has k.
LEMMA FirstIsOnly ==
    ASSUME UniqueKeys, NEW k, NEW i \in 1..Len(store), store[i].key = k
    PROVE  Positions(k) # {} /\ First(k) = i /\ kv_get_rules(k) = store[i].rules
<1>1. Positions(k) = {i}
  BY DEF UniqueKeys, Positions
<1>2. First(k) = i
  BY <1>1 DEF First
<1> QED
  BY <1>1, <1>2 DEF kv_get_rules

\* A key is read as absent exactly when no entry has it.
LEMMA AbsentIsNil ==
    ASSUME TypeOK, UniqueKeys, NEW k
    PROVE  Positions(k) = {} <=> kv_get_rules(k) = Nil
<1>1. CASE Positions(k) = {}
  BY <1>1 DEF kv_get_rules
<1>2. CASE Positions(k) # {}
  <2>1. PICK i \in 1..Len(store) : store[i].key = k
    BY <1>2 DEF Positions
  <2>2. kv_get_rules(k) = store[i].rules
    BY <2>1, FirstIsOnly
  <2>3. store[i].rules \in Rules
    BY EntryType
  <2> QED
    BY <1>2, <2>2, <2>3, KvAssumption
<1> QED
  BY <1>1, <1>2

\* The two facts above in the state after a step.
LEMMA FirstIsOnlyNext ==
    ASSUME UniqueKeys', NEW k, NEW i \in 1..Len(store'), store'[i].key = k
    PROVE  kv_get_rules(k)' = store'[i].rules
<1>1. Positions(k)' = {i}
  BY DEF UniqueKeys, Positions
<1>2. First(k)' = i
  BY <1>1 DEF First
<1> QED
  BY <1>1, <1>2 DEF kv_get_rules

LEMMA AbsentIsNilNext ==
    ASSUME NEW k, \A i \in 1..Len(store') : store'[i].key # k
    PROVE  kv_get_rules(k)' = Nil
BY DEF Positions, kv_get_rules

\* Two entries can have the same key only if it is what is left of long keys:
\* kv_update_rule searches for the whole key and stores it cut.
OnlyPrefixTwice ==
    \A i, j \in 1..Len(store) :
        store[i].key = store[j].key => i = j \/ (LongKey # {} /\ store[i].key = Prefix)

\* A set of numbers that is not empty has a least one.
LEMMA LeastNumber ==
    ASSUME NEW S, S \subseteq Nat, S # {}
    PROVE  \E i \in S : \A j \in S : i <= j
<1>1. PICK i \in S : \A j \in S : ~(<<j, i>> \in OpToRel(<, Nat))
  BY NatLessThanWellFounded, WFMin, Zenon
<1>2. ASSUME NEW j \in S PROVE i <= j
  <2>1. i \in Nat /\ j \in Nat
    OBVIOUS
  <2>2. ~(j < i)
    BY <1>1, <2>1, Zenon DEF OpToRel
  <2> QED
    BY <2>1, <2>2
<1> QED
  BY <1>2

\* The search loop stops at an entry that has the key.
LEMMA FirstIsThere ==
    ASSUME NEW k, Positions(k) # {}
    PROVE  First(k) \in 1..Len(store) /\ store[First(k)].key = k
<1>1. Positions(k) \subseteq Nat
  BY DEF Positions
<1>2. \E i \in Positions(k) : \A j \in Positions(k) : i <= j
  BY <1>1, LeastNumber
<1>3. First(k) \in Positions(k)
  BY <1>2 DEF First
<1> QED
  BY <1>3 DEF Positions

\* What is stored of a key is a key.
LEMMA StoredKeyIs ==
    ASSUME NEW k \in Key
    PROVE  StoredKey(k) \in Key /\ (StoredKey(k) # k => LongKey # {} /\ StoredKey(k) = Prefix)
BY KvAssumption DEF StoredKey

LEMMA NextKeys ==
    ASSUME TypeOK, OnlyPrefixTwice, [Next]_vars
    PROVE  TypeOK' /\ OnlyPrefixTwice'
<1>1. ASSUME NEW k \in Key, NEW r \in Rules, Replace(k, r)
      PROVE  TypeOK' /\ OnlyPrefixTwice'
  <2>1. PICK i \in 1..Len(store) : i = First(k)
    BY <1>1, FirstIsThere DEF Replace
  <2> DEFINE E == [key : Key, rules : Rules]
             e == [store[i] EXCEPT !.rules = r]
  <2>3. store' = [store EXCEPT ![i] = e]
    BY <1>1, <2>1 DEF Replace
  <2>4. e \in E /\ e.key = store[i].key
    BY EntryType
  <2>5. store \in Seq(E)
    BY DEF TypeOK
  <2>6. store' \in Seq(E) /\ Len(store') = Len(store)
    <3> HIDE DEF E, e
    <3> QED
      BY <2>3, <2>4, <2>5, ExceptSeq
  <2>7. \A j \in 1..Len(store) : store'[j].key = store[j].key
    <3> HIDE DEF e
    <3> QED
      BY <2>3, <2>4, <2>5
  <2> QED
    BY <1>1, <2>6, <2>7 DEF Replace, TypeOK, OnlyPrefixTwice
<1>2. ASSUME NEW k \in Key, NEW r \in Rules, Insert(k, r)
      PROVE  TypeOK' /\ OnlyPrefixTwice'
  <2>1. PICK s \in Key : s = StoredKey(k)
    BY StoredKeyIs
  <2>2. store' = Append(store, [key |-> s, rules |-> r])
    BY <1>2, <2>1 DEF Insert
  <2>3. \A j \in 1..Len(store) : store[j].key # k
    BY <1>2 DEF Insert, Positions
  <2>4. s # k => LongKey # {} /\ s = Prefix
    BY <2>1, StoredKeyIs
  <2>5. TypeOK'
    BY <1>2, <2>2, KvAssumption DEF Insert, HasRoom, TypeOK
  <2>6. /\ Len(store) \in Nat /\ Len(store') = Len(store) + 1
        /\ \A j \in 1..Len(store) : store'[j] = store[j]
        /\ store'[Len(store) + 1].key = s
    BY <2>2 DEF TypeOK
  <2>7. OnlyPrefixTwice'
    BY <2>3, <2>4, <2>6 DEF OnlyPrefixTwice
  <2> QED
    BY <2>5, <2>7
<1>3. ASSUME NEW k \in Key, Fail(k)
      PROVE  TypeOK' /\ OnlyPrefixTwice'
  BY <1>3 DEF Fail, TypeOK, OnlyPrefixTwice
<1>4. CASE kv_destroy
  BY <1>4, KvAssumption DEF kv_destroy, TypeOK, OnlyPrefixTwice
<1>5. CASE UNCHANGED vars
  BY <1>5 DEF vars, TypeOK, OnlyPrefixTwice
<1> QED
  BY <1>1, <1>2, <1>3, <1>4, <1>5 DEF Next, kv_update_rule

\* While the array is not full, the keys it holds and one more fit.
LEMMA RoomForOne ==
    ASSUME Inv, Len(store) < MaxEntries, NEW k \in Key
    PROVE  Map!Fits(Map!Present \cup {k})
<1>1. Len(store) \in Nat /\ MaxEntries \in Nat
  BY KvAssumption DEF Inv, TypeOK
<1>2. \A i \in 1..Len(store) : store[i].key \in Key
  BY EntryType DEF Inv
<1> DEFINE slot == [i \in 1..MaxEntries |-> IF i <= Len(store) THEN store[i].key ELSE k]
<1>3. slot \in [1..MaxEntries -> Key]
  BY <1>1, <1>2
<1>4. ASSUME NEW o \in Map!Present \cup {k}
      PROVE  \E i \in 1..MaxEntries : slot[i] = o
  <2>1. CASE o = k
    <3>1. MaxEntries \in 1..MaxEntries /\ slot[MaxEntries] = k
      BY <1>1
    <3> QED
      BY <2>1, <3>1
  <2>2. CASE o \in Map!Present
    <3>1. Positions(o) # {}
      BY <2>2, AbsentIsNil DEF Map!Present, Inv
    <3>2. PICK i \in 1..Len(store) : store[i].key = o
      BY <3>1 DEF Positions
    <3>3. i \in 1..MaxEntries /\ slot[i] = o
      BY <1>1, <3>2
    <3> QED
      BY <3>3
  <2> QED
    BY <2>1, <2>2
<1> HIDE DEF slot
<1> QED
  BY <1>3, <1>4 DEF Map!Fits

\* A step that gives key k the rules r, in one entry, and leaves the entries of
\* the other keys alone, is seen by readers as an update of k and nothing else.
LEMMA OneKeyRead ==
    ASSUME Inv, Inv', NEW k \in Key, NEW r \in Rules, NEW i \in 1..Len(store'),
           store'[i].key = k, store'[i].rules = r,
           \A j \in 1..Len(store) : /\ j \in 1..Len(store')
                                    /\ store'[j].key = store[j].key
                                    /\ store[j].key # k => store'[j] = store[j],
           \A j \in 1..Len(store') : store'[j].key # k => j \in 1..Len(store)
    PROVE  Read' = [Read EXCEPT ![k] = r]
<1>1. kv_get_rules(k)' = r
  BY FirstIsOnlyNext DEF Inv
<1>2. ASSUME NEW o \in Key, o # k
      PROVE  kv_get_rules(o)' = kv_get_rules(o)
  <2>1. CASE \E j \in 1..Len(store) : store[j].key = o
    <3>1. PICK j \in 1..Len(store) : store[j].key = o
      BY <2>1
    <3>2. j \in 1..Len(store') /\ store'[j] = store[j]
      BY <1>2, <3>1
    <3>3. kv_get_rules(o) = store[j].rules
      BY <3>1, FirstIsOnly DEF Inv
    <3>4. kv_get_rules(o)' = store'[j].rules
      BY <3>1, <3>2, FirstIsOnlyNext DEF Inv
    <3> QED
      BY <3>2, <3>3, <3>4
  <2>2. CASE \A j \in 1..Len(store) : store[j].key # o
    <3>1. kv_get_rules(o) = Nil
      BY <2>2 DEF Positions, kv_get_rules
    <3>2. \A j \in 1..Len(store') : store'[j].key # o
      BY <1>2, <2>2
    <3> QED
      BY <3>1, <3>2, AbsentIsNilNext
  <2> QED
    BY <2>1, <2>2
<1> QED
  BY <1>1, <1>2 DEF Read

\* Every call of the store is, for its readers, a step of the map.
LEMMA StepMaps ==
    ASSUME LongKey = {}, Inv, Inv', [Next]_vars
    PROVE  [Map!Next]_<<Read, ret>>
<1> DEFINE E == [key : Key, rules : Rules]
<1>0. store \in Seq(E) /\ Len(store) \in Nat
  BY DEF Inv, TypeOK
<1>1. ASSUME NEW k \in Key, NEW r \in Rules, Replace(k, r)
      PROVE  Map!Update(k, r)
  <2>1. PICK i \in 1..Len(store) : store[i].key = k
    BY <1>1 DEF Replace, Positions
  <2>2. First(k) = i /\ kv_get_rules(k) # Nil
    BY <1>1, <2>1, FirstIsOnly, AbsentIsNil DEF Inv, Replace
  <2> DEFINE e == [store[i] EXCEPT !.rules = r]
  <2>3. store' = [store EXCEPT ![i] = e]
    BY <1>1, <2>2 DEF Replace
  <2>4. e.key = k /\ e.rules = r
    BY <2>1, EntryType DEF Inv
  <2>5. /\ Len(store') = Len(store)
        /\ store'[i] = e
        /\ \A j \in 1..Len(store) : j # i => store'[j] = store[j]
    <3> HIDE DEF E, e
    <3> QED
      BY <1>0, <2>3
  <2>6. \A j \in 1..Len(store) : store[j].key = k => j = i
    BY <2>1 DEF Inv, UniqueKeys
  <2>7. Read' = [Read EXCEPT ![k] = r]
    <3> HIDE DEF e
    <3>1. store'[i].key = k /\ store'[i].rules = r /\ i \in 1..Len(store')
      BY <2>4, <2>5
    <3>2. \A j \in 1..Len(store) : /\ j \in 1..Len(store')
                                   /\ store'[j].key = store[j].key
                                   /\ store[j].key # k => store'[j] = store[j]
      BY <2>1, <2>4, <2>5
    <3>3. \A j \in 1..Len(store') : store'[j].key # k => j \in 1..Len(store)
      BY <2>5
    <3> QED
      BY <3>1, <3>2, <3>3, OneKeyRead
  <2> QED
    BY <1>1, <2>2, <2>7 DEF Replace, Map!Update, Map!Present, Read
<1>2. ASSUME NEW k \in Key, NEW r \in Rules, Insert(k, r)
      PROVE  Map!Update(k, r)
  <2> DEFINE e == [key |-> k, rules |-> r]
  <2>1. store' = Append(store, e)
    BY <1>2 DEF Insert, StoredKey
  <2>2. e.key = k /\ e.rules = r
    OBVIOUS
  <2>3. /\ Len(store') = Len(store) + 1
        /\ store'[Len(store) + 1] = e
        /\ \A j \in 1..Len(store) : store'[j] = store[j]
    <3> HIDE DEF E, e
    <3> QED
      BY <1>0, <2>1
  <2>4. Read' = [Read EXCEPT ![k] = r]
    <3> HIDE DEF e
    <3> DEFINE i == Len(store) + 1
    <3>1. i \in 1..Len(store') /\ store'[i].key = k /\ store'[i].rules = r
      BY <1>0, <2>2, <2>3
    <3>2. \A j \in 1..Len(store) : /\ j \in 1..Len(store')
                                   /\ store'[j].key = store[j].key
                                   /\ store[j].key # k => store'[j] = store[j]
      BY <1>0, <2>3
    <3>3. \A j \in 1..Len(store') : store'[j].key # k => j \in 1..Len(store)
      BY <1>0, <2>2, <2>3
    <3> HIDE DEF i
    <3> QED
      BY <3>1, <3>2, <3>3, OneKeyRead
  <2>5. Map!Fits(Map!Present \cup {k})
    BY <1>2, RoomForOne DEF Insert, HasRoom
  <2> QED
    BY <1>2, <2>4, <2>5 DEF Insert, Map!Update, Read
<1>3. ASSUME NEW k \in Key, Fail(k)
      PROVE  Map!Refuse(k)
  <2>1. kv_get_rules(k) = Nil
    BY <1>3, AbsentIsNil DEF Inv, Fail
  <2>2. \A o \in Key : kv_get_rules(o)' = kv_get_rules(o)
    BY <1>3 DEF Fail, kv_get_rules, First, Positions
  <2> QED
    BY <1>3, <2>1, <2>2 DEF Fail, Map!Refuse, Map!Present
<1>4. CASE kv_destroy
  <2>1. \A o \in Key : kv_get_rules(o)' = Nil
    <3>1. Len(store') = 0
      BY <1>4 DEF kv_destroy
    <3> QED
      BY <3>1, AbsentIsNilNext
  <2> QED
    BY <1>4, <2>1 DEF kv_destroy, Map!Next, Map!Clear
<1>5. CASE UNCHANGED vars
  BY <1>5 DEF vars, Read, kv_get_rules, First, Positions
<1> QED
  BY <1>1, <1>2, <1>3, <1>4, <1>5 DEF Next, kv_update_rule, Map!Next

\* The array never holds more than MAX_KV_ENTRIES entries, keys that are too long
\* included, and only what is left of those is stored twice.
THEOREM KeysHold == Spec => [](TypeOK /\ OnlyPrefixTwice)
<1>1. Init => TypeOK /\ OnlyPrefixTwice
  BY KvAssumption DEF Init, TypeOK, OnlyPrefixTwice
<1>2. TypeOK /\ OnlyPrefixTwice /\ [Next]_vars => (TypeOK /\ OnlyPrefixTwice)'
  BY NextKeys
<1> QED
  BY <1>1, <1>2, PTL DEF Spec

\* Keys that fit RuleConfig.key have one entry each.
THEOREM KeysAreUnique == LongKey = {} /\ Spec => []UniqueKeys
<1> SUFFICES ASSUME LongKey = {}
             PROVE  Spec => []UniqueKeys
  OBVIOUS
<1>1. TypeOK /\ OnlyPrefixTwice => UniqueKeys
  BY DEF OnlyPrefixTwice, UniqueKeys
<1> QED
  BY <1>1, KeysHold, PTL

\* Read through kv_get_rules, the array of kv_store.c is the map that
\* kv_store.h describes.
THEOREM StoreImplementsMap == LongKey = {} /\ Spec => ImplementsMap
<1> SUFFICES ASSUME LongKey = {}
             PROVE  Spec => Map!Spec
  BY DEF ImplementsMap
<1>1. Init => Map!Init
  BY DEF Init, Map!Init, kv_get_rules, Positions
<1>2. Inv /\ Inv' /\ [Next]_vars => [Map!Next]_<<Read, ret>>
  BY StepMaps
<1>3. Spec => []Inv
  <2>1. TypeOK /\ OnlyPrefixTwice => TypeOK
    OBVIOUS
  <2> QED
    BY <2>1, KeysHold, KeysAreUnique, PTL DEF Inv
<1> QED
  BY <1>1, <1>2, <1>3, PTL DEF Spec, Map!Spec, Read

=============================================================================
