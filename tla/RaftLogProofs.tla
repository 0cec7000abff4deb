--------------------------- MODULE RaftLogProofs ---------------------------
(***************************************************************************)
(* Theorems about RaftLog, for every bound on terms and logs: the array is *)
(* the part of the log that follows the snapshot.                          *)
(*                                                                         *)
(* Both loops are recursive functions, and what they compute is shown for  *)
(* each of their turns: after k entries of a message the array holds what  *)
(* the definition gives for those k (MergedIs), and after k entries of the *)
(* array the compaction has kept those behind the snapshot (CompactedIs).  *)
(* The invariant adds to the properties that the log keeps its bound, and  *)
(* that without a snapshot the file is the array, for Restart.             *)
(***************************************************************************)
EXTENDS RaftLog, WellFoundedInduction, SequenceTheorems, TLAPS

\* Most leaves are set and first-order reasoning; those with arithmetic ask for SMT.
USE Zenon

\* Every set of numbers that is not empty has a least one.
LEMMA LeastNumber ==
    ASSUME NEW S \in SUBSET Nat, S # {}
    PROVE  \E n \in S : \A k \in S : n <= k
<1>1. PICK n \in S : \A k \in S : <<k, n>> \notin OpToRel(<, Nat)
  BY NatLessThanWellFounded, WFMin
<1>2. ASSUME NEW k \in S PROVE n <= k
  <2>1. n \in Nat /\ k \in Nat
    OBVIOUS
  <2>2. ~(k < n)
    BY <1>1, <2>1 DEF OpToRel
  <2>3. QED
    BY <2>1, <2>2, SMT
<1>3. QED
  BY <1>2

\* Induction over the turns of a loop, G being the turns after which something holds.
LEMMA UpTo ==
    ASSUME NEW k \in Nat, NEW G, 0 \in G, \A i \in 1..k : i - 1 \in G => i \in G
    PROVE  k \in G
<1> DEFINE B == {i \in 0..k : i \notin G}
<1> SUFFICES ASSUME k \notin G PROVE FALSE
  OBVIOUS
<1>1. k \in 0..k /\ B \in SUBSET Nat
  BY SMT
<1>2. PICK n \in B : \A i \in B : n <= i
  <2>1. k \in B
    BY <1>1
  <2> HIDE DEF B
  <2>2. QED
    BY <1>1, <2>1, LeastNumber
<1>3. n \in 0..k /\ n \notin G /\ n # 0
  BY <1>2
<1>4. n \in 1..k /\ n - 1 \in 0..k /\ ~(n <= n - 1)
  BY <1>3, SMT
<1>5. n - 1 \in G
  BY <1>2, <1>4
<1>6. QED
  BY <1>3, <1>4, <1>5

\* f is a run of a loop of k turns from x: the value before the first turn, and
\* after each turn.
IsRun(f, k, x, turn) == f[0] = x /\ \A i \in 1..k : f[i] = turn[i][f[i - 1]]

\* A loop over values in X has a run.
LEMMA LoopRuns ==
    ASSUME NEW k \in Nat, NEW X, NEW x \in X, NEW turn \in [1..k -> [X -> X]]
    PROVE  \E f \in [0..k -> X] : IsRun(f, k, x, turn)
<1> DEFINE Run(j, f) == f[0] = x /\ \A i \in 1..j : f[i] = turn[i][f[i - 1]]
           Stuck == {j \in 0..k : \A f \in [0..j -> X] : ~Run(j, f)}
<1>1. SUFFICES ASSUME Stuck # {} PROVE FALSE
  <2>1. k \in 0..k
    BY SMT
  <2>2. \E f \in [0..k -> X] : Run(k, f)
    BY <1>1, <2>1
  <2>3. QED
    BY <2>2 DEF IsRun
<1>2. PICK j \in Stuck : \A i \in Stuck : j <= i
  <2>1. Stuck \in SUBSET Nat
    BY SMT
  <2> HIDE DEF Stuck
  <2>2. QED
    BY <1>1, <2>1, LeastNumber
<1>3. j \in 0..k /\ \A f \in [0..j -> X] : ~Run(j, f)
  BY <1>2
<1>4. CASE j = 0
  <2> DEFINE f == [i \in 0..0 |-> x]
  <2>1. f \in [0..0 -> X] /\ f[0] = x
    BY SMT
  <2>2. 1..0 = {}
    BY SMT
  <2> HIDE DEF f
  <2>3. Run(0, f)
    BY <2>1, <2>2
  <2>4. QED
    BY <1>3, <1>4, <2>1, <2>3
<1>5. CASE j > 0
  <2>1. j - 1 \in 0..k /\ ~(j <= j - 1)
    BY <1>3, <1>5, SMT
  <2>2. j - 1 \notin Stuck
    BY <1>2, <2>1
  <2>3. PICK g \in [0..(j - 1) -> X] : Run(j - 1, g)
    BY <2>1, <2>2
  <2> DEFINE f == [i \in 0..j |-> IF i = j THEN turn[j][g[j - 1]] ELSE g[i]]
  <2>4. turn[j][g[j - 1]] \in X
    <3>1. j \in 1..k /\ j - 1 \in 0..(j - 1)
      BY <1>3, <1>5, SMT
    <3>2. g[j - 1] \in X /\ turn[j] \in [X -> X]
      BY <3>1
    <3>3. QED
      BY <3>2
  <2>5. f \in [0..j -> X]
    <3>1. ASSUME NEW i \in 0..j, i # j PROVE i \in 0..(j - 1)
      BY <1>3, <3>1, SMT
    <3>2. \A i \in 0..j : (IF i = j THEN turn[j][g[j - 1]] ELSE g[i]) \in X
      BY <2>4, <3>1
    <3>3. QED
      BY <3>2
  <2>6. f[0] = x
    BY <1>3, <1>5, <2>3, SMT
  <2>7. ASSUME NEW i \in 1..j PROVE f[i] = turn[i][f[i - 1]]
    <3>1. i - 1 \in 0..j /\ i - 1 # j /\ i \in 0..j /\ j \in Nat
      BY <1>3, <2>7, SMT
    <3>2. f[i - 1] = g[i - 1]
      BY <3>1
    <3>3. CASE i = j
      BY <3>1, <3>2, <3>3
    <3>4. CASE i # j
      <4>1. i \in 1..(j - 1)
        BY <3>1, <3>4, SMT
      <4>2. g[i] = turn[i][g[i - 1]]
        BY <2>3, <4>1
      <4>3. f[i] = g[i]
        BY <3>1, <3>4
      <4>4. QED
        BY <3>2, <4>2, <4>3
    <3>5. QED
      BY <3>3, <3>4
  <2> HIDE DEF f
  <2>8. Run(j, f)
    BY <2>6, <2>7
  <2>9. QED
    BY <1>3, <2>5, <2>8
<1>6. QED
  BY <1>3, <1>4, <1>5, SMT

-----------------------------------------------------------------------------
Item == [term : 1..MaxTerm, index : 1..MaxLog]

\* The invariant: besides the property itself, that no log is too long, and that
\* a node without a snapshot has persisted what it holds.
Inv ==
    /\ TypeOK
    /\ LogIsSuffix
    /\ Len(full) <= MaxLog
    /\ ~apart /\ snap = 0 => wal = log

-----------------------------------------------------------------------------
\* What SubSeq keeps of an array, from its start.
LEMMA Prefix ==
    ASSUME NEW S, NEW s \in Seq(S), NEW n \in 0..Len(s)
    PROVE  /\ SubSeq(s, 1, n) \in Seq(S) /\ Len(SubSeq(s, 1, n)) = n
           /\ \A i \in 1..n : SubSeq(s, 1, n)[i] = s[i]
<1>1. Len(s) \in Nat
  BY LenProperties
<1>2. n \in Int /\ 1 \in Int /\ \A i \in 1..n : i \in 1..Len(s)
  BY <1>1, SMT
<1>3. \A i \in 1..n : s[i] \in S
  BY <1>2, ElementOfSeq
<1>4. /\ SubSeq(s, 1, n) \in Seq(S)
      /\ Len(SubSeq(s, 1, n)) = IF 1 <= n THEN n - 1 + 1 ELSE 0
      /\ \A i \in 1..(n - 1 + 1) : SubSeq(s, 1, n)[i] = s[1 + i - 1]
  BY <1>2, <1>3, SubSeqProperties, SMT
<1>5. PICK b : b = SubSeq(s, 1, n)
  OBVIOUS
<1>6. Len(b) = n
  BY <1>1, <1>4, <1>5, SMT
<1>7. ASSUME NEW i \in 1..n PROVE b[i] = s[i]
  <2>1. i \in 1..(n - 1 + 1) /\ 1 + i - 1 = i
    BY <1>1, SMT
  <2>2. QED
    BY <1>4, <1>5, <2>1
<1>8. QED
  BY <1>4, <1>5, <1>6, <1>7

\* The array cut before position p, with e at its end.
CutAt(a, p, e) == Append(SubSeq(a, 1, p - 1), e)

LEMMA CutAtIs ==
    ASSUME NEW a \in Seq(Item), NEW p \in 1..(Len(a) + 1), NEW e \in Item
    PROVE  /\ CutAt(a, p, e) \in Seq(Item) /\ Len(CutAt(a, p, e)) = p
           /\ CutAt(a, p, e)[p] = e /\ \A k \in 1..(p - 1) : CutAt(a, p, e)[k] = a[k]
<1>1. Len(a) \in Nat /\ \A i \in 1..Len(a) : a[i] \in Item
  BY LenProperties, ElementOfSeq
<1>2. PICK b : b = SubSeq(a, 1, p - 1)
  OBVIOUS
<1>3. b \in Seq(Item) /\ Len(b) = p - 1 /\ \A i \in 1..(p - 1) : b[i] = a[i]
  <2>1. p - 1 \in 0..Len(a)
    BY <1>1, SMT
  <2>2. QED
    BY <1>2, <2>1, Prefix
<1>4. /\ Append(b, e) \in Seq(Item) /\ Len(Append(b, e)) = Len(b) + 1
      /\ \A i \in 1..Len(b) : Append(b, e)[i] = b[i]
      /\ Append(b, e)[Len(b) + 1] = e
  BY <1>3, AppendProperties, SMT
<1>5. PICK c : c = Append(b, e)
  OBVIOUS
<1>6. CutAt(a, p, e) = c
  BY <1>2, <1>5 DEF CutAt
<1>7. Len(c) = p /\ c[p] = e /\ \A k \in 1..(p - 1) : c[k] = a[k]
  <2>1. Len(b) + 1 = p
    BY <1>1, <1>3, SMT
  <2>2. QED
    BY <1>3, <1>4, <1>5, <2>1
<1>8. QED
  BY <1>4, <1>5, <1>6, <1>7

\* A turn of the entry loop leaves the array as it is, or cuts it where the entry
\* belongs and puts the entry there.
LEMMA MergeIs ==
    ASSUME snap \in Nat, NEW a \in Seq(Item), NEW e \in Item,
           e.index > snap, e.index <= snap + Len(a) + 1
    PROVE  LET p == e.index - snap
           IN Merge(a, e) = IF p <= Len(a) /\ a[p].term = e.term THEN a ELSE CutAt(a, p, e)
<1> DEFINE p == e.index - snap
<1>1. Len(a) \in Nat /\ e.index \in Nat
  <2>1. e.index \in 1..MaxLog
    BY DEF Item
  <2>2. QED
    BY <2>1, LogAssumption, LenProperties, SMT
<1>2. p \in 1..(Len(a) + 1)
  BY <1>1, SMT
<1>3. CASE p <= Len(a)
  <2>1. Slot(a, e.index) = p /\ p # 0
    BY <1>1, <1>2, <1>3, SMT DEF Slot
  <2>2. CASE a[p].term = e.term
    BY <1>3, <2>1, <2>2 DEF Merge
  <2>3. CASE a[p].term # e.term
    <3>1. Len(SubSeq(a, 1, p - 1)) = p - 1
      <4>1. p - 1 \in 0..Len(a)
        BY <1>1, <1>2, SMT
      <4>2. QED
        BY <4>1, Prefix
    <3>2. Slot(SubSeq(a, 1, p - 1), e.index) = 0
      BY <1>1, <1>2, <3>1, SMT DEF Slot
    <3>3. QED
      BY <2>1, <2>3, <3>2 DEF Merge, CutAt
  <2>4. QED
    BY <2>2, <2>3
<1>4. CASE ~(p <= Len(a))
  <2>1. Slot(a, e.index) = 0 /\ p - 1 = Len(a)
    BY <1>1, <1>2, <1>4, SMT DEF Slot
  <2>2. SubSeq(a, 1, p - 1) = a
    BY <2>1, SubSeqFull
  <2>3. QED
    BY <1>4, <2>1, <2>2 DEF Merge, CutAt
<1>5. QED
  BY <1>3, <1>4

\* A turn with any entry leaves an array of entries.
LEMMA MergeType ==
    ASSUME snap \in Nat, NEW a \in Seq(Item), NEW e \in Item PROVE Merge(a, e) \in Seq(Item)
<1> DEFINE i == Slot(a, e.index)
           kept == IF i # 0 /\ a[i].term # e.term THEN SubSeq(a, 1, i - 1) ELSE a
<1>1. Len(a) \in Nat /\ e.index \in Nat
  <2>1. e.index \in 1..MaxLog
    BY DEF Item
  <2>2. QED
    BY <2>1, LogAssumption, LenProperties, SMT
<1>2. i \in 0..Len(a)
  BY <1>1, SMT DEF Slot
<1>3. ASSUME i # 0 PROVE SubSeq(a, 1, i - 1) \in Seq(Item)
  <2>1. i - 1 \in 0..Len(a)
    BY <1>1, <1>2, <1>3, SMT
  <2>2. QED
    BY <2>1, Prefix
<1>4. kept \in Seq(Item)
  BY <1>3
<1> HIDE DEF kept
<1>5. Append(kept, e) \in Seq(Item)
  BY <1>4, AppendProperties
<1>6. QED
  BY <1>4, <1>5 DEF Merge, kept

-----------------------------------------------------------------------------
\* The entry loop, turn by turn.
LEMMA EntryLoop ==
    ASSUME log \in Seq(Item), snap \in Nat, NEW prev \in Nat, NEW terms \in Seq(1..MaxTerm),
           prev + Len(terms) <= MaxLog
    PROVE  \E f : /\ f[0] = log
                  /\ \A i \in 1..Len(terms) :
                        f[i] = Merge(f[i - 1], [term |-> terms[i], index |-> prev + i])
                  /\ \A i \in 0..Len(terms) : f[i] \in Seq(Item)
                  /\ \A i \in 1..Len(terms) : [term |-> terms[i], index |-> prev + i] \in Item
                  /\ Merged(prev, terms) = f[Len(terms)]
<1> DEFINE k == Len(terms)
           e(i) == [term |-> terms[i], index |-> prev + i]
           X == Seq(Item)
           turn == [i \in 1..k |-> [l \in X |-> Merge(l, e(i))]]
           Body(f) == [i \in 0..k |-> IF i = 0 THEN log ELSE Merge(f[i - 1], e(i))]
<1>1. k \in Nat
  BY LenProperties
<1>2. ASSUME NEW i \in 1..k PROVE e(i) \in Item
  <2>1. terms[i] \in 1..MaxTerm
    BY ElementOfSeq
  <2>2. prev + i \in 1..MaxLog
    BY <1>1, LogAssumption, SMT
  <2>3. QED
    BY <2>1, <2>2, SMT DEF Item
<1> HIDE DEF e, k
<1>3. turn \in [1..k -> [X -> X]]
  <2>1. ASSUME NEW i \in 1..k, NEW l \in X PROVE Merge(l, e(i)) \in X
    BY <1>2, MergeType
  <2>2. QED
    BY <2>1
<1>4. PICK g \in [0..k -> X] : IsRun(g, k, log, turn)
  <2> HIDE DEF turn
  <2>1. QED
    BY <1>1, <1>3, LoopRuns
<1>5. g = Body(g)
  <2>1. ASSUME NEW i \in 0..k PROVE g[i] = IF i = 0 THEN log ELSE Merge(g[i - 1], e(i))
    <3>1. CASE i = 0
      BY <1>4, <3>1 DEF IsRun
    <3>2. CASE i # 0
      <4>1. i \in 1..k /\ i - 1 \in 0..k
        BY <1>1, <3>2, SMT
      <4>2. g[i] = turn[i][g[i - 1]] /\ g[i - 1] \in X
        BY <1>4, <4>1 DEF IsRun
      <4>3. QED
        BY <3>2, <4>1, <4>2
    <3>3. QED
      BY <3>1, <3>2
  <2>2. QED
    BY <2>1
<1> DEFINE f == CHOOSE f : f = Body(f)
<1>6. f = Body(f)
  <2> HIDE DEF Body
  <2>1. QED
    BY <1>5
<1>7. Merged(prev, terms) = f[k]
  BY DEF Merged, e, k
<1> HIDE DEF f
<1>8. f[0] = log
  <2>1. 0 \in 0..k
    BY <1>1, SMT
  <2>2. QED
    BY <1>6, <2>1
<1>9. ASSUME NEW i \in 1..k PROVE f[i] = Merge(f[i - 1], e(i))
  <2>1. i \in 0..k /\ i # 0
    BY <1>1, SMT
  <2>2. QED
    BY <1>6, <2>1
<1>10. ASSUME NEW j \in 0..k PROVE f[j] \in X
  <2> DEFINE G == {i \in 0..k : f[i] \in X}
  <2>1. 0 \in G
    <3>1. 0 \in 0..k
      BY <1>1, SMT
    <3>2. QED
      BY <1>8, <3>1
  <2>2. ASSUME NEW i \in 1..k, i - 1 \in G PROVE i \in G
    <3>1. i \in 0..k
      BY <1>1, SMT
    <3>2. QED
      BY <1>2, <1>9, <2>2, <3>1, MergeType
  <2>3. j \in Nat /\ \A i \in 1..j : i \in 1..k
    BY <1>1, SMT
  <2> HIDE DEF G
  <2>4. j \in G
    BY <2>1, <2>2, <2>3, UpTo
  <2>5. QED
    BY <2>4 DEF G
<1>11. QED
  BY <1>2, <1>7, <1>8, <1>9, <1>10 DEF e, k

\* The log by definition after i of the entries: where it ends, and its terms.
AgreesTo(prev, terms, i) ==
    prev + i <= Len(full) /\ \A j \in 1..i : full[prev + j] = terms[j]

EndAfter(prev, terms, i) == IF AgreesTo(prev, terms, i) THEN Len(full) ELSE prev + i

TermAfter(prev, terms, i, j) ==
    IF j <= prev \/ AgreesTo(prev, terms, i) THEN full[j] ELSE terms[j - prev]

\* Array a is that log, but for what the snapshot covers.
IsAfter(a, prev, terms, i) ==
    /\ snap + Len(a) = EndAfter(prev, terms, i)
    /\ \A k \in 1..Len(a) :
          a[k] = [term |-> TermAfter(prev, terms, i, snap + k), index |-> snap + k]

\* A turn of the loop makes of the log after i - 1 entries the log after i.
LEMMA TurnIs ==
    ASSUME snap \in Nat, full \in Seq(1..MaxTerm), NEW prev \in Nat, snap <= prev,
           prev <= Len(full), NEW terms \in Seq(1..MaxTerm), NEW i \in 1..Len(terms),
           NEW a \in Seq(Item), IsAfter(a, prev, terms, i - 1),
           NEW e \in Item, e = [term |-> terms[i], index |-> prev + i]
    PROVE  IsAfter(Merge(a, e), prev, terms, i)
<1>p. PICK p : p = prev + i - snap
  OBVIOUS
<1>e. e.term = terms[i] /\ e.index = prev + i
  BY SMT
<1> DEFINE was == AgreesTo(prev, terms, i - 1)
           is == AgreesTo(prev, terms, i)
<1>1. Len(a) \in Nat /\ Len(full) \in Nat /\ Len(terms) \in Nat /\ i \in Nat
  <2>1. Len(a) \in Nat /\ Len(full) \in Nat /\ Len(terms) \in Nat
    BY LenProperties
  <2>2. QED
    BY <2>1, SMT
<1>2. was => prev + (i - 1) <= Len(full)
  BY DEF AgreesTo
<1>3. snap + Len(a) = IF was THEN Len(full) ELSE prev + (i - 1)
  BY DEF IsAfter, EndAfter
<1>4. p \in 1..(Len(a) + 1) /\ e.index > snap /\ e.index <= snap + Len(a) + 1
      /\ p = e.index - snap /\ p \in Nat /\ snap + p = prev + i
  BY <1>p, <1>e, <1>1, <1>2, <1>3, SMT
<1>5. is <=> (was /\ prev + i <= Len(full) /\ full[prev + i] = terms[i])
  <2>1. \A j \in 1..i : j = i \/ j \in 1..(i - 1)
    BY <1>1, SMT
  <2>2. \A j \in 1..(i - 1) : j \in 1..i
    BY <1>1, SMT
  <2>3. i \in 1..i
    BY <1>1, SMT
  <2>4. prev + i <= Len(full) => prev + (i - 1) <= Len(full)
    BY <1>1, SMT
  <2>5. QED
    BY <2>1, <2>2, <2>3, <2>4 DEF AgreesTo
<1>6. ASSUME NEW k \in 1..Len(a)
      PROVE  a[k] = [term |-> TermAfter(prev, terms, i - 1, snap + k), index |-> snap + k]
  BY DEF IsAfter
<1>7. is <=> p <= Len(a) /\ a[p].term = e.term
  <2>1. ASSUME p <= Len(a) PROVE was /\ prev + i <= Len(full) /\ a[p].term = full[prev + i]
    <3>1. was /\ prev + i <= Len(full) /\ snap + p = prev + i /\ p \in 1..Len(a)
      BY <1>1, <1>2, <1>3, <1>4, <2>1, SMT
    <3>2. a[p].term = TermAfter(prev, terms, i - 1, snap + p)
      <4>1. PICK x : x = TermAfter(prev, terms, i - 1, snap + p)
        OBVIOUS
      <4>2. a[p] = [term |-> x, index |-> snap + p]
        BY <1>6, <3>1, <4>1
      <4>3. a[p].term = x
        BY <4>2, SMT
      <4>4. QED
        BY <4>1, <4>3
    <3>3. QED
      BY <3>1, <3>2 DEF TermAfter
  <2>2. ASSUME is PROVE p <= Len(a)
    BY <1>1, <1>3, <1>4, <1>5, <2>2, SMT
  <2>3. QED
    BY <1>e, <1>5, <2>1, <2>2
<1>8. Merge(a, e) = IF is THEN a ELSE CutAt(a, p, e)
  BY <1>4, <1>7, MergeIs
<1>9. CASE is
  <2>1. was
    BY <1>5, <1>9
  <2>2. QED
    BY <1>8, <1>9, <2>1 DEF IsAfter, EndAfter, TermAfter
<1>10. CASE ~is
  <2>1. PICK b : b = CutAt(a, p, e)
    OBVIOUS
  <2>2. Len(b) = p /\ b[p] = e /\ \A k \in 1..(p - 1) : b[k] = a[k]
    <3>1. p \in 1..(Len(a) + 1)
      BY <1>4
    <3>2. /\ Len(CutAt(a, p, e)) = p /\ CutAt(a, p, e)[p] = e
          /\ \A k \in 1..(p - 1) : CutAt(a, p, e)[k] = a[k]
      BY <3>1, CutAtIs
    <3>3. QED
      BY <2>1, <3>2
  <2>3. snap + Len(b) = EndAfter(prev, terms, i)
    <3>1. snap + Len(b) = prev + i
      BY <1>4, <2>2
    <3>2. QED
      BY <1>10, <3>1 DEF EndAfter
  <2>4. ASSUME NEW k \in 1..Len(b)
        PROVE  b[k] = [term |-> TermAfter(prev, terms, i, snap + k), index |-> snap + k]
    <3>1. CASE k = p
      <4>1. snap + k = prev + i /\ snap + k - prev = i /\ ~(snap + k <= prev)
        BY <1>1, <1>4, <3>1, SMT
      <4>2. TermAfter(prev, terms, i, snap + k) = terms[i]
        BY <1>10, <4>1, SMT DEF TermAfter
      <4>3. QED
        BY <2>2, <3>1, <4>1, <4>2
    <3>2. CASE k # p
      <4>1. k \in 1..Len(a) /\ k \in 1..(p - 1)
        BY <1>1, <1>4, <2>2, <3>2, SMT
      <4>2. b[k] = a[k]
        BY <2>2, <3>2, <4>1
      <4>3. ASSUME was, ~(snap + k <= prev) PROVE full[snap + k] = terms[snap + k - prev]
        <5>1. snap + k - prev \in 1..(i - 1) /\ prev + (snap + k - prev) = snap + k
          BY <1>1, <1>4, <2>2, <3>2, <4>3, SMT
        <5>2. QED
          BY <4>3, <5>1 DEF AgreesTo
      <4>4. TermAfter(prev, terms, i, snap + k) = TermAfter(prev, terms, i - 1, snap + k)
        BY <1>10, <4>3, SMT DEF TermAfter
      <4>5. QED
        BY <1>6, <4>1, <4>2, <4>4
    <3>3. QED
      BY <3>1, <3>2
  <2>5. Merge(a, e) = b
    BY <1>8, <1>10, <2>1
  <2>6. QED
    BY <2>3, <2>4, <2>5 DEF IsAfter
<1>11. QED
  BY <1>9, <1>10

\* The entry loop computes the log by definition.
LEMMA MergedIs ==
    ASSUME TypeOK, LogIsSuffix, ~apart, NEW prev \in Nat, snap <= prev, prev <= Len(full),
           NEW terms \in Seq(1..MaxTerm), prev + Len(terms) <= MaxLog
    PROVE  /\ Merged(prev, terms) \in Seq(Item)
           /\ IsAfter(Merged(prev, terms), prev, terms, Len(terms))
<1>1. /\ log \in Seq(Item) /\ full \in Seq(1..MaxTerm)
      /\ Len(log) \in Nat /\ Len(full) \in Nat /\ Len(terms) \in Nat
  BY LenProperties DEF TypeOK, Item
<1>2. snap \in Nat
  BY LogAssumption, SMT DEF TypeOK
<1>3. PICK f : /\ f[0] = log
               /\ \A i \in 1..Len(terms) :
                     f[i] = Merge(f[i - 1], [term |-> terms[i], index |-> prev + i])
               /\ \A i \in 0..Len(terms) : f[i] \in Seq(Item)
               /\ \A i \in 1..Len(terms) : [term |-> terms[i], index |-> prev + i] \in Item
               /\ Merged(prev, terms) = f[Len(terms)]
  BY <1>1, <1>2, EntryLoop
<1>4. IsAfter(log, prev, terms, 0)
  <2>1. 1..0 = {} /\ prev + 0 = prev
    BY SMT
  <2>2. AgreesTo(prev, terms, 0)
    BY <2>1 DEF AgreesTo
  <2>3. EndAfter(prev, terms, 0) = Len(full) /\ \A j : TermAfter(prev, terms, 0, j) = full[j]
    BY <2>2 DEF EndAfter, TermAfter
  <2>4. QED
    BY <2>3 DEF IsAfter, LogIsSuffix
<1> DEFINE G == {i \in 0..Len(terms) : IsAfter(f[i], prev, terms, i)}
<1>5. 0 \in G
  <2>1. 0 \in 0..Len(terms)
    BY <1>1, SMT
  <2>2. QED
    BY <1>3, <1>4, <2>1
<1>6. ASSUME NEW i \in 1..Len(terms), i - 1 \in G PROVE i \in G
  <2>1. i \in 0..Len(terms) /\ i - 1 \in 0..Len(terms)
    BY <1>1, SMT
  <2>2. PICK e : e = [term |-> terms[i], index |-> prev + i]
    OBVIOUS
  <2>3. e \in Item /\ f[i] = Merge(f[i - 1], e) /\ f[i - 1] \in Seq(Item)
    BY <1>3, <2>1, <2>2
  <2>4. IsAfter(f[i - 1], prev, terms, i - 1)
    BY <1>6
  <2>5. IsAfter(Merge(f[i - 1], e), prev, terms, i)
    BY <1>1, <1>2, <2>2, <2>3, <2>4, TurnIs
  <2>6. QED
    BY <2>1, <2>3, <2>5
<1> HIDE DEF G
<1>7. Len(terms) \in G
  BY <1>1, <1>5, <1>6, UpTo
<1>8. Len(terms) \in 0..Len(terms)
  BY <1>1, SMT
<1>9. QED
  BY <1>3, <1>7, <1>8 DEF G

\* What the definition says, index by index.
LEMMA DefinitionIs ==
    ASSUME full \in Seq(1..MaxTerm), NEW prev \in Nat, prev <= Len(full),
           NEW terms \in Seq(1..MaxTerm)
    PROVE  LET d == MergedByDefinition(prev, terms)
               k == Len(terms)
           IN /\ d \in Seq(1..MaxTerm) /\ Len(d) = EndAfter(prev, terms, k)
              /\ \A j \in 1..Len(d) : d[j] = TermAfter(prev, terms, k, j)
<1> DEFINE k == Len(terms)
<1>1. Len(full) \in Nat /\ k \in Nat
  BY LenProperties
<1>2. PICK d : d = MergedByDefinition(prev, terms)
  OBVIOUS
<1>3. CASE AgreesTo(prev, terms, k)
  <2>1. d = full
    BY <1>2, <1>3 DEF MergedByDefinition, AgreesTo
  <2>2. QED
    BY <1>2, <1>3, <2>1 DEF EndAfter, TermAfter
<1>4. CASE ~AgreesTo(prev, terms, k)
  <2>1. d = SubSeq(full, 1, prev) \o terms
    BY <1>2, <1>4 DEF MergedByDefinition, AgreesTo
  <2>2. PICK c : c = SubSeq(full, 1, prev)
    OBVIOUS
  <2>3. c \in Seq(1..MaxTerm) /\ Len(c) = prev /\ \A i \in 1..prev : c[i] = full[i]
    <3>1. prev \in 0..Len(full)
      BY <1>1, SMT
    <3>2. QED
      BY <2>2, <3>1, Prefix
  <2>4. /\ d \in Seq(1..MaxTerm) /\ Len(d) = prev + k
        /\ \A j \in 1..(prev + k) : d[j] = IF j <= prev THEN c[j] ELSE terms[j - prev]
    <3>1. /\ c \o terms \in Seq(1..MaxTerm) /\ Len(c \o terms) = Len(c) + Len(terms)
          /\ \A j \in 1..(Len(c) + Len(terms)) :
                (c \o terms)[j] = IF j <= Len(c) THEN c[j] ELSE terms[j - Len(c)]
      BY <2>3, ConcatProperties
    <3>2. d = c \o terms
      BY <2>1, <2>2
    <3>3. QED
      BY <2>3, <3>1, <3>2
  <2>5. ASSUME NEW j \in 1..(prev + k)
        PROVE  d[j] = IF j <= prev THEN full[j] ELSE terms[j - prev]
    <3>1. j <= prev => j \in 1..prev
      BY <1>1, SMT
    <3>2. QED
      BY <2>3, <2>4, <3>1
  <2>6. QED
    BY <1>2, <1>4, <2>4, <2>5 DEF EndAfter, TermAfter
<1>5. QED
  BY <1>3, <1>4

-----------------------------------------------------------------------------
\* The loop of raft_save_snapshot, turn by turn.
LEMMA CompactionLoop ==
    ASSUME log \in Seq(Item), NEW i
    PROVE  \E f : /\ f[0] = <<>>
                  /\ \A j \in 1..Len(log) :
                        f[j] = IF log[j].index > i THEN Append(f[j - 1], log[j]) ELSE f[j - 1]
                  /\ Compacted(i) = f[Len(log)]
<1> DEFINE k == Len(log)
           X == Seq(Item)
           turn == [j \in 1..k |-> [l \in X |-> IF log[j].index > i THEN Append(l, log[j]) ELSE l]]
           Body(f) == [j \in 0..k |-> IF j = 0 THEN <<>>
                                      ELSE IF log[j].index > i THEN Append(f[j - 1], log[j])
                                      ELSE f[j - 1]]
<1>1. k \in Nat /\ <<>> \in X
  BY LenProperties, EmptySeq
<1>2. \A j \in 1..k : log[j] \in Item
  BY ElementOfSeq
<1> HIDE DEF k
<1>3. turn \in [1..k -> [X -> X]]
  <2>1. ASSUME NEW j \in 1..k, NEW l \in X
        PROVE  (IF log[j].index > i THEN Append(l, log[j]) ELSE l) \in X
    <3>1. Append(l, log[j]) \in X
      BY <1>2, AppendProperties
    <3>2. QED
      BY <3>1
  <2>2. QED
    BY <2>1
<1>4. PICK g \in [0..k -> X] : IsRun(g, k, <<>>, turn)
  <2> HIDE DEF turn, X
  <2>1. QED
    BY <1>1, <1>3, LoopRuns
<1>5. g = Body(g)
  <2>1. ASSUME NEW j \in 0..k
        PROVE  g[j] = IF j = 0 THEN <<>>
                      ELSE IF log[j].index > i THEN Append(g[j - 1], log[j]) ELSE g[j - 1]
    <3>1. CASE j = 0
      BY <1>4, <3>1 DEF IsRun
    <3>2. CASE j # 0
      <4>1. j \in 1..k /\ j - 1 \in 0..k
        BY <1>1, <3>2, SMT
      <4>2. g[j] = turn[j][g[j - 1]] /\ g[j - 1] \in X
        BY <1>4, <4>1 DEF IsRun
      <4>3. QED
        BY <3>2, <4>1, <4>2
    <3>3. QED
      BY <3>1, <3>2
  <2>2. QED
    BY <2>1
<1> DEFINE f == CHOOSE f : f = Body(f)
<1>6. f = Body(f)
  <2> HIDE DEF Body
  <2>1. QED
    BY <1>5
<1>7. Compacted(i) = f[k]
  BY DEF Compacted, k
<1> HIDE DEF f
<1>8. f[0] = <<>>
  <2>1. 0 \in 0..k
    BY <1>1, SMT
  <2>2. QED
    BY <1>6, <2>1
<1>9. ASSUME NEW j \in 1..k
      PROVE  f[j] = IF log[j].index > i THEN Append(f[j - 1], log[j]) ELSE f[j - 1]
  <2>1. j \in 0..k /\ j # 0
    BY <1>1, SMT
  <2>2. QED
    BY <1>6, <2>1
<1>10. QED
  BY <1>7, <1>8, <1>9 DEF k

\* It leaves the entries after i, as they were.
LEMMA CompactedIs ==
    ASSUME log \in Seq(Item), snap \in Nat, \A j \in 1..Len(log) : log[j].index = snap + j,
           NEW i \in Nat, snap < i, i <= snap + Len(log)
    PROVE  /\ Compacted(i) \in Seq(Item) /\ i + Len(Compacted(i)) = snap + Len(log)
           /\ \A k \in 1..Len(Compacted(i)) :
                 i - snap + k \in 1..Len(log) /\ Compacted(i)[k] = log[i - snap + k]
<1>1. Len(log) \in Nat /\ \A j \in 1..Len(log) : log[j] \in Item
  BY LenProperties, ElementOfSeq
<1>2. PICK d : d = i - snap /\ d \in 1..Len(log)
  BY <1>1, SMT
<1>3. PICK f : /\ f[0] = <<>>
               /\ \A j \in 1..Len(log) :
                     f[j] = IF log[j].index > i THEN Append(f[j - 1], log[j]) ELSE f[j - 1]
               /\ Compacted(i) = f[Len(log)]
  BY CompactionLoop
<1> DEFINE Kept(c, j) == /\ c \in Seq(Item) /\ Len(c) = IF j <= d THEN 0 ELSE j - d
                         /\ \A k \in 1..Len(c) : c[k] = log[d + k]
           G == {j \in 0..Len(log) : Kept(f[j], j)}
<1>4. 0 \in G
  <2>1. 0 \in 0..Len(log) /\ 0 <= d /\ 1..0 = {}
    BY <1>1, <1>2, SMT
  <2>2. <<>> \in Seq(Item) /\ Len(<<>>) = 0
    BY EmptySeq
  <2>3. \A k \in 1..Len(<<>>) : <<>>[k] = log[d + k]
    BY <2>1, <2>2
  <2>4. Kept(<<>>, 0)
    <3>1. Len(<<>>) = IF 0 <= d THEN 0 ELSE 0 - d
      BY <2>1, <2>2, SMT
    <3>2. QED
      BY <2>2, <2>3, <3>1
  <2>5. QED
    BY <1>3, <2>1, <2>4
<1>5. ASSUME NEW j \in 1..Len(log), j - 1 \in G PROVE j \in G
  <2>1. PICK c : c = f[j - 1]
    OBVIOUS
  <2>2. Kept(c, j - 1) /\ j \in 0..Len(log)
    <3>1. j \in 0..Len(log)
      BY <1>1, SMT
    <3>2. QED
      BY <1>5, <2>1, <3>1
  <2>3. log[j].index > i <=> ~(j <= d)
    <3>1. log[j].index = snap + j
      OBVIOUS
    <3>2. QED
      BY <1>1, <1>2, <3>1, SMT
  <2>4. CASE j <= d
    <3>1. f[j] = c
      BY <1>3, <2>1, <2>3, <2>4
    <3>2. j - 1 <= d
      BY <1>1, <1>2, <2>4, SMT
    <3>3. QED
      BY <2>2, <2>4, <3>1, <3>2
  <2>5. CASE ~(j <= d)
    <3>1. f[j] = Append(c, log[j])
      BY <1>3, <2>1, <2>3, <2>5
    <3>2. c \in Seq(Item) /\ log[j] \in Item
      BY <1>1, <2>2
    <3>3. Len(c) = IF j - 1 <= d THEN 0 ELSE (j - 1) - d
      BY <2>2
    <3>4. Len(c) = j - 1 - d /\ j \in Nat /\ d \in Nat
      BY <1>1, <1>2, <2>5, <3>3, SMT
    <3>5. /\ Append(c, log[j]) \in Seq(Item) /\ Len(Append(c, log[j])) = Len(c) + 1
          /\ \A k \in 1..Len(c) : Append(c, log[j])[k] = c[k]
          /\ Append(c, log[j])[Len(c) + 1] = log[j]
      BY <3>2, AppendProperties, SMT
    <3>6. Len(f[j]) = j - d
      BY <3>1, <3>4, <3>5, SMT
    <3>7. ASSUME NEW k \in 1..Len(f[j]) PROVE f[j][k] = log[d + k]
      <4>1. CASE k \in 1..Len(c)
        BY <2>2, <3>1, <3>5, <4>1
      <4>2. CASE k \notin 1..Len(c)
        <5>1. k = Len(c) + 1 /\ d + k = j
          BY <3>4, <3>6, <4>2, SMT
        <5>2. QED
          BY <3>1, <3>5, <5>1
      <4>3. QED
        BY <4>1, <4>2
    <3>8. QED
      BY <2>2, <2>5, <3>1, <3>5, <3>6, <3>7
  <2>6. QED
    BY <2>4, <2>5
<1> HIDE DEF G
<1>6. Len(log) \in G
  BY <1>1, <1>4, <1>5, UpTo
<1>7. PICK c : c = Compacted(i)
  OBVIOUS
<1>8. Kept(c, Len(log))
  BY <1>3, <1>6, <1>7 DEF G
<1>9. Len(c) = Len(log) - d
  BY <1>1, <1>2, <1>8, SMT
<1>10. i + Len(c) = snap + Len(log) /\ \A k \in 1..Len(c) : d + k \in 1..Len(log)
  BY <1>1, <1>2, <1>9, SMT
<1>11. QED
  BY <1>2, <1>7, <1>8, <1>10

-----------------------------------------------------------------------------
\* What Inv says of a node that has not come apart.
LEMMA Whole ==
    ASSUME Inv, ~apart
    PROVE  /\ log \in Seq(Item) /\ wal \in Seq(Item) /\ full \in Seq(1..MaxTerm)
           /\ snap \in Nat /\ Len(log) \in Nat /\ Len(full) \in Nat
           /\ snap \in 0..MaxLog /\ snap_term \in 0..MaxTerm
           /\ snap + Len(log) = Len(full) /\ Len(full) <= MaxLog
           /\ \A k \in 1..Len(log) : log[k].index = snap + k /\ log[k].term = full[snap + k]
           /\ snap > 0 => snap_term = full[snap]
           /\ LastLogIndex = Len(full) /\ apart = FALSE
<1>1. /\ log \in Seq(Item) /\ wal \in Seq(Item) /\ full \in Seq(1..MaxTerm)
      /\ snap \in 0..MaxLog /\ snap_term \in 0..MaxTerm /\ apart = FALSE
  BY DEF Inv, TypeOK, Item
<1>2. Len(log) \in Nat /\ Len(full) \in Nat /\ (log # <<>> => Len(log) \in Nat \ {0})
  BY <1>1, LenProperties, EmptySeq
<1>3. snap \in Nat
  BY <1>1, LogAssumption, SMT
<1>4. /\ snap + Len(log) = Len(full) /\ Len(full) <= MaxLog
      /\ \A k \in 1..Len(log) : log[k] = [term |-> full[snap + k], index |-> snap + k]
      /\ snap > 0 => snap_term = full[snap]
  BY DEF Inv, LogIsSuffix
<1>5. ASSUME NEW k \in 1..Len(log)
      PROVE  log[k].index = snap + k /\ log[k].term = full[snap + k]
  <2>1. PICK t : t = full[snap + k]
    OBVIOUS
  <2>2. log[k] = [term |-> t, index |-> snap + k]
    BY <1>4, <2>1
  <2>3. log[k].index = snap + k /\ log[k].term = t
    BY <2>2, SMT
  <2>4. QED
    BY <2>1, <2>3
<1>6. LastLogIndex = Len(full)
  <2>1. CASE log = <<>>
    <3>1. Len(log) = 0
      BY <2>1, EmptySeq
    <3>2. snap = Len(full)
      BY <1>3, <1>4, <3>1, SMT
    <3>3. QED
      BY <2>1, <3>2 DEF LastLogIndex
  <2>2. CASE log # <<>>
    <3>1. Len(log) \in 1..Len(log)
      BY <1>2, <2>2, SMT
    <3>2. QED
      BY <1>4, <1>5, <2>2, <3>1 DEF LastLogIndex
  <2>3. QED
    BY <2>1, <2>2
<1>7. QED
  BY <1>1, <1>2, <1>3, <1>4, <1>5, <1>6

\* Inv after a step, put together from what the step leaves.
LEMMA Together ==
    ASSUME log' \in Seq(Item), wal' \in Seq(Item), full' \in Seq(1..MaxTerm),
           snap' \in 0..MaxLog, snap_term' \in 0..MaxTerm, apart' = FALSE,
           snap' + Len(log') = Len(full'), Len(full') <= MaxLog,
           \A k \in 1..Len(log') : log'[k] = [term |-> full'[snap' + k], index |-> snap' + k],
           snap' > 0 => snap_term' = full'[snap'], snap' = 0 => wal' = log'
    PROVE  Inv'
<1>1. Len(log') <= MaxLog
  <2>1. Len(log') \in Nat
    BY LenProperties
  <2>2. QED
    BY <2>1, LogAssumption, SMT
<1>2. TypeOK'
  BY <1>1 DEF TypeOK, Item
<1>3. LogIsSuffix'
  BY DEF LogIsSuffix
<1>4. QED
  BY <1>2, <1>3 DEF Inv

LEMMA InitInv == ASSUME Init PROVE Inv
<1>1. \A S : <<>> \in Seq(S)
  BY EmptySeq
<1>2. Len(<<>>) = 0 /\ 1..0 = {} /\ 0 + 0 = 0
  BY EmptySeq, SMT
<1>3. 0 \in 0..MaxLog /\ 0 \in 0..MaxTerm /\ 0 <= MaxLog /\ ~(0 > 0)
  BY LogAssumption, SMT
<1>4. log = <<>> /\ snap = 0 /\ snap_term = 0 /\ wal = <<>> /\ full = <<>> /\ apart = FALSE
  BY DEF Init
<1>5. TypeOK
  BY <1>1, <1>2, <1>3, <1>4 DEF TypeOK
<1>6. LogIsSuffix
  BY <1>2, <1>3, <1>4 DEF LogIsSuffix
<1>7. QED
  BY <1>2, <1>3, <1>4, <1>5, <1>6 DEF Inv

LEMMA SubmitInv ==
    ASSUME Inv, ~apart, NEW t \in 1..MaxTerm, Submit(t) PROVE Inv'
<1>1. PICK e : e = [term |-> t, index |-> Len(full) + 1]
  OBVIOUS
<1>2. /\ log' = Append(log, e) /\ wal' = log' /\ full' = Append(full, t)
      /\ Len(full) < MaxLog /\ UNCHANGED <<snap, snap_term, apart>>
  BY <1>1, Whole DEF Submit
<1>3. e \in Item
  <2>1. Len(full) + 1 \in 1..MaxLog
    BY <1>2, Whole, LogAssumption, SMT
  <2>2. QED
    BY <1>1, <2>1, SMT DEF Item
<1>4. /\ log' \in Seq(Item) /\ Len(log') = Len(log) + 1
      /\ \A i \in 1..Len(log) : log'[i] = log[i]
      /\ log'[Len(log) + 1] = e
  BY <1>2, <1>3, Whole, AppendProperties, SMT
<1>5. /\ full' \in Seq(1..MaxTerm) /\ Len(full') = Len(full) + 1
      /\ \A i \in 1..Len(full) : full'[i] = full[i]
      /\ full'[Len(full) + 1] = t
  BY <1>2, Whole, AppendProperties, SMT
<1>6. snap + Len(log') = Len(full') /\ Len(full') <= MaxLog
  <2>1. /\ snap \in Nat /\ Len(log) \in Nat /\ Len(full) \in Nat
        /\ snap + Len(log) = Len(full) /\ Len(full) < MaxLog
        /\ Len(log') = Len(log) + 1 /\ Len(full') = Len(full) + 1
    BY <1>2, <1>4, <1>5, Whole
  <2>2. QED
    BY <2>1, LogAssumption, SMT
<1>7. ASSUME NEW k \in 1..Len(log')
      PROVE  log'[k] = [term |-> full'[snap + k], index |-> snap + k]
  <2>1. CASE k \in 1..Len(log)
    <3>1. snap + k \in 1..Len(full)
      BY <2>1, Whole, SMT
    <3>2. log[k] = [term |-> full[snap + k], index |-> snap + k]
      BY <2>1 DEF Inv, LogIsSuffix
    <3>3. QED
      BY <1>4, <1>5, <2>1, <3>1, <3>2
  <2>2. CASE k \notin 1..Len(log)
    <3>1. k = Len(log) + 1 /\ snap + k = Len(full) + 1
      BY <1>4, <2>2, Whole, SMT
    <3>2. QED
      BY <1>1, <1>4, <1>5, <3>1
  <2>3. QED
    BY <2>1, <2>2
<1>8. snap > 0 => snap_term = full'[snap]
  <2>1. snap > 0 => snap \in 1..Len(full)
    BY Whole, SMT
  <2>2. QED
    BY <1>5, <2>1, Whole
<1>9. snap' = snap /\ snap_term' = snap_term /\ apart' = FALSE /\ wal' = log'
  BY <1>2, Whole
<1>10. /\ snap' + Len(log') = Len(full')
       /\ \A k \in 1..Len(log') : log'[k] = [term |-> full'[snap' + k], index |-> snap' + k]
       /\ snap' > 0 => snap_term' = full'[snap']
       /\ snap' \in 0..MaxLog /\ snap_term' \in 0..MaxTerm
  BY <1>6, <1>7, <1>8, <1>9, Whole
<1>11. QED
  BY <1>4, <1>5, <1>6, <1>9, <1>10, Together

\* Where the array and the snapshot come apart, only the types are left to say.
LEMMA ComesApart ==
    ASSUME log' \in Seq(Item), wal' \in Seq(Item), full' \in Seq(1..MaxTerm),
           snap' \in 0..MaxLog, snap_term' \in 0..MaxTerm, apart' = TRUE, Len(full') <= MaxLog
    PROVE  Inv'
  BY DEF Inv, TypeOK, LogIsSuffix, Item

\* A request that passes the check of prev_log_index follows on the log.
LEMMA PrevIsThere ==
    ASSUME Inv, ~apart, NEW prev \in Nat, NEW prev_term, prev > 0 => prev_term \in 1..MaxTerm,
           prev > 0 => TermAtIndex(prev) = prev_term
    PROVE  prev <= Len(full)
<1>1. /\ snap \in Nat /\ Len(log) \in Nat /\ Len(full) \in Nat /\ snap + Len(log) = Len(full)
  BY Whole
<1>2. CASE prev = 0
  BY <1>1, <1>2, SMT
<1>3. CASE prev > 0
  <2>1. TermAtIndex(prev) # 0 /\ prev # 0
    <3>1. prev # 0 /\ 0 \notin 1..MaxTerm
      BY <1>3, LogAssumption, SMT
    <3>2. QED
      BY <1>3, <3>1
  <2>2. prev = snap \/ Slot(log, prev) # 0
    BY <2>1 DEF TermAtIndex
  <2>3. QED
    BY <1>1, <2>2, SMT DEF Slot
<1>4. QED
  BY <1>2, <1>3, SMT

LEMMA AppendEntriesInv ==
    ASSUME Inv, ~apart, NEW prev \in Nat, NEW prev_term, prev > 0 => prev_term \in 1..MaxTerm,
           NEW terms \in Seq(1..MaxTerm), prev + Len(terms) <= MaxLog,
           AppendEntries(prev, prev_term, terms)
    PROVE  Inv'
<1>1. /\ log' = Merged(prev, terms) /\ wal' = log' /\ full' = MergedByDefinition(prev, terms)
      /\ apart' = (prev < snap /\ terms # <<>>) /\ snap' = snap /\ snap_term' = snap_term
  BY DEF AppendEntries
<1>2. prev <= Len(full)
  BY PrevIsThere DEF AppendEntries
<1>3. /\ log \in Seq(Item) /\ full \in Seq(1..MaxTerm) /\ snap \in Nat /\ Len(full) <= MaxLog
      /\ Len(log) \in Nat /\ Len(full) \in Nat /\ snap + Len(log) = Len(full)
      /\ snap' \in 0..MaxLog /\ snap_term' \in 0..MaxTerm
  BY <1>1, Whole
<1>4. /\ full' \in Seq(1..MaxTerm) /\ Len(full') = EndAfter(prev, terms, Len(terms))
      /\ \A j \in 1..Len(full') : full'[j] = TermAfter(prev, terms, Len(terms), j)
  BY <1>1, <1>2, <1>3, DefinitionIs
<1>5. Len(full') <= MaxLog
  BY <1>3, <1>4 DEF EndAfter
<1>6. PICK f : /\ f[0] = log /\ \A i \in 0..Len(terms) : f[i] \in Seq(Item)
               /\ log' = f[Len(terms)]
  BY <1>1, <1>3, EntryLoop
<1>7. log' \in Seq(Item) /\ wal' \in Seq(Item) /\ Len(terms) \in Nat
  <2>1. Len(terms) \in Nat
    BY LenProperties
  <2>2. Len(terms) \in 0..Len(terms)
    BY <2>1, SMT
  <2>3. QED
    BY <1>1, <1>6, <2>1, <2>2
\* Nothing is sent: a heartbeat.
<1>8. CASE terms = <<>>
  <2>1. Len(terms) = 0 /\ 1..0 = {} /\ prev + 0 = prev
    BY <1>8, EmptySeq, SMT
  <2>2. log' = log /\ full' = full
    BY <1>1, <1>2, <1>6, <2>1 DEF MergedByDefinition
  <2>3. apart' = FALSE
    BY <1>1, <1>8
  <2>4. /\ snap' + Len(log') = Len(full')
        /\ \A k \in 1..Len(log') : log'[k] = [term |-> full'[snap' + k], index |-> snap' + k]
        /\ snap' > 0 => snap_term' = full'[snap']
    BY <1>1, <2>2 DEF Inv, LogIsSuffix
  <2>5. QED
    BY <1>1, <1>3, <1>4, <1>5, <1>7, <2>3, <2>4, Together
\* Entries that the snapshot covers.
<1>9. CASE terms # <<>> /\ prev < snap
  <2>1. apart' = TRUE
    BY <1>1, <1>9
  <2>2. QED
    BY <1>3, <1>4, <1>5, <1>7, <2>1, ComesApart
<1>10. CASE terms # <<>> /\ ~(prev < snap)
  <2>1. apart' = FALSE /\ snap <= prev
    <3>1. snap <= prev
      BY <1>3, <1>10, SMT
    <3>2. QED
      BY <1>1, <1>10, <3>1
  <2>2. IsAfter(log', prev, terms, Len(terms))
    BY <1>1, <1>2, <2>1, MergedIs DEF Inv
  <2>3. snap' + Len(log') = Len(full')
    BY <1>1, <1>4, <2>2 DEF IsAfter
  <2>4. ASSUME NEW k \in 1..Len(log')
        PROVE  log'[k] = [term |-> full'[snap' + k], index |-> snap' + k]
    <3>1. snap + k \in 1..Len(full')
      <4>1. Len(log') \in Nat /\ Len(full') \in Nat /\ snap + Len(log') = Len(full')
        BY <1>1, <1>4, <1>7, <2>3, LenProperties
      <4>2. QED
        BY <1>3, <4>1, SMT
    <3>2. full'[snap + k] = TermAfter(prev, terms, Len(terms), snap + k)
      BY <1>4, <3>1
    <3>3. QED
      BY <1>1, <2>2, <3>2 DEF IsAfter
  <2>5. ASSUME snap > 0 PROVE snap_term = full'[snap]
    <3>1. snap \in 1..Len(full')
      <4>1. Len(log') \in Nat /\ Len(full') \in Nat /\ snap + Len(log') = Len(full')
        BY <1>1, <1>4, <1>7, <2>3, LenProperties
      <4>2. QED
        BY <1>3, <2>5, <4>1, SMT
    <3>2. full'[snap] = full[snap]
      BY <1>4, <2>1, <3>1 DEF TermAfter
    <3>3. QED
      BY <2>5, <3>2, Whole
  <2>6. snap' > 0 => snap_term' = full'[snap']
    BY <1>1, <2>5
  <2>7. QED
    BY <1>1, <1>3, <1>4, <1>5, <1>7, <2>1, <2>3, <2>4, <2>6, Together
<1>11. QED
  BY <1>8, <1>9, <1>10

LEMMA SaveSnapshotInv ==
    ASSUME Inv, ~apart, NEW i \in 1..MaxLog, SaveSnapshot(i) PROVE Inv'
<1>1. /\ log \in Seq(Item) /\ wal \in Seq(Item) /\ full \in Seq(1..MaxTerm) /\ snap \in Nat
      /\ Len(log) \in Nat /\ Len(full) \in Nat /\ snap + Len(log) = Len(full)
      /\ Len(full) <= MaxLog /\ LastLogIndex = Len(full) /\ apart = FALSE
      /\ \A k \in 1..Len(log) : log[k].index = snap + k /\ log[k].term = full[snap + k]
  BY Whole
<1>2. /\ snap < i /\ i <= snap + Len(log) /\ i \in Nat /\ i # 0 /\ i # snap /\ i \in 1..Len(full)
      /\ i > snap /\ i - snap <= Len(log) /\ i - snap # 0 /\ i - snap \in 1..Len(log)
      /\ snap + (i - snap) = i
  <2>1. i > snap /\ i <= Len(full)
    BY <1>1 DEF SaveSnapshot
  <2>2. QED
    BY <1>1, <2>1, LogAssumption, SMT
<1>3. snap' = i /\ snap_term' = TermAtIndex(i) /\ UNCHANGED <<wal, full, apart>>
  BY DEF SaveSnapshot
<1>4. TermAtIndex(i) = full[i] /\ full[i] \in 1..MaxTerm
  <2>1. Slot(log, i) = i - snap
    BY <1>2 DEF Slot
  <2>2. log[i - snap].term = full[i]
    BY <1>1, <1>2
  <2>3. full[i] \in 1..MaxTerm
    BY <1>1, <1>2, ElementOfSeq
  <2>4. QED
    BY <1>2, <2>1, <2>2, <2>3 DEF TermAtIndex
<1>5. PICK c : c = Compacted(i)
  OBVIOUS
<1>6. /\ c \in Seq(Item) /\ i + Len(c) = snap + Len(log)
      /\ \A k \in 1..Len(c) : i - snap + k \in 1..Len(log) /\ c[k] = log[i - snap + k]
  BY <1>1, <1>2, <1>5, CompactedIs
<1>7. log' = c
  BY <1>5 DEF SaveSnapshot
<1>8. ASSUME NEW k \in 1..Len(c) PROVE c[k] = [term |-> full[i + k], index |-> i + k]
  <2>1. PICK d : d = i - snap + k
    OBVIOUS
  <2>2. d \in 1..Len(log) /\ c[k] = log[d]
    BY <1>6, <2>1
  <2>3. snap + d = i + k
    <3>1. Len(c) \in Nat
      BY <1>6, LenProperties
    <3>2. QED
      BY <1>1, <1>2, <2>1, <3>1, SMT
  <2>4. log[d] = [term |-> full[snap + d], index |-> snap + d]
    BY <2>2 DEF Inv, LogIsSuffix
  <2>5. QED
    BY <2>2, <2>3, <2>4
<1>9. snap' + Len(log') = Len(full') /\ Len(full') <= MaxLog
  BY <1>1, <1>3, <1>6, <1>7
<1>10. /\ \A k \in 1..Len(log') : log'[k] = [term |-> full'[snap' + k], index |-> snap' + k]
       /\ snap_term' = full'[snap']
  BY <1>3, <1>4, <1>7, <1>8
<1>11. snap' \in 0..MaxLog /\ snap_term' \in 0..MaxTerm /\ snap' # 0
  <2>1. 1..MaxLog \subseteq 0..MaxLog /\ 1..MaxTerm \subseteq 0..MaxTerm
    BY SMT
  <2>2. QED
    BY <1>2, <1>3, <1>4, <2>1
<1>12. log' \in Seq(Item) /\ wal' \in Seq(Item) /\ full' \in Seq(1..MaxTerm) /\ apart' = FALSE
  BY <1>1, <1>3, <1>6, <1>7
<1>13. QED
  BY <1>9, <1>10, <1>11, <1>12, Together

LEMMA RestartInv ==
    ASSUME Inv, ~apart, Restart PROVE Inv'
<1>1. /\ wal \in Seq(Item) /\ full \in Seq(1..MaxTerm) /\ Len(full) <= MaxLog /\ snap \in Nat
      /\ snap + Len(log) = Len(full)
  BY Whole
<1>2. /\ log' = wal /\ wal' = wal /\ full' = full /\ snap' = 0 /\ snap_term' = 0
      /\ apart' = (snap > 0)
  BY DEF Restart
<1>3. snap' \in 0..MaxLog /\ snap_term' \in 0..MaxTerm
  <2>1. 0 \in 0..MaxLog /\ 0 \in 0..MaxTerm
    BY LogAssumption, SMT
  <2>2. QED
    BY <1>2, <2>1
<1>4. log' \in Seq(Item) /\ wal' \in Seq(Item) /\ full' \in Seq(1..MaxTerm) /\ Len(full') <= MaxLog
  BY <1>1, <1>2
<1>5. CASE snap > 0
  <2>1. apart' = TRUE
    BY <1>2, <1>5
  <2>2. QED
    BY <1>3, <1>4, <2>1, ComesApart
<1>6. CASE ~(snap > 0)
  <2>1. snap = 0 /\ ~(0 > 0)
    BY <1>1, <1>6, SMT
  <2>2. wal = log
    BY <2>1 DEF Inv
  <2>3. log' = log /\ apart' = FALSE /\ wal' = log' /\ snap' = snap
    <3>1. (snap > 0) = FALSE
      BY <1>1, <1>6, SMT
    <3>2. apart' = FALSE
      BY <1>2, <3>1
    <3>3. QED
      BY <1>2, <2>1, <2>2, <3>2
  <2>4. /\ snap' + Len(log') = Len(full')
        /\ \A k \in 1..Len(log') : log'[k] = [term |-> full'[snap' + k], index |-> snap' + k]
    BY <1>2, <2>3 DEF Inv, LogIsSuffix
  <2>5. ~(snap' > 0)
    BY <1>2, <2>1
  <2>6. QED
    BY <1>3, <1>4, <2>3, <2>4, <2>5, Together
<1>7. QED
  BY <1>5, <1>6

\* What a leader may send: a part of its log, and the term before it.
LEMMA WhatIsSent ==
    ASSUME NEW l \in LeaderLog, NEW prev \in 0..Len(l), NEW last \in 0..Len(l)
    PROVE  /\ prev \in Nat /\ (prev > 0 => l[prev] \in 1..MaxTerm)
           /\ SubSeq(l, prev + 1, last) \in Seq(1..MaxTerm)
           /\ prev + Len(SubSeq(l, prev + 1, last)) <= MaxLog
<1>1. PICK k \in 0..MaxLog : l \in [1..k -> 1..MaxTerm]
  BY DEF LeaderLog
<1>2. k \in Nat /\ k <= MaxLog
  BY LogAssumption, SMT
<1>3. l \in Seq(1..MaxTerm) /\ Len(l) = k
  <2>1. l \in Seq(1..MaxTerm)
    BY <1>1, <1>2, SeqDef
  <2>2. Len(l) \in Nat /\ 1..Len(l) = 1..k
    BY <1>1, <2>1, LenProperties
  <2>3. Len(l) = k
    <3>1. /\ k \in 1..k <=> k \in 1..Len(l)
          /\ Len(l) \in 1..k <=> Len(l) \in 1..Len(l)
      BY <2>2
    <3>2. QED
      BY <1>2, <2>2, <3>1, SMT
  <2>4. QED
    BY <2>1, <2>3
<1>4. prev \in Nat /\ last \in Nat /\ prev <= k /\ last <= k
  BY <1>2, <1>3, SMT
<1>5. prev > 0 => l[prev] \in 1..MaxTerm
  <2>1. prev > 0 => prev \in 1..k
    BY <1>2, <1>4, SMT
  <2>2. QED
    BY <1>1, <2>1
<1>6. \A i \in prev + 1 .. last : l[i] \in 1..MaxTerm
  <2>1. \A i \in prev + 1 .. last : i \in 1..k
    BY <1>2, <1>4, SMT
  <2>2. QED
    BY <1>1, <2>1
<1>7. prev + 1 \in Int /\ last \in Int
  BY <1>4, SMT
<1>8. /\ SubSeq(l, prev + 1, last) \in Seq(1..MaxTerm)
      /\ Len(SubSeq(l, prev + 1, last)) = IF prev + 1 <= last THEN last - (prev + 1) + 1 ELSE 0
  BY <1>6, <1>7, SubSeqProperties, SMT
<1>9. PICK s : s = Len(SubSeq(l, prev + 1, last))
  OBVIOUS
<1>10. prev + s <= MaxLog
  <2>1. s = IF prev + 1 <= last THEN last - (prev + 1) + 1 ELSE 0
    BY <1>8, <1>9
  <2>2. QED
    BY <1>2, <1>4, <2>1, LogAssumption, SMT
<1>11. QED
  BY <1>4, <1>5, <1>8, <1>9, <1>10

LEMMA NextInv == Inv /\ [Next]_vars => Inv'
<1> SUFFICES ASSUME Inv, [Next]_vars PROVE Inv'
  OBVIOUS
<1>1. CASE UNCHANGED vars
  BY <1>1 DEF vars, Inv, TypeOK, LogIsSuffix
<1>2. ASSUME ~apart, NEW t \in 1..MaxTerm, Submit(t) PROVE Inv'
  BY <1>2, SubmitInv
<1>3. ASSUME ~apart, NEW l \in LeaderLog, NEW prev \in 0..Len(l), NEW last \in 0..Len(l),
             AppendEntries(prev, IF prev = 0 THEN 0 ELSE l[prev], SubSeq(l, prev + 1, last))
      PROVE  Inv'
  <2>1. PICK s : s = SubSeq(l, prev + 1, last)
    OBVIOUS
  <2>2. PICK p : p = IF prev = 0 THEN 0 ELSE l[prev]
    OBVIOUS
  <2>3. /\ prev \in Nat /\ (prev > 0 => l[prev] \in 1..MaxTerm)
        /\ s \in Seq(1..MaxTerm) /\ prev + Len(s) <= MaxLog
    BY <2>1, WhatIsSent
  <2>4. prev > 0 => p \in 1..MaxTerm
    <3>1. prev > 0 => prev # 0
      BY <2>3, SMT
    <3>2. QED
      BY <2>2, <2>3, <3>1
  <2>5. AppendEntries(prev, p, s)
    BY <1>3, <2>1, <2>2
  <2>6. QED
    BY <1>3, <2>3, <2>4, <2>5, AppendEntriesInv
<1>4. ASSUME ~apart, NEW i \in 1..MaxLog, SaveSnapshot(i) PROVE Inv'
  BY <1>4, SaveSnapshotInv
<1>5. ASSUME ~apart, Restart PROVE Inv'
  BY <1>5, RestartInv
<1>6. QED
  BY <1>1, <1>2, <1>3, <1>4, <1>5 DEF Next

-----------------------------------------------------------------------------
\* The inductive invariant holds in every state.
THEOREM SpecInv == Spec => []Inv
<1>1. Init => Inv
  BY InitInv
<1>2. QED
  BY <1>1, NextInv, PTL DEF Spec

\* Terms and indexes stay in range, and the array never outgrows the log.
THEOREM TypesHold == Spec => []TypeOK
<1>1. Inv => TypeOK
  BY DEF Inv
<1>2. QED
  BY <1>1, SpecInv, PTL

\* The entry loop of raft_handle_append_entries and the compaction loop of
\* raft_save_snapshot compute what the log is defined to be: for logs of any
\* length, the array is the part of the log that follows the snapshot.
THEOREM LogStaysSuffix == Spec => []LogIsSuffix
<1>1. Inv => LogIsSuffix
  BY DEF Inv
<1>2. QED
  BY <1>1, SpecInv, PTL
=============================================================================
