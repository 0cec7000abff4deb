-------------------------- MODULE MembershipProofs --------------------------
(***************************************************************************)
(* Theorems about Membership, for every finite set of nodes and every      *)
(* bound: lists have no duplicates and fit, and joins are mutual.          *)
(*                                                                         *)
(* A join involves a list that is copied while its owner goes on, so the   *)
(* invariant follows the copy: the answer on its way has no node twice     *)
(* (ListsInv), and its sender lists the node it answers, for it added it   *)
(* first and only the end of its process takes a node out (JoinInv).  The  *)
(* node is blocked in cluster_join with an empty list, into which the copy *)
(* is read.  A list without duplicates is no longer than there are nodes.  *)
(***************************************************************************)
EXTENDS Membership, FiniteSetTheorems, SequenceTheorems, TLAPS

\* Most leaves are set and first-order reasoning; those with arithmetic ask for SMT.
USE Zenon

\* Every set of numbers that is not empty has a least one.
LEMMA LeastNumber ==
    ASSUME NEW S \in SUBSET Nat, S # {}
    PROVE  \E n \in S : \A k \in S : n <= k
<1>1. PICK n \in S : \A k \in S : <<k, n>> \notin OpToRel(<, Nat)
  BY NatLessThanWellFounded, WFMin
<1>2. ASSUME NEW k \in S PROVE n <= k
  <2>1. n \in Nat /\ k \in Nat
    OBVIOUS
  <2>2. ~(k < n)
    BY <1>1, <2>1 DEF OpToRel
  <2>3. QED
    BY <2>1, <2>2, SMT
<1>3. QED
  BY <1>2

-----------------------------------------------------------------------------
\* The nodes a list names.
Ids(list) == {list[i].id : i \in 1..Len(list)}

\* What the lookups by id, which stop at the first match, find.
LEMMA PositionFinds ==
    ASSUME NEW list \in Seq(EntryType), NEW m
    PROVE  /\ Position(list, m) \in 0..Len(list)
           /\ Position(list, m) # 0 => list[Position(list, m)].id = m
           /\ Position(list, m) # 0 <=> m \in Ids(list)
<1> DEFINE I == {i \in 1..Len(list) : list[i].id = m}
<1>1. Len(list) \in Nat
  BY LenProperties
<1>2. I = {} => Position(list, m) = 0
  BY DEF Position
<1>3. I # {} => Position(list, m) \in I
  <2> SUFFICES ASSUME I # {} PROVE Position(list, m) \in I
    OBVIOUS
  <2>1. I \in SUBSET Nat
    BY <1>1, SMT
  <2>2. Position(list, m) = CHOOSE n \in I : \A k \in I : n <= k
    BY DEF Position
  <2> HIDE DEF I
  <2>3. \E n \in I : \A k \in I : n <= k
    BY <2>1, LeastNumber
  <2>4. QED
    BY <2>2, <2>3
<1>4. I # {} <=> m \in Ids(list)
  BY DEF Ids
<1>5. CASE I = {}
  BY <1>1, <1>2, <1>4, <1>5, SMT
<1>6. CASE I # {}
  <2>1. Position(list, m) \in I
    BY <1>3, <1>6
  <2>2. Position(list, m) \in 1..Len(list) /\ list[Position(list, m)].id = m
    BY <2>1
  <2>3. QED
    BY <1>1, <1>4, <1>6, <2>2, SMT
<1>7. QED
  BY <1>5, <1>6

-----------------------------------------------------------------------------
\* f is a run of a loop of k turns from x: the value before the first turn, and
\* after each turn.
IsRun(f, k, x, turn) == f[0] = x /\ \A i \in 1..k : f[i] = turn[i][f[i - 1]]

\* A loop over values in X has a run.
LEMMA LoopRuns ==
    ASSUME NEW k \in Nat, NEW X, NEW x \in X, NEW turn \in [1..k -> [X -> X]]
    PROVE  \E f \in [0..k -> X] : IsRun(f, k, x, turn)
<1> DEFINE Run(j, f) == f[0] = x /\ \A i \in 1..j : f[i] = turn[i][f[i - 1]]
           Stuck == {j \in 0..k : \A f \in [0..j -> X] : ~Run(j, f)}
<1>1. SUFFICES ASSUME Stuck # {} PROVE FALSE
  <2>1. k \in 0..k
    BY SMT
  <2>2. \E f \in [0..k -> X] : Run(k, f)
    BY <1>1, <2>1
  <2>3. QED
    BY <2>2 DEF IsRun
<1>2. PICK j \in Stuck : \A i \in Stuck : j <= i
  <2>1. Stuck \in SUBSET Nat
    BY SMT
  <2> HIDE DEF Stuck
  <2>2. QED
    BY <1>1, <2>1, LeastNumber
<1>3. j \in 0..k /\ \A f \in [0..j -> X] : ~Run(j, f)
  BY <1>2
<1>4. CASE j = 0
  <2> DEFINE f == [i \in 0..0 |-> x]
  <2>1. f \in [0..0 -> X] /\ f[0] = x
    BY SMT
  <2>2. 1..0 = {}
    BY SMT
  <2> HIDE DEF f
  <2>3. Run(0, f)
    BY <2>1, <2>2
  <2>4. QED
    BY <1>3, <1>4, <2>1, <2>3
<1>5. CASE j > 0
  <2>1. j - 1 \in 0..k /\ ~(j <= j - 1)
    BY <1>3, <1>5, SMT
  <2>2. j - 1 \notin Stuck
    BY <1>2, <2>1
  <2>3. PICK g \in [0..(j - 1) -> X] : Run(j - 1, g)
    BY <2>1, <2>2
  <2> DEFINE f == [i \in 0..j |-> IF i = j THEN turn[j][g[j - 1]] ELSE g[i]]
  <2>4. turn[j][g[j - 1]] \in X
    <3>1. j \in 1..k /\ j - 1 \in 0..(j - 1)
      BY <1>3, <1>5, SMT
    <3>2. g[j - 1] \in X /\ turn[j] \in [X -> X]
      BY <3>1
    <3>3. QED
      BY <3>2
  <2>5. f \in [0..j -> X]
    <3>1. ASSUME NEW i \in 0..j, i # j PROVE i \in 0..(j - 1)
      BY <1>3, <3>1, SMT
    <3>2. \A i \in 0..j : (IF i = j THEN turn[j][g[j - 1]] ELSE g[i]) \in X
      BY <2>4, <3>1
    <3>3. QED
      BY <3>2
  <2>6. f[0] = x
    BY <1>3, <1>5, <2>3, SMT
  <2>7. ASSUME NEW i \in 1..j PROVE f[i] = turn[i][f[i - 1]]
    <3>1. i - 1 \in 0..j /\ i - 1 # j /\ i \in 0..j /\ j \in Nat
      BY <1>3, <2>7, SMT
    <3>2. f[i - 1] = g[i - 1]
      BY <3>1
    <3>3. CASE i = j
      BY <3>1, <3>2, <3>3
    <3>4. CASE i # j
      <4>1. i \in 1..(j - 1)
        BY <3>1, <3>4, SMT
      <4>2. g[i] = turn[i][g[i - 1]]
        BY <2>3, <4>1
      <4>3. f[i] = g[i]
        BY <3>1, <3>4
      <4>4. QED
        BY <3>2, <4>2, <4>3
    <3>5. QED
      BY <3>3, <3>4
  <2> HIDE DEF f
  <2>8. Run(j, f)
    BY <2>6, <2>7
  <2>9. QED
    BY <1>3, <2>5, <2>8
<1>6. QED
  BY <1>3, <1>4, <1>5, SMT

-----------------------------------------------------------------------------
\* No node is twice in the list, and n is not in it.
Unique(list, n) ==
    \A i \in 1..Len(list) :
        /\ list[i].id # n
        /\ \A j \in 1..Len(list) : list[i].id = list[j].id => i = j

\* Adding an entry at the end.
LEMMA Added ==
    ASSUME NEW list \in Seq(EntryType), NEW e \in EntryType
    PROVE  /\ Append(list, e) \in Seq(EntryType)
           /\ Ids(Append(list, e)) = Ids(list) \cup {e.id}
           /\ \A n : Unique(list, n) /\ e.id # n /\ e.id \notin Ids(list)
                       => Unique(Append(list, e), n)
<1>1. Len(list) \in Nat
  BY LenProperties
<1>2. /\ Append(list, e) \in Seq(EntryType) /\ Len(Append(list, e)) = Len(list) + 1
      /\ \A i \in 1..Len(list) : Append(list, e)[i] = list[i]
      /\ Append(list, e)[Len(list) + 1] = e
  BY AppendProperties, SMT
<1> DEFINE a == Append(list, e)
<1> HIDE DEF a
<1>3. /\ 1..Len(a) = 1..Len(list) \cup {Len(list) + 1} /\ Len(list) + 1 \notin 1..Len(list)
      /\ \A i \in 1..Len(list) : a[i] = list[i]
      /\ a[Len(list) + 1] = e
  BY <1>1, <1>2, SMT DEF a
<1>4. Ids(a) = Ids(list) \cup {e.id}
  <2>1. ASSUME NEW x \in Ids(a) PROVE x \in Ids(list) \cup {e.id}
    BY <1>3, <2>1 DEF Ids
  <2>2. ASSUME NEW x \in Ids(list) PROVE x \in Ids(a)
    BY <1>3, <2>2 DEF Ids
  <2>3. e.id \in Ids(a)
    BY <1>3 DEF Ids
  <2>4. QED
    BY <2>1, <2>2, <2>3
<1>5. ASSUME NEW n, Unique(list, n), e.id # n, e.id \notin Ids(list)
      PROVE  Unique(a, n)
  <2>1. \A i \in 1..Len(list) : list[i].id # e.id
    BY <1>5 DEF Ids
  <2>2. ASSUME NEW i \in 1..Len(a)
        PROVE  a[i].id # n /\ \A j \in 1..Len(a) : a[i].id = a[j].id => i = j
    BY <1>3, <1>5, <2>1, <2>2 DEF Unique
  <2>3. QED
    BY <2>2 DEF Unique
<1>6. QED
  BY <1>2, <1>4, <1>5 DEF a

\* The import loop, turn by turn.
LEMMA CopyLoop ==
    ASSUME NEW n \in Node, members[n] = <<>>, NEW list \in Seq(EntryType)
    PROVE  \E f : /\ f[0] = <<>>
                  /\ \A i \in 1..Len(list) :
                        f[i] = IF list[i].id = n THEN f[i - 1]
                               ELSE Append(f[i - 1], Entry(list[i].id, list[i].status, "recent"))
                  /\ Copied(n, list) = f[Len(list)]
<1> DEFINE k == Len(list)
           E(i) == Entry(list[i].id, list[i].status, "recent")
           X == Seq(EntryType)
           turn == [i \in 1..k |-> [l \in X |-> IF list[i].id = n THEN l ELSE Append(l, E(i))]]
           Body(f) == [i \in 0..k |-> IF i = 0 THEN members[n]
                                      ELSE IF list[i].id = n THEN f[i - 1]
                                      ELSE Append(f[i - 1], E(i))]
<1>1. k \in Nat /\ <<>> \in X
  BY LenProperties, EmptySeq
<1>2. \A i \in 1..k : E(i) \in EntryType
  <2> TAKE i \in 1..k
  <2>1. list[i] \in EntryType
    BY ElementOfSeq
  <2>2. QED
    BY <2>1 DEF Entry, EntryType
<1> HIDE DEF E, k
<1>3. turn \in [1..k -> [X -> X]]
  <2>1. ASSUME NEW i \in 1..k, NEW l \in X
        PROVE  (IF list[i].id = n THEN l ELSE Append(l, E(i))) \in X
    BY <1>2, <2>1, AppendProperties
  <2>2. QED
    BY <2>1
<1>4. PICK g \in [0..k -> X] : g[0] = <<>> /\ \A i \in 1..k : g[i] = turn[i][g[i - 1]]
  <2> HIDE DEF turn, X
  <2>1. \E g \in [0..k -> X] : IsRun(g, k, <<>>, turn)
    BY <1>1, <1>3, LoopRuns
  <2>2. QED
    BY <2>1 DEF IsRun
<1>5. g = Body(g)
  <2>1. ASSUME NEW i \in 0..k
        PROVE  g[i] = IF i = 0 THEN members[n] ELSE IF list[i].id = n THEN g[i - 1]
                      ELSE Append(g[i - 1], E(i))
    <3>1. i = 0 \/ (i \in 1..k /\ i - 1 \in 0..k)
      BY <1>1, SMT
    <3>2. CASE i = 0
      BY <1>4, <3>2
    <3>3. CASE i \in 1..k /\ i - 1 \in 0..k /\ i # 0
      <4>1. g[i] = turn[i][g[i - 1]] /\ g[i - 1] \in X
        BY <1>4, <3>3
      <4>2. QED
        BY <3>3, <4>1
    <3>4. QED
      BY <1>1, <3>1, <3>2, <3>3
  <2>2. QED
    BY <2>1
<1> DEFINE f == CHOOSE f : f = Body(f)
<1>6. f = Body(f)
  <2> HIDE DEF Body
  <2>1. QED
    BY <1>5
<1>7. Copied(n, list) = f[k]
  BY DEF Copied, E, k
<1> HIDE DEF f
<1>8. f[0] = <<>>
  <2>1. 0 \in 0..k
    BY <1>1, SMT
  <2>2. QED
    BY <1>6, <2>1
<1>9. ASSUME NEW i \in 1..k
      PROVE  f[i] = IF list[i].id = n THEN f[i - 1] ELSE Append(f[i - 1], E(i))
  <2>1. i \in 0..k /\ i # 0
    BY <1>1, SMT
  <2>2. QED
    BY <1>6, <2>1
<1>10. QED
  BY <1>7, <1>8, <1>9 DEF E, k

\* cluster_join's copy of a list without duplicates has none, leaves out only
\* the node itself.
LEMMA CopiedIs ==
    ASSUME NEW n \in Node, members[n] = <<>>, NEW list \in Seq(EntryType),
           NEW s, Unique(list, s)
    PROVE  /\ Copied(n, list) \in Seq(EntryType)
           /\ Unique(Copied(n, list), n)
           /\ Ids(Copied(n, list)) = Ids(list) \ {n}
<1> DEFINE k == Len(list)
           First(i) == {list[j].id : j \in 1..i}
           Good(l, i) == l \in Seq(EntryType) /\ Unique(l, n) /\ Ids(l) = First(i) \ {n}
<1>1. PICK f : /\ f[0] = <<>>
               /\ \A i \in 1..k :
                     f[i] = IF list[i].id = n THEN f[i - 1]
                            ELSE Append(f[i - 1], Entry(list[i].id, list[i].status, "recent"))
               /\ Copied(n, list) = f[k]
  BY CopyLoop
<1>2. k \in Nat
  BY LenProperties
<1>3. Good(<<>>, 0)
  <2>1. <<>> \in Seq(EntryType) /\ Len(<<>>) = 0
    BY EmptySeq
  <2>2. 1..0 = {}
    BY SMT
  <2>3. QED
    BY <2>1, <2>2 DEF Unique, Ids
<1>4. ASSUME NEW i \in 1..k, Good(f[i - 1], i - 1) PROVE Good(f[i], i)
  <2> DEFINE e == Entry(list[i].id, list[i].status, "recent")
  <2>1. e \in EntryType /\ e.id = list[i].id
    <3>1. list[i] \in EntryType
      BY ElementOfSeq
    <3>2. QED
      BY <3>1 DEF Entry, EntryType
  <2>2. 1..i = 1..(i - 1) \cup {i} /\ i \notin 1..(i - 1) /\ 1..(i - 1) \subseteq 1..k
    BY <1>2, SMT
  <2>3. First(i) = First(i - 1) \cup {list[i].id}
    BY <2>2
  <2>4. CASE list[i].id = n
    <3>1. f[i] = f[i - 1]
      BY <1>1, <2>4
    <3>2. First(i) \ {n} = First(i - 1) \ {n}
      BY <2>3, <2>4
    <3>3. QED
      BY <1>4, <3>1, <3>2
  <2>5. CASE list[i].id # n
    <3>1. f[i] = Append(f[i - 1], e)
      BY <1>1, <2>5
    <3>2. e.id \notin Ids(f[i - 1]) /\ e.id # n
      <4>1. list[i].id \notin First(i - 1)
        BY <2>2 DEF Unique
      <4>2. QED
        BY <1>4, <2>1, <2>5, <4>1
    <3> HIDE DEF e
    <3>3. /\ f[i] \in Seq(EntryType) /\ Unique(f[i], n)
          /\ Ids(f[i]) = Ids(f[i - 1]) \cup {e.id}
      BY <1>4, <2>1, <3>1, <3>2, Added
    <3>4. Ids(f[i]) = First(i) \ {n}
      BY <1>4, <2>1, <2>3, <2>5, <3>3
    <3>5. QED
      BY <3>3, <3>4
  <2>6. QED
    BY <2>4, <2>5
<1> DEFINE Bad == {i \in 0..k : ~Good(f[i], i)}
<1>5. Bad = {}
  <2>1. SUFFICES ASSUME Bad # {} PROVE FALSE
    OBVIOUS
  <2>2. PICK i \in Bad : \A j \in Bad : i <= j
    <3>1. Bad \in SUBSET Nat
      BY <1>2, SMT
    <3> HIDE DEF Bad
    <3>2. QED
      BY <2>1, <3>1, LeastNumber
  <2> HIDE DEF Good
  <2>3. i \in 0..k /\ ~Good(f[i], i)
    BY <2>2
  <2>4. i # 0
    BY <1>1, <1>3, <2>3
  <2>5. i \in 1..k /\ i - 1 \in 0..k /\ ~(i <= i - 1)
    BY <1>2, <2>3, <2>4, SMT
  <2>6. Good(f[i - 1], i - 1)
    BY <2>2, <2>5
  <2>7. QED
    BY <1>4, <2>3, <2>5, <2>6
<1>6. Good(f[k], k)
  <2> HIDE DEF Good
  <2>1. k \in 0..k
    BY <1>2, SMT
  <2>2. QED
    BY <1>5, <2>1
<1>7. QED
  BY <1>1, <1>6 DEF Ids

-----------------------------------------------------------------------------
MsgType ==
    [type : {"JOIN_REQ"}, src : Node, dst : Node, conn : Nat]
        \cup [type : {"JOIN_RESP"}, src : Node, dst : Node, conn : Nat, list : Seq(EntryType)]
        \cup [type : {"LEAVE"}, src : Node, dst : Node]

\* The list of n, or the one it sent, names m, if the process that did so, the
\* c-th of n, still runs.
Lists(n, c, m) ==
    /\ c \in 0..starts[n]
    /\ c = starts[n] /\ proc[n] # "down" => m \in Ids(members[n])

\* What each process and each message has, by itself.
Typed ==
    /\ proc \in [Node -> {"down", "joining", "up"}]
    /\ members \in [Node -> Seq(EntryType)]
    /\ starts \in [Node -> 0..MaxStarts]
    /\ rpc \subseteq MsgType
    /\ \A m \in rpc : m.src # m.dst
    /\ gossip \subseteq Node \X Node
    /\ via \in [Node -> {<<>>} \cup (Node \X Nat)]

\* Lists have no duplicates, at home and on their way to a node that joins, and
\* a process fills its list only after cluster_join has returned.
ListsInv ==
    /\ \A n \in Node : Unique(members[n], n)
    /\ \A m \in rpc : m.type = "JOIN_RESP" => Unique(m.list, m.src)
    /\ \A n \in Node : proc[n] # "up" => members[n] = <<>> /\ via[n] = <<>>

\* The seed listed the node before it answered, and forgets it only by dying.
JoinInv ==
    /\ \A m \in rpc : m.type = "JOIN_RESP" => Lists(m.src, m.conn, m.dst)
    /\ \A n \in Node : via[n] # <<>> =>
          /\ via[n][1] \in Ids(members[n])
          /\ Lists(via[n][1], via[n][2], n)

Inv == Typed /\ ListsInv /\ JoinInv

\* An update that keeps the nodes at their places keeps what the list says of
\* who is in it.
LEMMA SameNodes ==
    ASSUME NEW old \in Seq(EntryType), NEW l \in Seq(EntryType), Len(l) = Len(old),
           \A i \in 1..Len(old) : l[i].id = old[i].id
    PROVE  /\ Ids(l) = Ids(old)
           /\ \A n : Unique(old, n) => Unique(l, n)
<1>1. Ids(l) = Ids(old)
  <2>1. ASSUME NEW x \in Ids(l) PROVE x \in Ids(old)
    BY <2>1 DEF Ids
  <2>2. ASSUME NEW x \in Ids(old) PROVE x \in Ids(l)
    BY <2>2 DEF Ids
  <2>3. QED
    BY <2>1, <2>2
<1>2. ASSUME NEW n, Unique(old, n) PROVE Unique(l, n)
  BY <1>2 DEF Unique
<1>3. QED
  BY <1>1, <1>2

\* One entry replaced by another of the same node.
LEMMA Replaced ==
    ASSUME NEW old \in Seq(EntryType), NEW i \in 1..Len(old), NEW e \in EntryType,
           e.id = old[i].id
    PROVE  LET l == [old EXCEPT ![i] = e]
           IN /\ l \in Seq(EntryType)
              /\ Ids(l) = Ids(old)
              /\ \A n : Unique(old, n) => Unique(l, n)
<1> DEFINE l == [old EXCEPT ![i] = e]
<1>1. /\ l \in Seq(EntryType) /\ Len(l) = Len(old)
      /\ \A j \in 1..Len(old) : l[j] = IF j = i THEN e ELSE old[j]
  BY ExceptSeq, SMT
<1> HIDE DEF l
<1>2. \A j \in 1..Len(old) : l[j].id = old[j].id
  BY <1>1
<1>3. QED
  BY <1>1, <1>2, SameNodes DEF l

\* cluster_update_member_status and cluster_handle_join_req lose no node.
LEMMA Updated ==
    ASSUME NEW list \in Seq(EntryType), NEW m \in Node, NEW status \in Status
    PROVE  LET l == UpdateStatus(list, m, status)
           IN /\ l \in Seq(EntryType)
              /\ Ids(l) = Ids(list)
              /\ \A n : Unique(list, n) => Unique(l, n)
<1> DEFINE i == Position(list, m)
           e == Entry(m, status, "recent")
<1>1. /\ i \in 0..Len(list) /\ Len(list) \in Nat
      /\ i # 0 => list[i].id = m
  BY PositionFinds, LenProperties
<1>2. e \in EntryType /\ e.id = m
  BY DEF Entry, EntryType
<1> HIDE DEF i, e
<1>3. CASE i = 0
  BY <1>3 DEF UpdateStatus, i
<1>4. CASE i # 0
  <2>1. i \in 1..Len(list) /\ e.id = list[i].id
    <3>1. i \in 0..Len(list) /\ Len(list) \in Nat
      BY <1>1
    <3>2. i \in 1..Len(list)
      BY <1>4, <3>1, SMT
    <3>3. QED
      BY <1>1, <1>2, <1>4, <3>2
  <2>2. UpdateStatus(list, m, status) = [list EXCEPT ![i] = e]
    BY <1>4 DEF UpdateStatus, i, e
  <2> DEFINE l == [list EXCEPT ![i] = e]
  <2>3. l \in Seq(EntryType) /\ Ids(l) = Ids(list) /\ \A n : Unique(list, n) => Unique(l, n)
    BY <1>2, <2>1, Replaced
  <2> HIDE DEF l
  <2>4. QED
    BY <2>2, <2>3 DEF l
<1>5. QED
  BY <1>3, <1>4

LEMMA Joined ==
    ASSUME NEW n \in Node, NEW m \in Node, m # n,
           members[n] \in Seq(EntryType), Unique(members[n], n)
    PROVE  /\ WithJoiner(n, m) \in Seq(EntryType)
           /\ Unique(WithJoiner(n, m), n)
           /\ Ids(WithJoiner(n, m)) = Ids(members[n]) \cup {m}
<1> DEFINE list == members[n]
           i == Position(list, m)
           e == Entry(m, "ALIVE", WallClockAge(n))
<1>1. /\ i \in 0..Len(list) /\ Len(list) \in Nat
      /\ i # 0 => list[i].id = m
      /\ i # 0 <=> m \in Ids(list)
  BY PositionFinds, LenProperties
<1>2. e \in EntryType /\ e.id = m
  BY DEF Entry, EntryType, WallClockAge, Status
<1> HIDE DEF i, e, list
<1>3. list \in Seq(EntryType) /\ Unique(list, n)
  BY DEF list
<1>4. CASE i = 0
  <2>1. WithJoiner(n, m) = Append(list, e)
    BY <1>4 DEF WithJoiner, i, e, list
  <2>2. QED
    BY <1>1, <1>2, <1>3, <1>4, <2>1, Added DEF list
<1>5. CASE i # 0
  <2>1. i \in 1..Len(list) /\ e.id = list[i].id /\ m \in Ids(list)
    <3>1. i \in 0..Len(list) /\ Len(list) \in Nat
      BY <1>1
    <3>2. i \in 1..Len(list)
      BY <1>5, <3>1, SMT
    <3>3. QED
      BY <1>1, <1>2, <1>5, <3>2
  <2>2. WithJoiner(n, m) = [list EXCEPT ![i] = e]
    BY <1>5 DEF WithJoiner, i, e, list
  <2>3. Ids(list) \cup {m} = Ids(list)
    BY <2>1
  <2> DEFINE l == [list EXCEPT ![i] = e]
  <2>4. l \in Seq(EntryType) /\ Ids(l) = Ids(list) /\ \A k : Unique(list, k) => Unique(l, k)
    BY <1>2, <1>3, <2>1, Replaced
  <2> HIDE DEF l
  <2>5. WithJoiner(n, m) = l
    BY <2>2 DEF l
  <2>6. QED
    BY <1>3, <2>3, <2>4, <2>5 DEF list
<1>6. QED
  BY <1>4, <1>5

\* What cluster_join makes of the response: the list of the seed and the seed.
LEMMA ImportedIs ==
    ASSUME NEW n \in Node, NEW s \in Node, s # n, members[n] = <<>>,
           NEW list \in Seq(EntryType), Unique(list, s)
    PROVE  /\ Imported(n, s, list) \in Seq(EntryType)
           /\ Unique(Imported(n, s, list), n)
           /\ s \in Ids(Imported(n, s, list))
<1> DEFINE l == Copied(n, list)
           e == Entry(s, "ALIVE", "recent")
<1>1. l \in Seq(EntryType) /\ Unique(l, n)
  BY CopiedIs
<1>2. e \in EntryType /\ e.id = s
  BY DEF Entry, EntryType, Status
<1> HIDE DEF l, e
<1>3. Position(l, s) # 0 <=> s \in Ids(l)
  BY <1>1, PositionFinds
<1>4. CASE Position(l, s) # 0
  <2>1. Imported(n, s, list) = l
    BY <1>4 DEF Imported, l
  <2>2. QED
    BY <1>1, <1>3, <1>4, <2>1
<1>5. CASE Position(l, s) = 0
  <2>1. Imported(n, s, list) = Append(l, e)
    BY <1>5 DEF Imported, l, e
  <2>2. QED
    BY <1>1, <1>2, <1>3, <1>5, <2>1, Added
<1>6. QED
  BY <1>4, <1>5

LEMMA MembersAreNodes ==
    ASSUME NEW list \in Seq(EntryType)
    PROVE  Ids(list) \subseteq Node
<1>1. ASSUME NEW i \in 1..Len(list) PROVE list[i].id \in Node
  <2>1. list[i] \in EntryType
    BY ElementOfSeq
  <2>2. QED
    BY <2>1 DEF EntryType
<1>2. QED
  BY <1>1 DEF Ids

\* The list that heartbeats walk through is the list of members.
LEMMA RotatedIsList ==
    ASSUME NEW list \in Seq(EntryType), NEW start \in 1..Len(list)
    PROVE  Rotated(list, start) \in Seq(EntryType)
<1>1. Len(list) \in Nat
  BY LenProperties
<1>2. ASSUME NEW i \in 1..Len(list)
      PROVE  list[((start + i - 2) % Len(list)) + 1] \in EntryType
  <2>1. ((start + i - 2) % Len(list)) + 1 \in 1..Len(list)
    <3> DEFINE x == start + i - 2
               k == Len(list)
    <3>1. x \in Nat /\ k \in Nat /\ k > 0
      BY <1>1, SMT
    <3> HIDE DEF x, k
    <3>2. x % k \in 0..(k - 1)
      BY <3>1, SMT
    <3>3. (x % k) + 1 \in 1..k
      BY <3>1, <3>2, SMT
    <3>4. QED
      BY <3>3 DEF x, k
  <2> HIDE DEF Rotated
  <2>2. QED
    BY <2>1, ElementOfSeq
<1>3. Rotated(list, start) \in [1..Len(list) -> EntryType]
  BY <1>2 DEF Rotated
<1>4. QED
  BY <1>1, <1>3, SeqDef

-----------------------------------------------------------------------------
\* What the invariant says of one message.
Fine(m) ==
    /\ m \in MsgType /\ m.src # m.dst
    /\ m.type = "JOIN_RESP" => Unique(m.list, m.src) /\ Lists(m.src, m.conn, m.dst)

\* What the members of MsgType are.
LEMMA MsgFields ==
    ASSUME NEW m \in MsgType
    PROVE  /\ m.src \in Node /\ m.dst \in Node
           /\ m.type \in {"JOIN_REQ", "JOIN_RESP", "LEAVE"}
           /\ m.type = "JOIN_RESP" => m.list \in Seq(EntryType) /\ m.conn \in Nat
  BY DEF MsgType

\* The invariant after a step of one process, from what it does there.
LEMMA OneProcess ==
    ASSUME Inv, NEW n \in Node,
           proc' \in [Node -> {"down", "joining", "up"}],
           members' \in [Node -> Seq(EntryType)], starts' \in [Node -> 0..MaxStarts],
           via' \in [Node -> {<<>>} \cup (Node \X Nat)], gossip' \subseteq Node \X Node,
           \A m \in rpc' : m \in rpc \/ Fine(m)',
           \A k \in Node : k # n => /\ proc'[k] = proc[k] /\ members'[k] = members[k]
                                    /\ starts'[k] = starts[k] /\ via'[k] = via[k],
           \A c, m : Lists(n, c, m) => Lists(n, c, m)',
           Unique(members'[n], n),
           proc'[n] # "up" => members'[n] = <<>> /\ via'[n] = <<>>,
           via'[n] # <<>> => /\ via'[n][1] \in Ids(members'[n])
                             /\ Lists(via[n][1], via[n][2], n)'
    PROVE  Inv'
<1>1. ASSUME NEW k \in Node, NEW c, NEW m, Lists(k, c, m) PROVE Lists(k, c, m)'
  BY <1>1 DEF Lists
<1>2. \A m \in rpc' : Fine(m)'
  <2>1. ASSUME NEW m \in rpc PROVE Fine(m)'
    <3>1. m \in MsgType /\ m.src # m.dst /\ m.src \in Node
      BY MsgFields DEF Inv, Typed
    <3>2. m.type = "JOIN_RESP" => Unique(m.list, m.src) /\ Lists(m.src, m.conn, m.dst)
      BY DEF Inv, ListsInv, JoinInv
    <3>3. QED
      BY <1>1, <3>1, <3>2 DEF Fine
  <2>2. QED
    BY <2>1
<1>3. Typed'
  <2>1. rpc' \subseteq MsgType /\ \A m \in rpc' : m.src # m.dst
    BY <1>2 DEF Fine
  <2>2. QED
    BY <2>1 DEF Typed
<1>4. ListsInv'
  <2>1. \A k \in Node : Unique(members'[k], k)
    BY DEF Inv, ListsInv
  <2>2. \A k \in Node : proc'[k] # "up" => members'[k] = <<>> /\ via'[k] = <<>>
    BY DEF Inv, ListsInv
  <2>3. QED
    BY <1>2, <2>1, <2>2 DEF ListsInv, Fine
<1>5. JoinInv'
  <2>1. ASSUME NEW k \in Node, via'[k] # <<>>, k # n
        PROVE  via'[k][1] \in Ids(members'[k]) /\ Lists(via[k][1], via[k][2], k)'
    <3>1. via'[k] = via[k] /\ members'[k] = members[k]
      BY <2>1
    <3>2. via[k] \in Node \X Nat
      BY <2>1, <3>1 DEF Inv, Typed
    <3>3. via[k][1] \in Node
      BY <3>2
    <3>4. via[k][1] \in Ids(members[k]) /\ Lists(via[k][1], via[k][2], k)
      BY <2>1, <3>1 DEF Inv, JoinInv
    <3>5. QED
      BY <1>1, <3>1, <3>3, <3>4
  <2>2. QED
    BY <1>2, <2>1 DEF JoinInv, Fine
<1>6. QED
  BY <1>3, <1>4, <1>5 DEF Inv

\* A step that changes at most one list, of a process that runs, and loses no
\* node from it.
LEMMA Relisted ==
    ASSUME Inv, NEW n \in Node, proc[n] = "up", NEW l \in Seq(EntryType),
           Unique(l, n), Ids(members[n]) \subseteq Ids(l),
           members' = [members EXCEPT ![n] = l],
           \A m \in rpc' : m \in rpc \/ Fine(m)',
           gossip' \subseteq gossip, UNCHANGED <<proc, starts, via>>
    PROVE  Inv'
<1>1. \A k \in Node : members'[k] = IF k = n THEN l ELSE members[k]
  BY DEF Inv, Typed
<1>2. ASSUME NEW k \in Node, NEW c, NEW m, Lists(k, c, m) PROVE Lists(k, c, m)'
  BY <1>1, <1>2 DEF Lists
<1>3. members' \in [Node -> Seq(EntryType)]
  BY DEF Inv, Typed
<1>4. via'[n] # <<>> => /\ via'[n][1] \in Ids(members'[n])
                        /\ Lists(via[n][1], via[n][2], n)'
  <2>1. SUFFICES ASSUME via[n] # <<>>
                 PROVE  via'[n][1] \in Ids(members'[n]) /\ Lists(via[n][1], via[n][2], n)'
    OBVIOUS
  <2>2. via[n] \in Node \X Nat
    BY <2>1 DEF Inv, Typed
  <2>3. via[n][1] \in Node
    BY <2>2
  <2>4. QED
    BY <1>1, <1>2, <2>1, <2>3 DEF Inv, JoinInv
<1>5. gossip' \subseteq Node \X Node
  BY DEF Inv, Typed
<1>6. \A k \in Node : k # n => /\ proc'[k] = proc[k] /\ members'[k] = members[k]
                               /\ starts'[k] = starts[k] /\ via'[k] = via[k]
  BY <1>1
<1>7. /\ proc' \in [Node -> {"down", "joining", "up"}] /\ starts' \in [Node -> 0..MaxStarts]
      /\ via' \in [Node -> {<<>>} \cup (Node \X Nat)]
  BY DEF Inv, Typed
<1>8. Unique(members'[n], n) /\ proc'[n] = "up"
  BY <1>1
<1>9. QED
  BY <1>2, <1>3, <1>4, <1>5, <1>6, <1>7, <1>8, OneProcess

-----------------------------------------------------------------------------
\* Inv holds initially.
LEMMA InitInv == ASSUME Init PROVE Inv
<1>1. <<>> \in Seq(EntryType) /\ Len(<<>>) = 0 /\ 1..0 = {}
  BY EmptySeq, SMT
<1>2. Typed
  BY <1>1, MembershipAssumption, SMT DEF Init, Typed
<1>3. ASSUME NEW n \in Node
      PROVE  members[n] = <<>> /\ via[n] = <<>> /\ Unique(members[n], n)
  <2>1. members[n] = <<>> /\ via[n] = <<>>
    BY DEF Init
  <2>2. QED
    BY <1>1, <2>1 DEF Unique
<1>4. rpc = {}
  BY DEF Init
<1>5. QED
  BY <1>2, <1>3, <1>4 DEF Inv, ListsInv, JoinInv

\* A start, with or without a seed: what the process before it listed is not
\* asked for any more.
LEMMA StartKeeps ==
    ASSUME Inv, NEW n \in Node, proc[n] = "down", starts[n] < MaxStarts,
           NEW p \in {"joining", "up"}, proc' = [proc EXCEPT ![n] = p],
           starts' = [starts EXCEPT ![n] = @ + 1],
           \A m \in rpc' : m \in rpc \/ Fine(m)',
           UNCHANGED <<members, gossip, via>>
    PROVE  Inv'
<1>1. /\ proc' \in [Node -> {"down", "joining", "up"}]
      /\ starts' \in [Node -> 0..MaxStarts]
      /\ starts[n] \in Nat /\ starts'[n] = starts[n] + 1
      /\ \A k \in Node : k # n => proc'[k] = proc[k] /\ starts'[k] = starts[k]
  BY MembershipAssumption, SMT DEF Inv, Typed
<1>2. /\ members' \in [Node -> Seq(EntryType)] /\ gossip' \subseteq Node \X Node
      /\ via' \in [Node -> {<<>>} \cup (Node \X Nat)]
  BY DEF Inv, Typed
<1>3. members'[n] = <<>> /\ via'[n] = <<>> /\ Unique(members'[n], n)
  BY DEF Inv, ListsInv
<1>5. ASSUME NEW c, NEW m, Lists(n, c, m) PROVE Lists(n, c, m)'
  <2>1. c \in 0..starts[n]
    BY <1>5 DEF Lists
  <2>2. c \in 0..starts'[n] /\ c # starts'[n]
    BY <1>1, <2>1, SMT
  <2>3. QED
    BY <2>2 DEF Lists
<1>6. QED
  BY <1>1, <1>2, <1>3, <1>5, OneProcess

LEMMA StartAloneInv ==
    ASSUME Inv, NEW n \in Node, StartAlone(n) PROVE Inv'
<1>1. /\ proc[n] = "down" /\ starts[n] < MaxStarts /\ proc' = [proc EXCEPT ![n] = "up"]
      /\ starts' = [starts EXCEPT ![n] = @ + 1] /\ rpc' = rpc
      /\ UNCHANGED <<members, gossip, via>>
  BY DEF StartAlone
<1>2. QED
  BY <1>1, StartKeeps

LEMMA StartJoinInv ==
    ASSUME Inv, NEW n \in Node, NEW s \in Node, StartJoin(n, s) PROVE Inv'
<1>1. PICK r : r = [type |-> "JOIN_REQ", src |-> n, dst |-> s, conn |-> starts[n] + 1]
  OBVIOUS
<1>2. /\ proc[n] = "down" /\ starts[n] < MaxStarts /\ proc' = [proc EXCEPT ![n] = "joining"]
      /\ starts' = [starts EXCEPT ![n] = @ + 1] /\ rpc' = rpc \cup {r}
      /\ UNCHANGED <<members, gossip, via>> /\ s # n
  BY <1>1 DEF StartJoin
<1>3. r.src # r.dst /\ r.type # "JOIN_RESP"
  BY <1>1, <1>2
<1>4. r \in MsgType
  <2>1. starts[n] + 1 \in Nat
    BY MembershipAssumption, SMT DEF Inv, Typed
  <2>2. r \in [type : {"JOIN_REQ"}, src : Node, dst : Node, conn : Nat]
    BY <1>1, <2>1
  <2>3. QED
    BY <2>2 DEF MsgType
<1>5. Fine(r)'
  BY <1>3, <1>4 DEF Fine, MsgType
<1>6. QED
  BY <1>2, <1>5, StartKeeps

LEMMA JoinFailsInv ==
    ASSUME Inv, NEW n \in Node, JoinFails(n) PROVE Inv'
<1>1. /\ proc[n] = "joining" /\ proc' = [proc EXCEPT ![n] = "up"]
      /\ UNCHANGED <<members, starts, rpc, gossip, via>>
  BY DEF JoinFails
<1>2. /\ proc' \in [Node -> {"down", "joining", "up"}] /\ proc'[n] = "up"
      /\ \A k \in Node : k # n => proc'[k] = proc[k]
  BY <1>1 DEF Inv, Typed
<1>3. ASSUME NEW c, NEW m, Lists(n, c, m) PROVE Lists(n, c, m)'
  BY <1>1, <1>3 DEF Lists
<1>4. /\ members' \in [Node -> Seq(EntryType)] /\ starts' \in [Node -> 0..MaxStarts]
      /\ via' \in [Node -> {<<>>} \cup (Node \X Nat)] /\ gossip' \subseteq Node \X Node
      /\ via'[n] = <<>> /\ Unique(members'[n], n)
  BY <1>1 DEF Inv, Typed, ListsInv
<1>5. QED
  BY <1>1, <1>2, <1>3, <1>4, OneProcess

\* The seed lists the node that joins before it sends its list.
LEMMA HandleJoinReqInv ==
    ASSUME Inv, NEW m \in rpc, HandleJoinReq(m) PROVE Inv'
<1>1. m.src \in Node /\ m.dst \in Node /\ m.src # m.dst
  BY MsgFields DEF Inv, Typed
<1>2. PICK l : l = WithJoiner(m.dst, m.src)
  OBVIOUS
<1>3. /\ l \in Seq(EntryType) /\ Unique(l, m.dst)
      /\ Ids(l) = Ids(members[m.dst]) \cup {m.src}
  <2>1. members[m.dst] \in Seq(EntryType) /\ Unique(members[m.dst], m.dst)
    BY <1>1 DEF Inv, Typed, ListsInv
  <2>2. QED
    BY <1>1, <1>2, <2>1, Joined
<1>4. PICK r : r = [type |-> "JOIN_RESP", src |-> m.dst, dst |-> m.src,
                    conn |-> starts[m.dst], list |-> l]
  OBVIOUS
<1>5. /\ proc[m.dst] = "up" /\ members' = [members EXCEPT ![m.dst] = l]
      /\ UNCHANGED <<proc, starts, gossip, via>>
  BY <1>2 DEF HandleJoinReq
<1>6. members'[m.dst] = l
  BY <1>1, <1>5 DEF Inv, Typed
<1>7. \A q \in rpc' : q \in rpc \/ q = r
  BY <1>4, <1>6 DEF HandleJoinReq
<1>8. Fine(r)'
  <2>1. /\ r.src = m.dst /\ r.dst = m.src /\ r.conn = starts[m.dst] /\ r.list = l
        /\ r.type = "JOIN_RESP"
    BY <1>4
  <2>2. starts[m.dst] \in Nat
    BY <1>1, MembershipAssumption, SMT DEF Inv, Typed
  <2>3. r \in [type : {"JOIN_RESP"}, src : Node, dst : Node, conn : Nat, list : Seq(EntryType)]
    BY <1>1, <1>3, <1>4, <2>2
  <2>4. r \in MsgType
    BY <2>3 DEF MsgType
  <2>5. starts'[m.dst] = starts[m.dst] /\ starts[m.dst] \in 0..starts[m.dst]
    BY <1>5, <2>2, SMT
  <2>6. Lists(m.dst, starts[m.dst], m.src)'
    <3>1. m.src \in Ids(members'[m.dst])
      BY <1>3, <1>6
    <3>2. QED
      BY <2>5, <3>1 DEF Lists
  <2>7. QED
    BY <1>1, <1>3, <1>5, <2>1, <2>4, <2>6 DEF Fine, MsgType
<1>9. Ids(members[m.dst]) \subseteq Ids(l)
  BY <1>3
<1>10. QED
  BY <1>1, <1>3, <1>5, <1>7, <1>8, <1>9, Relisted

\* The node fills an empty list from one that the seed sent while it was listed.
LEMMA HandleJoinRespInv ==
    ASSUME Inv, NEW m \in rpc, HandleJoinResp(m) PROVE Inv'
<1> DEFINE n == m.dst
           s == m.src
<1>1. s \in Node /\ n \in Node /\ s # n /\ m.list \in Seq(EntryType) /\ m.conn \in Nat
  BY MsgFields DEF Inv, Typed, HandleJoinResp
<1>2. PICK l : l = Imported(n, s, m.list)
  OBVIOUS
<1>3. /\ m.type = "JOIN_RESP" /\ proc[n] = "joining"
      /\ members' = [members EXCEPT ![n] = l] /\ proc' = [proc EXCEPT ![n] = "up"]
      /\ via' = [via EXCEPT ![n] = <<s, m.conn>>] /\ rpc' \subseteq rpc
      /\ UNCHANGED <<starts, gossip>>
  BY <1>2 DEF HandleJoinResp
<1>4. members[n] = <<>> /\ Unique(m.list, s) /\ Lists(s, m.conn, n)
  BY <1>1, <1>3 DEF Inv, ListsInv, JoinInv
<1>5. l \in Seq(EntryType) /\ Unique(l, n) /\ s \in Ids(l)
  BY <1>1, <1>2, <1>4, ImportedIs
<1> HIDE DEF n, s
<1>6. /\ members' \in [Node -> Seq(EntryType)] /\ members'[n] = l
      /\ \A k \in Node : k # n => members'[k] = members[k]
  BY <1>1, <1>3, <1>5 DEF Inv, Typed
<1>7. /\ proc' \in [Node -> {"down", "joining", "up"}] /\ proc'[n] = "up"
      /\ \A k \in Node : k # n => proc'[k] = proc[k]
  BY <1>1, <1>3 DEF Inv, Typed
<1>8. /\ via' \in [Node -> {<<>>} \cup (Node \X Nat)] /\ via'[n] = <<s, m.conn>>
      /\ \A k \in Node : k # n => via'[k] = via[k]
  BY <1>1, <1>3 DEF Inv, Typed
<1>9. ASSUME NEW c, NEW q, Lists(n, c, q) PROVE Lists(n, c, q)'
  <2>1. Ids(<<>>) = {}
    <3>1. Len(<<>>) = 0 /\ 1..0 = {}
      BY EmptySeq, SMT
    <3>2. QED
      BY <3>1 DEF Ids
  <2>2. QED
    BY <1>3, <1>4, <1>9, <2>1 DEF Lists
<1>10. Lists(s, m.conn, n)'
  BY <1>1, <1>3, <1>4, <1>6, <1>7 DEF Lists
<1>11. via'[n][1] = s /\ via'[n][2] = m.conn
  BY <1>8, SMT
<1>12. starts' \in [Node -> 0..MaxStarts] /\ gossip' \subseteq Node \X Node
  BY <1>3 DEF Inv, Typed
<1>13. Lists(via[n][1], via[n][2], n)'
  BY <1>10, <1>11
<1>14. \A k \in Node : k # n => /\ proc'[k] = proc[k] /\ members'[k] = members[k]
                                /\ starts'[k] = starts[k] /\ via'[k] = via[k]
  BY <1>3, <1>6, <1>7, <1>8
<1>15. QED
  BY <1>1, <1>3, <1>5, <1>6, <1>7, <1>8, <1>9, <1>11, <1>12, <1>13, <1>14, OneProcess

\* Updates of one entry, and of all: whoever was listed still is.
LEMMA StatusInv ==
    ASSUME Inv, NEW n \in Node, proc[n] = "up", NEW q \in Node, NEW status \in Status,
           members' = [members EXCEPT ![n] = UpdateStatus(@, q, status)],
           rpc' \subseteq rpc, gossip' \subseteq gossip, UNCHANGED <<proc, starts, via>>
    PROVE  Inv'
<1>1. members[n] \in Seq(EntryType) /\ Unique(members[n], n)
  BY DEF Inv, Typed, ListsInv
<1>2. PICK l : l = UpdateStatus(members[n], q, status)
  OBVIOUS
<1>3. l \in Seq(EntryType) /\ Ids(members[n]) \subseteq Ids(l) /\ Unique(l, n)
  BY <1>1, <1>2, Updated
<1>4. members' = [members EXCEPT ![n] = l]
  BY <1>2
<1>5. QED
  BY <1>3, <1>4, Relisted

LEMMA HandleLeaveInv ==
    ASSUME Inv, NEW m \in rpc, HandleLeave(m) PROVE Inv'
<1>1. m.src \in Node /\ m.dst \in Node /\ "DEAD" \in Status
  BY MsgFields DEF Inv, Typed, Status
<1>2. /\ proc[m.dst] = "up"
      /\ members' = [members EXCEPT ![m.dst] = UpdateStatus(@, m.src, "DEAD")]
      /\ rpc' \subseteq rpc /\ gossip' \subseteq gossip /\ UNCHANGED <<proc, starts, via>>
  BY DEF HandleLeave
<1>3. QED
  BY <1>1, <1>2, StatusInv

LEMMA GossipReceiveInv ==
    ASSUME Inv, NEW g \in gossip, GossipReceive(g) PROVE Inv'
<1>1. g[1] \in Node /\ g[2] \in Node
  BY DEF Inv, Typed
<1>2. "ALIVE" \in Status
  BY DEF Status
<1>3. /\ proc[g[2]] = "up"
      /\ members' = [members EXCEPT ![g[2]] = UpdateStatus(@, g[1], "ALIVE")]
      /\ rpc' \subseteq rpc /\ gossip' \subseteq gossip /\ UNCHANGED <<proc, starts, via>>
  BY DEF GossipReceive
<1>4. QED
  BY <1>1, <1>2, <1>3, StatusInv

LEMMA ReapInv ==
    ASSUME Inv, NEW n \in Node, Reap(n) PROVE Inv'
<1>1. PICK old : old = members[n]
  OBVIOUS
<1>2. old \in Seq(EntryType) /\ Unique(old, n) /\ Len(old) \in Nat /\ DOMAIN old = 1..Len(old)
  BY <1>1, LenProperties DEF Inv, Typed, ListsInv
<1>3. PICK l : l = [i \in 1..Len(old) |-> Reaped(old[i])]
  OBVIOUS
<1>4. \A i \in 1..Len(old) : Reaped(old[i]) \in EntryType /\ Reaped(old[i]).id = old[i].id
  <2> TAKE i \in 1..Len(old)
  <2>1. PICK e : e = old[i]
    OBVIOUS
  <2>2. e \in EntryType
    BY <1>2, <2>1, ElementOfSeq
  <2>3. Reaped(e) \in EntryType /\ Reaped(e).id = e.id
    BY <2>2 DEF Reaped, EntryType, Status
  <2>4. QED
    BY <2>1, <2>3
<1>5. l \in [1..Len(old) -> EntryType]
  BY <1>3, <1>4
<1>6. l \in Seq(EntryType) /\ Len(l) = Len(old)
  <2>1. l \in Seq(EntryType)
    BY <1>2, <1>5, SeqDef
  <2>2. QED
    BY <1>2, <1>5, <2>1, LenProperties, SMT
<1>7. \A i \in 1..Len(old) : l[i].id = old[i].id
  BY <1>3, <1>4
<1>8. Ids(l) = Ids(old) /\ Unique(l, n)
  BY <1>2, <1>6, <1>7, SameNodes
<1>9. /\ proc[n] = "up" /\ members' = [members EXCEPT ![n] = l]
      /\ rpc' = rpc /\ gossip' \subseteq gossip /\ UNCHANGED <<proc, starts, via>>
  BY <1>1, <1>2, <1>3 DEF Reap
<1>10. Ids(members[n]) \subseteq Ids(l)
  BY <1>1, <1>8
<1>11. QED
  BY <1>6, <1>8, <1>9, <1>10, Relisted

LEMMA GrowOlderInv ==
    ASSUME Inv, NEW n \in Node, NEW i, GrowOlder(n, i) PROVE Inv'
<1>1. PICK old : old = members[n]
  OBVIOUS
<1>2. old \in Seq(EntryType) /\ Unique(old, n) /\ Len(old) \in Nat /\ DOMAIN old = 1..Len(old)
  BY <1>1, LenProperties DEF Inv, Typed, ListsInv
<1>3. i \in 1..Len(old)
  BY <1>1, <1>2 DEF GrowOlder
<1>4. PICK e : e = [old[i] EXCEPT !.age = IF @ = "recent" THEN "late" ELSE "old"]
  OBVIOUS
<1>5. e \in EntryType /\ e.id = old[i].id
  <2>1. old[i] \in EntryType
    BY <1>2, <1>3, ElementOfSeq
  <2>2. QED
    BY <1>4, <2>1 DEF EntryType
<1>6. PICK l : l = [old EXCEPT ![i] = e]
  OBVIOUS
<1>7. l \in Seq(EntryType) /\ Ids(l) = Ids(old) /\ Unique(l, n)
  <2> DEFINE r == [old EXCEPT ![i] = e]
  <2>1. r \in Seq(EntryType) /\ Ids(r) = Ids(old) /\ \A k : Unique(old, k) => Unique(r, k)
    BY <1>2, <1>3, <1>5, Replaced
  <2> HIDE DEF r
  <2>2. l = r
    BY <1>6 DEF r
  <2>3. QED
    BY <1>2, <2>1, <2>2
<1>8. members' = [members EXCEPT ![n] = l]
  BY <1>1, <1>4, <1>6 DEF GrowOlder
<1>9. rpc' = rpc /\ gossip' \subseteq gossip /\ UNCHANGED <<proc, starts, via>>
  BY DEF GrowOlder
<1>10. proc[n] = "up"
  <2>1. Len(<<>>) = 0 /\ 1..0 = {}
    BY EmptySeq, SMT
  <2>2. QED
    BY <1>1, <1>3, <2>1 DEF Inv, ListsInv
<1>11. Ids(members[n]) \subseteq Ids(l)
  BY <1>1, <1>7
<1>12. QED
  BY <1>7, <1>8, <1>9, <1>10, <1>11, Relisted

\* Steps that only send or lose heartbeats, and those that do nothing.
LEMMA GossipOnly ==
    ASSUME Inv, gossip' \subseteq Node \X Node, UNCHANGED <<proc, members, starts, rpc, via>>
    PROVE  Inv'
<1>1. Typed'
  BY DEF Inv, Typed
<1>2. ListsInv'
  BY DEF Inv, ListsInv
<1>3. JoinInv'
  BY DEF Inv, JoinInv, Lists
<1>4. QED
  BY <1>1, <1>2, <1>3 DEF Inv

LEMMA HeartbeatInv ==
    ASSUME Inv, NEW n \in Node, Heartbeat(n) PROVE Inv'
<1>1. PICK start \in 1..Len(members[n]) :
          gossip' = gossip \cup {<<n, t>> : t \in GossipTargets(n, start)}
  BY DEF Heartbeat
<1>2. members[n] \in Seq(EntryType)
  BY DEF Inv, Typed
<1>3. Rotated(members[n], start) \in Seq(EntryType)
  BY <1>2, RotatedIsList
<1>4. GossipTargets(n, start) \subseteq Node
  <2>1. GossipTargets(n, start) \subseteq Ids(Rotated(members[n], start))
    BY DEF GossipTargets, FirstIds, Ids
  <2>2. QED
    BY <1>3, <2>1, MembersAreNodes
<1>5. gossip' \subseteq Node \X Node
  BY <1>1, <1>4, SMT DEF Inv, Typed
<1>6. UNCHANGED <<proc, members, starts, rpc, via>>
  BY DEF Heartbeat
<1>7. QED
  BY <1>5, <1>6, GossipOnly

\* The end of a process, which takes its list with it: what is still on its way
\* from it, or joined through it, claims nothing any more.
LEMMA GoneInv ==
    ASSUME Inv, NEW n \in Node, Gone(n), \A m \in rpc' : m \in rpc \/ Fine(m)',
           UNCHANGED <<starts, gossip>>
    PROVE  Inv'
<1>1. /\ proc' = [proc EXCEPT ![n] = "down"] /\ members' = [members EXCEPT ![n] = <<>>]
      /\ via' = [via EXCEPT ![n] = <<>>]
  BY DEF Gone
<1>2. /\ proc' \in [Node -> {"down", "joining", "up"}] /\ proc'[n] = "down"
      /\ \A k \in Node : k # n => proc'[k] = proc[k]
  BY <1>1 DEF Inv, Typed
<1>3. /\ members' \in [Node -> Seq(EntryType)] /\ members'[n] = <<>>
      /\ \A k \in Node : k # n => members'[k] = members[k]
  BY <1>1, EmptySeq DEF Inv, Typed
<1>4. /\ via' \in [Node -> {<<>>} \cup (Node \X Nat)] /\ via'[n] = <<>>
      /\ \A k \in Node : k # n => via'[k] = via[k]
  BY <1>1 DEF Inv, Typed
<1>5. starts' \in [Node -> 0..MaxStarts] /\ gossip' \subseteq Node \X Node
  BY DEF Inv, Typed
<1>6. ASSUME NEW c, NEW m, Lists(n, c, m) PROVE Lists(n, c, m)'
  BY <1>2, <1>6 DEF Lists
<1>7. Unique(members'[n], n)
  <2>1. Len(<<>>) = 0 /\ 1..0 = {}
    BY EmptySeq, SMT
  <2>2. QED
    BY <1>3, <2>1 DEF Unique
<1>8. \A k \in Node : k # n => /\ proc'[k] = proc[k] /\ members'[k] = members[k]
                               /\ starts'[k] = starts[k] /\ via'[k] = via[k]
  BY <1>2, <1>3, <1>4
<1>9. QED
  BY <1>2, <1>3, <1>4, <1>5, <1>6, <1>7, <1>8, OneProcess

LEMMA LeaveInv ==
    ASSUME Inv, NEW n \in Node, Leave(n) PROVE Inv'
<1> DEFINE Reached(e) == e.id # n /\ e.status = "ALIVE" /\ proc[e.id] # "down"
<1>1. PICK told : told = FirstIds(members[n], {i \in 1..Len(members[n]) : Reached(members[n][i])})
  OBVIOUS
<1>2. told \subseteq Node /\ n \notin told
  <2>1. members[n] \in Seq(EntryType) /\ Unique(members[n], n)
    BY DEF Inv, Typed, ListsInv
  <2>2. Ids(members[n]) \subseteq Node
    BY <2>1, MembersAreNodes
  <2>3. told \subseteq Ids(members[n])
    BY <1>1 DEF FirstIds, Ids
  <2>4. n \notin Ids(members[n])
    BY <2>1 DEF Ids, Unique
  <2>5. QED
    BY <2>2, <2>3, <2>4
<1>3. rpc' = {m \in rpc : m.dst # n} \cup {[type |-> "LEAVE", src |-> n, dst |-> t] : t \in told}
  BY <1>1 DEF Leave
<1>4. ASSUME NEW t \in told, NEW m, m = [type |-> "LEAVE", src |-> n, dst |-> t]
      PROVE  Fine(m)'
  <2>1. m.src # m.dst /\ m.type # "JOIN_RESP"
    BY <1>2, <1>4
  <2>2. m \in [type : {"LEAVE"}, src : Node, dst : Node]
    BY <1>2, <1>4
  <2>3. QED
    BY <2>1, <2>2 DEF Fine, MsgType
<1>5. \A m \in rpc' : m \in rpc \/ Fine(m)'
  BY <1>3, <1>4
<1>6. Gone(n) /\ UNCHANGED <<starts, gossip>>
  BY DEF Leave
<1>7. QED
  BY <1>5, <1>6, GoneInv

-----------------------------------------------------------------------------
\* Inv is preserved by every step.
LEMMA NextInv == Inv /\ [Next]_vars => Inv'
<1> SUFFICES ASSUME Inv, [Next]_vars PROVE Inv'
  OBVIOUS
<1>1. ASSUME NEW n \in Node, StartAlone(n) PROVE Inv'
  BY <1>1, StartAloneInv
<1>2. ASSUME NEW n \in Node, JoinFails(n) PROVE Inv'
  BY <1>2, JoinFailsInv
<1>3. ASSUME NEW n \in Node, Heartbeat(n) PROVE Inv'
  BY <1>3, HeartbeatInv
<1>4. ASSUME NEW n \in Node, Reap(n) PROVE Inv'
  BY <1>4, ReapInv
<1>5. ASSUME NEW n \in Node, Crash(n) PROVE Inv'
  BY <1>5, GoneInv DEF Crash
<1>6. ASSUME NEW n \in Node, Leave(n) PROVE Inv'
  BY <1>6, LeaveInv
<1>7. ASSUME NEW n \in Node, NEW s \in Seeds, StartJoin(n, s) PROVE Inv'
  BY <1>7, StartJoinInv, MembershipAssumption
<1>8. ASSUME NEW n \in Node, NEW i, GrowOlder(n, i) PROVE Inv'
  BY <1>8, GrowOlderInv
<1>9. ASSUME NEW m \in rpc, HandleJoinReq(m) PROVE Inv'
  BY <1>9, HandleJoinReqInv
<1>10. ASSUME NEW m \in rpc, HandleJoinResp(m) PROVE Inv'
  BY <1>10, HandleJoinRespInv
<1>11. ASSUME NEW m \in rpc, HandleLeave(m) PROVE Inv'
  BY <1>11, HandleLeaveInv
<1>12. ASSUME NEW g \in gossip, GossipReceive(g) PROVE Inv'
  BY <1>12, GossipReceiveInv
<1>13. ASSUME NEW g \in gossip, GossipLost(g) PROVE Inv'
  BY <1>13, GossipOnly DEF GossipLost, Inv, Typed
<1>14. ASSUME UNCHANGED vars PROVE Inv'
  BY <1>14, GossipOnly DEF vars, Inv, Typed
<1>15. QED
  BY <1>1, <1>2, <1>3, <1>4, <1>5, <1>6, <1>7, <1>8, <1>9, <1>10, <1>11, <1>12, <1>13, <1>14
     DEF Next

\* Inv holds of every reachable state.
THEOREM SpecInv == Spec => []Inv
<1>1. Init => Inv
  BY InitInv
<1>2. QED
  BY <1>1, NextInv, PTL DEF Spec

-----------------------------------------------------------------------------
\* A list without duplicates and without its owner has a place to spare for it.
LEMMA Fits ==
    ASSUME NEW n \in Node, NEW list \in Seq(EntryType), Unique(list, n)
    PROVE  Len(list) < Cardinality(Node)
<1> DEFINE f == [i \in 1..Len(list) |-> list[i].id]
<1>1. Len(list) \in Nat
  BY LenProperties
<1>2. \A i \in 1..Len(list) : list[i].id \in Node \ {n}
  BY MembersAreNodes DEF Unique, Ids
<1>3. f \in Injection(1..Len(list), Node \ {n})
  BY <1>2 DEF Injection, IsInjective, Unique
<1>4. IsFiniteSet(Node) /\ Cardinality(Node) \in Nat
  BY MembershipAssumption, FS_CardinalityType
<1>5. IsFiniteSet(Node \ {n}) /\ Cardinality(Node \ {n}) = Cardinality(Node) - 1
  BY <1>4, FS_RemoveElement
<1> HIDE DEF f
<1>6. Cardinality(1..Len(list)) <= Cardinality(Node \ {n})
  BY <1>3, <1>5, FS_Injection
<1>7. Cardinality(1..Len(list)) = Len(list)
  <2> DEFINE k == Len(list)
  <2> HIDE DEF k
  <2>1. k \in Nat
    BY <1>1 DEF k
  <2>2. 1 \in Int /\ k \in Int
    BY <2>1, SMT
  <2>3. Cardinality(1..k) = IF 1 > k THEN 0 ELSE k - 1 + 1
    BY <2>2, FS_Interval
  <2>4. QED
    BY <2>1, <2>3, SMT DEF k
<1>8. QED
  BY <1>1, <1>4, <1>5, <1>6, <1>7, SMT

\* Every list of every process fits in an array with a place for each other
\* node, and messages have their types: however often nodes start, join, crash
\* and leave (cluster_manager.c, where the array only ever grows).
THEOREM TypesHold == Spec => []TypeOK
<1>1. Inv => TypeOK
  <2> SUFFICES ASSUME Inv PROVE TypeOK
    OBVIOUS
  <2>1. ASSUME NEW n \in Node
        PROVE  members[n] \in Seq(EntryType) /\ Len(members[n]) < Cardinality(Node)
    BY Fits DEF Inv, Typed, ListsInv
  <2>2. \A m \in rpc : m.type \in {"JOIN_REQ", "JOIN_RESP", "LEAVE"} /\ m.src # m.dst
    BY MsgFields DEF Inv, Typed
  <2>3. QED
    BY <2>1, <2>2 DEF TypeOK, Inv, Typed
<1>2. QED
  BY <1>1, SpecInv, PTL

\* No list ever names a node twice, or its owner, although cluster_join appends
\* without searching: its loop runs on an empty list, over one without duplicates.
THEOREM MembersAreUnique == Spec => []UniqueMembers
<1>1. Inv => UniqueMembers
  <2> SUFFICES ASSUME Inv PROVE UniqueMembers
    OBVIOUS
  <2>1. ASSUME NEW n \in Node PROVE Unique(members[n], n) /\ DOMAIN members[n] = 1..Len(members[n])
    BY LenProperties DEF Inv, Typed, ListsInv
  <2>2. QED
    BY <2>1 DEF UniqueMembers, Unique
<1>2. QED
  BY <1>1, SpecInv, PTL

\* Where a join succeeded and both processes still run, each lists the other:
\* the seed adds the node before it answers, nothing but its end takes a node
\* out of a list, and a seed that was started anew is another process.
THEOREM JoinsAreMutual == Spec => []JoinIsMutual
<1>1. Inv => JoinIsMutual
  <2> SUFFICES ASSUME Inv, NEW n \in Node, NEW s \in Node,
                      via[n] = <<s, starts[s]>>, proc[s] = "up"
               PROVE  Knows(s, n) /\ Knows(n, s)
    BY DEF JoinIsMutual
  <2>1. via[n] # <<>> /\ via[n][1] = s /\ via[n][2] = starts[s]
    BY SMT
  <2>2. s \in Ids(members[n]) /\ n \in Ids(members[s])
    BY <2>1 DEF Inv, JoinInv, Lists
  <2>3. members[n] \in Seq(EntryType) /\ members[s] \in Seq(EntryType)
    BY DEF Inv, Typed
  <2>4. QED
    BY <2>2, <2>3, PositionFinds DEF Knows
<1>2. QED
  BY <1>1, SpecInv, PTL
=============================================================================
