--------------------------- MODULE EventLoopProofs ---------------------------
(***************************************************************************)
(* The descriptor table of the event loop, for any number of descriptors,  *)
(* addresses, callbacks and buckets: it holds exactly what is allocated,   *)
(* nothing dangles, and it implements the map of handlers of Handlers.     *)
(*                                                                         *)
(* The lemmas are about any table t, contents c and set l of allocated     *)
(* addresses, so that they apply before and after a step.                  *)
(***************************************************************************)
EXTENDS EventLoop, SequenceTheorems, TLAPS

\* What is allocated is the context of a descriptor.
Types(t, c, l) ==
    /\ t \in [Bucket -> Seq(Address)]
    /\ c \in [Address -> [fd : Fd \cup {None}, callback : Callback \cup {None}]]
    /\ l \subseteq Address
    /\ \A a \in l : c[a].fd \in Fd /\ c[a].callback \in Callback

\* TableIsHeap of t, c and l.
Heap(t, c, l) ==
    /\ \A a \in l : \E b \in Bucket : \E i \in 1..Len(t[b]) : t[b][i] = a
    /\ \A b \in Bucket : \A i \in 1..Len(t[b]) :
        /\ t[b][i] \in l
        /\ fd_hash(c[t[b][i]].fd) = b
        /\ \A j \in 1..Len(t[b]) : c[t[b][i]].fd = c[t[b][j]].fd => i = j

\* fd_hash is an index of the table.
LEMMA HashInTable ==
    ASSUME NEW fd \in Fd
    PROVE  fd_hash(fd) \in Bucket
<1>1. fd * 177 \in Nat /\ HashSize \in Nat \ {0}
  BY LoopAssumption
<1>2. \A x \in Nat : x % HashSize \in 0..HashSize - 1
  BY LoopAssumption
<1> QED
  BY <1>1, <1>2 DEF fd_hash, Bucket

\* What is allocated is on the chain of its descriptor.
LEMMA OnItsChain ==
    ASSUME NEW t, NEW c, NEW l, Types(t, c, l), Heap(t, c, l), NEW a \in l
    PROVE  /\ fd_hash(c[a].fd) \in Bucket
           /\ t[fd_hash(c[a].fd)] \in Seq(Address)
           /\ \E k \in 1..Len(t[fd_hash(c[a].fd)]) : t[fd_hash(c[a].fd)][k] = a
<1>1. PICK b \in Bucket : \E k \in 1..Len(t[b]) : t[b][k] = a
  BY DEF Heap
<1>2. fd_hash(c[a].fd) = b
  BY <1>1 DEF Heap
<1> QED
  BY <1>1, <1>2 DEF Types

\* No two contexts are of the same descriptor.
LEMMA OneContext ==
    ASSUME NEW t, NEW c, NEW l, Types(t, c, l), Heap(t, c, l),
           NEW x \in l, NEW y \in l, c[x].fd = c[y].fd
    PROVE  x = y
<1> DEFINE b == fd_hash(c[x].fd)
<1>1. PICK i \in 1..Len(t[b]) : t[b][i] = x
  BY OnItsChain
<1>2. PICK j \in 1..Len(t[b]) : t[b][j] = y
  BY OnItsChain
<1>3. b \in Bucket
  BY OnItsChain
<1>4. i = j
  <2> HIDE DEF b
  <2> QED
    BY <1>1, <1>2, <1>3 DEF Heap
<1> QED
  BY <1>1, <1>2, <1>4

\* find_file_context finds the context of fd if there is one.
LEMMA FoundIsContext ==
    ASSUME NEW t, NEW c, NEW l, Types(t, c, l), Heap(t, c, l), NEW a \in l
    PROVE  Found(t, c, c[a].fd) = a
<1> DEFINE b == fd_hash(c[a].fd)
           hits == {i \in 1..Len(t[b]) : c[t[b][i]].fd = c[a].fd}
<1>1. PICK k \in 1..Len(t[b]) : t[b][k] = a
  BY OnItsChain
<1>2. b \in Bucket
  BY OnItsChain
<1>3. hits = {k}
  <2> HIDE DEF b
  <2>1. \A i \in 1..Len(t[b]) : c[t[b][i]].fd = c[a].fd => i = k
    BY <1>1, <1>2 DEF Heap
  <2> QED
    BY <1>1, <2>1
<1>4. (CHOOSE i \in hits : \A j \in hits : i <= j) = k
  <2> HIDE DEF hits
  <2> QED
    BY <1>3, <1>1
<1>5. Found(t, c, c[a].fd) = t[b][CHOOSE i \in hits : \A j \in hits : i <= j]
  BY <1>3 DEF Found
<1> QED
  BY <1>1, <1>4, <1>5

\* It finds nothing if there is none.
LEMMA FoundIsNone ==
    ASSUME NEW t, NEW c, NEW l, Types(t, c, l), Heap(t, c, l), NEW fd \in Fd,
           \A a \in l : c[a].fd # fd
    PROVE  Found(t, c, fd) = None
<1>1. \A i \in 1..Len(t[fd_hash(fd)]) : c[t[fd_hash(fd)][i]].fd # fd
  BY HashInTable DEF Heap
<1> QED
  BY <1>1 DEF Found

\* The two cases, for a descriptor that may have a context or not.
LEMMA FoundCases ==
    ASSUME NEW t, NEW c, NEW l, Types(t, c, l), Heap(t, c, l), NEW fd \in Fd
    PROVE  /\ Found(t, c, fd) = None => \A a \in l : c[a].fd # fd
           /\ Found(t, c, fd) # None => Found(t, c, fd) \in l /\ c[Found(t, c, fd)].fd = fd
<1>1. \A a \in l : a # None
  BY LoopAssumption DEF Types
<1>2. CASE \A a \in l : c[a].fd # fd
  BY <1>2, FoundIsNone
<1>3. CASE \E a \in l : c[a].fd = fd
  <2>1. PICK a \in l : c[a].fd = fd
    BY <1>3
  <2>2. Found(t, c, fd) = a
    BY <2>1, FoundIsContext
  <2> QED
    BY <2>1, <2>2, <1>1
<1> QED
  BY <1>2, <1>3

-----------------------------------------------------------------------------
\* insert_file_context of a fresh context keeps the table and the heap together.
LEMMA LinkKeepsHeap ==
    ASSUME NEW t, NEW c, NEW l, Types(t, c, l), Heap(t, c, l),
           NEW fd \in Fd, NEW cb \in Callback, NEW a \in Address \ l,
           \A x \in l : c[x].fd # fd
    PROVE  LET nc == [c EXCEPT ![a] = [fd |-> fd, callback |-> cb]]
           IN /\ Types(Linked(t, a, fd), nc, l \cup {a})
              /\ Heap(Linked(t, a, fd), nc, l \cup {a})
<1> DEFINE nc == [c EXCEPT ![a] = [fd |-> fd, callback |-> cb]]
           h == fd_hash(fd)
           nt == Linked(t, a, fd)
<1>1. h \in Bucket
  BY HashInTable
<1>2. /\ nc[a].fd = fd /\ nc[a].callback = cb
      /\ \A x \in l : nc[x] = c[x]
      /\ nc \in [Address -> [fd : Fd \cup {None}, callback : Callback \cup {None}]]
  BY DEF Types
<1>3. t[h] \in Seq(Address)
  BY <1>1 DEF Types
<1>4. /\ nt[h] = <<a>> \o t[h]
      /\ \A b \in Bucket : b # h => nt[b] = t[b]
      /\ nt = [b \in Bucket |-> IF b = h THEN <<a>> \o t[h] ELSE t[b]]
  BY <1>1 DEF Linked, Types
<1>5. /\ nt[h] \in Seq(Address)
      /\ Len(nt[h]) = Len(t[h]) + 1
      /\ nt[h][1] = a
      /\ \A i \in 1..Len(t[h]) : nt[h][i + 1] = t[h][i]
  <2> HIDE DEF h
  <2> QED
    BY <1>3, <1>4
<1> HIDE DEF nc, h, nt
<1>6. Types(nt, nc, l \cup {a})
  BY <1>2, <1>4, <1>5 DEF Types
<1>7. \A i \in 1..Len(nt[h]) : i = 1 \/ (i - 1 \in 1..Len(t[h]) /\ nt[h][i] = t[h][i - 1])
  <2> TAKE i \in 1..Len(nt[h])
  <2>1. CASE i # 1
    <3>1. i - 1 \in 1..Len(t[h])
      BY <2>1, <1>3, <1>5
    <3>2. nt[h][(i - 1) + 1] = t[h][i - 1]
      BY <3>1, <1>5
    <3> QED
      BY <3>1, <3>2
  <2> QED
    BY <2>1
<1>8. ASSUME NEW x \in l \cup {a}
      PROVE  \E b \in Bucket : \E i \in 1..Len(nt[b]) : nt[b][i] = x
  <2>1. CASE x = a
    <3>1. 1 \in 1..Len(nt[h])
      BY <1>3, <1>5
    <3> QED
      BY <2>1, <3>1, <1>1, <1>5
  <2>2. CASE x \in l
    <3>1. PICK b \in Bucket : \E i \in 1..Len(t[b]) : t[b][i] = x
      BY <2>2 DEF Heap
    <3>2. PICK i \in 1..Len(t[b]) : t[b][i] = x
      BY <3>1
    <3>3. CASE b = h
      <4>1. i + 1 \in 1..Len(nt[h]) /\ nt[h][i + 1] = x
        BY <3>2, <3>3, <1>3, <1>5
      <4> QED
        BY <4>1, <1>1
    <3>4. CASE b # h
      BY <3>2, <3>4, <1>4
    <3> QED
      BY <3>3, <3>4
  <2> QED
    BY <2>1, <2>2
<1>9. ASSUME NEW b \in Bucket, NEW i \in 1..Len(nt[b])
      PROVE  /\ nt[b][i] \in l \cup {a}
             /\ fd_hash(nc[nt[b][i]].fd) = b
             /\ \A j \in 1..Len(nt[b]) : nc[nt[b][i]].fd = nc[nt[b][j]].fd => i = j
  <2>1. CASE b # h
    <3>1. nt[b] = t[b]
      BY <2>1, <1>4
    <3> QED
      BY <3>1, <1>2 DEF Heap
  <2>2. CASE b = h
    <3>1. \A k \in 1..Len(t[h]) : /\ t[h][k] \in l
                                  /\ nc[t[h][k]].fd = c[t[h][k]].fd
                                  /\ nc[t[h][k]].fd # fd
                                  /\ fd_hash(nc[t[h][k]].fd) = h
      BY <1>1, <1>2 DEF Heap
    <3>2. fd_hash(nc[a].fd) = h
      BY <1>2 DEF h
    <3>3. nt[b][i] \in l \cup {a} /\ fd_hash(nc[nt[b][i]].fd) = b
      <4>1. CASE i = 1
        BY <4>1, <2>2, <3>2, <1>5
      <4>2. CASE i # 1
        <5>1. i - 1 \in 1..Len(t[h]) /\ nt[h][i] = t[h][i - 1]
          BY <4>2, <2>2, <1>7
        <5> QED
          BY <5>1, <2>2, <3>1
      <4> QED
        BY <4>1, <4>2
    <3>4. ASSUME NEW j \in 1..Len(nt[b]), nc[nt[b][i]].fd = nc[nt[b][j]].fd
          PROVE  i = j
      <4>1. CASE i = 1 /\ j = 1
        BY <4>1
      <4>2. CASE i = 1 /\ j # 1
        BY <4>2, <2>2, <3>1, <3>4, <1>2, <1>5, <1>7
      <4>3. CASE i # 1 /\ j = 1
        BY <4>3, <2>2, <3>1, <3>4, <1>2, <1>5, <1>7
      <4>4. CASE i # 1 /\ j # 1
        <5>1. /\ i - 1 \in 1..Len(t[h]) /\ nt[h][i] = t[h][i - 1]
              /\ j - 1 \in 1..Len(t[h]) /\ nt[h][j] = t[h][j - 1]
          BY <4>4, <2>2, <1>7
        <5>2. c[t[h][i - 1]].fd = c[t[h][j - 1]].fd
          BY <5>1, <3>1, <3>4, <2>2
        <5>3. i - 1 = j - 1
          BY <5>1, <5>2, <1>1 DEF Heap
        <5> QED
          BY <5>3
      <4> QED
        BY <4>1, <4>2, <4>3, <4>4
    <3> QED
      BY <3>3, <3>4
  <2> QED
    BY <2>1, <2>2
<1>10. Heap(nt, nc, l \cup {a})
  BY <1>8, <1>9 DEF Heap
<1> QED
  BY <1>6, <1>10 DEF nc, nt

\* A chain without one of its elements, which is on it once.
LEMMA WithoutFacts ==
    ASSUME NEW s \in Seq(Address), NEW k \in 1..Len(s),
           \A j \in 1..Len(s) : s[j] = s[k] => j = k
    PROVE  LET r == Without(s, s[k])
           IN /\ r \in Seq(Address)
              /\ Len(r) = Len(s) - 1
              /\ \A j \in 1..Len(r) : r[j] = s[IF j < k THEN j ELSE j + 1]
<1> DEFINE r == Without(s, s[k])
<1>1. (CHOOSE j \in 1..Len(s) : s[j] = s[k]) = k
  OBVIOUS
<1>2. r = [j \in 1..Len(s) - 1 |-> IF j < k THEN s[j] ELSE s[j + 1]]
  BY <1>1 DEF Without
<1>3. Len(s) - 1 \in Nat
  OBVIOUS
<1>4. \A j \in 1..Len(s) - 1 : (IF j < k THEN s[j] ELSE s[j + 1]) \in Address
  OBVIOUS
<1>5. r \in Seq(Address) /\ Len(r) = Len(s) - 1
  BY <1>2, <1>3, <1>4
<1> QED
  BY <1>2, <1>5

\* remove_file_context and free keep the table and the heap together.
LEMMA UnlinkKeepsHeap ==
    ASSUME NEW t, NEW c, NEW l, Types(t, c, l), Heap(t, c, l), NEW a \in l
    PROVE  LET nt == Unlinked(t, a, c[a].fd)
               nc == [c EXCEPT ![a] = Garbage]
           IN Types(nt, nc, l \ {a}) /\ Heap(nt, nc, l \ {a})
<1> DEFINE nc == [c EXCEPT ![a] = Garbage]
           h == fd_hash(c[a].fd)
           nt == Unlinked(t, a, c[a].fd)
           from(k, j) == IF j < k THEN j ELSE j + 1
<1>1. h \in Bucket /\ t[h] \in Seq(Address)
  BY OnItsChain
<1>2. PICK k \in 1..Len(t[h]) : t[h][k] = a
  BY OnItsChain
<1>3. /\ \A x \in l \ {a} : nc[x] = c[x]
      /\ nc \in [Address -> [fd : Fd \cup {None}, callback : Callback \cup {None}]]
  BY DEF Types, Garbage
<1>4. /\ nt[h] = Without(t[h], a)
      /\ \A b \in Bucket : b # h => nt[b] = t[b]
      /\ nt = [b \in Bucket |-> IF b = h THEN Without(t[h], a) ELSE t[b]]
  BY <1>1 DEF Unlinked, Types
<1> HIDE DEF nc, h, nt
<1>5. \A j \in 1..Len(t[h]) : t[h][j] = t[h][k] => j = k
  BY <1>1, <1>2 DEF Heap
<1>6. /\ nt[h] \in Seq(Address)
      /\ Len(nt[h]) = Len(t[h]) - 1
      /\ \A j \in 1..Len(nt[h]) : nt[h][j] = t[h][from(k, j)]
  BY <1>1, <1>2, <1>4, <1>5, WithoutFacts
<1>7. \A j \in 1..Len(nt[h]) : from(k, j) \in 1..Len(t[h]) /\ from(k, j) # k
  BY <1>1, <1>6
<1>8. Types(nt, nc, l \ {a})
  BY <1>3, <1>4, <1>6 DEF Types
<1>9. ASSUME NEW x \in l \ {a}
      PROVE  \E b \in Bucket : \E i \in 1..Len(nt[b]) : nt[b][i] = x
  <2>1. PICK b \in Bucket : \E i \in 1..Len(t[b]) : t[b][i] = x
    BY DEF Heap
  <2>2. PICK i \in 1..Len(t[b]) : t[b][i] = x
    BY <2>1
  <2>3. CASE b = h
    <3>1. CASE i < k
      <4>1. i \in 1..Len(nt[h]) /\ from(k, i) = i
        BY <3>1, <2>2, <2>3, <1>1, <1>6
      <4> QED
        BY <4>1, <2>2, <2>3, <1>1, <1>6
    <3>2. CASE i > k
      <4>1. i - 1 \in 1..Len(nt[h]) /\ from(k, i - 1) = i
        BY <3>2, <2>2, <2>3, <1>1, <1>6
      <4>2. nt[h][i - 1] = x
        BY <4>1, <2>2, <2>3, <1>6
      <4> QED
        BY <4>1, <4>2, <1>1
    <3>3. i # k
      BY <2>2, <2>3, <1>2
    <3> QED
      BY <3>1, <3>2, <3>3
  <2>4. CASE b # h
    BY <2>2, <2>4, <1>4
  <2> QED
    BY <2>3, <2>4
<1>10. ASSUME NEW b \in Bucket, NEW i \in 1..Len(nt[b])
       PROVE  /\ nt[b][i] \in l \ {a}
              /\ fd_hash(nc[nt[b][i]].fd) = b
              /\ \A j \in 1..Len(nt[b]) : nc[nt[b][i]].fd = nc[nt[b][j]].fd => i = j
  <2>1. CASE b # h
    <3>1. nt[b] = t[b]
      BY <2>1, <1>4
    <3>2. \A j \in 1..Len(t[b]) : t[b][j] \in l /\ t[b][j] # a
      BY <2>1 DEF Heap, h
    <3>3. \A j \in 1..Len(t[b]) : nc[t[b][j]] = c[t[b][j]]
      BY <3>2, <1>3
    <3>4. /\ fd_hash(c[t[b][i]].fd) = b
          /\ \A j \in 1..Len(t[b]) : c[t[b][i]].fd = c[t[b][j]].fd => i = j
      BY <3>1 DEF Heap
    <3> QED
      BY <3>1, <3>2, <3>3, <3>4
  <2>2. CASE b = h
    <3>1. \A j \in 1..Len(t[h]) : t[h][j] \in l /\ fd_hash(c[t[h][j]].fd) = h
      BY <1>1 DEF Heap
    <3>2. \A j \in 1..Len(nt[h]) : nt[h][j] \in l \ {a}
      <4> TAKE j \in 1..Len(nt[h])
      <4>1. nt[h][j] = t[h][from(k, j)] /\ from(k, j) \in 1..Len(t[h]) /\ from(k, j) # k
        BY <1>6, <1>7
      <4> HIDE DEF from
      <4> QED
        BY <4>1, <3>1, <1>2, <1>5
    <3>3. \A j \in 1..Len(nt[h]) : nc[nt[h][j]].fd = c[t[h][from(k, j)]].fd
      BY <3>2, <1>3, <1>6
    <3>4. nt[b][i] \in l \ {a} /\ fd_hash(nc[nt[b][i]].fd) = b
      BY <2>2, <3>1, <3>2, <3>3, <1>7
    <3>5. ASSUME NEW j \in 1..Len(nt[b]), nc[nt[b][i]].fd = nc[nt[b][j]].fd
          PROVE  i = j
      <4>1. c[t[h][from(k, i)]].fd = c[t[h][from(k, j)]].fd
        BY <2>2, <3>3, <3>5
      <4>2. from(k, i) = from(k, j)
        <5> HIDE DEF from
        <5> QED
          BY <4>1, <2>2, <1>1, <1>7 DEF Heap
      <4> QED
        BY <4>2, <2>2, <1>1, <1>6
    <3> QED
      BY <3>4, <3>5
  <2> QED
    BY <2>1, <2>2
<1>11. Heap(nt, nc, l \ {a})
  BY <1>9, <1>10 DEF Heap
<1> QED
  BY <1>8, <1>11 DEF nc, nt

\* The rollback of loop_add_fd leaves the table as it was.
LEMMA RollbackRestores ==
    ASSUME NEW t, NEW c, NEW l, Types(t, c, l), Heap(t, c, l),
           NEW fd \in Fd, NEW a \in Address \ l
    PROVE  Unlinked(Linked(t, a, fd), a, fd) = t
<1> DEFINE h == fd_hash(fd)
           s == <<a>> \o t[h]
<1>1. h \in Bucket /\ t[h] \in Seq(Address) /\ DOMAIN t = Bucket
  BY HashInTable DEF Types
<1>2. \A i \in 1..Len(t[h]) : t[h][i] # a
  BY <1>1 DEF Heap
<1>3. /\ s \in Seq(Address) /\ Len(s) = Len(t[h]) + 1 /\ s[1] = a
      /\ \A i \in 1..Len(t[h]) : s[i + 1] = t[h][i]
  <2> HIDE DEF h
  <2> QED
    BY <1>1
<1> HIDE DEF s
<1>4. \A j \in 1..Len(s) : s[j] = a => j = 1
  <2> SUFFICES ASSUME NEW j \in 1..Len(s), j # 1 PROVE s[j] # a
    OBVIOUS
  <2>1. j - 1 \in 1..Len(t[h])
    BY <1>1, <1>3
  <2>2. s[(j - 1) + 1] = t[h][j - 1]
    BY <2>1, <1>3
  <2> QED
    BY <2>1, <2>2, <1>2
<1>5. (CHOOSE j \in 1..Len(s) : s[j] = a) = 1
  BY <1>1, <1>3, <1>4
<1>6. Without(s, a) = [j \in 1..Len(t[h]) |-> t[h][j]]
  <2>1. Without(s, a) = [j \in 1..Len(s) - 1 |-> IF j < 1 THEN s[j] ELSE s[j + 1]]
    BY <1>5 DEF Without
  <2>2. Len(s) - 1 = Len(t[h])
    BY <1>1, <1>3
  <2>3. \A j \in 1..Len(t[h]) : (IF j < 1 THEN s[j] ELSE s[j + 1]) = t[h][j]
    BY <1>1, <1>3
  <2> HIDE DEF h
  <2> QED
    BY <2>1, <2>2, <2>3
<1>7. Without(s, a) = t[h]
  BY <1>1, <1>6
<1>8. Linked(t, a, fd)[h] = s
  BY <1>1 DEF Linked, s
<1> QED
  BY <1>1, <1>7, <1>8 DEF Unlinked, Linked, Types

\* loop_mod_fd changes a callback and nothing else.
LEMMA ModKeepsHeap ==
    ASSUME NEW t, NEW c, NEW l, Types(t, c, l), Heap(t, c, l), NEW a \in l,
           NEW cb \in Callback
    PROVE  LET nc == [c EXCEPT ![a].callback = cb]
           IN Types(t, nc, l) /\ Heap(t, nc, l) /\ \A x \in Address : nc[x].fd = c[x].fd
<1> DEFINE nc == [c EXCEPT ![a].callback = cb]
<1>1. a \in Address /\ c[a] \in [fd : Fd \cup {None}, callback : Callback \cup {None}]
  BY DEF Types
<1>2. \A x \in Address : nc[x] = IF x = a THEN [c[x] EXCEPT !.callback = cb] ELSE c[x]
  BY <1>1 DEF Types
<1>3. \A x \in Address : c[x] \in [fd : Fd \cup {None}, callback : Callback \cup {None}]
  BY DEF Types
<1>4. \A x \in Address : /\ nc[x].fd = c[x].fd
                         /\ nc[x] \in [fd : Fd \cup {None}, callback : Callback \cup {None}]
                         /\ nc[x].callback = IF x = a THEN cb ELSE c[x].callback
  BY <1>2, <1>3
<1>5. nc \in [Address -> [fd : Fd \cup {None}, callback : Callback \cup {None}]]
  BY <1>4 DEF Types
<1> HIDE DEF nc
<1>6. Types(t, nc, l)
  BY <1>4, <1>5 DEF Types
<1>7. \A b \in Bucket : \A i \in 1..Len(t[b]) : t[b][i] \in Address
  BY DEF Heap, Types
<1>8. Heap(t, nc, l)
  BY <1>4, <1>7 DEF Heap
<1> QED
  BY <1>4, <1>6, <1>8 DEF nc

-----------------------------------------------------------------------------
\* The inductive invariant.  A batch has one event per descriptor and none of the
\* descriptor whose callback is running, the only one a callback may delete:
\* that is why the pointers of the batch stay good.
Inv ==
    /\ TypeOK
    /\ Types(fd_table, ctx, live) /\ Heap(fd_table, ctx, live)
    /\ NoDanglingPointer
    /\ \A e, f \in batch : e[1] = f[1] => e = f
    /\ calling # None => phase = "dispatching" /\ \A e \in batch : e[1] # calling[1]
    /\ phase # "dispatching" => batch = {}

\* A loop that has just been created satisfies it.
LEMMA InitInv == Init => Inv
<1> SUFFICES ASSUME Init PROVE Inv
  OBVIOUS
<1>1. TypeOK
  BY DEF Init, TypeOK, Garbage
<1>2. Types(fd_table, ctx, live)
  BY DEF Init, Types, Garbage
<1>3. Heap(fd_table, ctx, live)
  BY DEF Init, Heap
<1>4. NoDanglingPointer
  BY DEF Init, NoDanglingPointer
<1> QED
  BY <1>1, <1>2, <1>3, <1>4 DEF Init, Inv

\* A registration that succeeds, by loop_add_fd or loop_add_timer.
LEMMA RegistersKeepsInv ==
    ASSUME Inv, NEW fd \in Fd, NEW cb \in Callback, NEW S, Registers(fd, cb, S),
           open' \subseteq Fd
    PROVE  Inv'
<1>1. PICK a \in Address \ live :
        /\ live' = live \cup {a}
        /\ ctx' = [ctx EXCEPT ![a] = [fd |-> fd, callback |-> cb]]
        /\ fd_table' = Linked(fd_table, a, fd)
        /\ epoll' = [epoll EXCEPT ![fd] = a]
  BY DEF Registers
<1>2. \A x \in live : ctx[x].fd # fd
  BY FoundCases DEF Inv, Registers, Find
<1>3. Types(fd_table', ctx', live') /\ Heap(fd_table', ctx', live')
  BY <1>1, <1>2, LinkKeepsHeap DEF Inv
<1>4. ctx'[a].fd = fd /\ \A x \in live : ctx'[x] = ctx[x]
  BY <1>1 DEF Inv, Types
<1>5. epoll' \in [Fd -> Address \cup {None}]
  BY <1>1 DEF Inv, TypeOK
<1>6. TypeOK'
  BY <1>3, <1>5 DEF Inv, TypeOK, Types, Registers
<1>7. NoDanglingPointer'
  <2>1. ASSUME NEW g \in Fd, epoll'[g] # None
        PROVE  epoll'[g] \in live' /\ ctx'[epoll'[g]].fd = g
    <3>1. CASE g = fd
      BY <3>1, <1>1, <1>4 DEF Inv, TypeOK
    <3>2. CASE g # fd
      <4>1. epoll'[g] = epoll[g]
        BY <3>2, <1>1 DEF Inv, TypeOK
      <4> QED
        BY <4>1, <2>1, <1>1, <1>4 DEF Inv, NoDanglingPointer
    <3> QED
      BY <3>1, <3>2
  <2>2. \A e \in batch' : e[2] \in live' /\ ctx'[e[2]].fd = e[1]
    BY <1>1, <1>4 DEF Inv, NoDanglingPointer, Registers
  <2> QED
    BY <2>1, <2>2 DEF NoDanglingPointer
<1> QED
  BY <1>3, <1>6, <1>7 DEF Inv, Registers

\* loop_del_fd, from a callback of the descriptor or outside loop_run.
LEMMA DelFdKeepsInv ==
    ASSUME Inv, NEW fd \in Fd, DelFd(fd)
    PROVE  Inv'
<1> DEFINE a == Find(fd)
<1>1. a \in live /\ ctx[a].fd = fd
  BY FoundCases DEF Inv, DelFd, Find
<1>2. /\ live' = live \ {a}
      /\ ctx' = [ctx EXCEPT ![a] = Garbage]
      /\ fd_table' = Unlinked(fd_table, a, fd)
      /\ epoll' = [epoll EXCEPT ![fd] = None]
      /\ UNCHANGED <<phase, open, batch, calling>>
      /\ calling # None => calling[1] = fd
      /\ InUserCode
  BY DEF DelFd
<1> HIDE DEF a
<1>3. Types(fd_table', ctx', live') /\ Heap(fd_table', ctx', live')
  BY <1>1, <1>2, UnlinkKeepsHeap DEF Inv
<1>4. \A x \in live : x # a => x \in live' /\ ctx'[x] = ctx[x]
  BY <1>2 DEF Inv, Types
<1>5. epoll' \in [Fd -> Address \cup {None}]
  BY <1>2 DEF Inv, TypeOK
<1>6. TypeOK'
  BY <1>2, <1>3, <1>5 DEF Inv, TypeOK, Types
<1>7. NoDanglingPointer'
  <2>1. ASSUME NEW g \in Fd, epoll'[g] # None
        PROVE  epoll'[g] \in live' /\ ctx'[epoll'[g]].fd = g
    <3>1. g # fd /\ epoll'[g] = epoll[g]
      BY <2>1, <1>2 DEF Inv, TypeOK
    <3>2. epoll[g] \in live /\ ctx[epoll[g]].fd = g
      BY <3>1, <2>1 DEF Inv, NoDanglingPointer
    <3> QED
      BY <3>1, <3>2, <1>1, <1>4
  <2>2. ASSUME NEW e \in batch
        PROVE  e[2] \in live' /\ ctx'[e[2]].fd = e[1]
    <3>1. e[2] \in live /\ ctx[e[2]].fd = e[1]
      BY DEF Inv, NoDanglingPointer
    <3>2. calling # None
      BY <1>2 DEF InUserCode, Inv
    <3>3. e[1] # fd
      BY <3>2, <1>2 DEF Inv
    <3> QED
      BY <3>1, <3>3, <1>1, <1>4
  <2> QED
    BY <2>1, <2>2, <1>2 DEF NoDanglingPointer
<1> QED
  BY <1>2, <1>3, <1>6, <1>7 DEF Inv

\* loop_mod_fd
LEMMA ModFdKeepsInv ==
    ASSUME Inv, NEW fd \in Fd, NEW cb \in Callback, ModFd(fd, cb)
    PROVE  Inv'
<1> DEFINE a == Find(fd)
<1>1. a \in live /\ ctx[a].fd = fd
  BY FoundCases DEF Inv, ModFd, Find
<1>2. /\ ctx' = [ctx EXCEPT ![a].callback = cb]
      /\ epoll' = [epoll EXCEPT ![fd] = IF @ = None THEN @ ELSE a]
      /\ UNCHANGED <<phase, open, live, fd_table, batch, calling>>
  BY DEF ModFd
<1> HIDE DEF a
<1>3. /\ Types(fd_table', ctx', live') /\ Heap(fd_table', ctx', live')
      /\ \A x \in Address : ctx'[x].fd = ctx[x].fd
  <2> DEFINE nc == [ctx EXCEPT ![a].callback = cb]
  <2>1. /\ Types(fd_table, nc, live) /\ Heap(fd_table, nc, live)
        /\ \A x \in Address : nc[x].fd = ctx[x].fd
    BY <1>1, ModKeepsHeap DEF Inv
  <2>2. ctx' = nc /\ fd_table' = fd_table /\ live' = live
    BY <1>2
  <2> HIDE DEF nc
  <2> QED
    BY <2>1, <2>2
<1>4. epoll' \in [Fd -> Address \cup {None}]
  BY <1>1, <1>2 DEF Inv, TypeOK
<1>5. TypeOK'
  BY <1>2, <1>3, <1>4 DEF Inv, TypeOK, Types
<1>6. NoDanglingPointer'
  <2>1. ASSUME NEW g \in Fd, epoll'[g] # None
        PROVE  epoll'[g] \in live' /\ ctx'[epoll'[g]].fd = g
    <3>1. CASE g = fd
      <4>1. epoll'[g] = a
        BY <3>1, <2>1, <1>2 DEF Inv, TypeOK
      <4> QED
        BY <4>1, <3>1, <1>1, <1>2, <1>3 DEF Inv, TypeOK
    <3>2. CASE g # fd
      <4>1. epoll'[g] = epoll[g]
        BY <3>2, <1>2 DEF Inv, TypeOK
      <4>2. epoll[g] \in live /\ ctx[epoll[g]].fd = g
        BY <4>1, <2>1 DEF Inv, NoDanglingPointer
      <4> QED
        BY <4>1, <4>2, <1>2, <1>3 DEF Inv, TypeOK
    <3> QED
      BY <3>1, <3>2
  <2>2. \A e \in batch : e[2] \in live /\ ctx'[e[2]].fd = e[1]
    BY <1>3 DEF Inv, TypeOK, NoDanglingPointer
  <2> QED
    BY <2>1, <2>2, <1>2 DEF NoDanglingPointer
<1> QED
  BY <1>2, <1>3, <1>5, <1>6 DEF Inv

\* The steps that leave the table alone.
LEMMA QuietKeepsInv ==
    ASSUME Inv,
           \/ \E fd \in Fd : OpenFd(fd) \/ CloseFd(fd) \/ AddFails(fd)
           \/ LoopRun \/ Return \/ LoopAgain \/ EmergencyClose \/ UNCHANGED vars
    PROVE  Inv' /\ UNCHANGED memory
<1> USE DEF memory
<1>1. UNCHANGED memory
  <2>1. ASSUME NEW fd \in Fd, AddFails(fd)
        PROVE  UNCHANGED memory
    BY <2>1, RollbackRestores DEF AddFails, Inv
  <2> QED
    BY <2>1 DEF OpenFd, CloseFd, LoopRun, Return, LoopAgain, EmergencyClose, vars
<1>2. Types(fd_table', ctx', live') /\ Heap(fd_table', ctx', live')
  BY <1>1 DEF Inv
<1>3. /\ epoll' \in [Fd -> Address \cup {None}]
      /\ \A g \in Fd : epoll'[g] \in {epoll[g], None}
      /\ batch' = batch /\ open' \subseteq Fd
  BY DEF Inv, TypeOK, OpenFd, CloseFd, AddFails, LoopRun, Return, LoopAgain,
         EmergencyClose, vars, Lowest
<1>4. /\ phase' \in {"setup", "waiting", "dispatching", "stopped", "freed"}
      /\ calling' \in {calling, None}
      /\ calling' # None => phase' = "dispatching"
      /\ phase' # "dispatching" => batch' = {}
  BY DEF Inv, TypeOK, OpenFd, CloseFd, AddFails, LoopRun, Return, LoopAgain,
         EmergencyClose, vars
<1>5. TypeOK'
  BY <1>1, <1>3, <1>4 DEF Inv, TypeOK
<1>6. NoDanglingPointer'
  BY <1>1, <1>3 DEF Inv, NoDanglingPointer
<1> QED
  BY <1>1, <1>2, <1>3, <1>4, <1>5, <1>6 DEF Inv

\* epoll_wait and the dispatch of an event.
LEMMA EpollWaitKeepsInv == ASSUME Inv, EpollWait PROVE Inv'
<1>1. PICK ready \in SUBSET {fd \in Fd : epoll[fd] # None} :
        batch' = {<<fd, epoll[fd]>> : fd \in ready}
  BY DEF EpollWait
<1>2. calling = None
  BY DEF EpollWait, Inv
<1>3. \A e \in batch' : e[1] \in Fd /\ epoll[e[1]] # None /\ e = <<e[1], epoll[e[1]]>>
  BY <1>1
<1>4. batch' \subseteq Fd \X Address
  BY <1>3 DEF Inv, TypeOK
<1>5. TypeOK'
  BY <1>4 DEF Inv, TypeOK, EpollWait, memory
<1>6. NoDanglingPointer'
  BY <1>3 DEF Inv, NoDanglingPointer, EpollWait, memory
<1>7. \A e, f \in batch' : e[1] = f[1] => e = f
  BY <1>3
<1> QED
  BY <1>2, <1>5, <1>6, <1>7 DEF Inv, EpollWait, memory

LEMMA DispatchKeepsInv ==
    ASSUME Inv, Dispatch
    PROVE  /\ Inv'
           /\ calling = None
           /\ \E fd \in Fd, a \in live :
                ctx[a].fd = fd /\ calling' = <<fd, ctx[a].callback>>
<1>1. PICK e \in batch : /\ batch' = batch \ {e}
                         /\ calling' = <<ctx[e[2]].fd, ctx[e[2]].callback>>
  BY DEF Dispatch
<1>2. e[2] \in live /\ ctx[e[2]].fd = e[1] /\ e[1] \in Fd
  BY DEF Inv, NoDanglingPointer, TypeOK
<1>3. ctx[e[2]].callback \in Callback
  BY <1>2 DEF Inv, Types
<1>4. calling' \in Fd \X Callback /\ calling'[1] = e[1]
  BY <1>1, <1>2, <1>3
<1>5. TypeOK'
  BY <1>1, <1>4 DEF Inv, TypeOK, Dispatch, memory
<1>6. NoDanglingPointer'
  BY <1>1 DEF Inv, NoDanglingPointer, Dispatch, memory
<1>7. \A f \in batch' : f[1] # calling'[1]
  BY <1>1, <1>4 DEF Inv
<1>8. Inv'
  BY <1>1, <1>5, <1>6, <1>7 DEF Inv, Dispatch, memory
<1> QED
  BY <1>1, <1>2, <1>8 DEF Dispatch

\* loop_free frees everything.
LEMMA LoopFreeKeepsInv == ASSUME Inv, LoopFree PROVE Inv' /\ live' = {}
<1>1. live' = {}
  BY DEF LoopFree, Inv, Heap
<1>2. /\ ctx' = [a \in Address |-> Garbage]
      /\ fd_table' = [b \in Bucket |-> <<>>]
      /\ epoll' = [fd \in Fd |-> None]
  BY <1>1 DEF LoopFree
<1>3. calling = None /\ batch = {} /\ calling' = None /\ batch' = {}
  BY DEF Inv, LoopFree
<1>4. TypeOK'
  BY <1>1, <1>2, <1>3 DEF Inv, TypeOK, LoopFree, Garbage
<1>5. Types(fd_table', ctx', live') /\ Heap(fd_table', ctx', live')
  BY <1>1, <1>2 DEF Types, Heap, Garbage
<1>6. NoDanglingPointer'
  BY <1>2, <1>3 DEF NoDanglingPointer
<1> QED
  BY <1>1, <1>3, <1>4, <1>5, <1>6 DEF Inv

-----------------------------------------------------------------------------
\* Every step keeps the invariant, one case per action.
LEMMA NextKeepsInv == Inv /\ [Next]_vars => Inv'
<1> SUFFICES ASSUME Inv, [Next]_vars PROVE Inv'
  OBVIOUS
<1>1. ASSUME NEW fd \in Fd, NEW cb \in Callback, AddFd(fd, cb) PROVE Inv'
  BY <1>1, RegistersKeepsInv DEF AddFd, Inv, TypeOK
<1>2. ASSUME NEW fd \in Fd, NEW cb \in Callback, AddTimer(fd, cb) PROVE Inv'
  <2>1. open' \subseteq Fd /\ Registers(fd, cb, open')
    BY <1>2 DEF AddTimer, Inv, TypeOK
  <2> QED
    BY <2>1, RegistersKeepsInv
<1>3. ASSUME NEW fd \in Fd, NEW cb \in Callback, ModFd(fd, cb) PROVE Inv'
  BY <1>3, ModFdKeepsInv
<1>4. ASSUME NEW fd \in Fd, DelFd(fd) PROVE Inv'
  BY <1>4, DelFdKeepsInv
<1>5. CASE EpollWait
  BY <1>5, EpollWaitKeepsInv
<1>6. CASE Dispatch
  BY <1>6, DispatchKeepsInv
<1>7. CASE LoopFree
  BY <1>7, LoopFreeKeepsInv
<1>8. CASE \/ \E fd \in Fd : OpenFd(fd) \/ CloseFd(fd) \/ AddFails(fd)
           \/ LoopRun \/ Return \/ LoopAgain \/ EmergencyClose \/ UNCHANGED vars
  BY <1>8, QuietKeepsInv
<1> QED
  BY <1>1, <1>2, <1>3, <1>4, <1>5, <1>6, <1>7, <1>8 DEF Next

\* The inductive invariant holds in every reachable state.
THEOREM LoopInvariant == Spec => []Inv
  BY InitInv, NextKeepsInv, PTL DEF Spec

\* The table of event_loop.c holds exactly what is allocated, each context once
\* and where find_file_context looks for it: nothing is leaked or freed twice.
THEOREM TableHoldsHeap == Spec => []TableIsHeap
<1>1. Inv => TableIsHeap
  BY DEF Inv, Heap, TableIsHeap
<1> QED
  BY <1>1, LoopInvariant, PTL

\* The table, the contexts and the events of a batch keep their types.
THEOREM LoopTypesHold == Spec => []TypeOK
<1>1. Inv => TypeOK
  BY DEF Inv
<1> QED
  BY <1>1, LoopInvariant, PTL

\* loop_run follows no pointer that was freed or belongs to another descriptor.
THEOREM NothingDangles == Spec => []NoDanglingPointer
<1>1. Inv => NoDanglingPointer
  BY DEF Inv
<1> QED
  BY <1>1, LoopInvariant, PTL

-----------------------------------------------------------------------------
\* The handlers that a table t with contents c gives to the descriptors.
HandlersOf(t, c) ==
    [fd \in Fd |-> IF Found(t, c, fd) = None THEN None ELSE c[Found(t, c, fd)].callback]

\* They are the callbacks of what is allocated.
LEMMA HandlersAreContexts ==
    ASSUME NEW t, NEW c, NEW l, Types(t, c, l), Heap(t, c, l)
    PROVE  /\ \A a \in l : HandlersOf(t, c)[c[a].fd] = c[a].callback
           /\ \A fd \in Fd : (\A a \in l : c[a].fd # fd) => HandlersOf(t, c)[fd] = None
<1>1. ASSUME NEW a \in l
      PROVE  HandlersOf(t, c)[c[a].fd] = c[a].callback
  <2>1. Found(t, c, c[a].fd) = a /\ a # None /\ c[a].fd \in Fd
    BY FoundIsContext, LoopAssumption DEF Types
  <2> QED
    BY <2>1 DEF HandlersOf
<1>2. ASSUME NEW fd \in Fd, \A a \in l : c[a].fd # fd
      PROVE  HandlersOf(t, c)[fd] = None
  BY <1>2, FoundIsNone DEF HandlersOf
<1> QED
  BY <1>1, <1>2

\* A step that registers fd adds a handler.
LEMMA RegistersMaps ==
    ASSUME Inv, Inv', NEW fd \in Fd, NEW cb \in Callback, NEW S, Registers(fd, cb, S)
    PROVE  Abstract!Add(fd, cb)
<1>1. PICK a \in Address \ live :
        /\ live' = live \cup {a}
        /\ ctx' = [ctx EXCEPT ![a] = [fd |-> fd, callback |-> cb]]
  BY DEF Registers
<1>2. ctx'[a].fd = fd /\ ctx'[a].callback = cb /\ \A x \in live : ctx'[x] = ctx[x]
  BY <1>1 DEF Inv, Types
<1>3. \A x \in live : ctx[x].fd # fd
  BY FoundCases DEF Inv, Registers, Find
<1> DEFINE H == HandlersOf(fd_table, ctx)
           N == HandlersOf(fd_table', ctx')
<1>4. /\ \A x \in live : H[ctx[x].fd] = ctx[x].callback
      /\ \A g \in Fd : (\A x \in live : ctx[x].fd # g) => H[g] = None
  BY HandlersAreContexts DEF Inv
<1>5. /\ \A x \in live' : N[ctx'[x].fd] = ctx'[x].callback
      /\ \A g \in Fd : (\A x \in live' : ctx'[x].fd # g) => N[g] = None
  BY HandlersAreContexts DEF Inv
<1>6. H = [g \in Fd |-> H[g]] /\ N = [g \in Fd |-> N[g]]
  BY DEF HandlersOf
<1> HIDE DEF H, N
<1>7. H[fd] = None /\ N[fd] = cb
  BY <1>1, <1>2, <1>3, <1>4, <1>5
<1>8. ASSUME NEW g \in Fd, g # fd
      PROVE  N[g] = H[g]
  <2>1. CASE \E x \in live : ctx[x].fd = g
    BY <2>1, <1>1, <1>2, <1>4, <1>5
  <2>2. CASE \A x \in live : ctx[x].fd # g
    <3>1. \A x \in live' : ctx'[x].fd # g
      BY <2>2, <1>1, <1>2, <1>8
    <3> QED
      BY <2>2, <3>1, <1>4, <1>5
  <2> QED
    BY <2>1, <2>2
<1>9. N = [H EXCEPT ![fd] = cb]
  BY <1>6, <1>7, <1>8
<1>10. handler = H /\ handler' = N
  BY DEF handler, H, N, HandlersOf, Find
<1> QED
  BY <1>7, <1>9, <1>10 DEF Abstract!Add, Registers

\* loop_mod_fd changes a handler.
LEMMA ModFdMaps ==
    ASSUME Inv, Inv', NEW fd \in Fd, NEW cb \in Callback, ModFd(fd, cb)
    PROVE  Abstract!Mod(fd, cb)
<1> DEFINE a == Find(fd)
<1>1. a \in live /\ ctx[a].fd = fd
  BY FoundCases DEF Inv, ModFd, Find
<1>2. ctx' = [ctx EXCEPT ![a].callback = cb] /\ UNCHANGED <<live, fd_table, calling>>
  BY DEF ModFd
<1> HIDE DEF a
<1>3. /\ ctx'[a].callback = cb
      /\ \A x \in live : ctx'[x].fd = ctx[x].fd /\ (x # a => ctx'[x] = ctx[x])
  <2>1. \A x \in live : ctx[x] \in [fd : Fd \cup {None}, callback : Callback \cup {None}]
    BY DEF Inv, Types
  <2> QED
    BY <2>1, <1>1, <1>2 DEF Inv, Types
<1> DEFINE H == HandlersOf(fd_table, ctx)
           N == HandlersOf(fd_table', ctx')
<1>4. /\ \A x \in live : H[ctx[x].fd] = ctx[x].callback
      /\ \A g \in Fd : (\A x \in live : ctx[x].fd # g) => H[g] = None
  BY HandlersAreContexts DEF Inv
<1>5. /\ \A x \in live' : N[ctx'[x].fd] = ctx'[x].callback
      /\ \A g \in Fd : (\A x \in live' : ctx'[x].fd # g) => N[g] = None
  BY HandlersAreContexts DEF Inv
<1>6. H = [g \in Fd |-> H[g]] /\ N = [g \in Fd |-> N[g]]
  BY DEF HandlersOf
<1> HIDE DEF H, N
<1>7. H[fd] # None /\ N[fd] = cb
  <2>1. ctx[a].callback \in Callback
    BY <1>1 DEF Inv, Types
  <2> QED
    BY <2>1, <1>1, <1>2, <1>3, <1>4, <1>5, LoopAssumption
<1>8. ASSUME NEW g \in Fd, g # fd
      PROVE  N[g] = H[g]
  <2>1. CASE \E x \in live : ctx[x].fd = g
    <3>1. PICK x \in live : ctx[x].fd = g
      BY <2>1
    <3>2. x # a /\ ctx'[x] = ctx[x]
      BY <3>1, <1>1, <1>3, <1>8
    <3> QED
      BY <3>1, <3>2, <1>2, <1>4, <1>5
  <2>2. CASE \A x \in live : ctx[x].fd # g
    BY <2>2, <1>2, <1>3, <1>4, <1>5
  <2> QED
    BY <2>1, <2>2
<1>9. N = [H EXCEPT ![fd] = cb]
  BY <1>6, <1>7, <1>8
<1>10. handler = H /\ handler' = N
  BY DEF handler, H, N, HandlersOf, Find
<1> QED
  BY <1>2, <1>7, <1>9, <1>10 DEF Abstract!Mod

\* loop_del_fd removes a handler.
LEMMA DelFdMaps ==
    ASSUME Inv, Inv', NEW fd \in Fd, DelFd(fd)
    PROVE  Abstract!Del(fd)
<1> DEFINE a == Find(fd)
<1>1. a \in live /\ ctx[a].fd = fd
  BY FoundCases DEF Inv, DelFd, Find
<1>2. /\ live' = live \ {a}
      /\ ctx' = [ctx EXCEPT ![a] = Garbage]
      /\ calling' = calling /\ (calling # None => calling[1] = fd)
  BY DEF DelFd
<1> HIDE DEF a
<1>3. \A x \in live : x # a => x \in live' /\ ctx'[x] = ctx[x]
  BY <1>2 DEF Inv, Types
<1> DEFINE H == HandlersOf(fd_table, ctx)
           N == HandlersOf(fd_table', ctx')
<1>4. /\ \A x \in live : H[ctx[x].fd] = ctx[x].callback
      /\ \A g \in Fd : (\A x \in live : ctx[x].fd # g) => H[g] = None
  BY HandlersAreContexts DEF Inv
<1>5. /\ \A x \in live' : N[ctx'[x].fd] = ctx'[x].callback
      /\ \A g \in Fd : (\A x \in live' : ctx'[x].fd # g) => N[g] = None
  BY HandlersAreContexts DEF Inv
<1>6. H = [g \in Fd |-> H[g]] /\ N = [g \in Fd |-> N[g]]
  BY DEF HandlersOf
<1>7. \A x \in live : x # a => ctx[x].fd # fd
  BY <1>1, OneContext DEF Inv
<1> HIDE DEF H, N
<1>8. H[fd] # None /\ N[fd] = None
  <2>1. ctx[a].callback \in Callback
    BY <1>1 DEF Inv, Types
  <2>2. \A x \in live' : ctx'[x].fd # fd
    BY <1>2, <1>3, <1>7
  <2> QED
    BY <2>1, <2>2, <1>1, <1>4, <1>5, LoopAssumption
<1>9. ASSUME NEW g \in Fd, g # fd
      PROVE  N[g] = H[g]
  <2>1. CASE \E x \in live : ctx[x].fd = g
    <3>1. PICK x \in live : ctx[x].fd = g
      BY <2>1
    <3>2. x # a /\ x \in live' /\ ctx'[x] = ctx[x]
      BY <3>1, <1>1, <1>3, <1>9
    <3> QED
      BY <3>1, <3>2, <1>4, <1>5
  <2>2. CASE \A x \in live : ctx[x].fd # g
    <3>1. \A x \in live' : ctx'[x].fd # g
      BY <2>2, <1>2, <1>3
    <3> QED
      BY <2>2, <3>1, <1>4, <1>5
  <2> QED
    BY <2>1, <2>2
<1>10. N = [H EXCEPT ![fd] = None]
  BY <1>6, <1>8, <1>9
<1>11. handler = H /\ handler' = N
  BY DEF handler, H, N, HandlersOf, Find
<1> QED
  BY <1>2, <1>8, <1>10, <1>11 DEF Abstract!Del

\* Every step of the loop is a step of Handlers, or none.
LEMMA StepMaps == Inv /\ Inv' /\ [Next]_vars => [Abstract!Next]_<<handler, calling>>
<1> SUFFICES ASSUME Inv, Inv', [Next]_vars
             PROVE  Abstract!Next \/ UNCHANGED <<handler, calling>>
  OBVIOUS
<1>1. UNCHANGED <<fd_table, ctx>> => UNCHANGED handler
  BY DEF handler, Find
<1>2. ASSUME NEW fd \in Fd, NEW cb \in Callback, AddFd(fd, cb) \/ AddTimer(fd, cb)
      PROVE  Abstract!Next
  BY <1>2, RegistersMaps DEF AddFd, AddTimer, Abstract!Next
<1>3. ASSUME NEW fd \in Fd, NEW cb \in Callback, ModFd(fd, cb)
      PROVE  Abstract!Next
  BY <1>3, ModFdMaps DEF Abstract!Next
<1>4. ASSUME NEW fd \in Fd, DelFd(fd)
      PROVE  Abstract!Next
  BY <1>4, DelFdMaps DEF Abstract!Next
<1>5. CASE EpollWait
  BY <1>1, <1>5 DEF EpollWait, memory
<1>6. CASE Dispatch
  <2>1. PICK fd \in Fd, a \in live :
          ctx[a].fd = fd /\ calling' = <<fd, ctx[a].callback>> /\ calling = None
    BY <1>6, DispatchKeepsInv
  <2>2. Found(fd_table, ctx, fd) = a /\ a # None /\ ctx[a].callback # None
    <3>1. Found(fd_table, ctx, ctx[a].fd) = a
      BY FoundIsContext DEF Inv
    <3> QED
      BY <3>1, <2>1, LoopAssumption DEF Inv, Types
  <2>3. handler[fd] = ctx[a].callback
    BY <2>2 DEF handler, Find
  <2>4. UNCHANGED handler
    BY <1>1, <1>6 DEF Dispatch, memory
  <2> QED
    BY <2>1, <2>2, <2>3, <2>4 DEF Abstract!Next, Abstract!Deliver
<1>7. CASE LoopFree
  <2>1. live' = {}
    BY <1>7, LoopFreeKeepsInv
  <2>2. \A fd \in Fd : Found(fd_table', ctx', fd) = None
    BY <2>1, FoundIsNone DEF Inv
  <2>3. handler' = [fd \in Fd |-> None]
    BY <2>2 DEF handler, Find
  <2>4. calling = None /\ UNCHANGED calling
    BY <1>7 DEF LoopFree, Inv
  <2> QED
    BY <2>3, <2>4 DEF Abstract!Next, Abstract!Free
<1>8. CASE \/ \E fd \in Fd : OpenFd(fd) \/ CloseFd(fd) \/ AddFails(fd)
           \/ LoopRun \/ Return \/ LoopAgain \/ EmergencyClose \/ UNCHANGED vars
  <2>1. UNCHANGED handler
    BY <1>1, <1>8, QuietKeepsInv DEF memory
  <2>2. Return \/ UNCHANGED calling
    BY <1>8 DEF OpenFd, CloseFd, AddFails, LoopRun, LoopAgain, EmergencyClose, vars
  <2> QED
    BY <2>1, <2>2 DEF Return, Abstract!Next, Abstract!Return
<1> QED
  BY <1>2, <1>3, <1>4, <1>5, <1>6, <1>7, <1>8 DEF Next

\* The hash table with its chains, rollbacks and reused memory implements the map
\* from descriptors to handlers that event_loop.h describes.
THEOREM TableImplementsHandlers == Spec => ImplementsHandlers
<1> SUFFICES Spec => Abstract!Spec
  BY DEF ImplementsHandlers
<1>1. Init => Abstract!Init
  <2> SUFFICES ASSUME Init PROVE Abstract!Init
    OBVIOUS
  <2>1. Inv /\ live = {}
    BY InitInv DEF Init
  <2>2. \A fd \in Fd : Found(fd_table, ctx, fd) = None
    BY <2>1, FoundIsNone DEF Inv
  <2> QED
    BY <2>2 DEF Init, Abstract!Init, handler, Find
<1>2. Inv /\ Inv' /\ [Next]_vars => [Abstract!Next]_<<handler, calling>>
  BY StepMaps
<1>3. Spec => []Inv
  BY LoopInvariant
<1> QED
  BY <1>1, <1>2, <1>3, PTL DEF Spec, Abstract!Spec, Abstract!vars
=============================================================================
