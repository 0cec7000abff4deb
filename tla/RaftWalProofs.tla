--------------------------- MODULE RaftWalProofs ---------------------------
(***************************************************************************)
(* The write-ahead log, for any terms, candidates and lengths of the log,  *)
(* and whichever of power failures and disk errors may happen: whenever a  *)
(* crash comes, what raft_restore_state reads back is one version of the   *)
(* node.  The argument is that the file, whatever failed before, is always *)
(* the beginning of what raft_persist_state writes for one version, with   *)
(* at most its last block torn.                                            *)
(***************************************************************************)
EXTENDS RaftWal, SequenceTheorems, TLAPS

\* The file w begins as the image of v does; only its last block may be torn.
Cut(w, v) ==
    /\ w \in Seq(Block)
    /\ Len(w) <= Len(v.log) + 1
    /\ \A i \in 1..Len(w) : w[i] = Image(v)[i] \/ (i = Len(w) /\ w[i] = Torn)

\* The file w is the beginning of the image of v and nothing is torn.
Written(w, v) ==
    /\ w \in Seq(Block)
    /\ Len(w) <= Len(v.log) + 1
    /\ \A i \in 1..Len(w) : w[i] = Image(v)[i]

\* What r read back is nothing, or is version v with the end of its log missing.
Cropped(r, v) ==
    \/ r = Fresh
    \/ r.term = v.term /\ r.vote = v.vote /\ IsPrefix(r.log, v.log)

-----------------------------------------------------------------------------
\* The first k elements of a sequence.
LEMMA SubSeqFirst ==
    ASSUME NEW S, NEW s \in Seq(S), NEW k \in 0..Len(s)
    PROVE  /\ SubSeq(s, 1, k) \in Seq(S) /\ Len(SubSeq(s, 1, k)) = k
           /\ \A i \in 1..k : SubSeq(s, 1, k)[i] = s[i]
<1>1. Len(s) \in Nat /\ k \in Nat
  OBVIOUS
<1>2. \A i \in 1..k : s[i] \in S
  BY <1>1, ElementOfSeq
<1>3. /\ SubSeq(s, 1, k) \in Seq(S)
      /\ Len(SubSeq(s, 1, k)) = IF 1 <= k THEN k - 1 + 1 ELSE 0
      /\ \A i \in 1..k - 1 + 1 : SubSeq(s, 1, k)[i] = s[1 + i - 1]
  BY <1>1, <1>2, SubSeqProperties
<1> QED
  BY <1>1, <1>3

\* The image is the header and then the entries.
LEMMA ImageBlocks ==
    ASSUME NEW v \in Version
    PROVE  /\ Image(v) \in Seq(Block)
           /\ Len(v.log) \in Nat /\ Len(Image(v)) = Len(v.log) + 1
           /\ Image(v)[1] = HeaderOf(v)
           /\ \A i \in 1..Len(v.log) : Image(v)[i + 1] = [kind |-> "entry", term |-> v.log[i]]
<1> DEFINE entries == [i \in 1..Len(v.log) |-> [kind |-> "entry", term |-> v.log[i]]]
<1>1. v.log \in Seq(1..MaxTerm) /\ Len(v.log) \in Nat
  BY DEF Version
<1>2. HeaderOf(v) \in Block
  BY DEF HeaderOf, Block, Version
<1>3. \A i \in 1..Len(v.log) : [kind |-> "entry", term |-> v.log[i]] \in Block
  <2> TAKE i \in 1..Len(v.log)
  <2>1. v.log[i] \in 1..MaxTerm
    BY <1>1, ElementOfSeq
  <2>2. [kind |-> "entry", term |-> v.log[i]] \in [kind : {"entry"}, term : 1..MaxTerm]
    BY <2>1
  <2> QED
    BY <2>2 DEF Block
<1>4. entries \in Seq(Block) /\ Len(entries) = Len(v.log)
  BY <1>1, <1>3
<1>5. \A i \in 1..Len(v.log) : entries[i] = [kind |-> "entry", term |-> v.log[i]]
  OBVIOUS
<1> HIDE DEF entries
<1>6. <<HeaderOf(v)>> \in Seq(Block) /\ Len(<<HeaderOf(v)>>) = 1 /\ <<HeaderOf(v)>>[1] = HeaderOf(v)
  BY <1>2
<1>7. Image(v) = <<HeaderOf(v)>> \o entries
  BY DEF Image, entries
<1>8. /\ Image(v) \in Seq(Block)
      /\ Len(Image(v)) = 1 + Len(v.log)
      /\ \A i \in 1..1 + Len(v.log) :
            Image(v)[i] = IF i <= 1 THEN <<HeaderOf(v)>>[i] ELSE entries[i - 1]
  BY <1>4, <1>6, <1>7, ConcatProperties
<1>9. ASSUME NEW i \in 1..Len(v.log)
      PROVE  Image(v)[i + 1] = [kind |-> "entry", term |-> v.log[i]]
  BY <1>1, <1>5, <1>8
<1>10. Image(v)[1] = HeaderOf(v)
  <2>1. 1 \in 1..1 + Len(v.log)
    BY <1>1
  <2> QED
    BY <1>6, <1>8, <2>1
<1> QED
  BY <1>1, <1>8, <1>9, <1>10

\* The kinds of the blocks of an image, and of a torn one.
LEMMA Kinds ==
    ASSUME NEW v \in Version
    PROVE  /\ Torn.kind = "torn" /\ Image(v)[1].kind = "header"
           /\ Image(v)[1].term = v.term /\ Image(v)[1].vote = v.vote
           /\ \A i \in 2..Len(v.log) + 1 :
                 Image(v)[i].kind = "entry" /\ Image(v)[i].term = v.log[i - 1]
<1>1. Torn.kind = "torn"
  BY DEF Torn
<1>2. /\ HeaderOf(v).kind = "header" /\ HeaderOf(v).term = v.term /\ HeaderOf(v).vote = v.vote
  BY DEF HeaderOf
<1>3. ASSUME NEW i \in 2..Len(v.log) + 1
      PROVE  Image(v)[i].kind = "entry" /\ Image(v)[i].term = v.log[i - 1]
  <2>1. Len(v.log) \in Nat
    BY ImageBlocks
  <2>2. i - 1 \in 1..Len(v.log) /\ (i - 1) + 1 = i
    BY <2>1
  <2>3. Image(v)[(i - 1) + 1] = [kind |-> "entry", term |-> v.log[i - 1]]
    BY <2>2, ImageBlocks
  <2> QED
    BY <2>2, <2>3
<1> QED
  BY <1>1, <1>2, <1>3, ImageBlocks

\* raft_restore_state on a file whose first m blocks are those of an image of v
\* and whose next block, if any, is torn and the last one.
LEMMA RestoredLog ==
    ASSUME NEW v \in Version, NEW w \in Seq(Block), NEW m \in 1..Len(v.log) + 1,
           m <= Len(w), Len(w) <= m + 1,
           \A i \in 1..m : w[i] = Image(v)[i],
           Len(w) = m + 1 => w[m + 1] = Torn
    PROVE  Restored(w) = [term |-> v.term, vote |-> v.vote,
                          log |-> [i \in 1..m - 1 |-> v.log[i]]]
<1>0. Len(w) \in Nat /\ Len(v.log) \in Nat /\ m \in Nat /\ m >= 1
  BY ImageBlocks
<1>1. w # <<>> /\ w[1] = Image(v)[1] /\ w[1].kind = "header"
  BY <1>0, Kinds
<1> DEFINE taken == {k \in 1..Len(w) : \A i \in 2..k : Intact(w[i])}
           last == CHOOSE k \in taken : \A j \in taken : j <= k
<1>2. m \in taken
  <2> SUFFICES ASSUME NEW i \in 2..m PROVE Intact(w[i])
    BY <1>0
  <2>1. w[i] = Image(v)[i] /\ i \in 2..Len(v.log) + 1
    BY <1>0
  <2> QED
    BY <2>1, Kinds DEF Intact
<1>3. ASSUME NEW j \in taken PROVE j <= m
  <2> SUFFICES ASSUME j = m + 1 PROVE FALSE
    BY <1>0
  <2>1. w[m + 1] = Torn
    BY <1>0
  <2>2. Intact(w[m + 1])
    BY <1>0
  <2> QED
    BY <2>1, <2>2, Kinds DEF Intact
<1>4. last \in taken /\ \A j \in taken : j <= last
  BY <1>2, <1>3
<1>5. last = m
  BY <1>0, <1>2, <1>3, <1>4
<1>6. Restored(w) = [term |-> w[1].term, vote |-> w[1].vote,
                     log |-> [i \in 1..last - 1 |-> w[i + 1].term]]
  BY <1>1 DEF Restored
<1> HIDE DEF last
<1>7. ASSUME NEW i \in 1..m - 1 PROVE w[i + 1].term = v.log[i]
  <2>1. i + 1 \in 1..m /\ i + 1 \in 2..Len(v.log) + 1 /\ (i + 1) - 1 = i
    BY <1>0
  <2> QED
    BY <2>1, Kinds
<1>8. [i \in 1..last - 1 |-> w[i + 1].term] = [i \in 1..m - 1 |-> v.log[i]]
  BY <1>5, <1>7
<1> QED
  BY <1>1, <1>6, <1>8, Kinds

\* What is read back from a file that was cut somewhere is a version of the node,
\* and the version that the file was written for, cropped.
LEMMA RestoredCut ==
    ASSUME NEW v \in Version, NEW w, Cut(w, v)
    PROVE  Restored(w) \in Version /\ Cropped(Restored(w), v)
<1>0. w \in Seq(Block) /\ Len(w) \in Nat /\ Len(v.log) \in Nat
  BY ImageBlocks DEF Cut
<1>1. Fresh \in Version
  BY WalAssumption DEF Fresh, Version
<1>2. CASE Len(w) = 0
  <2>1. w = <<>>
    BY <1>0, <1>2, EmptySeq
  <2> QED
    BY <1>1, <2>1 DEF Restored, Cropped
<1>3. CASE Len(w) = 1 /\ w[1] = Torn
  <2>1. w[1].kind # "header"
    BY <1>3, Kinds
  <2> QED
    BY <1>1, <2>1 DEF Restored, Cropped
<1>4. CASE Len(w) > 0 /\ ~(Len(w) = 1 /\ w[1] = Torn)
  <2> DEFINE m == IF w[Len(w)] = Torn THEN Len(w) - 1 ELSE Len(w)
  <2>1. /\ m \in 1..Len(v.log) + 1 /\ m <= Len(w) /\ Len(w) <= m + 1
        /\ Len(w) = m + 1 => w[m + 1] = Torn
    <3>0. Len(w) <= Len(v.log) + 1
      BY DEF Cut
    <3>1. CASE w[Len(w)] = Torn
      <4>0. m = Len(w) - 1 /\ Len(w) # 1
        BY <1>4, <3>1
      <4> HIDE DEF m
      <4>1. Len(w) >= 2 /\ m = Len(w) - 1
        BY <1>0, <1>4, <4>0
      <4>2. m + 1 = Len(w)
        BY <1>0, <4>1
      <4> QED
        BY <1>0, <3>0, <3>1, <4>1, <4>2
    <3>2. CASE w[Len(w)] # Torn
      <4>1. m = Len(w)
        BY <3>2
      <4> HIDE DEF m
      <4> QED
        BY <1>0, <1>4, <3>0, <4>1
    <3> QED
      BY <3>1, <3>2
  <2>2. \A i \in 1..m : w[i] = Image(v)[i]
    <3> TAKE i \in 1..m
    <3>1. i \in 1..Len(w) /\ (i = Len(w) => w[i] # Torn)
      BY <1>0, <2>1
    <3> QED
      BY <3>1 DEF Cut
  <2> HIDE DEF m
  <2> DEFINE l == [i \in 1..m - 1 |-> v.log[i]]
  <2>3. Restored(w) = [term |-> v.term, vote |-> v.vote, log |-> l]
    BY <1>0, <2>1, <2>2, RestoredLog
  <2>4. v.log \in Seq(1..MaxTerm) /\ v.term \in 0..MaxTerm /\ v.vote \in Candidate \cup {Nil}
    BY DEF Version
  <2>5. \A i \in 1..m - 1 : v.log[i] \in 1..MaxTerm
    <3> TAKE i \in 1..m - 1
    <3>1. i \in 1..Len(v.log)
      BY <1>0, <2>1
    <3> QED
      BY <2>4, <3>1, ElementOfSeq
  <2>6. l \in Seq(1..MaxTerm) /\ Len(l) = m - 1 /\ m - 1 \in Nat /\ m - 1 <= Len(v.log)
    BY <1>0, <2>1, <2>5
  <2>7. \A i \in 1..m - 1 : l[i] = v.log[i]
    OBVIOUS
  <2> HIDE DEF l
  <2>8. IsPrefix(l, v.log)
    <3>0. Len(l) \in 0..Len(l) /\ Len(l) \in 0..Len(v.log)
      BY <1>0, <2>6
    <3>1. /\ SubSeq(l, 1, Len(l)) \in Seq(1..MaxTerm)
          /\ Len(SubSeq(l, 1, Len(l))) = m - 1
          /\ \A i \in 1..m - 1 : SubSeq(l, 1, Len(l))[i] = l[i]
      BY <2>6, <3>0, SubSeqFirst
    <3>2. /\ SubSeq(v.log, 1, Len(l)) \in Seq(1..MaxTerm)
          /\ Len(SubSeq(v.log, 1, Len(l))) = m - 1
          /\ \A i \in 1..m - 1 : SubSeq(v.log, 1, Len(l))[i] = v.log[i]
      BY <2>4, <2>6, <3>0, SubSeqFirst
    <3>3. SubSeq(l, 1, Len(l)) = SubSeq(v.log, 1, Len(l))
      BY <2>7, <3>1, <3>2, SeqEqual
    <3> QED
      BY <2>6, <3>3 DEF IsPrefix
  <2> QED
    BY <2>3, <2>4, <2>6, <2>8 DEF Version, Cropped
<1> QED
  BY <1>0, <1>2, <1>3, <1>4

\* raft_persist_state and raft_restore_state are inverse.
LEMMA RestoredImage ==
    ASSUME NEW v \in Version
    PROVE  Restored(Image(v)) = v
<1>1. /\ Image(v) \in Seq(Block) /\ Len(v.log) \in Nat /\ Len(Image(v)) = Len(v.log) + 1
  BY ImageBlocks
<1> DEFINE m == Len(v.log) + 1
<1>2. m \in 1..Len(v.log) + 1 /\ m <= Len(Image(v)) /\ Len(Image(v)) <= m + 1 /\ Len(Image(v)) # m + 1
  BY <1>1
<1>3. m - 1 = Len(v.log)
  BY <1>1
<1> HIDE DEF m
<1>4. Restored(Image(v)) = [term |-> v.term, vote |-> v.vote, log |-> [i \in 1..m - 1 |-> v.log[i]]]
  BY <1>1, <1>2, RestoredLog
<1>5. v.log = [i \in 1..Len(v.log) |-> v.log[i]]
  BY DEF Version
<1>6. v = [term |-> v.term, vote |-> v.vote, log |-> v.log]
  BY DEF Version
<1> QED
  BY <1>3, <1>4, <1>5, <1>6

-----------------------------------------------------------------------------
WalTypes ==
    /\ node \in Version /\ acked \in Version
    /\ pc \in {"idle", "writing", "down"}
    /\ dirty \in BOOLEAN /\ sound \in BOOLEAN

\* The file, and the file as last fsynced, were each written for some version.
FilesCut ==
    /\ \E v \in Version : Cut(wal, v)
    /\ \E v \in Version : Cut(synced, v)

\* Where the file stands against the memory, by what persist_state is doing.
Stands ==
    /\ ~dirty => synced = wal
    /\ pc = "writing" => dirty /\ Written(wal, node)
    /\ pc = "writing" /\ sound => Restored(synced) = acked
    /\ pc = "idle" /\ sound => Restored(wal) = node /\ ~dirty /\ acked = node
    /\ pc = "down" => ~dirty
    /\ pc = "down" /\ sound =>
          Cropped(Restored(wal), acked) \/ Cropped(Restored(wal), node)

WalInv == WalTypes /\ FilesCut /\ Stands

\* A file with nothing torn is also one that was cut.
LEMMA WrittenIsCut ==
    ASSUME NEW w, NEW v, Written(w, v)
    PROVE  Cut(w, v)
BY DEF Written, Cut

\* The empty file.
LEMMA EmptyIsWritten ==
    ASSUME NEW v \in Version
    PROVE  Written(<<>>, v)
<1>1. <<>> \in Seq(Block) /\ Len(<<>>) = 0 /\ Len(v.log) \in Nat
  BY ImageBlocks
<1> QED
  BY <1>1 DEF Written

\* One more block of the image.
LEMMA WrittenNext ==
    ASSUME NEW v \in Version, NEW w, Written(w, v), Len(w) < Len(Image(v))
    PROVE  /\ Written(Append(w, Image(v)[Len(w) + 1]), v)
           /\ Cut(Append(w, Torn), v)
<1>1. /\ w \in Seq(Block) /\ Len(w) \in Nat /\ Len(v.log) \in Nat
      /\ Image(v) \in Seq(Block) /\ Len(Image(v)) = Len(v.log) + 1
  BY ImageBlocks DEF Written
<1>2. Len(w) + 1 \in 1..Len(Image(v)) /\ Len(w) + 1 <= Len(v.log) + 1
  BY <1>1
<1>3. Image(v)[Len(w) + 1] \in Block /\ Torn \in Block
  BY <1>1, <1>2, ElementOfSeq DEF Block
<1>4. ASSUME NEW b \in Block
      PROVE  /\ Append(w, b) \in Seq(Block) /\ Len(Append(w, b)) = Len(w) + 1
             /\ Append(w, b)[Len(w) + 1] = b
             /\ \A i \in 1..Len(w) : Append(w, b)[i] = Image(v)[i]
  BY <1>1, AppendProperties DEF Written
<1>5. \A i \in 1..Len(w) + 1 : i \in 1..Len(w) \/ i = Len(w) + 1
  BY <1>1
<1>6. Written(Append(w, Image(v)[Len(w) + 1]), v)
  BY <1>2, <1>3, <1>4, <1>5 DEF Written
<1>7. Cut(Append(w, Torn), v)
  BY <1>2, <1>3, <1>4, <1>5 DEF Cut
<1> QED
  BY <1>6, <1>7

\* What a power failure leaves of a file that was cut is still cut.
LEMMA LostIsCut ==
    ASSUME NEW v \in Version, NEW w, Cut(w, v)
    PROVE  /\ \A k \in 0..Len(w) : Cut(SubSeq(w, 1, k), v)
           /\ \A k \in 0..Len(w) - 1 : Cut(Append(SubSeq(w, 1, k), Torn), v)
<1>1. w \in Seq(Block) /\ Len(w) \in Nat /\ Len(v.log) \in Nat /\ Len(w) <= Len(v.log) + 1
  BY ImageBlocks DEF Cut
<1>2. ASSUME NEW k \in 0..Len(w) PROVE Cut(SubSeq(w, 1, k), v)
  <2>1. /\ SubSeq(w, 1, k) \in Seq(Block) /\ Len(SubSeq(w, 1, k)) = k
        /\ \A i \in 1..k : SubSeq(w, 1, k)[i] = w[i]
    BY <1>1, SubSeqFirst
  <2>2. k <= Len(v.log) + 1
    BY <1>1
  <2>3. \A i \in 1..k : w[i] = Image(v)[i] \/ (i = k /\ w[i] = Torn)
    BY <1>1 DEF Cut
  <2> QED
    BY <2>1, <2>2, <2>3 DEF Cut
<1>3. ASSUME NEW k \in 0..Len(w) - 1 PROVE Cut(Append(SubSeq(w, 1, k), Torn), v)
  <2>0. k \in 0..Len(w) /\ k \in Nat /\ Torn \in Block
    BY <1>1 DEF Block
  <2>1. /\ SubSeq(w, 1, k) \in Seq(Block) /\ Len(SubSeq(w, 1, k)) = k
        /\ \A i \in 1..k : SubSeq(w, 1, k)[i] = w[i]
    BY <1>1, <2>0, SubSeqFirst
  <2> DEFINE x == Append(SubSeq(w, 1, k), Torn)
  <2>2. /\ x \in Seq(Block) /\ Len(x) = k + 1 /\ x[k + 1] = Torn
        /\ \A i \in 1..k : x[i] = w[i]
    BY <2>0, <2>1, AppendProperties
  <2> HIDE DEF x
  <2>3. \A i \in 1..k : w[i] = Image(v)[i]
    BY <1>1 DEF Cut
  <2>4. \A i \in 1..k + 1 : i \in 1..k \/ i = k + 1
    BY <2>0
  <2>5. k + 1 <= Len(v.log) + 1
    BY <1>1
  <2>6. Cut(x, v)
    BY <2>2, <2>3, <2>4, <2>5 DEF Cut
  <2> QED
    BY <2>6 DEF x
<1> QED
  BY <1>2, <1>3

\* A handler leaves a version behind.
LEMMA ChangedIsVersion ==
    ASSUME NEW v \in Version
    PROVE  Changed(v) \subseteq Version
<1>1. /\ v.term \in 0..MaxTerm /\ v.vote \in Candidate \cup {Nil}
      /\ v.log \in Seq(1..MaxTerm) /\ Len(v.log) \in Nat /\ MaxTerm \in Nat
  BY WalAssumption DEF Version
<1>2. ASSUME NEW t \in v.term + 1 .. MaxTerm, NEW c \in Candidate \cup {Nil}
      PROVE  [term |-> t, vote |-> c, log |-> v.log] \in Version
  <2>1. t \in 0..MaxTerm
    BY <1>1
  <2> QED
    BY <1>1, <2>1 DEF Version
<1>3. ASSUME NEW c \in Candidate \cup {Nil}
      PROVE  [v EXCEPT !.vote = c] \in Version
  BY DEF Version
<1>4. ASSUME NEW k \in 0..Len(v.log), NEW t \in 1..v.term
      PROVE  [v EXCEPT !.log = Append(SubSeq(v.log, 1, k), t)] \in Version
  <2>1. t \in 1..MaxTerm
    BY <1>1
  <2>2. SubSeq(v.log, 1, k) \in Seq(1..MaxTerm)
    BY <1>1, SubSeqFirst
  <2>3. Append(SubSeq(v.log, 1, k), t) \in Seq(1..MaxTerm)
    BY <2>1, <2>2, AppendProperties
  <2> QED
    BY <2>3 DEF Version
<1> SUFFICES ASSUME NEW u \in Changed(v) PROVE u \in Version
  OBVIOUS
<1> DEFINE terms == {[term |-> t, vote |-> c, log |-> v.log] :
                        t \in v.term + 1 .. MaxTerm, c \in Candidate \cup {Nil}}
           votes == {[v EXCEPT !.vote = c] : c \in IF v.vote = Nil THEN Candidate ELSE {Nil}}
           logs == {[v EXCEPT !.log = Append(SubSeq(v.log, 1, k), t)] :
                       k \in {j \in 0..Len(v.log) : j < MaxLog}, t \in 1..v.term}
<1>5. u \in {v} \cup terms \cup votes \cup logs
  BY DEF Changed
<1>6. u \in terms => u \in Version
  BY <1>2
<1>7. u \in votes => u \in Version
  BY <1>3
<1>8. u \in logs => u \in Version
  BY <1>4
<1> HIDE DEF terms, votes, logs
<1> QED
  BY <1>5, <1>6, <1>7, <1>8

-----------------------------------------------------------------------------
\* A handler starts to persist: the file is truncated.
LEMMA OpenStep ==
    ASSUME WalInv, Open
    PROVE  WalInv'
<1>1. node' \in Version
  BY ChangedIsVersion DEF Open, WalInv, WalTypes
<1>2. WalTypes'
  BY <1>1 DEF Open, WalInv, WalTypes
<1>3. Written(wal', node')
  BY <1>1, EmptyIsWritten DEF Open
<1>4. FilesCut'
  BY <1>1, <1>3, WrittenIsCut DEF Open, WalInv, FilesCut
<1>5. sound => Restored(synced) = acked
  BY DEF Open, WalInv, Stands
<1>6. Stands'
  BY <1>3, <1>5 DEF Open, Stands
<1> QED
  BY <1>2, <1>4, <1>6 DEF WalInv

\* The disk fails and the handler goes on: open, write or fsync.
LEMMA FailStep ==
    ASSUME WalInv, OpenFails \/ WriteFails \/ FsyncFails
    PROVE  WalInv'
<1>1. pc' = "idle" /\ sound' = FALSE /\ dirty' = dirty /\ synced' = synced /\ acked' = node'
  BY DEF OpenFails, WriteFails, FsyncFails
<1>2. node' \in Version
  BY ChangedIsVersion DEF OpenFails, WriteFails, FsyncFails, WalInv, WalTypes
<1>3. WalTypes'
  BY <1>1, <1>2 DEF WalInv, WalTypes
<1>4. wal' = wal \/ WriteFails
  BY DEF OpenFails, WriteFails, FsyncFails
<1>5. CASE WriteFails
  <2>1. dirty /\ Written(wal, node) /\ node \in Version /\ Len(wal) < Len(Image(node))
    BY <1>5 DEF WriteFails, WalInv, Stands, WalTypes
  <2>2. Cut(wal, node) /\ Cut(Append(wal, Torn), node)
    BY <2>1, WrittenIsCut, WrittenNext
  <2>3. Cut(wal', node)
    BY <1>5, <2>2 DEF WriteFails
  <2>4. FilesCut'
    BY <1>1, <2>1, <2>3 DEF WalInv, FilesCut
  <2>5. Stands'
    BY <1>1, <2>1 DEF Stands
  <2> QED
    BY <1>3, <2>4, <2>5 DEF WalInv
<1>6. CASE wal' = wal
  <2>1. FilesCut'
    BY <1>1, <1>6 DEF WalInv, FilesCut
  <2>2. Stands'
    BY <1>1, <1>6 DEF WalInv, Stands
  <2> QED
    BY <1>3, <2>1, <2>2 DEF WalInv
<1> QED
  BY <1>4, <1>5, <1>6

\* One more block is written.
LEMMA WriteStep ==
    ASSUME WalInv, Write
    PROVE  WalInv'
<1>1. WalTypes'
  BY DEF Write, WalInv, WalTypes
<1>2. dirty /\ Written(wal, node) /\ node \in Version /\ Len(wal) < Len(Image(node))
  BY DEF Write, WalInv, Stands, WalTypes
<1>3. Written(wal', node)
  BY <1>2, WrittenNext DEF Write
<1>4. FilesCut'
  BY <1>2, <1>3, WrittenIsCut DEF Write, WalInv, FilesCut
<1>5. Stands'
  BY <1>2, <1>3 DEF Write, WalInv, Stands
<1> QED
  BY <1>1, <1>4, <1>5 DEF WalInv

\* The file is complete and fsynced.
LEMMA FsyncStep ==
    ASSUME WalInv, Fsync
    PROVE  WalInv'
<1>1. WalTypes'
  BY DEF Fsync, WalInv, WalTypes
<1>2. wal = Image(node) /\ wal' = wal /\ synced' = wal /\ node' = node /\ node \in Version
  BY DEF Fsync, WalInv, WalTypes
<1>3. FilesCut'
  BY <1>2 DEF WalInv, FilesCut
<1>4. Restored(wal') = node'
  BY <1>2, RestoredImage
<1>5. Stands'
  BY <1>2, <1>4 DEF Fsync, Stands
<1> QED
  BY <1>1, <1>3, <1>5 DEF WalInv

\* A crash: whatever is left of the file was written for one version, and if the
\* disk has not failed that is the version in force or the one being written.
LEMMA CrashStep ==
    ASSUME WalInv, Crash
    PROVE  WalInv'
<1>1. WalTypes'
  BY DEF Crash, WalInv, WalTypes
<1>2. PICK v \in Version : Cut(wal, v) /\ (pc = "writing" => v = node)
  <2>1. CASE pc = "writing"
    BY <2>1, WrittenIsCut DEF WalInv, WalTypes, Stands
  <2>2. CASE pc # "writing"
    BY <2>2 DEF WalInv, FilesCut
  <2> QED
    BY <2>1, <2>2
<1>3. \/ wal' = wal
      \/ dirty /\ wal' = synced
      \/ Cut(wal', v) /\ (pc = "writing" \/ dirty)
  <2>1. pc = "writing" /\ Len(wal) < Len(Image(node)) => Cut(Append(wal, Torn), v)
    BY <1>2, WrittenNext DEF WalInv, Stands
  <2>2. \A x \in {SubSeq(wal, 1, k) : k \in 0..Len(wal)} : Cut(x, v)
    BY <1>2, LostIsCut
  <2>3. \A x \in {Append(SubSeq(wal, 1, k), Torn) : k \in 0..Len(wal) - 1} : Cut(x, v)
    BY <1>2, LostIsCut
  <2>4. wal' \in Survivors
    BY DEF Crash
  <2> QED
    BY <2>1, <2>2, <2>3, <2>4 DEF Survivors
<1>4. FilesCut'
  <2>1. synced' = wal'
    BY DEF Crash
  <2>2. \E u \in Version : Cut(wal', u)
    BY <1>2, <1>3 DEF WalInv, FilesCut
  <2> QED
    BY <2>1, <2>2 DEF FilesCut
<1>5. ASSUME sound PROVE Cropped(Restored(wal'), acked) \/ Cropped(Restored(wal'), node)
  <2>0. \A u \in Version : Cropped(u, u)
    BY DEF Cropped, IsPrefix, Version
  <2>1. CASE pc = "writing"
    <3>1. Cropped(Restored(wal), node)
      BY <1>2, <2>1, RestoredCut
    <3>2. Cut(wal', v) => Cropped(Restored(wal'), node)
      BY <1>2, <2>1, RestoredCut
    <3>3. Restored(synced) = acked /\ acked \in Version
      BY <1>5, <2>1 DEF WalInv, Stands, WalTypes
    <3> QED
      BY <1>3, <2>0, <3>1, <3>2, <3>3
  <2>2. CASE pc = "idle"
    <3>1. Restored(wal) = node /\ ~dirty /\ node \in Version
      BY <1>5, <2>2 DEF WalInv, Stands, WalTypes
    <3> QED
      BY <1>3, <2>0, <2>2, <3>1
  <2> QED
    BY <2>1, <2>2 DEF Crash, WalInv, WalTypes
<1>6. Stands'
  BY <1>5 DEF Crash, Stands
<1> QED
  BY <1>1, <1>4, <1>6 DEF WalInv

\* A restart reads the file back.
LEMMA RestartStep ==
    ASSUME WalInv, Restart
    PROVE  WalInv'
<1>1. Restored(wal) \in Version
  BY RestoredCut DEF WalInv, FilesCut
<1>2. WalTypes'
  BY <1>1 DEF Restart, WalInv, WalTypes
<1>3. FilesCut'
  BY DEF Restart, WalInv, FilesCut
<1>4. Stands'
  BY DEF Restart, WalInv, Stands
<1> QED
  BY <1>2, <1>3, <1>4 DEF WalInv

\* The invariant behind the properties of the file.
THEOREM WalInvariant == Spec => []WalInv
<1>1. Init => WalInv
  <2> SUFFICES ASSUME Init PROVE WalInv
    OBVIOUS
  <2>1. Fresh \in Version
    BY WalAssumption DEF Fresh, Version
  <2>2. Cut(<<>>, Fresh)
    BY <2>1, EmptyIsWritten, WrittenIsCut
  <2>3. Restored(<<>>) = Fresh
    BY DEF Restored
  <2>4. WalTypes
    BY <2>1 DEF Init, WalTypes
  <2>5. FilesCut
    BY <2>1, <2>2 DEF Init, FilesCut
  <2>6. Stands
    BY <2>3 DEF Init, Stands
  <2> QED
    BY <2>4, <2>5, <2>6 DEF WalInv
<1>2. WalInv /\ [Next]_vars => WalInv'
  <2> SUFFICES ASSUME WalInv, [Next]_vars PROVE WalInv'
    OBVIOUS
  <2>1. CASE UNCHANGED vars
    BY <2>1 DEF vars, WalInv, WalTypes, FilesCut, Stands
  <2> QED
    BY <2>1, OpenStep, FailStep, WriteStep, FsyncStep, CrashStep, RestartStep DEF Next
<1> QED
  BY <1>1, <1>2, PTL DEF Spec

\* What a restart recovers, whatever the crash left of the file, is again a state
\* that raft_persist_state can write.
THEOREM WalTypesHold == Spec => []TypeOK
<1>1. WalInv => TypeOK
  BY DEF WalInv, WalTypes, FilesCut, Cut, TypeOK
<1> QED
  BY <1>1, WalInvariant, PTL

\* raft_persist_state and raft_restore_state are inverse, for every term, vote
\* and log, after any sequence of failures and crashes.
THEOREM PersistRestores == Spec => []PersistedIsMemory
<1>1. WalInv => PersistedIsMemory
  BY DEF WalInv, Stands, PersistedIsMemory
<1> QED
  BY <1>1, WalInvariant, PTL

\* A crash at any moment leaves a file that reads back as nothing or as one
\* version: never the term of one with the vote or the entries of another.
THEOREM CrashLeavesOneVersion == Spec => []RestoredIsOneVersion
<1>1. WalInv => RestoredIsOneVersion
  <2> SUFFICES ASSUME WalInv, sound
               PROVE  Cropped(Restored(wal), acked) \/ Cropped(Restored(wal), node)
    BY DEF Cropped, RestoredIsOneVersion
  <2>1. CASE pc = "idle"
    BY <2>1 DEF WalInv, Stands, Cropped, IsPrefix, WalTypes, Version
  <2>2. CASE pc = "writing"
    BY <2>2, WrittenIsCut, RestoredCut DEF WalInv, Stands, WalTypes
  <2>3. CASE pc = "down"
    BY <2>3 DEF WalInv, Stands
  <2> QED
    BY <2>1, <2>2, <2>3 DEF WalInv, WalTypes
<1> QED
  BY <1>1, WalInvariant, PTL
=============================================================================
