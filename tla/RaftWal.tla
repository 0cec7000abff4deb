------------------------------ MODULE RaftWal ------------------------------
(***************************************************************************)
(* The write-ahead log of one Raft node (src/src/cluster/                  *)
(* raft_persistence.c): raft_persist_state rewrites the whole file in      *)
(* place, raft_restore_state reads it back at start-up.                    *)
(*                                                                         *)
(* The file is a sequence of blocks: the header, then one block per log    *)
(* entry.  A block that was cut short, or whose checksum is missing, is    *)
(* Torn: its bytes are there, its checksum does not match.  An absent, an  *)
(* empty and a headless file are read alike and are all <<>> or <<Torn>>.  *)
(* An entry is its term, as in RaftCore; term 0 stands for unset bytes.    *)
(***************************************************************************)
EXTENDS Naturals, Sequences, SequencesExt

CONSTANTS
    Candidate,     \* who this node may vote for, itself included
    Nil,           \* the empty voted_for string
    MaxTerm,       \* bound: no newer term than this is met
    MaxLog,        \* bound: the log does not grow beyond this
    PowerFails,    \* whether what was not fsynced may be lost
    DiskErrors     \* whether open and write may fail

ASSUME WalAssumption ==
    /\ Nil \notin Candidate
    /\ MaxTerm \in Nat /\ MaxLog \in Nat
    /\ PowerFails \in BOOLEAN /\ DiskErrors \in BOOLEAN

VARIABLES
    node,      \* term, vote and log in memory; the version being written
    pc,        \* "idle", "writing" (between open and fsync) or "down"
    wal,       \* the file as a process reads it
    synced,    \* the file as of the last fsync or reboot
    dirty,     \* whether wal holds writes that were not fsynced
    acked,     \* history: the version in force, the one that persist_state
               \* last returned for or that the last restart recovered
    sound      \* history: whether no disk operation has failed since the last
               \* persist that succeeded, or restart

vars == <<node, pc, wal, synced, dirty, acked, sound>>

Fresh == [term |-> 0, vote |-> Nil, log |-> <<>>]

Torn == [kind |-> "torn", term |-> 0]

-----------------------------------------------------------------------------
HeaderOf_NoVote(v) == [kind |-> "header", term |-> v.term, vote |-> Nil]
HeaderOf(v) == [kind |-> "header", term |-> v.term, vote |-> v.vote]

\* The blocks raft_persist_state writes for memory v.
Image(v) ==
    <<HeaderOf(v)>> \o [i \in 1..Len(v.log) |-> [kind |-> "entry", term |-> v.log[i]]]

\* Whether the entry loop of raft_restore_state takes a block or stops at it.
Intact_NoChecksum(b) == b.kind \in {"entry", "torn"}
Intact(b) == b.kind = "entry"

\* raft_restore_state into a node fresh from raft_init: nothing without a
\* header, otherwise its fields and the entries up to the first bad block.
Restored(w) ==
    IF w = <<>> \/ w[1].kind # "header" THEN Fresh
    ELSE LET taken == {k \in 1..Len(w) : \A i \in 2..k : Intact(w[i])}
             last == CHOOSE k \in taken : \A j \in taken : j <= k
         IN [term |-> w[1].term, vote |-> w[1].vote,
             log |-> [i \in 1..last - 1 |-> w[i + 1].term]]

-----------------------------------------------------------------------------
Init ==
    /\ node = Fresh
    /\ pc = "idle"
    /\ wal = <<>>
    /\ synced = <<>>
    /\ dirty = FALSE
    /\ acked = Fresh
    /\ sound = TRUE

\* What raft_core.c may have changed when it calls persist_state: a newer term,
\* with no vote or its own; a vote; a log that was cut and extended; nothing at
\* all (every accepted heartbeat persists).
Changed(v) ==
    {v}
    \cup {[term |-> t, vote |-> c, log |-> v.log] :
            t \in v.term + 1 .. MaxTerm, c \in Candidate \cup {Nil}}
    \cup {[v EXCEPT !.vote = c] : c \in IF v.vote = Nil THEN Candidate ELSE {Nil}}
    \cup {[v EXCEPT !.log = Append(SubSeq(v.log, 1, k), t)] :
            k \in {j \in 0..Len(v.log) : j < MaxLog}, t \in 1..v.term}

\* A handler changes the memory and persist_state opens the file, truncating it.
Open ==
    /\ pc = "idle"
    /\ node' \in Changed(node)
    /\ pc' = "writing"
    /\ wal' = <<>>
    /\ dirty' = TRUE
    /\ UNCHANGED <<synced, acked, sound>>

\* open() fails: the error is logged, persist_state drops it, the handler goes on.
OpenFails ==
    /\ DiskErrors
    /\ pc = "idle"
    /\ node' \in Changed(node)
    /\ acked' = node'
    /\ sound' = FALSE
    /\ UNCHANGED <<pc, wal, synced, dirty>>

\* The header, or the next entry with its checksum, is written.
Write ==
    /\ pc = "writing"
    /\ Len(wal) < Len(Image(node))
    /\ wal' = Append(wal, Image(node)[Len(wal) + 1])
    /\ UNCHANGED <<node, pc, synced, dirty, acked, sound>>

\* write() fails or is short: persist returns -1 without fsync, which is dropped.
WriteFails ==
    /\ DiskErrors
    /\ pc = "writing"
    /\ Len(wal) < Len(Image(node))
    /\ wal' \in {wal, Append(wal, Torn)}
    /\ pc' = "idle"
    /\ acked' = node
    /\ sound' = FALSE
    /\ UNCHANGED <<node, synced, dirty>>

\* All blocks are written; fsync, close, and the handler goes on to respond.
Fsync ==
    /\ pc = "writing"
    /\ wal = Image(node)
    /\ pc' = "idle"
    /\ synced' = wal
    /\ dirty' = FALSE
    /\ acked' = node
    /\ sound' = TRUE
    /\ UNCHANGED <<node, wal>>

\* fsync() fails: its result is not looked at, the writes stay unsynced.
FsyncFails ==
    /\ DiskErrors
    /\ pc = "writing"
    /\ wal = Image(node)
    /\ pc' = "idle"
    /\ acked' = node
    /\ sound' = FALSE
    /\ UNCHANGED <<node, wal, synced, dirty>>

\* What a crash may leave of the file: all that was written, the block being
\* written torn; after a power failure also less, or what was last fsynced.
Survivors ==
    LET cut == {wal} \cup (IF pc = "writing" /\ Len(wal) < Len(Image(node))
                           THEN {Append(wal, Torn)} ELSE {})
        lost == {SubSeq(wal, 1, k) : k \in 0..Len(wal)}
                \cup {Append(SubSeq(wal, 1, k), Torn) : k \in 0..Len(wal) - 1}
    IN IF PowerFails /\ dirty THEN cut \cup lost \cup {synced} ELSE cut

Crash ==
    /\ pc # "down"
    /\ pc' = "down"
    /\ wal' \in Survivors
    /\ synced' = wal'
    /\ dirty' = FALSE
    /\ UNCHANGED <<node, acked, sound>>

\* example_raft_init: raft_init, then raft_restore_state, whose result is dropped.
Restart ==
    /\ pc = "down"
    /\ pc' = "idle"
    /\ node' = Restored(wal)
    /\ acked' = node'
    /\ sound' = TRUE
    /\ UNCHANGED <<wal, synced, dirty>>

Next ==
    \/ Open \/ OpenFails \/ Write \/ WriteFails \/ Fsync \/ FsyncFails
    \/ Crash \/ Restart

Spec == Init /\ [][Next]_vars

-----------------------------------------------------------------------------
Version ==
    [term : 0..MaxTerm, vote : Candidate \cup {Nil}, log : Seq(1..MaxTerm)]

Block ==
    [kind : {"header"}, term : 0..MaxTerm, vote : Candidate \cup {Nil}]
    \cup [kind : {"entry"}, term : 1..MaxTerm]
    \cup {Torn}

\* Memory, file and history hold values of their types; what raft_restore_state
\* reads back, whatever a crash left of the file, is again a node's state.
TypeOK ==
    /\ node \in Version
    /\ acked \in Version
    /\ pc \in {"idle", "writing", "down"}
    /\ wal \in Seq(Block)
    /\ synced \in Seq(Block)
    /\ dirty \in BOOLEAN /\ sound \in BOOLEAN

\* Once a persist has succeeded and until an operation fails, the file, fsynced,
\* reads back as exactly the memory: raft_persist_state and raft_restore_state
\* are inverse.  Because all of the file is rewritten, that includes the first
\* success after any number of failed or torn writes, and the state that a
\* restart recovers from a file cut in the middle.
PersistedIsMemory ==
    pc = "idle" /\ sound => /\ Restored(wal).term = node.term
                            /\ Restored(wal).vote = node.vote
                            /\ Restored(wal).log = node.log
                            /\ ~dirty

\* Unless the disk has failed, whatever moment a crash happens at, the file reads back as nothing at all or
\* as one version of the node: the term and the vote belong together and the log
\* is a prefix of the log of that same version, the one in force or the one being
\* written.  The per-entry checksum of raft_restore_state and writing
\* the header first are what this rests on.
RestoredIsOneVersion ==
    LET r == Restored(wal)
    IN \/ ~sound
       \/ r = Fresh
       \/ \E v \in {acked, node} :
             /\ r.term = v.term
             /\ r.vote = v.vote
             /\ IsPrefix(r.log, v.log)
=============================================================================
