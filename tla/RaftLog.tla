------------------------------ MODULE RaftLog ------------------------------
(***************************************************************************)
(* The log array of a RaftNode: raft_submit, the entry loop of             *)
(* raft_handle_append_entries, raft_save_snapshot, and the restart from    *)
(* the write-ahead log.  leader_tick sends no entries yet (raft_core.c:326)*)
(* so RaftCore never reaches the entry loop; here it is given what a       *)
(* leader's log holds.                                                     *)
(*                                                                         *)
(* The array holds the entries after last_snapshot_index; full is the log  *)
(* as the protocol defines it, from index 1, kept by reference definitions *)
(* and never looked at by the code.                                        *)
(***************************************************************************)
EXTENDS Naturals, Sequences

CONSTANTS
    MaxTerm,     \* bound: entries have terms 1..MaxTerm
    MaxLog       \* bound: no log is longer

ASSUME LogAssumption == MaxTerm \in Nat /\ MaxLog \in Nat

VARIABLES
    log,         \* the array, entries [term, index]
    snap,        \* last_snapshot_index
    snap_term,   \* last_snapshot_term
    wal,         \* the array as it was last persisted
    full,        \* reference: the terms of the log from index 1
    apart        \* history: a node with a snapshot has restarted, or was sent entries
                 \* that the snapshot covers

vars == <<log, snap, snap_term, wal, full, apart>>

-----------------------------------------------------------------------------
LastLogIndex == IF log = <<>> THEN snap ELSE log[Len(log)].index

\* get_log_entry on array l: the position it returns, 0 for NULL.
Slot_OffByOne(l, i) == IF i > snap /\ i - snap < Len(l) THEN i - snap ELSE 0
Slot(l, i) == IF i > snap /\ i - snap <= Len(l) THEN i - snap ELSE 0

TermAtIndex(i) ==
    IF i = 0 THEN 0 ELSE IF i = snap THEN snap_term
    ELSE IF Slot(log, i) = 0 THEN 0 ELSE log[Slot(log, i)].term

\* One turn of the entry loop: delete from a conflicting entry on, then append
\* unless the index is present.
Merge_KeepTail(l, e) ==
    IF Slot(l, e.index) # 0 THEN [l EXCEPT ![Slot(l, e.index)] = e] ELSE Append(l, e)
Merge(l, e) ==
    LET i == Slot(l, e.index)
        kept == IF i # 0 /\ l[i].term # e.term THEN SubSeq(l, 1, i - 1) ELSE l
    IN IF Slot(kept, e.index) = 0 THEN Append(kept, e) ELSE kept

\* The entry loop, over the entries with these terms from prev + 1 on.
Merged(prev, terms) ==
    LET after[i \in 0..Len(terms)] ==
            IF i = 0 THEN log
            ELSE Merge(after[i - 1], [term |-> terms[i], index |-> prev + i])
    IN after[Len(terms)]

\* The log that results, by definition: what was there stays if it already
\* agrees with all the entries, else they replace all that follows prev.
MergedByDefinition(prev, terms) ==
    IF /\ prev + Len(terms) <= Len(full)
       /\ \A i \in 1..Len(terms) : full[prev + i] = terms[i]
    THEN full ELSE SubSeq(full, 1, prev) \o terms

-----------------------------------------------------------------------------
Init ==
    /\ log = <<>> /\ snap = 0 /\ snap_term = 0 /\ wal = <<>>
    /\ full = <<>> /\ apart = FALSE

\* raft_submit on a leader of term t; no entry is from a later term.
Submit(t) ==
    /\ Len(full) < MaxLog
    /\ full # <<>> => full[Len(full)] <= t
    /\ log' = Append(log, [term |-> t, index |-> LastLogIndex + 1])
    /\ wal' = log'
    /\ full' = Append(full, t)
    /\ UNCHANGED <<snap, snap_term, apart>>

\* raft_handle_append_entries past its checks of the term: `terms' are the terms
\* of the leader's entries from prev + 1 on and prev_term the one at prev.  What
\* a snapshot covers is committed, so a leader's log agrees with it.
AppendEntries(prev, prev_term, terms) ==
    /\ prev > 0 => TermAtIndex(prev) = prev_term
    /\ \A i \in 1..Len(terms) : prev + i <= snap => full[prev + i] = terms[i]
    /\ log' = Merged(prev, terms)
    /\ wal' = log'
    /\ full' = MergedByDefinition(prev, terms)
    /\ apart' = (prev < snap /\ terms # <<>>)
    /\ UNCHANGED <<snap, snap_term>>

\* The loop of raft_save_snapshot that moves the entries after i to the front.
Compacted(i) ==
    LET kept[j \in 0..Len(log)] ==
            IF j = 0 THEN <<>>
            ELSE IF log[j].index > i THEN Append(kept[j - 1], log[j]) ELSE kept[j - 1]
    IN kept[Len(log)]

\* raft_save_snapshot at index i; it does not persist the shortened log.
SaveSnapshot(i) ==
    /\ i > snap /\ i <= LastLogIndex
    /\ snap' = i
    /\ snap_term' = TermAtIndex(i)
    /\ log' = Compacted(i)
    /\ UNCHANGED <<wal, full, apart>>

\* raft_init and raft_restore_state; nobody calls raft_load_snapshot.
Restart ==
    /\ log' = wal
    /\ apart' = (snap > 0)
    /\ snap' = 0 /\ snap_term' = 0
    /\ UNCHANGED <<wal, full>>

\* The logs of leaders: terms do not decrease.
LeaderLog ==
    {l \in UNION {[1..k -> 1..MaxTerm] : k \in 0..MaxLog} :
        \A i \in 1..Len(l) - 1 : l[i] <= l[i + 1]}

\* A run ends where the array and the snapshot have come apart: from there on
\* indexes are off, entries are appended again and again, and no log is defined.
Next ==
    /\ ~apart
    /\ \/ \E t \in 1..MaxTerm : Submit(t)
       \/ \E l \in LeaderLog : \E prev, last \in 0..Len(l) :
             AppendEntries(prev, IF prev = 0 THEN 0 ELSE l[prev], SubSeq(l, prev + 1, last))
       \/ \E i \in 1..MaxLog : SaveSnapshot(i)
       \/ Restart

Spec == Init /\ [][Next]_vars

-----------------------------------------------------------------------------
\* Entries have terms and indexes, and the array fits the log.
TypeOK ==
    /\ log \in Seq([term : 1..MaxTerm, index : 1..MaxLog])
    /\ wal \in Seq([term : 1..MaxTerm, index : 1..MaxLog])
    /\ ~apart => Len(log) <= MaxLog
    /\ apart \in BOOLEAN
    /\ snap \in 0..MaxLog /\ snap_term \in 0..MaxTerm
    /\ full \in Seq(1..MaxTerm)

\* Until a node with a snapshot restarts or is sent what the snapshot covers, the
\* array is exactly the part of the log that follows the snapshot, whatever
\* was cut, overwritten, sent again or sent in part: the entry loop of
\* raft_handle_append_entries computes what the definition says, with its
\* index arithmetic relative to last_snapshot_index.
LogIsSuffix ==
    ~apart =>
        /\ snap + Len(log) = Len(full)
        /\ \A k \in 1..Len(log) : log[k] = [term |-> full[snap + k], index |-> snap + k]
        /\ snap > 0 => snap_term = full[snap]
=============================================================================
