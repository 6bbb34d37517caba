------------------------------ MODULE RaftLog ------------------------------
(***************************************************************************)
(* The in-memory Raft log of kaya-raft (MemLog in log.rs): entries behind  *)
(* a compacted prefix.  An entry's logical index is its position plus      *)
(* lastIncludedIndex.  Commands are opaque.                                *)
(***************************************************************************)
EXTENDS Integers, Sequences, FiniteSetsExt

\* `None` of term_at: no entry is stored at that index.
NoTerm == -1

\* The snapshot field: `None`, the empty bytes that frames_to_memlog installs, or
\* an image of the state machine.
NoImage == [kind |-> "none", state |-> << >>]
EmptyImage == [kind |-> "empty", state |-> << >>]
Image(s) == [kind |-> "full", state |-> s]

EmptyLog == [entries |-> << >>, lastIncludedIndex |-> 0,
             lastIncludedTerm |-> 0, snapshot |-> NoImage]

LastIndex(log) == log.lastIncludedIndex + Len(log.entries)

LastTerm(log) ==
    IF log.entries = << >> THEN log.lastIncludedTerm
                           ELSE log.entries[Len(log.entries)].term

\* Every index the snapshot covers answers with the snapshot's own term.
TermAt(log, index) ==
    IF index = 0 THEN 0
    ELSE IF index <= log.lastIncludedIndex THEN log.lastIncludedTerm
    ELSE IF index <= LastIndex(log) THEN log.entries[index - log.lastIncludedIndex].term
    ELSE NoTerm

AppendEntry(log, entry) == [log EXCEPT !.entries = Append(@, entry)]

TruncateFrom(log, index) ==
    IF index <= log.lastIncludedIndex
    THEN [log EXCEPT !.entries = << >>]
    ELSE [log EXCEPT !.entries = SubSeq(@, 1, index - log.lastIncludedIndex - 1)]

EntriesFrom(log, index) ==
    IF index <= log.lastIncludedIndex
    THEN << >>
    ELSE SubSeq(log.entries, index - log.lastIncludedIndex, Len(log.entries))

\* An older snapshot is ignored; a newer one drops the covered prefix and keeps
\* whatever tail is stored behind it, unexamined.
InstallSnapshot(log, index, term, image) ==
    IF index <= log.lastIncludedIndex
    THEN log
    ELSE [entries |-> SubSeq(log.entries, index - log.lastIncludedIndex + 1,
                             Len(log.entries)),
          lastIncludedIndex |-> index,
          lastIncludedTerm |-> term,
          snapshot |-> image]

(***************************************************************************)
(* What a persisted log looks like when it is loaded again: the snapshot's *)
(* bytes are not part of hard state, so frames_to_memlog puts empty ones.  *)
(***************************************************************************)
Reloaded(log) ==
    [log EXCEPT !.snapshot = IF log.lastIncludedIndex > 0 THEN EmptyImage ELSE NoImage]

\* Mutants of MergeEntries: everything behind prev is replaced, so that a delayed
\* request shortens the log; nothing is compared, so that entries pile up.
MergeCutsAlways(log, prev, entries) ==
    [log EXCEPT !.entries = SubSeq(@, 1, prev - log.lastIncludedIndex) \o entries]

MergeAppendsAlways(log, prev, entries) == [log EXCEPT !.entries = @ \o entries]

(***************************************************************************)
(* The loop of on_append_request over the request's entries, in closed     *)
(* form.  Below the snapshot boundary an entry of another term clears the  *)
(* tail and is pushed behind the boundary.  Above it, the first entry that *)
(* is missing or of another term cuts the log, and the rest follows.       *)
(***************************************************************************)
MergeEntries(log, prev, entries) ==
    LET base  == log.lastIncludedIndex
        below == {k \in DOMAIN entries : /\ prev + k <= base
                                         /\ entries[k].term # log.lastIncludedTerm}
        kept  == IF below = {} THEN log.entries ELSE << entries[Max(below)] >>
        clash == {k \in DOMAIN entries :
                    /\ prev + k > base
                    /\ \/ prev + k - base > Len(kept)
                       \/ kept[prev + k - base].term # entries[k].term}
        cut   == Min(clash)
    IN  [log EXCEPT !.entries =
           IF clash = {} THEN kept
           ELSE SubSeq(kept, 1, prev + cut - base - 1)
                  \o SubSeq(entries, cut, Len(entries))]

=============================================================================
