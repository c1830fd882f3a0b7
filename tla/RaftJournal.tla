---------------------------- MODULE RaftJournal ----------------------------
(***************************************************************************)
(* FileRaftPersistence: the journal behind the disk of RaftNode.  A record  *)
(* is a full image or a delta against the state saved before it; load       *)
(* replays the records and cuts a torn tail; too many records are replaced  *)
(* by one image, written aside and renamed over the journal.                *)
(*                                                                          *)
(* A file is what the kernel shows of it and how many of its records have   *)
(* reached the disk.  When the process dies the kernel's view remains; when *)
(* the machine does, records that were not synchronised, or a directory     *)
(* entry that was not, may be gone.  (The file header is one 16-byte write  *)
(* and taken as atomic; the compaction's temporary file is never read.)     *)
(***************************************************************************)
EXTENDS Sequences, FiniteSetsExt

CONSTANTS
  State,       \* RaftPersistentState: term, commit, entries (boundary first), config
  NoState,     \* nothing was saved yet
  Corrupt,     \* the result of a load that fails
  MaxDelta,    \* maximum_delta_records
  MaxFile,     \* maximum_file_bytes, in records
  Crashes,     \* sets of the crashes that happen in a behaviour: "process", "machine"
  LosesEntry,  \* a machine crash may lose the entry of a file whose directory
               \* was never synchronised, though the file itself was
  MaxRecords   \* bound: no save starts with this many records (crashes during
               \* compaction let the journal grow past MaxFile)

ASSUME StateAssumption == \A s \in State : s.entries # <<>>
ASSUME SpecialAssumption == NoState \notin State /\ Corrupt \notin State
ASSUME LimitAssumption == MaxDelta \in Nat \ {0} /\ MaxFile \in Nat \ {0, 1}
                          /\ MaxRecords \in Nat
ASSUME CrashAssumption == Crashes \subseteq SUBSET {"process", "machine"} /\ LosesEntry \in BOOLEAN

VARIABLES
  journal,     \* the file the path names
  previous,    \* the files a machine crash (if any) may make it name again
  phase,       \* of the process: closed, idle, in a save, or failed
  pending,     \* the state of the save in progress, else the last one
  lastState,   \* last_state_
  deltaCount,  \* delta_record_count_
  acked,       \* history: what the last successful load or save returned
  crashes      \* the crashes of this behaviour; never changes

vars == <<journal, previous, phase, pending, lastState, deltaCount, acked, crashes>>

Torn == [kind |-> "torn"]
NoFile == [exists |-> FALSE, recs |-> <<>>, synced |-> 0]

-----------------------------------------------------------------------------
(* Records *)

CommonPrefix(a, b) ==
  Max({k \in 0..Min({Len(a), Len(b)}) : \A i \in 1..k : a[i] = b[i]})

encodeState(s) == [kind |-> "full", state |-> s]

\* Mutant of encodeDelta: entries are taken as unchanged without comparison.
encodeDeltaAppending(prev, s) ==
  LET keep == Min({Len(prev.entries), Len(s.entries)})
  IN  [kind |-> "delta", term |-> s.term, commit |-> s.commit, keep |-> keep,
       suffix |-> SubSeq(s.entries, keep + 1, Len(s.entries))]

\* Metadata and the suffix that replaces what follows the common prefix.
encodeDelta(prev, s) ==
  LET keep == CommonPrefix(prev.entries, s.entries)
  IN  [kind |-> "delta", term |-> s.term, commit |-> s.commit, keep |-> keep,
       suffix |-> SubSeq(s.entries, keep + 1, Len(s.entries))]

\* A delta applied to the state replayed so far; the configuration is inherited.
decodeDelta(r, latest) ==
  LET entries == SubSeq(latest.entries, 1, r.keep) \o r.suffix
      last    == entries[Len(entries)].index
  IN  IF /\ r.term >= latest.term /\ r.commit >= latest.commit
         /\ r.keep \in 1..Len(latest.entries)
         /\ \A i \in 1..Len(entries) :
              entries[i].index = entries[1].index + i - 1
         /\ r.commit <= last
      THEN [term |-> r.term, commit |-> r.commit, entries |-> entries,
            config |-> latest.config]
      ELSE Corrupt

\* load cuts an incomplete record off at the end of the file, and only there.
WithoutTornTail(recs) ==
  IF recs # <<>> /\ recs[Len(recs)] = Torn THEN SubSeq(recs, 1, Len(recs) - 1) ELSE recs

\* What load returns for the records of a file.
Replay(recs) ==
  LET whole == WithoutTornTail(recs)
      latest[n \in 0..Len(whole)] ==
        IF n = 0 THEN NoState
        ELSE CASE whole[n].kind = "full" -> whole[n].state
               [] whole[n].kind = "delta" /\ latest[n - 1] \notin {NoState, Corrupt} ->
                    decodeDelta(whole[n], latest[n - 1])
               [] OTHER -> Corrupt
  IN  latest[Len(whole)]

\* The delta records after the last full image.
DeltasAtEnd(recs) ==
  Max({0} \cup {k \in 1..Len(recs) :
                  \A i \in (Len(recs) - k + 1)..Len(recs) : recs[i].kind = "delta"})

replayedDeltas(recs) == DeltasAtEnd(recs)

\* The file that compactLocked writes and synchronises under another name.
compactImage(s) == [exists |-> TRUE, recs |-> <<encodeState(s)>>, synced |-> 1]

-----------------------------------------------------------------------------

Init ==
  /\ journal = NoFile /\ previous = {}
  /\ phase = "closed"
  /\ pending = NoState /\ acked = NoState
  /\ lastState = NoState /\ deltaCount = 0
  /\ crashes \in Crashes

\* load of a new process: openLocked creates a missing file, the records are
\* replayed, and an incomplete one at the end is cut off and the cut synchronised.
load ==
  LET whole == WithoutTornTail(journal.recs)
      value == Replay(journal.recs)
  IN  /\ phase = "closed"
      /\ value # Corrupt
      /\ journal' = [exists |-> TRUE, recs |-> whole,
                     synced |-> IF whole = journal.recs
                                THEN journal.synced ELSE Len(whole)]
      /\ previous' = IF LosesEntry /\ ~journal.exists THEN {NoFile} ELSE previous
      /\ phase' = "idle"
      /\ lastState' = value /\ pending' = value /\ acked' = value
      /\ deltaCount' = replayedDeltas(whole)

\* The boundary and all configuration fields are those of the last state.
writesDelta(s) ==
  /\ lastState # NoState
  /\ s.entries[1] = lastState.entries[1]
  /\ s.config = lastState.config

\* save up to its write, of a state whose term and commit index have not gone
\* back (RaftNode never lowers them, so encodeDelta accepts it).  A write that
\* fails leaves a part of the record behind, or nothing.
write(s) ==
  LET record == IF writesDelta(s) THEN encodeDelta(lastState, s) ELSE encodeState(s)
  IN  /\ phase = "idle"
      /\ Len(journal.recs) < MaxRecords
      /\ lastState # NoState => s.term >= lastState.term /\ s.commit >= lastState.commit
      /\ pending' = s
      /\ \/ /\ journal' = [journal EXCEPT !.recs = Append(@, record)]
            /\ phase' = "written"
         \/ /\ journal' \in {journal, [journal EXCEPT !.recs = Append(@, Torn)]}
            /\ phase' = "failed"
      /\ UNCHANGED <<previous, lastState, deltaCount, acked>>

\* The rest of save: fdatasync, then success, or compaction at a limit.
synchronise ==
  LET recs  == journal.recs
      count == IF recs[Len(recs)].kind = "delta" THEN deltaCount + 1 ELSE 0
      full  == count >= MaxDelta \/ Len(recs) >= MaxFile
  IN  /\ phase = "written"
      /\ journal' = [journal EXCEPT !.synced = Len(recs)]
      /\ lastState' = pending
      /\ deltaCount' = count
      /\ phase' = IF full THEN "compacting" ELSE "idle"
      /\ acked' = IF full THEN acked ELSE pending
      /\ UNCHANGED <<previous, pending>>

\* compactLocked up to the rename, which puts the image in the journal's place.
compact ==
  /\ phase = "compacting"
  /\ journal' = compactImage(pending)
  /\ previous' = IF "machine" \in crashes THEN previous \cup {journal} ELSE {}
  /\ phase' = "renamed"
  /\ UNCHANGED <<pending, lastState, deltaCount, acked>>

\* syncParentDirectory makes the rename durable, and save returns.
syncDirectory ==
  /\ phase = "renamed"
  /\ previous' = {}
  /\ deltaCount' = 0
  /\ phase' = "idle"
  /\ acked' = pending
  /\ UNCHANGED <<journal, pending, lastState>>

\* A system call of a save in progress fails: save returns false, persistOrThrow
\* throws and the Raft thread ends, so nothing more is written.
fail ==
  /\ phase \in {"written", "compacting", "renamed"}
  /\ phase' = "failed"
  /\ UNCHANGED <<journal, previous, pending, lastState, deltaCount, acked>>

\* What may be left of a record that was being written.
Parts(f, n) ==
  {[f EXCEPT !.recs = SubSeq(@, 1, n)]} \cup
    IF n < Len(f.recs) THEN {[f EXCEPT !.recs = Append(SubSeq(@, 1, n), Torn)]} ELSE {}

\* The kernel keeps what was written; a write in progress is cut short.
ProcessSurvivors ==
  {journal} \cup IF phase = "written" THEN Parts(journal, Len(journal.recs) - 1) ELSE {}

\* Any part of what was not synchronised may be lost; what is left is on disk.
MachineSurvivors ==
  LET left == UNION {UNION {Parts(f, n) : n \in f.synced..Len(f.recs)} :
                       f \in {journal} \cup previous}
  IN  {[f EXCEPT !.synced = Len(f.recs)] : f \in left}

crash ==
  /\ \/ /\ "process" \in crashes /\ phase # "closed"
        /\ journal' \in ProcessSurvivors
        /\ UNCHANGED previous
     \/ /\ "machine" \in crashes
        /\ journal' \in MachineSurvivors
        /\ previous' = {}
  /\ phase' = "closed"
  /\ lastState' = NoState /\ deltaCount' = 0
  /\ UNCHANGED <<pending, acked>>

Next ==
  /\ \/ load
     \/ \E s \in State : write(s)
     \/ synchronise \/ compact \/ syncDirectory
     \/ fail
     \/ crash
  /\ UNCHANGED crashes

Spec == Init /\ [][Next]_vars

-----------------------------------------------------------------------------
(* Properties *)

\* What load could return if the process or the machine stopped now.
Recoverable ==
  {Replay(f.recs) : f \in
     {journal} \cup (IF "process" \in crashes THEN ProcessSurvivors ELSE {})
       \cup (IF "machine" \in crashes THEN MachineSurvivors ELSE {})}

\* Wherever a save is interrupted, a restart finds the last state that was
\* returned or acknowledged, or the one being saved, whole: never an older one,
\* a mixture of the two, or a journal that load refuses.  This is what the
\* atomic disk of RaftNode stands for.
RecoversLastSave == Recoverable \subseteq {acked, pending}

\* "Implementations must not return true until current_term, voted_for and log
\* entries are durable as one recoverable state" (raft_persistence.h): once load
\* or save has returned, every restart finds that state.
DurableWhenReturned == phase = "idle" => Recoverable = {acked}

=============================================================================
