----------------------------- MODULE SizeLimits -----------------------------
(***************************************************************************)
(* The limits in bytes that a write meets on its way: the client protocol,  *)
(* the command codec, the journal and the frames between nodes.  The        *)
(* constants are the source's own and a command is its size.  One life of   *)
(* one leader: its log, its journal and how far its followers have come;    *)
(* the followers are otherwise idle, and a frame meets empty buffers.       *)
(***************************************************************************)
EXTENDS SequencesExt, FiniteSets, Integers

CONSTANTS
  Follower,
  KeySize, ValueSize,  \* the sizes that clients try
  Extension,  \* bytes of the configuration that every full image ends with
  MaximumEntriesPerAppend,  \* maximum_entries_per_append
  SnapshotEntryThreshold,   \* snapshot_entry_threshold, 0 for no snapshots
  MaxLogIndex               \* bound: the last log index

VARIABLES
  first,       \* log_.firstIndex(): the boundary, where the snapshot ends
  log,         \* the sizes of the commands after the boundary, as saved
  commitIndex, \* commit_index_
  matchIndex,  \* match_index_; next_index_ is one more
  fileSize,    \* file_size_
  deltaCount,  \* delta_record_count_
  loadable,    \* no record of the journal is longer than load accepts
  up           \* the Raft thread runs

vars == <<first, log, commitIndex, matchIndex, fileSize, deltaCount, loadable, up>>

KiB == 1024
MiB == 1024 * KiB

kMaxKeySize == 4 * KiB
kMaxValueSize == MiB
kCommandHeaderSize == 32
kMaximumCommandSize == MiB
kMaximumPayloadSize == 64 * MiB
kFileHeaderSize == 16
kRecordHeaderSize == 12
MaximumDeltaRecords == 1024
MaximumFileBytes == 64 * MiB
kMaximumFrameSize == 2 * MiB
kMaximumEntriesPerFrame == 256
kMaximumBufferedBytes == 2 * MiB

\* Few sizes occur, many times each.
SumOf(sizes) ==
  MapThenSumSet(LAMBDA c : c * Cardinality({i \in DOMAIN sizes : sizes[i] = c}),
                ToSet(sizes))

\* Entries are written the same way to the journal and to a frame: index,
\* term, type, length, command.
EntriesSize(commands) == 21 * Len(commands) + SumOf(commands)

lastIndex == first + Len(log)

-----------------------------------------------------------------------------
(* The journal.  A full image begins with the boundary, an empty entry. *)

ImageSize(commands) == 29 + EntriesSize(<<0>> \o commands)
DeltaSize(appended) == 37 + EntriesSize(appended)

\* encodeState; the length is tested before the extension is added.
EncodesState(commands) ==
  /\ \A i \in DOMAIN commands : commands[i] <= kMaximumCommandSize
  /\ ImageSize(commands) <= kMaximumPayloadSize

\* load refuses a record that is longer.
Loadable(payload) == payload <= kMaximumPayloadSize

Written(payload) == kRecordHeaderSize + payload

\* compactLocked: the journal becomes one image, or the save fails after its
\* record was written.
compactLocked(commands, size, deltas, readable) ==
  LET image == ImageSize(commands) + Extension IN
    IF EncodesState(commands)
      THEN /\ fileSize' = kFileHeaderSize + Written(image)
           /\ deltaCount' = 0
           /\ loadable' = Loadable(image)
           /\ up' = up
      ELSE /\ fileSize' = size
           /\ deltaCount' = deltas
           /\ loadable' = readable
           /\ up' = FALSE

\* The end of save, when a record brought the journal to this size.
Recorded(commands, size, deltas, readable) ==
  IF deltas >= MaximumDeltaRecords \/ size >= MaximumFileBytes
    THEN compactLocked(commands, size, deltas, readable)
    ELSE /\ fileSize' = size
         /\ deltaCount' = deltas
         /\ loadable' = readable
         /\ UNCHANGED up

encodesDelta(appended) ==
  /\ \A i \in DOMAIN appended : appended[i] <= kMaximumCommandSize
  /\ DeltaSize(appended) <= kMaximumPayloadSize

\* save of the log with new entries, or of the log and new metadata.  When
\* the record cannot be encoded persistOrThrow ends the Raft thread.
SaveDelta(appended) ==
  IF encodesDelta(appended)
    THEN /\ log' = log \o appended
         /\ Recorded(log \o appended, fileSize + Written(DeltaSize(appended)),
                     deltaCount + 1, loadable)
    ELSE /\ up' = FALSE
         /\ UNCHANGED <<log, fileSize, deltaCount, loadable>>

\* save of a log with a new boundary: a full image after the other records.
SaveImage(boundary, commands) ==
  IF EncodesState(commands)
    THEN LET image == ImageSize(commands) + Extension IN
           /\ first' = boundary
           /\ log' = commands
           /\ Recorded(commands, fileSize + Written(image), 0,
                       loadable /\ Loadable(image))
    ELSE /\ up' = FALSE
         /\ UNCHANGED <<first, log, fileSize, deltaCount, loadable>>

-----------------------------------------------------------------------------
(* The frames between nodes. *)

\* The batch that makeAppendEntries takes, by number and not by size.
entriesFrom(next) ==
  LET skip == next - first - 1 IN
    SubSeq(log, skip + 1, Min({Len(log), skip + MaximumEntriesPerAppend}))

FrameBody(commands) == 8 + 52 + EntriesSize(commands)

encodes(commands) ==
  /\ Len(commands) <= kMaximumEntriesPerFrame
  /\ \A i \in DOMAIN commands : commands[i] <= kMaximumCommandSize
  /\ FrameBody(commands) <= kMaximumFrameSize

\* The frame has a header of 12 bytes, and has to fit an empty buffer.
queueOutput(commands) == 12 + FrameBody(commands) <= kMaximumBufferedBytes

Deliverable(commands) == encodes(commands) /\ queueOutput(commands)

\* The leader counts itself.
hasReplicationQuorum(matched, index) ==
  2 * (1 + Cardinality({f \in Follower : matched[f] >= index}))
     > 1 + Cardinality(Follower)

-----------------------------------------------------------------------------
(* The steps. *)

\* A leader that has just saved the no-op of its term over an empty log.
Init ==
  /\ first = 0 /\ log = <<0>> /\ commitIndex = 0
  /\ matchIndex = [f \in Follower |-> 0]
  /\ fileSize = kFileHeaderSize + Written(ImageSize(<<>>) + Extension)
                + Written(DeltaSize(<<0>>))
  /\ deltaCount = 1
  /\ loadable = TRUE /\ up = TRUE

\* A SET within the limits of the client protocol, which are those of the
\* codec too, is encoded, appended and saved.
submit(k, v) ==
  /\ up /\ lastIndex < MaxLogIndex
  /\ k <= kMaxKeySize /\ v <= kMaxValueSize
  /\ SaveDelta(<<kCommandHeaderSize + k + v>>)
  /\ UNCHANGED <<first, commitIndex, matchIndex>>

\* A batch gets through and its answer comes back; an advance of the commit
\* index is saved.  A batch that is not deliverable is dropped.
replicate(f) ==
  LET batch == entriesFrom(matchIndex[f] + 1)
      matched == [matchIndex EXCEPT ![f] = @ + Len(batch)]
      agreed == {i \in commitIndex + 1 .. lastIndex : hasReplicationQuorum(matched, i)}
  IN /\ up
     /\ first <= matchIndex[f] /\ matchIndex[f] < lastIndex
     /\ Deliverable(batch)
     /\ matchIndex' = matched
     /\ commitIndex' = Max({commitIndex} \cup agreed)
     /\ IF agreed # {}
          THEN SaveDelta(<<>>)
          ELSE UNCHANGED <<log, fileSize, deltaCount, loadable, up>>
     /\ UNCHANGED first

\* The committed prefix is replaced by a snapshot.
tryPublishSnapshot ==
  /\ up
  /\ SnapshotEntryThreshold > 0 /\ commitIndex - first >= SnapshotEntryThreshold
  /\ SaveImage(commitIndex, SubSeq(log, commitIndex - first + 1, Len(log)))
  /\ UNCHANGED <<commitIndex, matchIndex>>

\* A follower behind the boundary is sent the snapshot, in chunks that fit.
installSnapshot(f) ==
  /\ up /\ matchIndex[f] < first
  /\ matchIndex' = [matchIndex EXCEPT ![f] = first]
  /\ UNCHANGED <<first, log, commitIndex, fileSize, deltaCount, loadable, up>>

Next ==
  \/ \E k \in KeySize, v \in ValueSize : submit(k, v)
  \/ \E f \in Follower : replicate(f) \/ installSnapshot(f)
  \/ tryPublishSnapshot

Spec == Init /\ [][Next]_vars

\* Heartbeats repeat what a follower lacks, and the Raft thread publishes a
\* snapshot in the first round of its loop that finds one due.
LiveSpec ==
  /\ Spec
  /\ \A f \in Follower : WF_vars(replicate(f)) /\ WF_vars(installSnapshot(f))
  /\ WF_vars(tryPublishSnapshot)

-----------------------------------------------------------------------------
(* Properties *)

\* A follower that was away is brought up to date by the batches that
\* makeAppendEntries cuts from the log, unless the leader stops.
FollowerCatchesUp ==
  \A f \in Follower : []<>(matchIndex[f] = lastIndex \/ ~up)

(* Three more promises that the code does not keep at its limits: README, *)
(* "Departures of the code".                                              *)

\* A write within the limits that the client protocol and the command codec
\* state does not end the Raft thread of the leader.
LegalRequestsAreSaved == up

\* save leaves no journal behind that has reached a threshold: it was
\* compacted to one image.
JournalIsCompacted ==
  deltaCount > 0 => fileSize < MaximumFileBytes /\ deltaCount < MaximumDeltaRecords

\* What save wrote and synchronised, load accepts.
SavedIsRecoverable == loadable
=============================================================================
