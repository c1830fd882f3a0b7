---------------------------- MODULE SnapshotStore ----------------------------
(***************************************************************************)
(* The files of a node's snapshot: FileSnapshotStore::save writes an image  *)
(* to a temporary file, syncs it, renames it over the published one and     *)
(* syncs the directory; SnapshotFileReceiver assembles an image sent by a   *)
(* leader in a second temporary file, chunk by chunk, and publishes it the  *)
(* same way.  Any call may fail, the process may die between any two calls, *)
(* and so may the machine, which then loses what was not synced.            *)
(*                                                                         *)
(* An image is the index it reaches up to; its file is Size blocks of it.   *)
(* Publications of a node only move forward (raft_kv_service.cpp skips an   *)
(* image below its boundary), which is the guard of save and receive here.  *)
(***************************************************************************)
EXTENDS Integers, Sequences, FiniteSets, SequencesExt

CONSTANTS
  MaxImage,    \* bound: the last image that is published
  MaxFiles,    \* bound: files that are created
  Size,        \* blocks, and chunks, of a file
  MaxCrashes   \* bound: crashes of the process or of the machine

ASSUME StoreAssumption ==
  MaxImage \in Nat /\ MaxFiles \in Nat /\ Size \in Nat \ {0} /\ MaxCrashes \in Nat

Name == {"path", "tmp", "recv"}   \* state.snapshot, .tmp and .recv.tmp
NoFile == 0

VARIABLES
  data,       \* data[i]: the blocks of inode i, as a running process reads them
  synced,     \* synced[i]: how many of them survive the machine
  dirs,       \* the directory since its last sync, the oldest first
  pc,         \* the call that comes next, with the image it works on
  image,
  received,   \* received_size_ of the active receiver, or -1
  incoming,   \* the image of the active receiver
  published,  \* the last image whose publication was reported as done
  current,    \* last_snapshot_index_: that, or the image found at the start
  crashes

vars == <<data, synced, dirs, pc, image, received, incoming, published, current, crashes>>

dir == Last(dirs)
File(i) == [b \in 1..Size |-> i]   \* the encoded image: header, checksum, payload
Whole(blocks) == \E i \in 1..MaxImage : blocks = File(i)

Init ==
  /\ data = <<>> /\ synced = <<>>
  /\ dirs = <<[n \in Name |-> NoFile]>>
  /\ pc = "idle" /\ image = 0
  /\ received = -1 /\ incoming = 0
  /\ published = 0 /\ current = 0 /\ crashes = 0

\* open with O_CREAT and O_TRUNC: an empty file, new or not.
Opened(name) ==
  IF dir[name] = NoFile
  THEN /\ Len(data) < MaxFiles
       /\ data' = Append(data, <<>>) /\ synced' = Append(synced, 0)
       /\ dirs' = Append(dirs, [dir EXCEPT ![name] = Len(data) + 1])
  ELSE /\ data' = [data EXCEPT ![dir[name]] = <<>>]
       /\ synced' = [synced EXCEPT ![dir[name]] = 0]
       /\ UNCHANGED dirs

\* unlink and then open.
Recreated(name) ==
  /\ Len(data) < MaxFiles
  /\ data' = Append(data, <<>>) /\ synced' = Append(synced, 0)
  /\ dirs' = dirs \o <<[dir EXCEPT ![name] = NoFile], [dir EXCEPT ![name] = Len(data) + 1]>>

Written(name, i) ==
  data' = [data EXCEPT ![dir[name]] = Append(@, i)]

\* fdatasync.
Synced(name) ==
  synced' = [synced EXCEPT ![dir[name]] = Len(data[dir[name]])]

Renamed(name) ==
  dirs' = Append(dirs, [dir EXCEPT !["path"] = dir[name], ![name] = NoFile])

Unlinked(name) ==
  dirs' = IF dir[name] = NoFile THEN dirs ELSE Append(dirs, [dir EXCEPT ![name] = NoFile])

\* fsync of the directory.
DirectorySynced == dirs' = <<dir>>

-----------------------------------------------------------------------------
(* FileSnapshotStore::save. *)

saveOpen(i) ==
  /\ pc = "idle" /\ i > current
  /\ Opened("tmp")
  /\ pc' = "saveWrite" /\ image' = i
  /\ UNCHANGED <<received, incoming, published, current, crashes>>

saveWrite ==
  /\ pc = "saveWrite"
  /\ Written("tmp", image)
  /\ pc' = IF Len(data'[dir["tmp"]]) = Size THEN "saveSync" ELSE pc
  /\ UNCHANGED <<synced, dirs, image, received, incoming, published, current, crashes>>

saveSync ==
  /\ pc = "saveSync"
  /\ Synced("tmp")
  /\ pc' = "saveRename"
  /\ UNCHANGED <<data, dirs, image, received, incoming, published, current, crashes>>

saveRename ==
  /\ pc = "saveRename"
  /\ Renamed("tmp")
  /\ pc' = "saveSyncDirectory"
  /\ UNCHANGED <<data, synced, image, received, incoming, published, current, crashes>>

saveSyncDirectory ==
  /\ pc = "saveSyncDirectory"
  /\ DirectorySynced
  /\ pc' = "idle" /\ published' = image /\ current' = image
  /\ UNCHANGED <<data, synced, image, received, incoming, crashes>>

\* A call of save fails: the temporary file is removed and the node ends.
saveFails ==
  /\ pc \in {"saveWrite", "saveSync", "saveRename", "saveSyncDirectory"}
  /\ Unlinked("tmp")
  /\ pc' = "stopped"
  /\ UNCHANGED <<data, synced, image, received, incoming, published, current, crashes>>

-----------------------------------------------------------------------------
(* SnapshotFileReceiver. *)

\* A first chunk: whatever was being received is cancelled, begin makes an empty
\* file; then the chunk is written and synced.
begin(i) ==
  /\ pc = "idle" /\ i > current
  /\ Recreated("recv")
  /\ pc' = "receiveWrite" /\ received' = 0 /\ incoming' = i
  /\ UNCHANGED <<image, published, current, crashes>>

\* A later chunk of the same image, at the offset reached.
appendChunk ==
  /\ pc = "idle" /\ received \in 1..(Size - 1) /\ incoming > current
  /\ pc' = "receiveWrite"
  /\ UNCHANGED <<data, synced, dirs, image, received, incoming, published, current, crashes>>

receiveWrite ==
  /\ pc = "receiveWrite"
  /\ Written("recv", incoming)
  /\ pc' = "receiveSync"
  /\ UNCHANGED <<synced, dirs, image, received, incoming, published, current, crashes>>

\* Mutant of receiveSync: only the first chunk is synced.
receiveSyncFirst ==
  /\ pc = "receiveSync"
  /\ IF received = 0 THEN Synced("recv") ELSE UNCHANGED synced
  /\ received' = received + 1
  /\ pc' = IF received' = Size THEN "finish" ELSE "idle"
  /\ UNCHANGED <<data, dirs, image, incoming, published, current, crashes>>

receiveSync ==
  /\ pc = "receiveSync"
  /\ Synced("recv")
  /\ received' = received + 1
  /\ pc' = IF received' = Size THEN "finish" ELSE "idle"
  /\ UNCHANGED <<data, dirs, image, incoming, published, current, crashes>>

\* finishAndLoad reads the file back, checks it and the boundary, and renames it.
finish ==
  /\ pc = "finish"
  /\ data[dir["recv"]] = File(incoming)
  /\ Renamed("recv")
  /\ pc' = "finishSyncDirectory"
  /\ UNCHANGED <<data, synced, image, received, incoming, published, current, crashes>>

\* Mutant of finishSyncDirectory: the rename is not made durable.
finishSyncDirectoryNot ==
  /\ pc = "finishSyncDirectory"
  /\ pc' = "idle" /\ published' = incoming /\ current' = incoming
  /\ received' = -1
  /\ UNCHANGED <<data, synced, dirs, image, incoming, crashes>>

finishSyncDirectory ==
  /\ pc = "finishSyncDirectory"
  /\ DirectorySynced
  /\ pc' = "idle" /\ published' = incoming /\ current' = incoming
  /\ received' = -1
  /\ UNCHANGED <<data, synced, image, incoming, crashes>>

\* A call of the receiver fails: cancel removes the file and the node ends.
receiveFails ==
  /\ pc \in {"receiveWrite", "receiveSync", "finish", "finishSyncDirectory"}
  /\ Unlinked("recv")
  /\ pc' = "stopped" /\ received' = -1
  /\ UNCHANGED <<data, synced, image, incoming, published, current, crashes>>

-----------------------------------------------------------------------------
(* Crashes. *)

\* load at the start of a process: the published file, if it is whole.
load(d, blocks) ==
  IF d["path"] = NoFile THEN 0
  ELSE IF Whole(blocks[d["path"]]) THEN Head(blocks[d["path"]]) ELSE -1

\* The process ends and starts again on directory d with these blocks.
Started(d, blocks) ==
  /\ crashes < MaxCrashes
  /\ crashes' = crashes + 1
  /\ dirs' = <<d>> /\ data' = blocks
  /\ synced' = [i \in DOMAIN blocks |-> Len(blocks[i])]
  /\ pc' = "idle" /\ image' = 0 /\ received' = -1 /\ incoming' = 0
  /\ current' = load(d, blocks)
  /\ UNCHANGED published

\* The page cache survives the process: nothing is lost, but nothing is synced.
processDies ==
  /\ crashes < MaxCrashes
  /\ crashes' = crashes + 1
  /\ pc' = "idle" /\ image' = 0 /\ received' = -1 /\ incoming' = 0
  /\ current' = load(dir, data)
  /\ UNCHANGED <<data, synced, dirs, published>>

\* The machine keeps some state the directory had since its last sync, and of
\* every file what was synced and maybe more.
machineDies ==
  \E k \in DOMAIN dirs, lost \in BOOLEAN :
    Started(dirs[k],
            [i \in DOMAIN data |-> IF lost THEN SubSeq(data[i], 1, synced[i]) ELSE data[i]])

Next ==
  \/ \E i \in 1..MaxImage : saveOpen(i) \/ begin(i)
  \/ saveWrite \/ saveSync \/ saveRename \/ saveSyncDirectory \/ saveFails
  \/ appendChunk \/ receiveWrite \/ receiveSync
  \/ finish \/ finishSyncDirectory \/ receiveFails
  \/ processDies \/ machineDies

Spec == Init /\ [][Next]_vars

-----------------------------------------------------------------------------
(* Properties. *)

\* A start never finds a damaged snapshot: whichever directory state and whichever
\* synced part of a file the machine keeps, the published name leads to a whole
\* image or to none.
CrashSeesWholeImage ==
  \A k \in DOMAIN dirs :
    dirs[k]["path"] # NoFile =>
      /\ Whole(data[dirs[k]["path"]])
      /\ synced[dirs[k]["path"]] = Size

\* What a call reported as published stays: after any crash the name leads to that
\* image or to one published later, so a log compacted up to it can be rebuilt.
PublishedSurvives ==
  \A k \in DOMAIN dirs : load(dirs[k], data) >= published

=============================================================================
