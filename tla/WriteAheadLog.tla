---------------------------- MODULE WriteAheadLog ----------------------------
(***************************************************************************)
(* The standalone server: one thread that answers each request by           *)
(* appending it to the write-ahead log, syncing it, applying it to the      *)
(* table and answering, and a start that replays the log.  Writes and       *)
(* syncs may fail, the process may die between any two calls, and so may    *)
(* the machine, which keeps a prefix of the file that is at least what was  *)
(* synced.                                                                  *)
(*                                                                         *)
(* A record is written as two parts, so that it can be torn; the 16-byte    *)
(* file header is one write and taken as atomic.  The table maps a key to   *)
(* the number of the operation that wrote it, which stands for the value.   *)
(***************************************************************************)
EXTENDS Integers, Sequences

CONSTANTS
  WalKey,       \* the keys
  MaxRequests,  \* bound: writes the clients ask for
  MaxCrashes    \* bound: crashes of the process or of the machine

ASSUME WalAssumption == MaxRequests \in Nat /\ MaxCrashes \in Nat

VARIABLES
  file,     \* the parts of records behind the header, as a process reads them
  synced,   \* how many of them survive the machine
  pc,       \* what the server does next: "down", "idle", or a step of a write
  op,       \* the operation of the write in progress
  failed,   \* failed_
  next,     \* next_sequence_
  store,    \* the table of KVStore
  asked,    \* writes asked for so far
  acked,    \* history: the operations answered OK or NOT_FOUND
  crashes

vars == <<file, synced, pc, op, failed, next, store, asked, acked, crashes>>

NoOp == 0   \* the key is absent
EmptyStore == [k \in WalKey |-> NoOp]

Operation == [id : 1..MaxRequests, type : {"set", "remove"}, key : WalKey]
NoOperation == [id |-> 0, type |-> "none"]

-----------------------------------------------------------------------------
(* The file. *)

\* The encoded record of an operation, cut in two.
Record(o, seq) == <<[op |-> o, seq |-> seq, part |-> 1], [op |-> o, seq |-> seq, part |-> 2]>>

Records(f) == Len(f) \div 2

\* recover accepts the record at i: magic, length and checksum fit, and the
\* sequence number continues.
Valid(f, i) ==
  LET a == f[2 * i - 1]
      b == f[2 * i]
  IN a.part = 1 /\ b.part = 2 /\ a.op = b.op /\ a.seq = b.seq /\ a.seq = i

\* What is left when fewer bytes follow than the record needs.
Torn(f) == Len(f) % 2 = 1

Recoverable(f) ==
  /\ \A i \in 1..Records(f) : Valid(f, i)
  /\ Torn(f) => f[Len(f)].part = 1

Operations(f) == [i \in 1..Records(f) |-> f[2 * i].op]

\* KVStore::put and remove, as dispatch and replayRecords call them.
Applied(table, o) ==
  [table EXCEPT ![o.key] = IF o.type = "set" THEN o.id ELSE NoOp]

replayRecords(ops) ==
  LET table[i \in 0..Len(ops)] ==
        IF i = 0 THEN EmptyStore ELSE Applied(table[i - 1], ops[i])
  IN table[Len(ops)]

-----------------------------------------------------------------------------

Init ==
  /\ file = <<>> /\ synced = 0
  /\ pc = "down" /\ op = NoOperation
  /\ failed = FALSE /\ next = 1
  /\ store = EmptyStore
  /\ asked = 0 /\ acked = <<>>
  /\ crashes = 0

\* open, recover and replayRecords: an incomplete last record is cut off, which
\* syncs the file; otherwise nothing is synced.
start ==
  /\ pc = "down" /\ Recoverable(file)
  /\ IF Torn(file)
     THEN file' = SubSeq(file, 1, Len(file) - 1) /\ synced' = Len(file) - 1
     ELSE UNCHANGED <<file, synced>>
  /\ next' = Records(file) + 1
  /\ store' = replayRecords(Operations(file))
  /\ failed' = FALSE /\ pc' = "idle"
  /\ UNCHANGED <<op, asked, acked, crashes>>

\* Mutant of request: a log that failed is written to again.
requestAfterFailure(type, k) ==
  /\ pc = "idle" /\ asked < MaxRequests
  /\ asked' = asked + 1
  /\ op' = [id |-> asked + 1, type |-> type, key |-> k]
  /\ pc' = "write1"
  /\ UNCHANGED <<file, synced, failed, next, store, acked, crashes>>

\* A SET or DELETE: refused once the log has failed, else appended.
request(type, k) ==
  /\ pc = "idle" /\ asked < MaxRequests
  /\ asked' = asked + 1
  /\ op' = [id |-> asked + 1, type |-> type, key |-> k]
  /\ pc' = IF failed THEN "idle" ELSE "write1"
  /\ UNCHANGED <<file, synced, failed, next, store, acked, crashes>>

\* writeAllAt at the end of the file, in two pieces.
write1 ==
  /\ pc = "write1"
  /\ file' = Append(file, Record(op, next)[1])
  /\ pc' = "write2"
  /\ UNCHANGED <<synced, op, failed, next, store, asked, acked, crashes>>

write2 ==
  /\ pc = "write2"
  /\ file' = Append(file, Record(op, next)[2])
  /\ pc' = "sync"
  /\ UNCHANGED <<synced, op, failed, next, store, asked, acked, crashes>>

\* Mutant of sync: WalSyncPolicy::kNone.
syncNone ==
  /\ pc = "sync"
  /\ next' = next + 1
  /\ pc' = "apply"
  /\ UNCHANGED <<file, synced, op, failed, store, asked, acked, crashes>>

\* fdatasync, then ++next_sequence_.
sync ==
  /\ pc = "sync"
  /\ synced' = Len(file)
  /\ next' = next + 1
  /\ pc' = "apply"
  /\ UNCHANGED <<file, op, failed, store, asked, acked, crashes>>

\* markFailed: the write made no progress, or the sync failed; what was written
\* stays in the file, and the request is answered with INTERNAL_ERROR.
markFailed ==
  /\ pc \in {"write1", "write2", "sync"}
  /\ failed' = TRUE /\ pc' = "idle"
  /\ UNCHANGED <<file, synced, op, next, store, asked, acked, crashes>>

\* Mutant of dispatch: a DELETE is logged and answered, and the key stays.
dispatchKeepRemoved ==
  /\ pc = "apply"
  /\ store' = IF op.type = "set" THEN Applied(store, op) ELSE store
  /\ acked' = Append(acked, op)
  /\ pc' = "idle"
  /\ UNCHANGED <<file, synced, op, failed, next, asked, crashes>>

\* dispatch applies the operation and answers OK or NOT_FOUND.
dispatch ==
  /\ pc = "apply"
  /\ store' = Applied(store, op)
  /\ acked' = Append(acked, op)
  /\ pc' = "idle"
  /\ UNCHANGED <<file, synced, op, failed, next, asked, crashes>>

\* The process dies and the file stays as it is.
processDies ==
  /\ pc # "down" /\ crashes < MaxCrashes
  /\ pc' = "down" /\ crashes' = crashes + 1
  /\ UNCHANGED <<file, synced, op, failed, next, store, asked, acked>>

\* The machine dies: some of what was not synced is gone.
machineDies ==
  /\ crashes < MaxCrashes
  /\ \E k \in synced..Len(file) : file' = SubSeq(file, 1, k) /\ synced' = k
  /\ pc' = "down" /\ crashes' = crashes + 1
  /\ UNCHANGED <<op, failed, next, store, asked, acked>>

Next ==
  \/ start
  \/ \E type \in {"set", "remove"}, k \in WalKey : request(type, k)
  \/ write1 \/ write2 \/ sync \/ markFailed \/ dispatch
  \/ processDies \/ machineDies

Spec == Init /\ [][Next]_vars

-----------------------------------------------------------------------------
(* Properties. *)

\* What is on disk whatever happens.
Durable == Operations(SubSeq(file, 1, synced))

\* Every write that was acknowledged is on disk, in the order it was answered in,
\* through any sequence of failures, crashes and restarts.
AcknowledgedAreDurable ==
  \E at \in [DOMAIN acked -> DOMAIN Durable] :
    /\ \A i \in DOMAIN acked : Durable[at[i]] = acked[i]
    /\ \A i, j \in DOMAIN acked : i < j => at[i] < at[j]

\* No crash and no failed write leaves a file that the next start refuses: torn
\* records are only ever the last.
AlwaysRecoverable == Recoverable(file)

\* While the log works, the table is what a restart would rebuild.
StoreMatchesLog ==
  (pc = "idle" /\ ~failed) => store = replayRecords(Operations(file))

=============================================================================
