---------------------------- MODULE StateMachine ----------------------------
(***************************************************************************)
(* The replicated state machine as pure operations: the key/value table,   *)
(* the table of client sessions that filters repeated requests, and the     *)
(* snapshot image of both.  A machine is a record; apply returns the new    *)
(* machine and the result for the client that waits for the entry.          *)
(***************************************************************************)
EXTENDS Integers, Sequences

CONSTANTS
  Client,   \* client ids
  Key,      \* keys of the table
  Value,    \* values clients store
  NoValue   \* no entry in the table

ASSUME NoValueAssumption == NoValue \notin Value

Status == {"ok", "notFound", "stale"}

\* An entry is a no-op, a configuration change (both only move lastApplied) or
\* a decoded KVCommand.  Request ids start at 1 (the codec refuses 0).
IsCommand(entry) == entry.type \in {"set", "delete"}

\* A session that does not exist has request id 0.
NoSession == [id |-> 0, status |-> "ok"]

EmptyMachine ==
  [store |-> [k \in Key |-> NoValue],
   sessions |-> [c \in Client |-> NoSession],
   lastApplied |-> 0]

NoResult == [status |-> "none"]

put(store, key, value) == [store EXCEPT ![key] = value]

remove(store, key) == [store EXCEPT ![key] = NoValue]

\* The answer of a command that is executed: a delete reports a missing key.
Outcome(store, entry) ==
  IF entry.type = "delete" /\ store[entry.key] = NoValue THEN "notFound" ELSE "ok"

Execute(store, entry) ==
  IF entry.type = "set" THEN put(store, entry.key, entry.value)
                        ELSE remove(store, entry.key)

\* Mutant of Repeated: only the very same request is recognised.
RepeatedExactly(machine, entry) == entry.id = machine.sessions[entry.client].id

\* command.request_id <= existing.request_id.
Repeated(machine, entry) == entry.id <= machine.sessions[entry.client].id

\* Mutant of RepeatedStatus: a retry is refused like an overtaken request.
RepeatedStatusStale(machine, entry) == "stale"

\* The cached answer for a retry of the latest request, STALE_REQUEST for an
\* older one.
RepeatedStatus(machine, entry) ==
  IF entry.id = machine.sessions[entry.client].id
  THEN machine.sessions[entry.client].status ELSE "stale"

\* StateMachine::apply of the entry at lastApplied + 1.
apply(machine, entry) ==
  LET next == [machine EXCEPT !.lastApplied = @ + 1] IN
  CASE ~IsCommand(entry) -> [machine |-> next, result |-> NoResult]
    [] IsCommand(entry) /\ Repeated(machine, entry) ->
         [machine |-> next,
          result |-> [status |-> RepeatedStatus(machine, entry)]]
    [] OTHER ->
         LET status == Outcome(machine.store, entry) IN
         [machine |-> [next EXCEPT
            !.store = Execute(machine.store, entry),
            !.sessions[entry.client] = [id |-> entry.id, status |-> status]],
          result |-> [status |-> status]]

\* StateMachine::snapshot at a boundary term.  The table holds present keys only
\* and the sessions existing clients only, each once.
snapshot(machine, term) ==
  [lastIncludedIndex |-> machine.lastApplied,
   lastIncludedTerm |-> term,
   entries |-> {<<k, machine.store[k]>> :
                  k \in {x \in Key : machine.store[x] # NoValue}},
   sessions |-> {[client |-> c, session |-> machine.sessions[c]] :
                   c \in {x \in Client : machine.sessions[x].id # 0}}]

NoSnapshot ==
  [lastIncludedIndex |-> 0, lastIncludedTerm |-> 0, entries |-> {}, sessions |-> {}]

\* The table of an image (KVStore::replaceAll).
replaceAll(entries) ==
  [k \in Key |-> IF \E e \in entries : e[1] = k
                 THEN (CHOOSE e \in entries : e[1] = k)[2] ELSE NoValue]

restoredSessions(image) ==
  [c \in Client |-> IF \E s \in image.sessions : s.client = c
                    THEN (CHOOSE s \in image.sessions : s.client = c).session
                    ELSE NoSession]

\* StateMachine::restore, for an image that snapshot produced.
restore(image) ==
  [store |-> replaceAll(image.entries),
   sessions |-> restoredSessions(image),
   lastApplied |-> image.lastIncludedIndex]

-----------------------------------------------------------------------------
(* What a log means, stated without executing it. *)

\* The indices whose command counts: the first of its request, and not overtaken
\* by a later request of the same client.
Effective(entries) ==
  {i \in DOMAIN entries :
     /\ IsCommand(entries[i])
     /\ \A j \in 1..(i - 1) :
          IsCommand(entries[j]) /\ entries[j].client = entries[i].client
            => entries[j].id < entries[i].id}

\* The value of a key: what the last counting command on it wrote.
ValueOf(entries, key) ==
  LET on == {i \in Effective(entries) : entries[i].key = key} IN
  IF on = {} THEN NoValue
  ELSE LET last == CHOOSE i \in on : \A j \in on : j <= i IN
       IF entries[last].type = "set" THEN entries[last].value ELSE NoValue

\* The answer that belongs to the counting command at i.
AnswerAt(entries, i) ==
  IF entries[i].type = "delete"
     /\ ValueOf(SubSeq(entries, 1, i - 1), entries[i].key) = NoValue
  THEN "notFound" ELSE "ok"

\* The machine a log leads to.
Meaning(entries) ==
  [store |-> [k \in Key |-> ValueOf(entries, k)],
   sessions |->
     [c \in Client |->
        LET of == {i \in Effective(entries) : entries[i].client = c} IN
        IF of = {} THEN NoSession
        ELSE LET last == CHOOSE i \in of : \A j \in of : j <= i IN
             [id |-> entries[last].id, status |-> AnswerAt(entries, last)]],
   lastApplied |-> Len(entries)]

=============================================================================
