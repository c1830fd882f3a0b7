--------------------------- MODULE StorageProofs ----------------------------
(***************************************************************************)
(* Proofs about what a node stores: the state machine and its images       *)
(* (StateMachine), the write-ahead log of the standalone server            *)
(* (WriteAheadLog) and the vector of RaftLog with its compacted prefix     *)
(* (CompactedLog).  The three parts do not refer to each other.            *)
(***************************************************************************)
EXTENDS StateMachine, WriteAheadLog, CompactedLog, TLAPS

-----------------------------------------------------------------------------
(* The state machine: an image restores exactly the machine it was taken from,
   and a request that is applied again changes nothing and is answered as it
   was. *)

Session == [id : Nat, status : Status]

Machine ==
  [store : [Key -> Value \cup {NoValue}], sessions : [Client -> Session], lastApplied : Nat]

Command == [type : {"set", "delete"}, client : Client, id : Nat \ {0}, key : Key, value : Value]

\* A session with request id 0 is the one that does not exist.
WellFormedMachine(machine) ==
  /\ machine \in Machine
  /\ \A c \in Client : machine.sessions[c].id = 0 => machine.sessions[c] = NoSession

-----------------------------------------------------------------------------
(* Snapshots *)

\* replaceAll restores the table whose present keys an image lists.
LEMMA StoreRoundTrip ==
  ASSUME NEW table \in [Key -> Value \cup {NoValue}]
  PROVE  replaceAll({<<k, table[k]>> : k \in {x \in Key : table[x] # NoValue}}) = table
<1> DEFINE image == {<<k, table[k]>> : k \in {x \in Key : table[x] # NoValue}}
<1>1. ASSUME NEW k \in Key, table[k] = NoValue
      PROVE  ~\E e \in image : e[1] = k
  BY <1>1
<1>2. ASSUME NEW k \in Key, table[k] # NoValue
      PROVE  /\ \E e \in image : e[1] = k
             /\ (CHOOSE e \in image : e[1] = k)[2] = table[k]
  <2>1. <<k, table[k]>> \in image /\ <<k, table[k]>>[1] = k
    BY <1>2
  <2>2. \A e \in image : e[1] = k => e = <<k, table[k]>>
    OBVIOUS
  <2>3. (CHOOSE e \in image : e[1] = k) = <<k, table[k]>>
    BY <2>1, <2>2
  <2> QED BY <2>1, <2>3
<1>3. \A k \in Key : replaceAll(image)[k] = table[k]
  BY <1>1, <1>2 DEF replaceAll
<1> QED BY <1>3 DEF replaceAll

\* restoredSessions restores the sessions that exist.
LEMMA SessionsRoundTrip ==
  ASSUME NEW sessions \in [Client -> Session],
         \A c \in Client : sessions[c].id = 0 => sessions[c] = NoSession,
         NEW image,
         image.sessions = {[client |-> c, session |-> sessions[c]] :
                             c \in {x \in Client : sessions[x].id # 0}}
  PROVE  restoredSessions(image) = sessions
<1>1. ASSUME NEW c \in Client, sessions[c].id = 0
      PROVE  ~(\E s \in image.sessions : s.client = c) /\ sessions[c] = NoSession
  BY <1>1
<1>2. ASSUME NEW c \in Client, sessions[c].id # 0
      PROVE  /\ \E s \in image.sessions : s.client = c
             /\ (CHOOSE s \in image.sessions : s.client = c).session = sessions[c]
  <2>1. PICK r : r = [client |-> c, session |-> sessions[c]]
    BY Zenon
  <2>2. r \in image.sessions /\ r.client = c /\ r.session = sessions[c]
    BY <1>2, <2>1, Zenon
  <2>3. \A s \in image.sessions : s.client = c => s = r
    BY <2>1
  <2>4. (CHOOSE s \in image.sessions : s.client = c) = r
    BY <2>2, <2>3
  <2> QED BY <2>2, <2>4
<1>3. \A c \in Client : restoredSessions(image)[c] = sessions[c]
  BY <1>1, <1>2, Zenon DEF restoredSessions
<1> QED BY <1>3, Zenon DEF restoredSessions

\* StateMachine::restore of what StateMachine::snapshot wrote gives back the same
\* table, the same sessions with their cached answers and the same position: a
\* node that starts from an image is where its log would have taken it.
THEOREM SnapshotRoundTrip ==
  ASSUME NEW machine, WellFormedMachine(machine), NEW term
  PROVE  restore(snapshot(machine, term)) = machine
<1> DEFINE image == snapshot(machine, term)
<1>1. /\ machine.store \in [Key -> Value \cup {NoValue}]
      /\ machine.sessions \in [Client -> Session]
      /\ machine = [store |-> machine.store, sessions |-> machine.sessions,
                    lastApplied |-> machine.lastApplied]
  BY DEF WellFormedMachine, Machine
<1>2. /\ image.lastIncludedIndex = machine.lastApplied
      /\ image.entries = {<<k, machine.store[k]>> :
                            k \in {x \in Key : machine.store[x] # NoValue}}
      /\ image.sessions = {[client |-> c, session |-> machine.sessions[c]] :
                             c \in {x \in Client : machine.sessions[x].id # 0}}
  BY DEF snapshot
<1> HIDE DEF image
<1>3. replaceAll(image.entries) = machine.store
  BY <1>1, <1>2, StoreRoundTrip
<1>4. restoredSessions(image) = machine.sessions
  BY <1>1, <1>2, SessionsRoundTrip DEF WellFormedMachine
<1> QED BY <1>1, <1>2, <1>3, <1>4 DEF restore, image

-----------------------------------------------------------------------------
(* Repeated requests *)

\* apply of a command that counts: what becomes of each part of the machine.
LEMMA ApplyFresh ==
  ASSUME NEW machine \in Machine, NEW entry \in Command, ~Repeated(machine, entry)
  PROVE  LET after == apply(machine, entry).machine
             status == Outcome(machine.store, entry)
         IN  /\ after \in Machine
             /\ after.store = Execute(machine.store, entry)
             /\ after.sessions = [machine.sessions EXCEPT
                                    ![entry.client] = [id |-> entry.id, status |-> status]]
             /\ after.lastApplied = machine.lastApplied + 1
             /\ apply(machine, entry).result = [status |-> status]
<1> DEFINE status == Outcome(machine.store, entry)
           table == Execute(machine.store, entry)
           session == [id |-> entry.id, status |-> status]
           sessions == [machine.sessions EXCEPT ![entry.client] = session]
           moved == [machine EXCEPT !.lastApplied = @ + 1]
           after == [moved EXCEPT !.store = table,
                       !.sessions[entry.client] = session]
<1>1. /\ machine.store \in [Key -> Value \cup {NoValue}]
      /\ machine.sessions \in [Client -> Session] /\ machine.lastApplied \in Nat
      /\ machine = [store |-> machine.store, sessions |-> machine.sessions,
                    lastApplied |-> machine.lastApplied]
  BY DEF Machine
<1>2. /\ entry.type \in {"set", "delete"} /\ entry.client \in Client
      /\ entry.id \in Nat /\ entry.key \in Key /\ entry.value \in Value
  BY DEF Command
<1>3. status \in Status
  BY DEF Outcome, Status
<1>4. table \in [Key -> Value \cup {NoValue}]
  BY <1>1, <1>2 DEF Execute, put, remove
<1>5. session \in Session
  BY <1>2, <1>3 DEF Session
<1>6. apply(machine, entry) = [machine |-> after, result |-> [status |-> status]]
  BY <1>2 DEF apply, IsCommand
<1> HIDE DEF table, session, status
<1>7. sessions \in [Client -> Session]
  BY <1>1, <1>2, <1>5
<1>8. moved = [store |-> machine.store, sessions |-> machine.sessions,
              lastApplied |-> machine.lastApplied + 1]
  BY <1>1
<1>9. after = [store |-> table, sessions |-> sessions, lastApplied |-> machine.lastApplied + 1]
  <2>1. moved.sessions = machine.sessions
    BY <1>8
  <2>2. after = [moved EXCEPT !.store = table, !.sessions = sessions]
    BY <1>8, <2>1
  <2> HIDE DEF after, sessions, moved
  <2>3. PICK x, y, z : x = table /\ y = sessions /\ z = machine.lastApplied + 1
    OBVIOUS
  <2>4. after = [[store |-> machine.store, sessions |-> machine.sessions, lastApplied |-> z]
                   EXCEPT !.store = x, !.sessions = y]
    BY <1>8, <2>2, <2>3
  <2>5. after = [store |-> x, sessions |-> y, lastApplied |-> z]
    BY <2>4, Zenon
  <2> QED BY <2>3, <2>5
<1> HIDE DEF after, sessions
<1>10. after \in Machine
  BY <1>1, <1>4, <1>7, <1>9 DEF Machine
<1> QED BY <1>6, <1>9, <1>10 DEF table, sessions, session, status

\* apply of a repeated command: only the position moves.
LEMMA ApplyRepeated ==
  ASSUME NEW machine \in Machine, NEW entry \in Command, Repeated(machine, entry)
  PROVE  LET after == apply(machine, entry).machine
         IN  /\ after \in Machine
             /\ after.store = machine.store /\ after.sessions = machine.sessions
             /\ after.lastApplied = machine.lastApplied + 1
             /\ apply(machine, entry).result = [status |-> RepeatedStatus(machine, entry)]
<1> DEFINE moved == [machine EXCEPT !.lastApplied = @ + 1]
<1>1. apply(machine, entry) = [machine |-> moved,
                               result |-> [status |-> RepeatedStatus(machine, entry)]]
  BY DEF apply, IsCommand, Command
<1>2. /\ moved \in Machine /\ moved.store = machine.store /\ moved.sessions = machine.sessions
      /\ moved.lastApplied = machine.lastApplied + 1
  BY DEF Machine
<1> HIDE DEF moved
<1> QED BY <1>1, <1>2

\* StateMachine::apply filters retries: a request that is committed a second time,
\* with any commands of other clients in between, leaves the table and the
\* sessions alone and is answered with the answer of the first time.  Here other
\* stands for the machine after those commands, in which the session of the
\* client is as the request left it (state_machine.cpp:13).
THEOREM RetryIsFiltered ==
  ASSUME NEW machine \in Machine, NEW entry \in Command, ~Repeated(machine, entry),
         NEW other \in Machine,
         other.sessions[entry.client]
           = apply(machine, entry).machine.sessions[entry.client]
  PROVE  /\ apply(other, entry).result = apply(machine, entry).result
         /\ apply(other, entry).machine.store = other.store
         /\ apply(other, entry).machine.sessions = other.sessions
<1> DEFINE status == Outcome(machine.store, entry)
<1>1. /\ entry.client \in Client /\ entry.id \in Nat
      /\ machine.sessions \in [Client -> Session]
  BY DEF Command, Machine
<1>2. /\ apply(machine, entry).machine.sessions =
           [machine.sessions EXCEPT ![entry.client] = [id |-> entry.id, status |-> status]]
      /\ apply(machine, entry).result = [status |-> status]
  BY ApplyFresh
<1> HIDE DEF status
<1>3. other.sessions[entry.client] = [id |-> entry.id, status |-> status]
  BY <1>1, <1>2
<1>4. Repeated(other, entry) /\ RepeatedStatus(other, entry) = status
  BY <1>1, <1>3 DEF Repeated, RepeatedStatus
<1> QED BY <1>2, <1>4, ApplyRepeated

\* StateMachine::apply keeps the machine well formed, so that its images are
\* faithful, and no session ever goes back to an older request.
THEOREM SessionsOnlyAdvance ==
  ASSUME NEW machine, WellFormedMachine(machine), NEW entry \in Command
  PROVE  /\ WellFormedMachine(apply(machine, entry).machine)
         /\ \A c \in Client : machine.sessions[c].id
                                <= apply(machine, entry).machine.sessions[c].id
<1> DEFINE after == apply(machine, entry).machine
           session == [id |-> entry.id, status |-> Outcome(machine.store, entry)]
<1>1. /\ machine \in Machine /\ machine.sessions \in [Client -> Session]
      /\ \A c \in Client : machine.sessions[c].id \in Nat
      /\ entry.client \in Client /\ entry.id \in Nat \ {0}
  BY DEF WellFormedMachine, Machine, Session, Command
<1>2. CASE Repeated(machine, entry)
  <2>1. after \in Machine /\ after.sessions = machine.sessions
    BY <1>1, <1>2, ApplyRepeated, Zenon
  <2> HIDE DEF after
  <2>2. WellFormedMachine(after)
    BY <2>1 DEF WellFormedMachine
  <2> QED BY <1>1, <2>1, <2>2 DEF after
<1>3. CASE ~Repeated(machine, entry)
  <2>1. after \in Machine /\ after.sessions = [machine.sessions EXCEPT ![entry.client] = session]
    BY <1>1, <1>3, ApplyFresh, Zenon
  <2>2. session.id = entry.id
    OBVIOUS
  <2>3. machine.sessions[entry.client].id < entry.id
    BY <1>1, <1>3 DEF Repeated
  <2> HIDE DEF after, session
  <2>4. WellFormedMachine(after)
    BY <1>1, <2>1, <2>2 DEF WellFormedMachine
  <2>5. \A c \in Client : machine.sessions[c].id <= after.sessions[c].id
    <3> TAKE c \in Client
    <3>1. CASE c = entry.client
      <4>1. after.sessions[c].id = entry.id /\ machine.sessions[c].id < entry.id
        BY <1>1, <2>1, <2>2, <2>3, <3>1
      <4> QED BY <1>1, <4>1
    <3>2. CASE c # entry.client
      <4>1. after.sessions[c] = machine.sessions[c]
        BY <1>1, <2>1, <3>2
      <4> QED BY <1>1, <4>1
    <3> QED BY <3>1, <3>2
  <2> QED BY <2>4, <2>5 DEF after
<1> QED BY <1>2, <1>3

-----------------------------------------------------------------------------
(* The write-ahead log keeps what it acknowledged and can always be opened
   again. *)

-----------------------------------------------------------------------------
(* Files *)

Part == [op : Operation, seq : Nat, part : {1, 2}]

\* The parts of whole records, in order and numbered from 1; the last may lack
\* its second part.
WellFormed(f) ==
  /\ f \in Seq(Part)
  /\ \A i \in 1..Len(f) :
       /\ f[i].part = (IF i % 2 = 1 THEN 1 ELSE 2)
       /\ f[i].seq = (i + 1) \div 2
       /\ i % 2 = 0 => f[i].op = f[i - 1].op

\* Such a file is accepted by recover.
LEMMA WellFormedRecoverable ==
  ASSUME NEW f, WellFormed(f)
  PROVE  Recoverable(f)
<1>1. f \in Seq(Part) /\ Len(f) \in Nat
  BY DEF WellFormed
<1>2. ASSUME NEW i \in 1..Records(f) PROVE Valid(f, i)
  <2>1. /\ i \in Nat /\ 2 * i \in 1..Len(f) /\ 2 * i - 1 \in 1..Len(f)
        /\ (2 * i) % 2 = 0 /\ (2 * i - 1) % 2 = 1
        /\ (2 * i + 1) \div 2 = i /\ (2 * i - 1 + 1) \div 2 = i
    BY <1>1 DEF Records
  <2>2. f[2 * i].part = 2 /\ f[2 * i].seq = i /\ f[2 * i].op = f[2 * i - 1].op
    BY <2>1 DEF WellFormed
  <2>3. f[2 * i - 1].part = 1 /\ f[2 * i - 1].seq = i
    BY <2>1 DEF WellFormed
  <2>. QED
    BY <2>2, <2>3 DEF Valid
<1>3. ASSUME Torn(f) PROVE f[Len(f)].part = 1
  <2>1. Len(f) \in 1..Len(f) /\ Len(f) % 2 = 1
    BY <1>1, <1>3 DEF Torn
  <2>. QED
    BY <2>1 DEF WellFormed
<1>. QED
  BY <1>2, <1>3 DEF Recoverable

\* A prefix of such a file is one.
LEMMA PrefixWellFormed ==
  ASSUME NEW f, WellFormed(f), NEW k \in 0..Len(f)
  PROVE  /\ WellFormed(SubSeq(f, 1, k)) /\ Len(SubSeq(f, 1, k)) = k
         /\ \A i \in 1..k : SubSeq(f, 1, k)[i] = f[i]
<1>1. f \in Seq(Part) /\ Len(f) \in Nat
  BY DEF WellFormed
<1>2. PICK g \in {SubSeq(f, 1, k)} : TRUE
  OBVIOUS
<1>3. g \in Seq(Part) /\ Len(g) = k /\ \A i \in 1..k : g[i] = f[i]
  BY <1>1, <1>2
<1>4. ASSUME NEW i \in 1..Len(g)
      PROVE  /\ g[i].part = (IF i % 2 = 1 THEN 1 ELSE 2)
             /\ g[i].seq = (i + 1) \div 2
             /\ i % 2 = 0 => g[i].op = g[i - 1].op
  <2>1. i \in 1..Len(f) /\ g[i] = f[i]
    BY <1>1, <1>3
  <2>2. i % 2 = 0 => i - 1 \in 1..k
    BY <1>3
  <2>3. i % 2 = 0 => g[i - 1] = f[i - 1]
    BY <1>3, <2>2
  <2>. QED
    BY <2>1, <2>3 DEF WellFormed
<1>5. WellFormed(g)
  BY <1>3, <1>4 DEF WellFormed
<1>. QED
  BY Zenon, <1>2, <1>3, <1>5

\* The first part of the next record.
LEMMA FirstPart ==
  ASSUME NEW f, WellFormed(f), NEW o \in Operation, NEW n \in Nat, Len(f) = 2 * (n - 1)
  PROVE  /\ WellFormed(Append(f, Record(o, n)[1]))
         /\ Len(Append(f, Record(o, n)[1])) = Len(f) + 1
         /\ Append(f, Record(o, n)[1])[2 * n - 1].op = o
<1>1. f \in Seq(Part) /\ Len(f) \in Nat /\ n >= 1
  BY DEF WellFormed
<1>2. PICK x : x = [op |-> o, seq |-> n, part |-> 1]
  BY Zenon
<1>3. Record(o, n)[1] = x /\ x \in Part /\ x.part = 1 /\ x.seq = n /\ x.op = o
  BY <1>2 DEF Record, Part
<1>4. PICK g : g = Append(f, x)
  BY Zenon
<1>5. /\ g \in Seq(Part) /\ Len(g) = Len(f) + 1 /\ g[Len(f) + 1] = x
      /\ \A i \in 1..Len(f) : g[i] = f[i]
  BY <1>1, <1>3, <1>4
<1>6. ASSUME NEW i \in 1..Len(g)
      PROVE  /\ g[i].part = (IF i % 2 = 1 THEN 1 ELSE 2)
             /\ g[i].seq = (i + 1) \div 2
             /\ i % 2 = 0 => g[i].op = g[i - 1].op
  <2>1. CASE i = Len(f) + 1
    <3>1. i % 2 = 1 /\ (i + 1) \div 2 = n
      BY <1>1, <2>1
    <3>. QED
      BY <1>3, <1>5, <2>1, <3>1
  <2>2. CASE i # Len(f) + 1
    <3>1. i \in 1..Len(f) /\ (i % 2 = 0 => i - 1 \in 1..Len(f))
      BY <1>1, <1>5, <2>2
    <3>2. g[i] = f[i] /\ (i % 2 = 0 => g[i - 1] = f[i - 1])
      BY <1>5, <3>1
    <3>. QED
      BY Zenon, <3>1, <3>2 DEF WellFormed
  <2>. QED
    BY <2>1, <2>2
<1>7. WellFormed(g)
  BY <1>5, <1>6 DEF WellFormed
<1>8. 2 * n - 1 = Len(f) + 1
  BY <1>1
<1>. QED
  BY <1>3, <1>4, <1>5, <1>7, <1>8

\* The second part of a record.
LEMMA SecondPart ==
  ASSUME NEW f, WellFormed(f), NEW o \in Operation, NEW n \in Nat, Len(f) = 2 * n - 1,
         f[2 * n - 1].op = o
  PROVE  /\ WellFormed(Append(f, Record(o, n)[2]))
         /\ Len(Append(f, Record(o, n)[2])) = 2 * n
         /\ Append(f, Record(o, n)[2])[2 * n].op = o
<1>1. f \in Seq(Part) /\ Len(f) \in Nat /\ n >= 1
  BY DEF WellFormed
<1>2. PICK x : x = [op |-> o, seq |-> n, part |-> 2]
  BY Zenon
<1>3. Record(o, n)[2] = x /\ x \in Part /\ x.part = 2 /\ x.seq = n /\ x.op = o
  BY <1>2 DEF Record, Part
<1>4. PICK g : g = Append(f, x)
  BY Zenon
<1>5. /\ g \in Seq(Part) /\ Len(g) = 2 * n /\ g[2 * n] = x
      /\ \A i \in 1..Len(f) : g[i] = f[i]
  <2>1. Len(f) + 1 = 2 * n
    BY <1>1
  <2>. QED
    BY <1>1, <1>3, <1>4, <2>1
<1>6. ASSUME NEW i \in 1..Len(g)
      PROVE  /\ g[i].part = (IF i % 2 = 1 THEN 1 ELSE 2)
             /\ g[i].seq = (i + 1) \div 2
             /\ i % 2 = 0 => g[i].op = g[i - 1].op
  <2>1. CASE i = 2 * n
    <3>1. i % 2 = 0 /\ (i + 1) \div 2 = n /\ i - 1 = 2 * n - 1 /\ 2 * n - 1 \in 1..Len(f)
      BY <1>1, <2>1
    <3>2. g[2 * n - 1] = f[2 * n - 1]
      BY <1>5, <3>1
    <3>. QED
      BY <1>3, <1>5, <2>1, <3>1, <3>2
  <2>2. CASE i # 2 * n
    <3>1. i \in 1..Len(f) /\ (i % 2 = 0 => i - 1 \in 1..Len(f))
      BY <1>1, <1>5, <2>2
    <3>2. g[i] = f[i] /\ (i % 2 = 0 => g[i - 1] = f[i - 1])
      BY <1>5, <3>1
    <3>. QED
      BY Zenon, <3>1, <3>2 DEF WellFormed
  <2>. QED
    BY <2>1, <2>2
<1>7. WellFormed(g)
  BY <1>5, <1>6 DEF WellFormed
<1>. QED
  BY <1>3, <1>4, <1>5, <1>7
\* Halving, as Records does it.
LEMMA Halves ==
  ASSUME NEW n \in Nat
  PROVE  /\ n \div 2 \in Nat /\ 2 * (n \div 2) <= n
         /\ n % 2 = 1 => n - 1 \in Nat /\ n - 1 = 2 * (n \div 2) /\ (n - 1) \div 2 = n \div 2
         /\ n % 2 # 1 => n = 2 * (n \div 2)
         /\ \A s \in Nat : s <= n => s \div 2 <= n \div 2
  OBVIOUS

-----------------------------------------------------------------------------
(* What was acknowledged *)

\* The first n records of the file hold the operations of a, in order.
HeldIn(f, n, a) ==
  \E at \in [DOMAIN a -> 1..n] :
    /\ \A i \in DOMAIN a : f[2 * at[i]].op = a[i]
    /\ \A i, j \in DOMAIN a : i < j => at[i] < at[j]

\* They still do when the file goes on.
LEMMA HeldGrows ==
  ASSUME NEW f, NEW g, NEW n \in Nat, NEW m \in Nat, NEW a, HeldIn(f, n, a), n <= m,
         \A i \in 1..n : g[2 * i] = f[2 * i]
  PROVE  HeldIn(g, m, a)
<1>1. PICK at \in [DOMAIN a -> 1..n] :
        /\ \A i \in DOMAIN a : f[2 * at[i]].op = a[i]
        /\ \A i, j \in DOMAIN a : i < j => at[i] < at[j]
  BY DEF HeldIn
<1>2. at \in [DOMAIN a -> 1..m]
  BY <1>1
<1>3. \A i \in DOMAIN a : g[2 * at[i]].op = a[i]
  BY <1>1
<1>. QED
  BY <1>1, <1>2, <1>3 DEF HeldIn

\* The records of a prefix that both files share.
LEMMA HeldInCommon ==
  ASSUME NEW f, NEW g, NEW s \in Nat, NEW r \in Nat, NEW c \in Nat, NEW a,
         HeldIn(f, s \div 2, a), s \div 2 <= r \div 2, 2 * (s \div 2) <= c,
         \A i \in 1..c : g[i] = f[i]
  PROVE  HeldIn(g, r \div 2, a)
<1>1. PICK m \in Nat, n \in Nat : m = s \div 2 /\ n = r \div 2
  BY Halves
<1>2. \A i \in 1..m : 2 * i \in 1..c
  BY <1>1
<1>3. \A i \in 1..m : g[2 * i] = f[2 * i]
  BY <1>2
<1>4. HeldIn(f, m, a) /\ m <= n
  BY <1>1
<1>5. HeldIn(g, n, a)
  BY <1>3, <1>4, HeldGrows
<1>. QED
  BY <1>1, <1>5

\* The next record's operation can be acknowledged.
LEMMA HeldAppend ==
  ASSUME NEW f, NEW n \in Nat, NEW S, NEW a \in Seq(S), NEW o \in S, HeldIn(f, n, a),
         f[2 * (n + 1)].op = o
  PROVE  HeldIn(f, n + 1, Append(a, o))
<1>1. PICK at \in [DOMAIN a -> 1..n] :
        /\ \A i \in DOMAIN a : f[2 * at[i]].op = a[i]
        /\ \A i, j \in DOMAIN a : i < j => at[i] < at[j]
  BY Zenon DEF HeldIn
<1>2. PICK b : b = Append(a, o)
  BY Zenon
<1>3. /\ Len(a) \in Nat /\ DOMAIN a = 1..Len(a) /\ DOMAIN b = 1..(Len(a) + 1)
      /\ b[Len(a) + 1] = o /\ \A i \in 1..Len(a) : b[i] = a[i]
  BY <1>2
<1>4. PICK to : to = [i \in DOMAIN b |-> IF i \in DOMAIN a THEN at[i] ELSE n + 1]
  BY Zenon
<1>5. /\ \A i \in 1..Len(a) : to[i] = at[i] /\ to[i] \in 1..n
      /\ to[Len(a) + 1] = n + 1
  <2>1. Len(a) + 1 \in DOMAIN b /\ Len(a) + 1 \notin DOMAIN a
    BY <1>3
  <2>2. \A i \in 1..Len(a) : i \in DOMAIN b /\ i \in DOMAIN a
    BY <1>3
  <2>. QED
    BY <1>1, <1>4, <2>1, <2>2
<1>6. to \in [DOMAIN b -> 1..(n + 1)]
  BY <1>1, <1>3, <1>4
<1>7. ASSUME NEW i \in DOMAIN b PROVE f[2 * to[i]].op = b[i]
  <2>1. CASE i \in 1..Len(a)
    BY <1>1, <1>3, <1>5, <2>1
  <2>2. CASE i = Len(a) + 1
    BY Zenon, <1>3, <1>5, <2>2
  <2>. QED
    BY <1>3, <2>1, <2>2
<1>8. ASSUME NEW i \in DOMAIN b, NEW j \in DOMAIN b, i < j PROVE to[i] < to[j]
  <2>1. i \in 1..Len(a)
    BY <1>3, <1>8
  <2>2. CASE j \in 1..Len(a)
    BY <1>1, <1>3, <1>5, <1>8, <2>1, <2>2
  <2>3. CASE j = Len(a) + 1
    BY <1>5, <2>1, <2>3
  <2>. QED
    BY <1>3, <2>2, <2>3
<1>. QED
  BY Zenon, <1>2, <1>6, <1>7, <1>8 DEF HeldIn

-----------------------------------------------------------------------------
(* The inductive invariant *)

Writing == {"write1", "write2", "sync"}

\* The records of the file that hold every acknowledged operation: all that are
\* on disk but the one about to be acknowledged.
Answered == IF pc = "apply" THEN next - 2 ELSE synced \div 2

WalType ==
  /\ synced \in Nat /\ next \in Nat /\ asked \in 0..MaxRequests
  /\ failed \in BOOLEAN /\ acked \in Seq(Operation)
  /\ pc \in {"down", "idle", "apply"} \cup Writing
  /\ pc \in {"apply"} \cup Writing => op \in Operation

\* Where the server is in a write tells what the file ends with.
Progress ==
  /\ failed => pc \in {"idle", "down"}
  /\ pc = "idle" /\ ~failed => Len(file) = 2 * (next - 1)
  /\ pc = "write1" => Len(file) = 2 * (next - 1)
  /\ pc = "write2" => Len(file) = 2 * next - 1 /\ file[2 * next - 1].op = op
  /\ pc = "sync" => Len(file) = 2 * next /\ file[2 * next].op = op
  /\ pc \in Writing => synced <= 2 * (next - 1)
  /\ pc = "apply" =>
       /\ next >= 2 /\ Len(file) = 2 * (next - 1) /\ synced = Len(file)
       /\ file[2 * (next - 1)].op = op

WalInv ==
  /\ WellFormed(file) /\ synced <= Len(file)
  /\ WalType
  /\ Progress
  /\ HeldIn(file, Answered, acked)

\* An empty log.
LEMMA WalInit == Init => WalInv
<1>. SUFFICES ASSUME Init PROVE WalInv
  OBVIOUS
<1>1. WellFormed(<<>>)
  BY DEF WellFormed
<1>2. HeldIn(<<>>, 0, <<>>)
  <2>1. PICK at : at = [i \in DOMAIN <<>> |-> 1]
    OBVIOUS
  <2>2. DOMAIN <<>> = {} 
    OBVIOUS
  <2>3. at \in [DOMAIN <<>> -> 1..0]
    BY <2>1, <2>2
  <2>. QED
    BY Zenon, <2>2, <2>3 DEF HeldIn
<1>3. Answered = 0 
  BY DEF Init, Answered
<1>4. WalType
  <2>1. acked \in Seq(Operation)
    BY DEF Init
  <2>2. pc = "down" /\ failed \in BOOLEAN
    BY Zenon DEF Init
  <2>3. synced \in Nat /\ next \in Nat /\ asked \in 0..MaxRequests
    BY WalAssumption DEF Init
  <2>. QED
    BY <2>1, <2>2, <2>3 DEF WalType, Writing
<1>5. Progress
  BY DEF Init, Progress, Writing
<1>. QED
  BY <1>1, <1>2, <1>3, <1>4, <1>5 DEF Init, WalInv
\* What recover makes of the file: the torn tail is cut.
LEMMA StartStep ==
  ASSUME WalInv, start
  PROVE  WalInv'
<1>1. /\ WellFormed(file) /\ file \in Seq(Part) /\ Len(file) \in Nat
      /\ synced \in Nat /\ synced <= Len(file) /\ HeldIn(file, synced \div 2, acked)
  BY DEF WalInv, WalType, WellFormed, Answered, start
<1>2. PICK n \in Nat, h \in Nat : n = Len(file) /\ h = n \div 2
  BY <1>1, Halves
<1>3. /\ WellFormed(file') /\ Len(file') = 2 * h /\ 2 * h <= n
      /\ synced' \in Nat /\ synced' <= Len(file') /\ synced \div 2 <= synced' \div 2
      /\ \A i \in 1..(2 * h) : file'[i] = file[i]
  <2>1. CASE Torn(file)
    <3>1. n % 2 = 1 /\ n - 1 \in 0..Len(file)
      BY <1>1, <1>2, <2>1 DEF Torn
    <3>2. n - 1 = 2 * h /\ (n - 1) \div 2 = h /\ synced \div 2 <= h
      BY Zenon, <1>1, <1>2, <3>1, Halves
    <3>3. file' = SubSeq(file, 1, n - 1) /\ synced' = n - 1
      BY <1>2, <2>1 DEF start
    <3>4. /\ WellFormed(file') /\ Len(file') = n - 1
          /\ \A i \in 1..(n - 1) : file'[i] = file[i]
      BY Zenon, <1>1, <3>1, <3>3, PrefixWellFormed
    <3>. QED
      BY <1>1, <3>2, <3>3, <3>4
  <2>2. CASE ~Torn(file)
    <3>1. n = 2 * h
      BY Zenon, <1>1, <1>2, <2>2, Halves DEF Torn
    <3>2. file' = file /\ synced' = synced
      BY <2>2 DEF start
    <3>. QED
      BY Zenon, <1>1, <1>2, <3>1, <3>2, Halves
  <2>. QED
    BY <2>1, <2>2
<1>4. /\ next' = h + 1 /\ pc' = "idle" /\ failed' = FALSE
      /\ asked' = asked /\ acked' = acked /\ op' = op
  BY <1>2 DEF start, Records
<1>5. WalType'
  <2>1. asked' \in 0..MaxRequests /\ acked' \in Seq(Operation)
    BY <1>4 DEF WalInv, WalType
  <2>2. synced' \in Nat /\ next' \in Nat /\ pc' = "idle" /\ failed' = FALSE
    BY <1>3, <1>4
  <2>. QED
    BY Zenon, <2>1, <2>2 DEF WalType, Writing
<1>6. Progress'
  BY <1>3, <1>4 DEF Progress, Writing
<1>7. HeldIn(file', synced' \div 2, acked)
  <2>1. 2 * (synced \div 2) <= 2 * h
    BY <1>1, <1>2, Halves
  <2>2. PICK s \in Nat, r \in Nat, c \in Nat : s = synced /\ r = synced' /\ c = 2 * h
    BY <1>1, <1>3
  <2>3. HeldIn(file, s \div 2, acked) /\ s \div 2 <= r \div 2 /\ 2 * (s \div 2) <= c
    BY Zenon, <1>1, <1>3, <2>1, <2>2
  <2>4. \A i \in 1..c : file'[i] = file[i]
    BY <1>3, <2>2
  <2>5. HeldIn(file', r \div 2, acked)
    BY Zenon, <2>3, <2>4, HeldInCommon
  <2>. QED
    BY <2>2, <2>5
<1>. QED
  BY <1>3, <1>4, <1>5, <1>6, <1>7 DEF WalInv, Answered

\* Steps that change neither the file nor what is on disk.
LEMMA QuietStep ==
  ASSUME WalInv, UNCHANGED <<file, synced, acked, next>>, pc # "apply", pc' # "apply",
         WalType', Progress'
  PROVE  WalInv'
  BY DEF WalInv, Answered

\* A request is refused or is about to be written.
LEMMA RequestStep ==
  ASSUME WalInv, NEW type \in {"set", "remove"}, NEW k \in WalKey, request(type, k)
  PROVE  WalInv'
<1>1. op' \in Operation /\ asked' \in 0..MaxRequests
  <2>1. asked \in 0..MaxRequests /\ asked < MaxRequests /\ asked' = asked + 1 /\ MaxRequests \in Nat
    BY WalAssumption DEF WalInv, WalType, request
  <2>2. asked + 1 \in 1..MaxRequests
    BY <2>1
  <2>. QED
    BY <2>1, <2>2 DEF request, Operation
<1>2. WalType'
  BY <1>1 DEF WalInv, WalType, request, Writing
<1>3. synced <= Len(file) /\ Progress /\ pc = "idle"
  BY DEF WalInv, request
<1>4. Progress'
  <2>1. CASE failed
    BY <1>3, <2>1 DEF Progress, request, Writing
  <2>2. CASE ~failed
    BY <1>3, <2>2 DEF Progress, request, Writing
  <2>. QED
    BY <2>1, <2>2
<1>. QED
  BY <1>2, <1>4, QuietStep DEF request

\* writeAllAt, first piece.
LEMMA Write1Step ==
  ASSUME WalInv, write1
  PROVE  WalInv'
<1>1. /\ WellFormed(file) /\ Len(file) \in Nat /\ Len(file) = 2 * (next - 1)
      /\ next \in Nat /\ synced \in Nat /\ synced <= 2 * (next - 1) /\ op \in Operation
      /\ HeldIn(file, synced \div 2, acked) /\ file \in Seq(Part)
  BY DEF WalInv, WalType, Progress, WellFormed, Answered, write1, Writing
<1>2. file' = Append(file, Record(op, next)[1])
  BY DEF write1
<1>3. WellFormed(file') /\ Len(file') = Len(file) + 1 /\ file'[2 * next - 1].op = op
  BY Zenon, <1>1, <1>2, FirstPart
<1>4. \A i \in 1..Len(file) : file'[i] = file[i]
  BY <1>1, <1>2
<1>5. HeldIn(file', synced \div 2, acked)
  <2>1. 2 * (synced \div 2) <= Len(file) /\ synced \div 2 <= synced \div 2
    BY <1>1, Halves
  <2>2. HeldIn(file, synced \div 2, acked) /\ synced \in Nat /\ Len(file) \in Nat
    BY <1>1
  <2>. QED
    BY Zenon, <1>4, <2>1, <2>2, HeldInCommon
<1>6. WalType' /\ Progress'
  <2>1. pc' = "write2" /\ UNCHANGED <<synced, op, failed, next, asked, acked>> /\ pc = "write1"
    BY DEF write1
  <2>2. WalType'
    BY <1>1, <2>1 DEF WalInv, WalType, Writing
  <2>3. failed' = FALSE
    BY <2>1 DEF WalInv, WalType, Progress
  <2>. QED
    BY <1>1, <1>3, <2>1, <2>2, <2>3 DEF Progress
<1>. QED
  BY <1>1, <1>3, <1>5, <1>6 DEF WalInv, Answered, write1

\* writeAllAt, second piece.
LEMMA Write2Step ==
  ASSUME WalInv, write2
  PROVE  WalInv'
<1>1. /\ WellFormed(file) /\ Len(file) \in Nat /\ Len(file) = 2 * next - 1
      /\ next \in Nat /\ synced \in Nat /\ synced <= 2 * (next - 1) /\ op \in Operation
      /\ HeldIn(file, synced \div 2, acked) /\ file \in Seq(Part)
      /\ file[2 * next - 1].op = op
  BY DEF WalInv, WalType, Progress, WellFormed, Answered, write2, Writing
<1>2. file' = Append(file, Record(op, next)[2])
  BY DEF write2
<1>3. WellFormed(file') /\ Len(file') = 2 * next /\ file'[2 * next].op = op
  BY <1>1, <1>2, SecondPart
<1>4. \A i \in 1..Len(file) : file'[i] = file[i]
  BY <1>1, <1>2
<1>5. HeldIn(file', synced \div 2, acked)
  <2>1. 2 * (synced \div 2) <= Len(file) /\ synced \div 2 <= synced \div 2
    BY <1>1, Halves
  <2>2. HeldIn(file, synced \div 2, acked) /\ synced \in Nat /\ Len(file) \in Nat
    BY <1>1
  <2>. QED
    BY Zenon, <1>4, <2>1, <2>2, HeldInCommon
<1>6. WalType' /\ Progress'
  <2>1. pc' = "sync" /\ UNCHANGED <<synced, op, failed, next, asked, acked>> /\ pc = "write2"
    BY DEF write2
  <2>2. WalType'
    BY <2>1 DEF WalInv, WalType, Writing
  <2>3. failed' = FALSE
    BY <2>1 DEF WalInv, WalType, Progress
  <2>. QED
    BY <1>1, <1>3, <2>1, <2>2, <2>3 DEF Progress
<1>. QED
  BY <1>1, <1>3, <1>5, <1>6 DEF WalInv, Answered, write2
\* fdatasync: the record is on disk, and not yet acknowledged.
LEMMA SyncStep ==
  ASSUME WalInv, sync
  PROVE  WalInv'
<1>1. /\ WellFormed(file) /\ Len(file) \in Nat /\ Len(file) = 2 * next
      /\ next \in Nat /\ synced \in Nat /\ synced <= 2 * (next - 1) /\ op \in Operation
      /\ HeldIn(file, synced \div 2, acked)
      /\ file[2 * next].op = op
  BY DEF WalInv, WalType, Progress, WellFormed, Answered, sync, Writing
<1>2. /\ synced' = Len(file) /\ next' = next + 1 /\ pc' = "apply" /\ pc = "sync"
      /\ file' = file /\ op' = op /\ failed' = failed /\ asked' = asked /\ acked' = acked
  BY DEF sync
<1>3. next >= 1
  BY <1>1
<1>4. HeldIn(file, next - 1, acked)
  <2>1. PICK m \in Nat, n \in Nat : m = synced \div 2 /\ n = next - 1 /\ m <= n
    BY <1>1, <1>3
  <2>. QED
    BY <1>1, <2>1, HeldGrows
<1>5. next' - 2 = next - 1 /\ 2 * (next' - 1) = 2 * next
  BY <1>1, <1>2
<1>6. WalType'
  <2>1. asked' \in 0..MaxRequests /\ acked' \in Seq(Operation) /\ failed' \in BOOLEAN
    BY <1>2 DEF WalInv, WalType
  <2>. QED
    BY <1>1, <1>2, <2>1 DEF WalType, Writing
<1>7. Progress'
  <2>1. failed' = FALSE
    BY <1>2 DEF WalInv, WalType, Progress
  <2>. QED
    BY <1>1, <1>2, <1>3, <1>5, <2>1 DEF Progress, Writing
<1>. QED
  BY <1>1, <1>2, <1>4, <1>5, <1>6, <1>7 DEF WalInv, Answered

\* markFailed: what was written stays where it is.
LEMMA MarkFailedStep ==
  ASSUME WalInv, markFailed
  PROVE  WalInv'
<1>1. /\ pc \in Writing /\ pc' = "idle" /\ failed' = TRUE
      /\ UNCHANGED <<file, synced, op, next, store, asked, acked, crashes>>
  BY DEF markFailed, Writing
<1>2. WalType'
  BY <1>1 DEF WalInv, WalType, Writing
<1>3. Progress'
  BY <1>1 DEF Progress, Writing
<1>. QED
  BY <1>1, <1>2, <1>3, QuietStep DEF Writing

\* dispatch acknowledges the record that was synced last.
LEMMA ApplyStep ==
  ASSUME WalInv, dispatch
  PROVE  WalInv'
<1>1. /\ next \in Nat /\ next >= 2 /\ Len(file) = 2 * (next - 1) /\ synced = Len(file)
      /\ file[2 * (next - 1)].op = op /\ op \in Operation /\ acked \in Seq(Operation)
      /\ HeldIn(file, next - 2, acked) /\ WellFormed(file)
  BY DEF WalInv, WalType, Progress, Answered, dispatch
<1>2. /\ acked' = Append(acked, op) /\ pc' = "idle" /\ pc = "apply"
      /\ UNCHANGED <<file, synced, op, failed, next, asked, crashes>>
  BY DEF dispatch
<1>3. HeldIn(file, next - 1, acked')
  <2>1. PICK n \in Nat : n = next - 2 /\ n + 1 = next - 1
    BY <1>1
  <2>. QED
    BY Zenon, <1>1, <1>2, <2>1, HeldAppend
<1>4. synced \div 2 = next - 1
  BY <1>1
<1>5. WalType'
  <2>1. acked' \in Seq(Operation)
    BY <1>1, <1>2
  <2>2. asked' \in 0..MaxRequests /\ failed' \in BOOLEAN /\ synced' \in Nat /\ next' \in Nat
    BY <1>2 DEF WalInv, WalType
  <2>. QED
    BY <1>2, <2>1, <2>2 DEF WalType, Writing
<1>6. Progress'
  BY <1>1, <1>2 DEF Progress, Writing
<1>7. synced <= Len(file)
  BY DEF WalInv
<1>. QED
  BY Zenon, <1>1, <1>2, <1>3, <1>4, <1>5, <1>6, <1>7 DEF WalInv, Answered

\* What is acknowledged is among the records on disk.
LEMMA AnsweredOnDisk ==
  ASSUME WalInv
  PROVE  HeldIn(file, synced \div 2, acked)
<1>1. CASE pc = "apply"
  <2>1. PICK m \in Nat, n \in Nat : m = next - 2 /\ n = synced \div 2 /\ m <= n
    BY <1>1 DEF WalInv, WalType, Progress
  <2>2. HeldIn(file, m, acked)
    BY <1>1, <2>1 DEF WalInv, Answered
  <2>. QED
    BY Zenon, <2>1, <2>2, HeldGrows
<1>2. CASE pc # "apply"
  BY <1>2 DEF WalInv, Answered
<1>. QED
  BY <1>1, <1>2

\* The process dies.
LEMMA ProcessDiesStep ==
  ASSUME WalInv, processDies
  PROVE  WalInv'
<1>1. pc' = "down" /\ UNCHANGED <<file, synced, op, failed, next, store, asked, acked>>
  BY DEF processDies
<1>2. WalType'
  BY <1>1 DEF WalInv, WalType, Writing
<1>3. Progress'
  BY <1>1 DEF Progress, Writing
<1>. QED
  BY <1>1, <1>2, <1>3, AnsweredOnDisk DEF WalInv, Answered

\* The machine dies: a prefix with all that was synced is left.
LEMMA MachineDiesStep ==
  ASSUME WalInv, machineDies
  PROVE  WalInv'
<1>1. /\ WellFormed(file) /\ Len(file) \in Nat /\ synced \in Nat /\ synced <= Len(file)
      /\ HeldIn(file, synced \div 2, acked)
  BY AnsweredOnDisk DEF WalInv, WalType, WellFormed
<1>2. PICK k \in synced..Len(file) : file' = SubSeq(file, 1, k) /\ synced' = k
  BY DEF machineDies
<1>3. k \in Nat /\ k \in 0..Len(file) /\ synced <= k
  BY <1>1
<1>4. /\ WellFormed(file') /\ Len(file') = k
      /\ \A i \in 1..k : file'[i] = file[i]
  BY <1>1, <1>2, <1>3, PrefixWellFormed
<1>5. HeldIn(file', k \div 2, acked)
  <2>1. synced \div 2 <= k \div 2 /\ 2 * (synced \div 2) <= k
    BY <1>1, <1>3
  <2>. QED
    BY Zenon, <1>1, <1>3, <1>4, <2>1, HeldInCommon
<1>6. pc' = "down" /\ UNCHANGED <<op, failed, next, store, asked, acked>>
  BY DEF machineDies
<1>7. WalType'
  <2>1. /\ next' \in Nat /\ asked' \in 0..MaxRequests
        /\ failed' \in BOOLEAN /\ acked' \in Seq(Operation)
    BY <1>6 DEF WalInv, WalType
  <2>. QED
    BY <1>2, <1>3, <1>6, <2>1 DEF WalType, Writing
<1>8. Progress'
  BY <1>6 DEF Progress, Writing
<1>. QED
  BY <1>2, <1>3, <1>4, <1>5, <1>6, <1>7, <1>8 DEF WalInv, Answered

\* Every step keeps the invariant.
LEMMA WalStep == WalInv /\ [Next]_vars => WalInv'
<1>. SUFFICES ASSUME WalInv, [Next]_vars PROVE WalInv'
  OBVIOUS
<1>1. CASE UNCHANGED vars
  BY <1>1 DEF WalInv, WalType, Progress, Answered, vars
<1>. QED
  BY <1>1, StartStep, RequestStep, Write1Step, Write2Step, SyncStep, MarkFailedStep,
     ApplyStep, ProcessDiesStep, MachineDiesStep DEF Next

-----------------------------------------------------------------------------
(* The theorems *)

\* append, recover and the truncation in open: whatever writes fail and wherever
\* the process or the machine dies, the next start accepts the file.
THEOREM RecoverableCorrect == Spec => []AlwaysRecoverable
<1>1. WalInv => AlwaysRecoverable
  BY WellFormedRecoverable DEF WalInv, AlwaysRecoverable
<1>. QED
  BY WalInit, WalStep, <1>1, PTL DEF Spec

\* append with WalSyncPolicy::kEveryWrite: the writes answered OK or NOT_FOUND
\* are on disk, in the order of the answers, after any failures and crashes.
THEOREM DurabilityOfAcknowledged == Spec => []AcknowledgedAreDurable
<1>1. ASSUME WalInv PROVE AcknowledgedAreDurable
  <2>1. /\ WellFormed(file) /\ synced \in Nat /\ Len(file) \in Nat /\ synced \in 0..Len(file)
    BY ONLY <1>1 DEF WalInv, WalType, WellFormed
  <2>2. PICK n \in Nat : n = synced \div 2 /\ 2 * n <= synced
    BY <2>1, Halves
  <2>3. PICK f : f = SubSeq(file, 1, synced)
    BY Zenon
  <2>4. Len(f) = synced /\ \A i \in 1..synced : f[i] = file[i]
    BY <2>1, <2>3, PrefixWellFormed
  <2>5. Durable = [i \in 1..n |-> f[2 * i].op]
    BY Zenon, <2>2, <2>3, <2>4 DEF Durable, Operations, Records
  <2>6. DOMAIN Durable = 1..n /\ \A i \in 1..n : Durable[i] = file[2 * i].op
    <3>1. \A i \in 1..n : 2 * i \in 1..synced
      BY <2>1, <2>2
    <3>. QED
      BY <2>4, <2>5, <3>1
  <2>7. PICK at \in [DOMAIN acked -> 1..n] :
          /\ \A i \in DOMAIN acked : file[2 * at[i]].op = acked[i]
          /\ \A i, j \in DOMAIN acked : i < j => at[i] < at[j]
    BY <1>1, <2>2, AnsweredOnDisk DEF HeldIn
  <2>. QED
    BY Zenon, <2>6, <2>7 DEF AcknowledgedAreDurable
<1>. QED
  BY WalInit, WalStep, <1>1, PTL DEF Spec

-----------------------------------------------------------------------------
(* The compacted log.  The argument is in the lemmas on the shape of entries
   after each operation: which positions are the old ones, and what the others
   are. *)

\* Concatenation keeps the elements in order.
LEMMA ConcatShape ==
  ASSUME NEW S, NEW s1 \in Seq(S), NEW s2 \in Seq(S)
  PROVE  /\ s1 \o s2 \in Seq(S) /\ Len(s1 \o s2) = Len(s1) + Len(s2)
         /\ \A i \in 1..(Len(s1) + Len(s2)) :
              (s1 \o s2)[i] = IF i <= Len(s1) THEN s1[i] ELSE s2[i - Len(s1)]
  OBVIOUS

\* A sequence has elements of its set.
LEMMA ElementShape ==
  ASSUME NEW S, NEW s \in Seq(S), NEW i \in 1..Len(s)
  PROVE  s[i] \in S
  OBVIOUS

\* A slice has the elements between its bounds.
LEMMA SliceShape ==
  ASSUME NEW S, NEW s, NEW a \in Int, NEW b \in Int, \A i \in a..b : s[i] \in S
  PROVE  /\ SubSeq(s, a, b) \in Seq(S)
         /\ Len(SubSeq(s, a, b)) = IF a <= b THEN b - a + 1 ELSE 0
         /\ \A i \in 1..(b - a + 1) : SubSeq(s, a, b)[i] = s[a + i - 1]
  OBVIOUS

Entry == [index : 0..MaxIndex, term : Term \cup {0}, payload : Payload]

\* The boundary, and the entries numbered on from it.
LogInv ==
  /\ entries \in Seq(Entry) /\ Len(entries) > 0
  /\ entries[1].payload = Blank
  /\ entries[1].index = 0 <=> entries[1].term = 0
  /\ \A k \in 1..Len(entries) : entries[k].index = entries[1].index + (k - 1)
  /\ \A k \in 2..Len(entries) : entries[k].term \in Term

\* What the invariant says of the two ends and of the positions between them.
LEMMA Ends ==
  ASSUME LogInv
  PROVE  /\ Len(entries) \in Nat \ {0}
         /\ firstIndex \in 0..MaxIndex /\ lastIndex \in 0..MaxIndex
         /\ lastIndex = firstIndex + Len(entries) - 1
         /\ \A i \in Int : Holds(i) <=> offsetOf(i) \in 1..Len(entries)
         /\ \A k \in 1..Len(entries) : entries[k] \in Entry
<1>1. Len(entries) \in Nat \ {0} /\ \A k \in 1..Len(entries) : entries[k] \in Entry
  BY DEF LogInv
<1>2. firstIndex \in 0..MaxIndex /\ lastIndex \in 0..MaxIndex
  BY <1>1 DEF firstIndex, lastIndex, Entry
<1>3. lastIndex = firstIndex + Len(entries) - 1
  BY <1>1, <1>2 DEF firstIndex, lastIndex, LogInv
<1>4. MaxIndex \in Nat
  BY LogAssumption
<1>5. ASSUME NEW i \in Int PROVE Holds(i) <=> offsetOf(i) \in 1..Len(entries)
  BY <1>1, <1>2, <1>3, <1>4 DEF Holds, offsetOf
<1> QED
  BY <1>1, <1>2, <1>3, <1>5

\* An accepted log is restored without an error.
LEMMA InvIsRestorable == LogInv => Restorable
<1> SUFFICES ASSUME LogInv PROVE Restorable
  OBVIOUS
<1>1. \A k \in 1..Len(entries) : entries[k] \in Entry
  BY Ends
<1>2. ASSUME NEW k \in 2..Len(entries)
      PROVE  /\ entries[k].index = entries[1].index + (k - 1)
             /\ entries[k].index <= MaxIndex
             /\ entries[k].term # 0
  <2>1. k \in 1..Len(entries)
    BY Ends
  <2>2. entries[k].index \in 0..MaxIndex /\ MaxIndex \in Nat
    BY <2>1, <1>1, LogAssumption DEF Entry
  <2>3. entries[k].term \in Nat \ {0}
    BY Zenon, LogAssumption DEF LogInv
  <2>4. entries[k].index = entries[1].index + (k - 1)
    BY <2>1 DEF LogInv
  <2> QED
    BY <2>2, <2>3, <2>4
<1> QED
  BY <1>2 DEF LogInv, Restorable, restoreAccepts

\* The batch with its numbers is a sequence of entries.
LEMMA NumberedShape ==
  ASSUME NEW prev \in Nat, NEW batch \in Batch, prev + Len(batch) <= MaxIndex
  PROVE  /\ Len(batch) \in Nat
         /\ \A k \in 1..Len(batch) : batch[k] \in Item
         /\ Numbered(prev, batch) \in Seq(Entry)
         /\ Len(Numbered(prev, batch)) = Len(batch)
         /\ \A k \in 1..Len(batch) :
              Numbered(prev, batch)[k] =
                [index |-> prev + k, term |-> batch[k].term, payload |-> batch[k].payload]
<1>1. batch \in Seq(Item) /\ Len(batch) \in Nat
  BY LogAssumption
<1>2. \A k \in 1..Len(batch) : batch[k] \in Item
  BY <1>1
<1>3. \A k \in 1..Len(batch) :
        [index |-> prev + k, term |-> batch[k].term, payload |-> batch[k].payload] \in Entry
  BY <1>1, <1>2, LogAssumption DEF Item, Entry
<1>4. Numbered(prev, batch) \in [1..Len(batch) -> Entry]
  BY <1>3 DEF Numbered
<1>5. Numbered(prev, batch) \in Seq(Entry) /\ Len(Numbered(prev, batch)) = Len(batch)
  BY ONLY <1>1, <1>4
<1> QED
  BY <1>1, <1>2, <1>5 DEF Numbered

\* A batch that is in the log already leaves it alone; of any other one the log
\* takes over everything behind prev.
LEMMA AppendFromShape ==
  ASSUME LogInv, NEW prev \in 0..MaxIndex, NEW batch \in Batch, NEW n \in 0..Len(batch),
         appendFrom(prev, batch, n)
  PROVE  /\ Holds(prev) /\ prev + Len(batch) <= MaxIndex
         /\ Scanned(Numbered(prev, batch), n)
         /\ \/ n = Len(batch) /\ entries' = entries
            \/ /\ n < Len(batch)
               /\ \/ prev + n + 1 > lastIndex
                  \/ OtherTerm(Numbered(prev, batch), n + 1)
               /\ entries' \in Seq(Entry)
               /\ Len(entries') = offsetOf(prev) + Len(batch)
               /\ \A k \in 1..Len(entries') : entries'[k] =
                    IF k <= offsetOf(prev) THEN entries[k]
                    ELSE Numbered(prev, batch)[k - offsetOf(prev)]
<1> DEFINE incoming == Numbered(prev, batch)
           rest == SubSeq(incoming, n + 1, Len(incoming))
           base == offsetOf(prev)
<1>1. /\ Holds(prev) /\ prev + Len(batch) <= MaxIndex
      /\ Scanned(incoming, n)
      /\ \/ /\ n < Len(batch) => incoming[n + 1].index > lastIndex
            /\ entries' = entries \o rest
         \/ /\ n < Len(batch) /\ OtherTerm(incoming, n + 1)
            /\ entries' = truncateFrom(incoming[n + 1].index) \o rest
  BY Zenon DEF appendFrom
<1>2. /\ Len(batch) \in Nat /\ incoming \in Seq(Entry) /\ Len(incoming) = Len(batch)
      /\ \A k \in 1..Len(batch) : incoming[k].index = prev + k
      /\ \A k \in 1..Len(batch) : incoming[k] \in Entry
  <2>1. prev \in Nat
    OBVIOUS
  <2>2. prev + Len(batch) <= MaxIndex
    BY Zenon, <1>1
  <2>3. /\ Len(batch) \in Nat /\ incoming \in Seq(Entry) /\ Len(incoming) = Len(batch)
        /\ \A k \in 1..Len(batch) :
             incoming[k] = [index |-> prev + k, term |-> batch[k].term,
                            payload |-> batch[k].payload]
    BY Zenon, <2>1, <2>2, NumberedShape
  <2>4. \A k \in 1..Len(batch) : incoming[k] \in Entry
    BY ONLY Zenon, <2>3, ElementShape
  <2>5. ASSUME NEW k \in 1..Len(batch) PROVE incoming[k].index = prev + k
    <3>1. incoming[k] = [index |-> prev + k, term |-> batch[k].term,
                         payload |-> batch[k].payload]
      BY Zenon, <2>3
    <3> QED
      BY ONLY <3>1
  <2> QED
    BY <2>3, <2>4, <2>5
<1>3. /\ Len(entries) \in Nat /\ base \in 1..Len(entries)
      /\ \A k \in 1..Len(entries) : entries[k] \in Entry
      /\ lastIndex = firstIndex + Len(entries) - 1 /\ firstIndex \in Nat /\ lastIndex \in Nat
      /\ entries \in Seq(Entry)
  BY <1>1, Ends DEF LogInv
<1>4. \A k \in 1..Len(batch) : offsetOf(incoming[k].index) = base + k
  BY SMTT(30), <1>2, <1>3 DEF offsetOf
<1>5. ASSUME NEW k \in 1..n
      PROVE  base + k <= Len(entries) /\ entries[base + k] = incoming[k]
  <2>1. k \in 1..Len(batch)
    BY <1>2
  <2>2. /\ incoming[k].index <= lastIndex
        /\ entries[offsetOf(incoming[k].index)] = incoming[k]
    BY <1>1 DEF Scanned, SameTerm
  <2>3. incoming[k].index = prev + k /\ offsetOf(incoming[k].index) = base + k
    BY <2>1, <1>2, <1>4
  <2>4. base = prev - firstIndex + 1
    BY DEF offsetOf
  <2> QED
    BY ONLY <2>2, <2>3, <2>4, <1>3
<1>6. /\ rest \in Seq(Entry) /\ Len(rest) = Len(batch) - n
      /\ \A i \in 1..(Len(batch) - n) : rest[i] = incoming[n + i]
  <2>1. \A i \in (n + 1)..Len(incoming) : incoming[i] \in Entry
    BY <1>2
  <2>2. /\ rest \in Seq(Entry)
        /\ Len(rest) = IF n + 1 <= Len(incoming) THEN Len(incoming) - (n + 1) + 1 ELSE 0
        /\ \A i \in 1..(Len(incoming) - (n + 1) + 1) : rest[i] = incoming[(n + 1) + i - 1]
    BY <2>1, <1>2, SliceShape
  <2> QED
    BY <2>2, <1>2
<1> HIDE DEF incoming, rest, base
<1>7. CASE n = Len(batch)
  <2>1. rest = <<>>
    BY <1>6, <1>7
  <2>2. entries' = entries
    BY ONLY <2>1, <1>1, <1>3, <1>7
  <2> QED
    BY <2>2, <1>1, <1>7 DEF incoming
<1>8. CASE n < Len(batch)
  <2>1. PICK front :
          /\ front \in Seq(Entry) /\ Len(front) = base + n
          /\ \A k \in 1..(base + n) : front[k] = entries[k]
          /\ entries' = front \o rest
    <3>1. CASE incoming[n + 1].index > lastIndex /\ entries' = entries \o rest
      <4>1. Len(entries) = base + n
        <5>1. incoming[n + 1].index = prev + (n + 1)
          BY <1>2, <1>8
        <5>2. base = prev - firstIndex + 1
          BY DEF base, offsetOf
        <5>3. n = 0 \/ base + n <= Len(entries)
          BY <1>5
        <5> QED
          BY ONLY <5>1, <5>2, <5>3, <3>1, <1>3
      <4> QED
        BY Zenon, <4>1, <3>1, <1>3
    <3>2. CASE OtherTerm(incoming, n + 1)
               /\ entries' = truncateFrom(incoming[n + 1].index) \o rest
      <4>1. n + 1 \in 1..Len(batch)
        BY <1>8, <1>2
      <4>2. truncateFrom(incoming[n + 1].index) = SubSeq(entries, 1, base + n)
        <5>1. offsetOf(incoming[n + 1].index) = base + (n + 1)
          BY <4>1, <1>4
        <5>2. base \in Nat /\ n \in Nat
          BY <1>2, <1>3
        <5>3. offsetOf(incoming[n + 1].index) - 1 = base + n
          BY ONLY <5>1, <5>2
        <5> QED
          BY Zenon, <5>3 DEF truncateFrom
      <4>3. base + n <= Len(entries)
        BY <1>5, <1>3
      <4>4. \A i \in 1..(base + n) : entries[i] \in Entry
        BY <4>3, <1>3
      <4>5. base + n \in Int /\ 1 <= base + n
        BY <1>3
      <4>6. /\ SubSeq(entries, 1, base + n) \in Seq(Entry)
            /\ Len(SubSeq(entries, 1, base + n)) = base + n
            /\ \A i \in 1..(base + n) : SubSeq(entries, 1, base + n)[i] = entries[i]
        BY <4>4, <4>5, <4>3, <1>3, SliceShape
      <4> QED
        BY Zenon, <4>6, <4>2, <3>2
    <3> QED
      BY Zenon, <3>1, <3>2, <1>1, <1>8
  <2>2. /\ entries' \in Seq(Entry)
        /\ Len(entries') = (base + n) + (Len(batch) - n)
        /\ \A k \in 1..((base + n) + (Len(batch) - n)) :
             entries'[k] = IF k <= base + n THEN front[k] ELSE rest[k - (base + n)]
    <3>1. /\ front \o rest \in Seq(Entry) /\ Len(front \o rest) = Len(front) + Len(rest)
          /\ \A i \in 1..(Len(front) + Len(rest)) :
               (front \o rest)[i] = IF i <= Len(front) THEN front[i] ELSE rest[i - Len(front)]
      BY Zenon, <2>1, <1>6, ConcatShape
    <3> QED
      BY Zenon, <2>1, <1>6, <3>1
  <2>3. Len(entries') = base + Len(batch)
    <3>1. Len(entries') = (base + n) + (Len(batch) - n)
      BY <2>2
    <3>2. base \in Nat /\ n \in Nat /\ Len(batch) \in Nat
      BY <1>2, <1>3
    <3> QED
      BY ONLY <3>1, <3>2
  <2>4. ASSUME NEW k \in 1..Len(entries')
        PROVE  entries'[k] = IF k <= base THEN entries[k] ELSE incoming[k - base]
    <3>1. CASE k <= base
      <4>1. k \in 1..(base + n)
        BY <3>1, <1>3
      <4>2. entries'[k] = front[k]
        BY <4>1, <2>2, <2>3, <1>2, <1>3
      <4> QED
        BY <4>1, <4>2, <2>1, <3>1
    <3>2. CASE base < k /\ k <= base + n
      <4>1. k - base \in 1..n /\ base + (k - base) = k
        BY <3>2, <1>3
      <4>2. entries[k] = incoming[k - base]
        BY <4>1, <1>5
      <4>3. k \in 1..(base + n)
        BY ONLY <3>2, <1>3
      <4>4. entries'[k] = front[k]
        BY <4>3, <2>2, <2>3, <1>2, <1>3
      <4> QED
        BY Zenon, <4>2, <4>3, <4>4, <2>1, <3>2, <1>3
    <3>3. CASE base + n < k
      <4>1. k - (base + n) \in 1..(Len(batch) - n) /\ n + (k - (base + n)) = k - base
        BY <3>3, <2>3, <1>2, <1>3
      <4>2. entries'[k] = rest[k - (base + n)]
        BY <3>3, <2>2, <2>3, <1>2, <1>3
      <4> QED
        BY ONLY <4>1, <4>2, <1>6, <3>3, <1>3
    <3> QED
      BY <3>1, <3>2, <3>3, <1>3
  <2>5. prev + n + 1 > lastIndex \/ OtherTerm(incoming, n + 1)
    BY <1>1, <1>2, <1>8
  <2> QED
    BY <2>2, <2>3, <2>4, <2>5, <1>1, <1>8 DEF incoming, base
<1> QED
  BY <1>7, <1>8, <1>2

\* The item the abstract log sees at an index.
LEMMA HeldAt ==
  ASSUME LogInv, NEW i \in (firstIndex + 1)..lastIndex
  PROVE  /\ Held[i] = Shown(entries[offsetOf(i)])
         /\ Held[i].term = entries[offsetOf(i)].term
         /\ offsetOf(i) \in 2..Len(entries)
<1>1. Held[i] = Shown(entries[offsetOf(i)])
  BY DEF Held
<1>2. offsetOf(i) \in 2..Len(entries)
  BY Ends DEF offsetOf
<1> QED
  BY <1>1, <1>2 DEF Shown

\* RaftLog::RaftLog: the empty log.
LEMMA InitStep == LogInit => LogInv /\ Window!Init
<1> SUFFICES ASSUME LogInit PROVE LogInv /\ Window!Init
  OBVIOUS
<1>1. Boundary(0, 0) \in Entry
  BY LogAssumption DEF Boundary, Entry
<1>2. /\ entries \in Seq(Entry) /\ Len(entries) = 1
      /\ entries[1].index = 0 /\ entries[1].term = 0 /\ entries[1].payload = Blank
  BY <1>1 DEF LogInit, Boundary
<1>3. LogInv
  BY <1>2 DEF LogInv
<1>4. firstIndex = 0 /\ lastIndex = 0
  BY <1>2 DEF firstIndex, lastIndex
<1>5. Held \in [{} -> Window!Item]
  BY <1>4 DEF Held
<1> QED
  BY <1>2, <1>3, <1>4, <1>5 DEF Window!Init

\* RaftLog::append puts one item at the end.
LEMMA AppendStep ==
  ASSUME LogInv, NEW term \in Term, NEW payload \in Payload, append(term, payload)
  PROVE  LogInv' /\ Window!Push([term |-> term, payload |-> payload])
<1> DEFINE new == [index |-> lastIndex + 1, term |-> term, payload |-> payload]
<1>1. /\ Len(entries) \in Nat \ {0} /\ firstIndex \in Nat /\ lastIndex \in Nat
      /\ lastIndex = firstIndex + Len(entries) - 1 /\ entries \in Seq(Entry)
      /\ lastIndex < MaxIndex /\ entries' = Append(entries, new)
  BY Ends DEF LogInv, append
<1>2. new \in Entry
  BY <1>1, LogAssumption DEF Entry
<1>3. new.index = lastIndex + 1 /\ new.term = term /\ new.payload = payload
  OBVIOUS
<1> HIDE DEF new
<1>4. /\ entries' \in Seq(Entry) /\ Len(entries') = Len(entries) + 1
      /\ \A k \in 1..Len(entries) : entries'[k] = entries[k]
      /\ entries'[Len(entries) + 1] = new
  BY <1>1, <1>2
<1>5. LogInv'
  <2>1. entries'[1] = entries[1]
    BY <1>1, <1>4
  <2>2. \A k \in 1..Len(entries') : entries'[k].index = entries'[1].index + (k - 1)
    BY <2>1, <1>1, <1>3, <1>4 DEF LogInv, firstIndex
  <2>3. \A k \in 2..Len(entries') : entries'[k].term \in Term
    BY <1>1, <1>3, <1>4 DEF LogInv
  <2> QED
    BY <1>1, <1>4, <2>1, <2>2, <2>3 DEF LogInv
<1>6. firstIndex' = firstIndex /\ lastIndex' = lastIndex + 1 /\ entries'[1] = entries[1]
  BY <1>1, <1>3, <1>4 DEF firstIndex, lastIndex
<1>7. Held' = [i \in (firstIndex + 1)..(lastIndex + 1) |->
                IF i = lastIndex + 1 THEN [term |-> term, payload |-> payload] ELSE Held[i]]
  <2>1. Held' = [i \in (firstIndex + 1)..(lastIndex + 1) |->
                  Shown(entries'[i - firstIndex + 1])]
    BY <1>6 DEF Held, Shown, offsetOf
  <2>2. ASSUME NEW i \in (firstIndex + 1)..lastIndex
        PROVE  Shown(entries'[i - firstIndex + 1]) = Held[i]
    <3>1. i - firstIndex + 1 \in 1..Len(entries)
      BY <1>1
    <3> QED
      BY <3>1, <1>4, HeldAt DEF offsetOf
  <2>3. Shown(entries'[(lastIndex + 1) - firstIndex + 1]) = [term |-> term, payload |-> payload]
    <3>1. (lastIndex + 1) - firstIndex + 1 = Len(entries) + 1
      BY <1>1
    <3> QED
      BY <3>1, <1>3, <1>4 DEF Shown
  <2>4. ASSUME NEW i \in (firstIndex + 1)..(lastIndex + 1), i # lastIndex + 1
        PROVE  i \in (firstIndex + 1)..lastIndex
    BY ONLY <1>1, <2>4
  <2> QED
    BY Zenon, <2>1, <2>2, <2>3, <2>4
<1> QED
  BY Zenon, <1>1, <1>5, <1>6, <1>7 DEF Window!Push

\* RaftLog::compactTo gives up the items up to the boundary and no other.
LEMMA CompactStep ==
  ASSUME LogInv, NEW index \in 0..MaxIndex, compactTo(index)
  PROVE  LogInv' /\ Window!Cut(index)
<1> DEFINE base == offsetOf(index)
           front == Boundary(index, entries[base].term)
           rest == SubSeq(entries, base + 1, Len(entries))
<1>1. /\ Len(entries) \in Nat \ {0} /\ firstIndex \in Nat /\ lastIndex \in Nat
      /\ lastIndex = firstIndex + Len(entries) - 1 /\ entries \in Seq(Entry)
      /\ \A k \in 1..Len(entries) : entries[k] \in Entry
  BY SMTT(30), Ends DEF LogInv
<1>2. base \in 1..Len(entries) /\ base = index - firstIndex + 1
  BY Ends DEF compactTo, offsetOf
<1>3. entries' = <<front>> \o rest
  BY Zenon DEF compactTo
<1>4. /\ front \in Entry /\ front.index = index /\ front.term = entries[base].term
      /\ front.payload = Blank
  <2>1. entries[base].term \in Term \cup {0}
    BY Zenon, <1>1, <1>2 DEF Entry
  <2> QED
    BY Zenon, <2>1, LogAssumption DEF Boundary, Entry
<1>5. /\ rest \in Seq(Entry) /\ Len(rest) = Len(entries) - base
      /\ \A i \in 1..(Len(entries) - base) : rest[i] = entries[base + i]
  <2>1. \A i \in (base + 1)..Len(entries) : entries[i] \in Entry
    BY <1>1, <1>2
  <2>2. /\ rest \in Seq(Entry)
        /\ Len(rest) = IF base + 1 <= Len(entries) THEN Len(entries) - (base + 1) + 1 ELSE 0
        /\ \A i \in 1..(Len(entries) - (base + 1) + 1) : rest[i] = entries[(base + 1) + i - 1]
    BY <2>1, <1>1, <1>2, SliceShape
  <2>3. Len(rest) = Len(entries) - base
    <3>1. Len(rest) = IF base + 1 <= Len(entries) THEN Len(entries) - (base + 1) + 1 ELSE 0
      BY <2>2
    <3>2. Len(entries) \in Nat /\ base \in 1..Len(entries)
      BY Zenon, <1>1, <1>2
    <3> QED
      BY ONLY <3>1, <3>2
  <2>4. ASSUME NEW i \in 1..(Len(entries) - base) PROVE rest[i] = entries[base + i]
    <3>1. Len(entries) \in Nat /\ base \in 1..Len(entries)
      BY <1>1, <1>2
    <3>2. i \in 1..(Len(entries) - (base + 1) + 1) /\ (base + 1) + i - 1 = base + i
      BY ONLY <3>1, i \in 1..(Len(entries) - base)
    <3> QED
      BY Zenon, <3>2, <2>2
  <2> QED
    BY Zenon, <2>2, <2>3, <2>4
<1> HIDE DEF base, front, rest
<1>6. /\ entries' \in Seq(Entry) /\ Len(entries') = Len(entries) - base + 1
      /\ entries'[1] = front
      /\ \A k \in 2..(Len(entries) - base + 1) : entries'[k] = entries[base + k - 1]
  <2>1. <<front>> \in Seq(Entry) /\ Len(<<front>>) = 1 /\ <<front>>[1] = front
    BY <1>4
  <2>2. /\ entries' \in Seq(Entry)
        /\ Len(entries') = 1 + (Len(entries) - base)
        /\ \A k \in 1..(1 + (Len(entries) - base)) :
             entries'[k] = IF k <= 1 THEN <<front>>[k] ELSE rest[k - 1]
    BY <1>3, <1>5, <2>1, ConcatShape
  <2>3. ASSUME NEW k \in 2..(Len(entries) - base + 1)
        PROVE  entries'[k] = entries[base + k - 1]
    <3>1. k - 1 \in 1..(Len(entries) - base) /\ base + (k - 1) = base + k - 1
      BY <1>1, <1>2
    <3>2. entries'[k] = rest[k - 1]
      BY <2>2, <1>1, <1>2
    <3> QED
      BY <3>1, <3>2, <1>5
  <2>4. Len(entries') = Len(entries) - base + 1
    <3>1. Len(entries') = 1 + (Len(entries) - base)
      BY Zenon, <2>2
    <3> QED
      BY <3>1, <1>1, <1>2
  <2> QED
    BY <2>1, <2>2, <2>3, <2>4, <1>1, <1>2
<1>7. \A k \in 1..Len(entries) : entries[k].index = firstIndex + (k - 1)
  BY Zenon DEF LogInv, firstIndex
<1>8. LogInv'
  <2>1. ASSUME NEW k \in 1..Len(entries')
        PROVE  entries'[k].index = entries'[1].index + (k - 1)
    <3>1. CASE k = 1
      BY <3>1, <1>4, <1>6
    <3>2. CASE k # 1
      <4>1. k \in 2..(Len(entries) - base + 1) /\ base + k - 1 \in 1..Len(entries)
        BY ONLY <3>2, <1>1, <1>2, <1>6
      <4>2. entries'[k].index = firstIndex + ((base + k - 1) - 1)
        BY <4>1, <1>6, <1>7
      <4> QED
        BY ONLY SMTT(30), <4>1, <4>2, <1>1, <1>2, <1>4, <1>6
    <3> QED
      BY Zenon, <3>1, <3>2
  <2>2. \A k \in 2..Len(entries') : entries'[k].term \in Term
    BY SMTT(30), <1>1, <1>2, <1>6 DEF LogInv
  <2>3. entries'[1].index = 0 <=> entries'[1].term = 0
    <3>1. CASE base = 1
      <4>1. index = entries[1].index
        BY <3>1, <1>1, <1>2 DEF firstIndex
      <4>2. entries'[1].index = entries[1].index /\ entries'[1].term = entries[1].term
        BY Zenon, <4>1, <3>1, <1>4, <1>6
      <4> QED
        BY <4>2 DEF LogInv
    <3>2. CASE base # 1
      <4>1. entries[base].term \in Term
        BY <3>2, <1>1, <1>2 DEF LogInv
      <4> QED
        BY <4>1, <3>2, <1>1, <1>2, <1>4, <1>6, LogAssumption
    <3> QED
      BY <3>1, <3>2
  <2> QED
    BY <1>1, <1>2, <1>4, <1>6, <2>1, <2>2, <2>3 DEF LogInv
<1>9. firstIndex' = index /\ lastIndex' = lastIndex
  <2>1. firstIndex' = index
    BY <1>4, <1>6 DEF firstIndex
  <2>2. Len(entries') \in 1..Len(entries') /\ Len(entries') = Len(entries) - base + 1
    BY SMTT(30), <1>1, <1>2, <1>6
  <2>3. \A k \in 1..Len(entries') : entries'[k].index = entries'[1].index + (k - 1)
    BY Zenon, <1>8 DEF LogInv
  <2>4. lastIndex' = index + (Len(entries') - 1)
    BY Zenon, <2>2, <2>3, <1>4, <1>6 DEF lastIndex
  <2> QED
    BY <2>1, <2>2, <2>4, <1>1, <1>2
<1>10. Held' = [j \in (index + 1)..lastIndex |-> Held[j]]
  <2>1. Held' = [j \in (index + 1)..lastIndex |-> Shown(entries'[j - index + 1])]
    BY <1>9 DEF Held, Shown, offsetOf
  <2>2. ASSUME NEW j \in (index + 1)..lastIndex
        PROVE  Shown(entries'[j - index + 1]) = Held[j]
    <3>1. /\ j \in (firstIndex + 1)..lastIndex
          /\ j - index + 1 \in 2..(Len(entries) - base + 1)
          /\ base + (j - index + 1) - 1 = j - firstIndex + 1
      BY <1>1, <1>2
    <3>2. entries'[j - index + 1] = entries[j - firstIndex + 1]
      BY <3>1, <1>6
    <3> QED
      BY <3>1, <3>2, HeldAt DEF offsetOf
  <2> QED
    BY Zenon, <2>1, <2>2
<1>11. entries'[1].term = IF index = firstIndex THEN entries[1].term ELSE Held[index].term
  <2>1. CASE index = firstIndex
    BY ONLY <2>1, <1>1, <1>2, <1>4, <1>6
  <2>2. CASE index # firstIndex
    <3>1. index \in (firstIndex + 1)..lastIndex
      BY <2>2, <1>1, <1>2
    <3> QED
      BY <3>1, <2>2, <1>4, <1>6, HeldAt DEF base
  <2> QED
    BY <2>1, <2>2
<1>12. index \in firstIndex..lastIndex
  BY <1>1, <1>2
<1> QED
  BY Zenon, <1>8, <1>9, <1>10, <1>11, <1>12 DEF Window!Cut

\* replaceLogWithSnapshotBoundary keeps nothing.
LEMMA ReplaceStep ==
  ASSUME NEW index \in 1..MaxIndex, NEW term \in Term,
         replaceLogWithSnapshotBoundary(index, term)
  PROVE  LogInv' /\ Window!Reset(index, term)
<1>1. Boundary(index, term) \in Entry
  BY LogAssumption DEF Boundary, Entry
<1>2. /\ entries' \in Seq(Entry) /\ Len(entries') = 1
      /\ entries'[1].index = index /\ entries'[1].term = term /\ entries'[1].payload = Blank
  BY <1>1 DEF replaceLogWithSnapshotBoundary, Boundary
<1>3. LogInv'
  BY <1>2, LogAssumption DEF LogInv
<1>4. firstIndex' = index /\ lastIndex' = index
  BY <1>2 DEF firstIndex, lastIndex
<1>5. Held' \in [{} -> Window!Item]
  BY ONLY <1>4, LogAssumption DEF Held
<1> QED
  BY <1>2, <1>3, <1>4, <1>5 DEF Window!Reset

\* RaftLog::appendFrom: scan, truncation and insertion together leave the batch
\* behind prev, and what was behind the batch only if no term differed.
LEMMA AppendFromStep ==
  ASSUME LogInv, NEW prev \in 0..MaxIndex, NEW batch \in Batch, NEW n \in 0..Len(batch),
         appendFrom(prev, batch, n)
  PROVE  LogInv' /\ Window!Merge(prev, batch)
<1> DEFINE incoming == Numbered(prev, batch)
           base == offsetOf(prev)
           size == Len(batch)
<1>1. /\ Len(entries) \in Nat \ {0} /\ firstIndex \in Nat /\ lastIndex \in Nat
      /\ lastIndex = firstIndex + Len(entries) - 1 /\ entries \in Seq(Entry)
      /\ \A k \in 1..Len(entries) : entries[k] \in Entry
  BY SMTT(20), Ends DEF LogInv
<1>2. /\ Holds(prev) /\ prev + size <= MaxIndex
      /\ Scanned(incoming, n)
      /\ \/ n = size /\ entries' = entries
         \/ /\ n < size
            /\ prev + n + 1 > lastIndex \/ OtherTerm(incoming, n + 1)
            /\ entries' \in Seq(Entry)
            /\ Len(entries') = base + size
            /\ \A k \in 1..Len(entries') :
                 entries'[k] = IF k <= base THEN entries[k] ELSE incoming[k - base]
  BY Zenon, AppendFromShape
<1>3. /\ size \in Nat
      /\ \A k \in 1..size : batch[k] \in Item
      /\ \A k \in 1..size :
           incoming[k] = [index |-> prev + k, term |-> batch[k].term,
                          payload |-> batch[k].payload]
  <2>1. prev \in Nat
    BY ONLY LogAssumption, prev \in 0..MaxIndex, SMTT(30)
  <2>. QED
    BY Zenon, <2>1, <1>2, NumberedShape
<1>4. base \in 1..Len(entries) /\ base = prev - firstIndex + 1 /\ prev \in Nat
  BY SMTT(20), <1>2, Ends DEF offsetOf
<1>5. ASSUME NEW k \in 1..size
      PROVE  /\ incoming[k].index = prev + k /\ incoming[k].term = batch[k].term
             /\ Shown(incoming[k]) = batch[k]
             /\ batch[k].term \in Term
             /\ offsetOf(prev + k) = base + k /\ incoming[k] \in Entry
  <2>1. incoming[k] = [index |-> prev + k, term |-> batch[k].term, payload |-> batch[k].payload]
    BY Zenon, <1>3
  <2>2. batch[k] \in Item
    BY Zenon, <1>3
  <2>3. Shown(incoming[k]) = batch[k]
    BY <2>1, <2>2 DEF Shown, Item
  <2>4. offsetOf(prev + k) = base + k
    BY ONLY <1>1, <1>4 DEF offsetOf
  <2>5. prev + k \in 0..MaxIndex
    BY <1>2, <1>3, <1>4, LogAssumption
  <2>6. incoming[k] \in Entry
    BY <2>1, <2>2, <2>5 DEF Entry, Item
  <2> QED
    BY ONLY <2>1, <2>2, <2>3, <2>4, <2>6 DEF Item
<1>6. DOMAIN batch = 1..size
  BY ONLY LogAssumption
<1> HIDE DEF incoming, base, size
<1>7. ASSUME NEW k \in 1..n
      PROVE  /\ prev + k <= lastIndex /\ prev + k \in (firstIndex + 1)..lastIndex
             /\ entries[base + k] = incoming[k] /\ Held[prev + k] = batch[k]
  <2>1. k \in 1..size
    BY ONLY <1>3 DEF size
  <2>2. /\ incoming[k].index <= lastIndex
        /\ entries[offsetOf(incoming[k].index)] = incoming[k]
    BY Zenon, <1>2 DEF Scanned, SameTerm
  <2>3. prev + k <= lastIndex /\ entries[offsetOf(prev + k)] = incoming[k]
    BY Zenon, <2>1, <2>2, <1>5
  <2>4. prev + k \in (firstIndex + 1)..lastIndex
    BY <2>3, <1>1, <1>4
  <2> QED
    BY Zenon, <2>1, <2>3, <2>4, <1>5, HeldAt
<1>8. ASSUME n < size, OtherTerm(incoming, n + 1)
      PROVE  Window!Differs(prev, batch, n + 1)
  <2>1. n + 1 \in 1..size
    BY ONLY <1>3, <1>8
  <2>2. prev + (n + 1) <= lastIndex /\ entries[offsetOf(prev + (n + 1))].term # batch[n + 1].term
    BY Zenon, <2>1, <1>5, <1>8 DEF OtherTerm
  <2>3. prev + (n + 1) \in (firstIndex + 1)..lastIndex
    BY <2>2, <2>1, <1>1, <1>4
  <2> QED
    BY Zenon, <2>2, <2>3, HeldAt DEF Window!Differs
<1>9. prev \in firstIndex..lastIndex
  BY ONLY <1>1, <1>4
<1>10. ASSUME NEW k \in DOMAIN batch, prev + k <= lastIndex,
              \A j \in 1..k : ~Window!Differs(prev, batch, j)
       PROVE  Held[prev + k] = batch[k]
  <2>1. CASE k <= n
    BY ONLY <2>1, <1>6, <1>7, <1>3
  <2>2. CASE n < k
    <3>1. n < size /\ n + 1 \in 1..k /\ prev + n + 1 <= lastIndex
      BY ONLY SMTT(30), <2>2, <1>1, <1>3, <1>4, <1>6, <1>10
    <3>2. OtherTerm(incoming, n + 1)
      BY ONLY SMTT(30), <3>1, <1>2, <1>1, <1>4
    <3> QED
      BY Zenon, <3>1, <3>2, <1>8, <1>10
  <2> QED
    BY ONLY <2>1, <2>2, <1>3, <1>6
<1>11. CASE n = size /\ entries' = entries
  <2>1. \A k \in DOMAIN batch : ~Window!Differs(prev, batch, k)
    BY Zenon, <1>6, <1>7, <1>11 DEF Window!Differs
  <2>2. prev + size <= lastIndex
    <3>1. CASE size = 0
      BY ONLY <3>1, <1>1, <1>9
    <3>2. CASE size # 0
      BY ONLY <3>2, <1>3, <1>7, <1>11
    <3> QED
      BY <3>1, <3>2
  <2>3. LogInv' /\ firstIndex' = firstIndex /\ lastIndex' = lastIndex /\ Held' = Held
        /\ entries'[1] = entries[1]
    BY <1>11 DEF LogInv, firstIndex, lastIndex, Held, offsetOf
  <2>4. Held = [i \in (firstIndex + 1)..lastIndex |->
                 IF i \in (prev + 1)..(prev + size) THEN batch[i - prev] ELSE Held[i]]
    <3>1. ASSUME NEW i \in (firstIndex + 1)..lastIndex, i \in (prev + 1)..(prev + size)
          PROVE  Held[i] = batch[i - prev]
      <4>1. i - prev \in 1..n /\ prev + (i - prev) = i
        BY <3>1, <1>3, <1>4, <1>11
      <4> QED
        BY Zenon, <4>1, <1>7
    <3>2. Held = [i \in (firstIndex + 1)..lastIndex |-> Held[i]]
      BY Zenon DEF Held
    <3> QED
      BY <3>1, <3>2
  <2>5. ~(prev + size > lastIndex)
    BY ONLY <2>2, <1>1, <1>3, <1>4
  <2> QED
    BY Zenon, <1>2, <1>9, <1>10, <2>1, <2>3, <2>4, <2>5 DEF Window!Merge, size
<1>12. CASE /\ n < size
            /\ prev + n + 1 > lastIndex \/ OtherTerm(incoming, n + 1)
            /\ entries' \in Seq(Entry)
            /\ Len(entries') = base + size
            /\ \A k \in 1..Len(entries') :
                 entries'[k] = IF k <= base THEN entries[k] ELSE incoming[k - base]
  <2>1. entries'[1] = entries[1]
    BY ONLY <1>12, <1>3, <1>4
  <2>2. ASSUME NEW k \in 1..Len(entries')
        PROVE  entries'[k].index = entries'[1].index + (k - 1)
    <3>1. \A j \in 1..Len(entries) : entries[j].index = firstIndex + (j - 1)
      BY Zenon DEF LogInv, firstIndex
    <3>2. CASE k <= base
      <4>1. k \in 1..Len(entries) /\ entries'[k] = entries[k]
        BY ONLY <3>2, <1>12, <1>1, <1>4
      <4> QED
        BY Zenon, <4>1, <3>1, <2>1 DEF firstIndex
    <3>3. CASE base < k
      <4>1. k - base \in 1..size /\ prev + (k - base) = firstIndex + (k - 1)
        <5>1. base < k /\ k \in 1..(base + size)
          BY Zenon, <3>3, <1>12
        <5> QED
          BY ONLY <5>1, <1>1, <1>3, <1>4
      <4>2. entries'[k] = incoming[k - base]
        BY <3>3, <1>12, <1>4
      <4> QED
        BY Zenon, <4>1, <4>2, <1>5, <2>1 DEF firstIndex
    <3> QED
      BY ONLY <3>2, <3>3, <1>4
  <2>3. ASSUME NEW k \in 2..Len(entries')
        PROVE  entries'[k].term \in Term
    <3>1. CASE k <= base
      <4>1. k \in 2..Len(entries)
        BY ONLY SMTT(30), k \in 2..Len(entries'), <3>1, <1>12, <1>1, <1>4
      <4>2. k \in 1..Len(entries')
        BY ONLY k \in 2..Len(entries'), <1>12, <1>3, <1>4
      <4>3. entries'[k] = entries[k]
        BY Zenon, <3>1, <1>12, <4>2
      <4> QED
        BY Zenon, <4>1, <4>3 DEF LogInv
    <3>2. CASE base < k
      <4>1. k - base \in 1..size
        BY ONLY <3>2, <1>12, <1>3, <1>4
      <4>2. entries'[k] = incoming[k - base]
        BY ONLY <3>2, <1>12, <1>4
      <4> QED
        BY Zenon, <4>1, <4>2, <1>5
    <3> QED
      BY <3>1, <3>2, <1>4
  <2>4. Len(entries') > 0 /\ Len(entries') \in 1..Len(entries')
    BY ONLY <1>12, <1>3, <1>4
  <2>5. LogInv'
    BY Zenon, <1>12, <2>1, <2>2, <2>3, <2>4 DEF LogInv
  <2>6. firstIndex' = firstIndex
    BY <2>1 DEF firstIndex
  <2>7. lastIndex' = prev + size
    <3>1. lastIndex' = firstIndex + (Len(entries') - 1)
      BY Zenon, <2>1, <2>2, <2>4 DEF lastIndex, firstIndex
    <3>2. /\ firstIndex \in Nat /\ size \in Nat /\ prev \in Nat
          /\ base = prev - firstIndex + 1 /\ Len(entries') = base + size
      BY Zenon, <1>12, <1>1, <1>3, <1>4
    <3> QED
      BY ONLY <3>1, <3>2
  <2>8. (\E k \in DOMAIN batch : Window!Differs(prev, batch, k)) \/ prev + size > lastIndex
    <3>1. CASE prev + n + 1 > lastIndex
      <4>1. n \in Nat /\ size \in Nat /\ n < size /\ prev \in Nat /\ lastIndex \in Nat
        BY ONLY <1>12, <1>1, <1>3, <1>4
      <4> QED
        BY ONLY <4>1, <3>1
    <3>2. CASE OtherTerm(incoming, n + 1)
      <4>1. n + 1 \in DOMAIN batch
        BY <1>12, <1>3, <1>6
      <4> QED
        BY Zenon, <4>1, <3>2, <1>8, <1>12
    <3> QED
      BY Zenon, <3>1, <3>2, <1>12
  <2>9. Held' = [i \in (firstIndex + 1)..(prev + size) |->
                  IF i \in (prev + 1)..(prev + size) THEN batch[i - prev] ELSE Held[i]]
    <3>1. Held' = [i \in (firstIndex + 1)..(prev + size) |->
                    Shown(entries'[i - firstIndex + 1])]
      BY Zenon, <2>6, <2>7 DEF Held, Shown, offsetOf
    <3>2. ASSUME NEW i \in (firstIndex + 1)..(prev + size), i \in (prev + 1)..(prev + size)
          PROVE  Shown(entries'[i - firstIndex + 1]) = batch[i - prev]
      <4>1. /\ i - firstIndex + 1 \in 1..Len(entries') /\ base < i - firstIndex + 1
            /\ (i - firstIndex + 1) - base = i - prev /\ i - prev \in 1..size
        BY ONLY <3>2, <1>12, <1>1, <1>3, <1>4
      <4>2. entries'[i - firstIndex + 1] = incoming[i - prev]
        <5>1. \A k \in 1..Len(entries') :
                entries'[k] = IF k <= base THEN entries[k] ELSE incoming[k - base]
          BY Zenon, <1>12
        <5>2. entries'[i - firstIndex + 1] = incoming[(i - firstIndex + 1) - base]
          <6>1. ~(i - firstIndex + 1 <= base)
            BY SMTT(30), <4>1, <1>1, <1>3, <1>4
          <6> QED
            BY ONLY Zenon, <5>1, <4>1, <6>1
        <5> QED
          BY ONLY Zenon, <5>2, <4>1
      <4> QED
        BY Zenon, <4>1, <4>2, <1>5
    <3>3. ASSUME NEW i \in (firstIndex + 1)..(prev + size), i \notin (prev + 1)..(prev + size)
          PROVE  Shown(entries'[i - firstIndex + 1]) = Held[i]
      <4>1. /\ i - firstIndex + 1 \in 1..Len(entries') /\ i - firstIndex + 1 <= base
            /\ i \in (firstIndex + 1)..lastIndex
        <5>1. /\ firstIndex \in Nat /\ lastIndex \in Nat /\ size \in Nat /\ prev \in Nat
              /\ base = prev - firstIndex + 1 /\ base \in Nat /\ prev \in firstIndex..lastIndex
              /\ Len(entries') = base + size
          BY SMTT(30), <1>12, <1>1, <1>3, <1>4, <1>9
        <5>2. i \in (firstIndex + 1)..prev
          BY ONLY <5>1, i \in (firstIndex + 1)..(prev + size),
                  i \notin (prev + 1)..(prev + size)
        <5> QED
          BY ONLY SMTT(30), <5>1, <5>2
      <4>2. entries'[i - firstIndex + 1] = entries[i - firstIndex + 1]
        BY Zenon, <4>1, <1>12
      <4> QED
        BY <4>1, <4>2, HeldAt DEF offsetOf
    <3> QED
      BY Zenon, <3>1, <3>2, <3>3
  <2> QED
    BY Zenon, <1>2, <1>9, <1>10, <2>1, <2>5, <2>6, <2>7, <2>8, <2>9 DEF Window!Merge, size
<1> QED
  BY Zenon, <1>2, <1>11, <1>12

\* The invariant is inductive, and every step of the vector is one of the plain log.
LEMMA EveryStep ==
  ASSUME LogInv, [LogNext]_entries
  PROVE  LogInv' /\ [Window!Next]_(Window!vars)
<1>1. CASE UNCHANGED entries
  BY <1>1 DEF LogInv, Window!vars, firstIndex, lastIndex, Held, offsetOf
<1>2. ASSUME NEW term \in Term, NEW payload \in Payload, append(term, payload)
      PROVE  LogInv' /\ Window!Next
  <2>1. [term |-> term, payload |-> payload] \in Window!Item
    BY DEF Window!Item
  <2> QED
    BY <1>2, <2>1, AppendStep DEF Window!Next
<1>3. ASSUME NEW prev \in 0..MaxIndex, NEW batch \in Batch, NEW n \in 0..Len(batch),
             appendFrom(prev, batch, n)
      PROVE  LogInv' /\ Window!Next
  BY <1>3, AppendFromStep DEF Window!Next
<1>4. ASSUME NEW index \in 0..MaxIndex, compactTo(index)
      PROVE  LogInv' /\ Window!Next
  BY <1>4, CompactStep DEF Window!Next
<1>5. ASSUME NEW index \in 1..MaxIndex, NEW term \in Term,
             replaceLogWithSnapshotBoundary(index, term)
      PROVE  LogInv' /\ Window!Next
  BY <1>5, ReplaceStep DEF Window!Next
<1> QED
  BY Zenon, <1>1, <1>2, <1>3, <1>4, <1>5 DEF LogNext

\* What RaftLog hands to persistence is accepted by RaftLog::restore at the next
\* start, after any sequence of appends, merges, compactions and installed snapshots.
THEOREM RestorableCorrect == LogSpec => []Restorable
<1>1. LogInit => LogInv
  BY InitStep
<1>2. LogInv /\ [LogNext]_entries => LogInv'
  BY EveryStep
<1> QED
  BY <1>1, <1>2, InvIsRestorable, PTL DEF LogSpec

\* The vector of RaftLog, with its blank first element and its offsets, implements
\* the plain log above the boundary.
THEOREM LogIsWindow == LogSpec => ImplementsWindow
<1>1. LogInit => LogInv /\ Window!Init
  BY InitStep
<1>2. LogInv /\ [LogNext]_entries => LogInv' /\ [Window!Next]_(Window!vars)
  BY EveryStep
<1> QED
  BY <1>1, <1>2, PTL DEF LogSpec, ImplementsWindow, Window!Spec

=============================================================================
