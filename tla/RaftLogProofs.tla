--------------------------- MODULE RaftLogProofs ----------------------------
(***************************************************************************)
(* What the operators of RaftLog and the pure operators of RaftState       *)
(* return for every log and every batch, when two logs agree, what a       *)
(* follower makes of a request, and that every shape of a step keeps       *)
(* MatchInv, the invariant on the term logs L.                             *)
(***************************************************************************)
EXTENDS RaftGhost, TLAPS

-----------------------------------------------------------------------------
(* Sequences *)

\* The order of the naturals, for steps that need nothing else of arithmetic.
LEMMA NatRefl == \A n \in Nat : 0 <= n /\ n <= n /\ n <= n + 1
  OBVIOUS

\* Sequences: lengths, elements and how sequences are put together.
LEMMA SeqLen ==
  ASSUME NEW E, NEW q \in Seq(E)
  PROVE  Len(q) \in Nat /\ DOMAIN q = 1..Len(q) /\ q \in [1..Len(q) -> E]
  OBVIOUS

\* An index within the length has an element.
LEMMA SeqElement ==
  ASSUME NEW E, NEW q \in Seq(E), NEW k \in 1..Len(q)
  PROVE  q[k] \in E
  OBVIOUS

\* The empty sequence is the one of length zero.
LEMMA SeqEmpty ==
  ASSUME NEW E
  PROVE  <<>> \in Seq(E) /\ Len(<<>>) = 0 /\ \A q \in Seq(E) : q # <<>> => Len(q) \in Nat \ {0}
  OBVIOUS

\* Append adds one element at the end.
LEMMA SeqAppend ==
  ASSUME NEW E, NEW q \in Seq(E), NEW e \in E
  PROVE  /\ Append(q, e) \in Seq(E) /\ Append(q, e) # <<>>
         /\ Len(Append(q, e)) = Len(q) + 1 /\ Append(q, e)[Len(q) + 1] = e
         /\ \A k \in 1..Len(q) : Append(q, e)[k] = q[k]
  OBVIOUS

\* Concatenation keeps the elements in order.
LEMMA SeqConcat ==
  ASSUME NEW E, NEW q \in Seq(E), NEW r \in Seq(E)
  PROVE  /\ q \o r \in Seq(E) /\ Len(q \o r) = Len(q) + Len(r)
         /\ \A k \in 1..(Len(q) + Len(r)) :
              (q \o r)[k] = IF k <= Len(q) THEN q[k] ELSE r[k - Len(q)]
  OBVIOUS

\* Nothing appended is nothing changed.
LEMMA SeqConcatEmpty ==
  ASSUME NEW E, NEW q \in Seq(E)
  PROVE  q \o <<>> = q
  OBVIOUS

\* A slice has the elements between its bounds.
LEMMA SeqSlice ==
  ASSUME NEW E, NEW q, NEW a \in Int, NEW b \in Int, \A k \in a..b : q[k] \in E
  PROVE  /\ SubSeq(q, a, b) \in Seq(E)
         /\ Len(SubSeq(q, a, b)) = IF a <= b THEN b - a + 1 ELSE 0
         /\ \A k \in 1..(b - a + 1) : SubSeq(q, a, b)[k] = q[a + k - 1]
  OBVIOUS

\* The slice of everything is the sequence.
LEMMA SeqWhole ==
  ASSUME NEW E, NEW q \in Seq(E)
  PROVE  SubSeq(q, 1, Len(q)) = q
  OBVIOUS

\* A slice that ends before it starts is empty.
LEMMA SeqNothing ==
  ASSUME NEW q, NEW a \in Int, NEW b \in Int, b < a
  PROVE  SubSeq(q, a, b) = <<>>
  OBVIOUS

-----------------------------------------------------------------------------
(* Operators of RaftLog *)

\* Min of a non-empty set of naturals is its least element.
LEMMA MinOfNaturals ==
  ASSUME Counting, NEW S \in SUBSET Nat, S # {}
  PROVE  /\ Min(S) \in S
         /\ \A y \in S : Min(S) <= y
<1>. \E m \in S : \A k \in S : m <= k
  BY Zenon DEF Counting
<1>. QED
  BY Zenon DEF Min

\* Max of a non-empty bounded set of naturals is its greatest element.
LEMMA MaxOfNaturals ==
  ASSUME Counting, NEW S \in SUBSET Nat, S # {}, NEW n \in Nat, \A x \in S : x <= n
  PROVE  /\ Max(S) \in S
         /\ \A y \in S : y <= Max(S)
<1>. DEFINE T == {m \in Nat : n - m \in S}
<1>1. T \in SUBSET Nat /\ T # {}
  <2>. PICK x \in S : TRUE
    BY Zenon
  <2>. n - x \in Nat /\ n - (n - x) = x
    OBVIOUS
  <2>. QED
    BY Zenon
<1>2. Min(T) \in T /\ \A y \in T : Min(T) <= y
  BY <1>1, MinOfNaturals
<1>3. ASSUME NEW y \in S
      PROVE  y <= n - Min(T)
  <2>1. n - y \in Nat /\ n - (n - y) = y
    OBVIOUS
  <2>2. n - y \in T
    BY <2>1
  <2>3. Min(T) <= n - y
    BY <2>2, <1>2
  <2>. HIDE DEF T
  <2>4. Min(T) \in Nat
    BY Zenon, <1>1, <1>2
  <2>. QED
    BY <2>3, <2>4
<1>4. n - Min(T) \in S
  BY <1>2
<1>. HIDE DEF T
<1>. QED
  BY Zenon, <1>3, <1>4 DEF Max

\* The two-element cases, which are std::min and std::max.
LEMMA MinOfTwo ==
  ASSUME NEW a \in Nat, NEW b \in Nat
  PROVE  Min({a, b}) = IF a <= b THEN a ELSE b
<1>. \E x \in {a, b} : \A y \in {a, b} : x <= y
  OBVIOUS
<1>. Min({a, b}) \in {a, b} /\ \A y \in {a, b} : Min({a, b}) <= y
  BY Zenon DEF Min
<1>. QED
  OBVIOUS

\* The larger of two naturals, as the code's std::max.
LEMMA MaxOfTwo ==
  ASSUME NEW a \in Nat, NEW b \in Nat
  PROVE  Max({a, b}) = IF a <= b THEN b ELSE a
<1>. \E x \in {a, b} : \A y \in {a, b} : y <= x
  OBVIOUS
<1>. Max({a, b}) \in {a, b} /\ \A y \in {a, b} : y <= Max({a, b})
  BY Zenon DEF Max
<1>. QED
  OBVIOUS

\* A set of log entries: what the lemmas below need to know of an entry.
Entries(E) == \A e \in E : e.term \in Nat

\* A rejection moves next to an index of the log or to the one after its end.
LEMMA NextIndexAfterConflictRange ==
  ASSUME Counting, NEW E, NEW lg \in Seq(E), NEW conflictIndex \in Nat, NEW conflictTerm
  PROVE  nextIndexAfterConflict(lg, conflictIndex, conflictTerm)
           \in 1..(lastIndex(lg) + 1)
<1>. DEFINE sameTerm  == IF conflictTerm = NoTerm THEN {}
                         ELSE IndicesOfTerm(lg, conflictTerm)
            candidate == IF sameTerm = {} THEN conflictIndex
                         ELSE Max(sameTerm) + 1
<1>1. Len(lg) \in Nat
  BY SeqLen
<1>2. sameTerm \in SUBSET Nat /\ \A x \in sameTerm : x <= Len(lg)
  BY <1>1 DEF IndicesOfTerm
<1>3. candidate \in Nat
  <2>. HIDE DEF sameTerm
  <2>1. sameTerm # {} => Max(sameTerm) \in sameTerm
    BY Zenon, <1>1, <1>2, MaxOfNaturals
  <2>2. sameTerm # {} => Max(sameTerm) \in Nat
    BY Zenon, <2>1, <1>2
  <2>3. CASE sameTerm = {}
    BY <2>3
  <2>4. CASE sameTerm # {}
    <3>. Max(sameTerm) + 1 \in Nat
      BY <2>2, <2>4
    <3>. QED
      BY <2>4
  <2>. QED
    BY <2>3, <2>4
<1>. HIDE DEF candidate
<1>. DEFINE m == Max({1, candidate})
<1>4. m \in Nat /\ 1 <= m
  BY <1>3, MaxOfTwo
<1>. HIDE DEF m
<1>5. Min({m, Len(lg) + 1}) \in 1..(Len(lg) + 1)
  <2>. Len(lg) + 1 \in Nat
    BY <1>1
  <2>. Min({m, Len(lg) + 1}) = IF m <= Len(lg) + 1 THEN m ELSE Len(lg) + 1
    BY <1>4, MinOfTwo
  <2>. QED
    BY <1>1, <1>4
<1>. QED
  BY Zenon, <1>5 DEF nextIndexAfterConflict, lastIndexOfTerm, m, candidate, sameTerm, lastIndex

\* The part of the log appendFrom keeps reaches at least to prev.
LEMMA KeptLengthRange ==
  ASSUME Counting, NEW E, NEW lg \in Seq(E), NEW prev \in 0..Len(lg),
         NEW incoming \in Seq(E)
  PROVE  KeptLength(lg, prev, incoming) \in prev..Len(lg)
<1>. DEFINE C == TermConflicts(lg, prev, incoming)
<1>1. Len(lg) \in Nat /\ Len(incoming) \in Nat
  BY SeqLen
<1>2. C \in SUBSET Nat /\ \A k \in C : 1 <= k /\ prev + k <= Len(lg)
  BY <1>1 DEF TermConflicts, Overlap
<1>. HIDE DEF C
<1>3. C # {} => Min(C) \in C
  BY <1>2, MinOfNaturals
<1>4. ASSUME C # {}
      PROVE  prev + Min(C) - 1 \in prev..Len(lg)
  <2>. PICK k \in C : k = Min(C)
    BY <1>3, <1>4
  <2>. k \in Nat /\ 1 <= k /\ prev + k <= Len(lg)
    BY <1>2
  <2>. prev + k - 1 \in prev..Len(lg)
    BY <1>1
  <2>. QED
    OBVIOUS
<1>. QED
  BY <1>1, <1>4 DEF KeptLength, C

\* appendFrom yields a log.
LEMMA AppendFromType ==
  ASSUME Counting, NEW E, NEW lg \in Seq(E), NEW prev \in 0..Len(lg),
         NEW incoming \in Seq(E)
  PROVE  appendFrom(lg, prev, incoming) \in Seq(E)
<1>. DEFINE kept == KeptLength(lg, prev, incoming)
<1>1. Len(lg) \in Nat /\ Len(incoming) \in Nat
  BY SeqLen
<1>2. kept \in Nat /\ prev <= kept /\ kept <= Len(lg)
  BY <1>1, KeptLengthRange
<1>. HIDE DEF kept
<1>3. SubSeq(lg, 1, kept) \in Seq(E)
  <2>. \A k \in 1..kept : lg[k] \in E
    BY <1>1, <1>2, SeqElement
  <2>. QED
    BY <1>2, SeqSlice
<1>4. SubSeq(incoming, kept - prev + 1, Len(incoming)) \in Seq(E)
  <2>. \A k \in (kept - prev + 1)..Len(incoming) : incoming[k] \in E
    BY <1>1, <1>2, SeqElement
  <2>. kept - prev + 1 \in Int
    BY <1>2
  <2>. QED
    BY <1>1, SeqSlice
<1>5. SubSeq(lg, 1, kept) \o SubSeq(incoming, kept - prev + 1, Len(incoming))
        \in Seq(E)
  BY <1>3, <1>4, SeqConcat
<1>. QED
  BY <1>5 DEF appendFrom, kept

-----------------------------------------------------------------------------
(* Commitment *)

\* advanceCommitIndex returns an index, never below the current one.
LEMMA AdvanceCommitIndexType ==
  ASSUME Counting, NEW s, NEW lg \in Seq(Entry), NEW term, NEW match, NEW commit \in Nat
  PROVE  /\ advanceCommitIndex(s, lg, term, match, commit) \in Nat
         /\ advanceCommitIndex(s, lg, term, match, commit) >= commit
<1>. DEFINE S == {commit} \cup
                 {i \in (commit + 1)..lastIndex(lg) :
                    termAt(lg, i) = term /\ hasReplicationQuorum(s, lg, match, i)}
<1>1. Len(lg) \in Nat /\ commit + Len(lg) \in Nat
  BY SeqLen
<1>2. S \in SUBSET Nat /\ S # {} /\ \A x \in S : x <= commit + Len(lg)
  BY <1>1 DEF lastIndex
<1>3. commit \in S
  OBVIOUS
<1>. HIDE DEF S
<1>4. Max(S) \in S /\ \A y \in S : y <= Max(S)
  BY Zenon, <1>1, <1>2, MaxOfNaturals
<1>5. PICK x \in S : x = Max(S)
  BY <1>4
<1>6. x \in Nat /\ x >= commit
  BY <1>2, <1>3, <1>4, <1>5
<1>. QED
  BY <1>5, <1>6 DEF advanceCommitIndex, S

-----------------------------------------------------------------------------
(* Quorums *)

\* Two quorums of the voter set share a voter.
LEMMA QuorumsIntersect ==
  ASSUME Counting, NEW P \in SUBSET Server, NEW Q \in SUBSET Server,
         hasQuorum(Cardinality(P), Cardinality(Server)),
         hasQuorum(Cardinality(Q), Cardinality(Server))
  PROVE  P \cap Q # {}
  BY Zenon DEF Counting

\* Election safety follows from the history.
LEMMA VoteInvElectionSafety ==
  ASSUME Counting
  PROVE  VoteInv => ElectionSafety
<1>. SUFFICES ASSUME VoteInv, NEW a \in leaders, NEW b \in leaders, a[1] = b[1]
              PROVE  a[2] = b[2]
  BY DEF ElectionSafety
<1>1. PICK P \in SUBSET Server :
        /\ hasQuorum(Cardinality(P), Cardinality(Server))
        /\ \A v \in P : <<v, a[1], a[2]>> \in granted
  BY DEF VoteInv, LeadersBacked, Elected
<1>2. PICK Q \in SUBSET Server :
        /\ hasQuorum(Cardinality(Q), Cardinality(Server))
        /\ \A v \in Q : <<v, b[1], b[2]>> \in granted
  BY DEF VoteInv, LeadersBacked, Elected
<1>3. PICK v \in P \cap Q : TRUE
  BY <1>1, <1>2, QuorumsIntersect
<1>4. <<v, a[1], a[2]>> \in granted /\ <<v, b[1], b[2]>> \in granted
  BY <1>1, <1>2, <1>3
<1>. QED
  BY <1>4 DEF VoteInv, OneVotePerTerm

-----------------------------------------------------------------------------
(* Logs that agree *)

\* Agreement carries over from log to log and to shorter prefixes.
LEMMA AgreeTrans ==
  ASSUME NEW a, NEW b, NEW c, NEW n, Agree(a, b, n), Agree(b, c, n)
  PROVE  Agree(a, c, n)
  BY DEF Agree

\* Agreement has no direction.
LEMMA AgreeSym ==
  ASSUME NEW a, NEW b, NEW n, Agree(a, b, n)
  PROVE  Agree(b, a, n)
  BY DEF Agree

\* Logs that agree up to n agree up to any lower index.
LEMMA AgreeBelow ==
  ASSUME NEW a \in Seq(Entry), NEW b \in Seq(Entry), NEW n \in Nat, NEW k \in Nat,
         k <= n, Agree(a, b, n)
  PROVE  Agree(a, b, k)
<1>. Len(a) \in Nat /\ Len(b) \in Nat
  BY SeqLen
<1>. QED
  BY DEF Agree

\* Logs that agree have equal subsequences.
LEMMA AgreeSubSeq ==
  ASSUME NEW a \in Seq(Entry), NEW b \in Seq(Entry), NEW n \in Nat
  PROVE  /\ Agree(a, b, n) => SubSeq(a, 1, n) = SubSeq(b, 1, n)
         /\ n <= Len(a) /\ n <= Len(b) /\ SubSeq(a, 1, n) = SubSeq(b, 1, n)
              => Agree(a, b, n)
<1>1. Len(a) \in Nat /\ Len(b) \in Nat
  BY SeqLen
<1>2. ASSUME n <= Len(a), n <= Len(b)
      PROVE  /\ SubSeq(a, 1, n) = [k \in 1..n |-> a[k]]
             /\ SubSeq(b, 1, n) = [k \in 1..n |-> b[k]]
  BY <1>1, <1>2
<1>3. ASSUME Agree(a, b, n) PROVE SubSeq(a, 1, n) = SubSeq(b, 1, n)
  BY <1>2, <1>3 DEF Agree
<1>4. ASSUME n <= Len(a), n <= Len(b), SubSeq(a, 1, n) = SubSeq(b, 1, n)
      PROVE  Agree(a, b, n)
  BY <1>2, <1>4 DEF Agree
<1>. QED
  BY <1>3, <1>4

\* Appending the batch after prev leaves a log that agrees with big to the batch's
\* end, and cuts it only to replace an entry that is not big's.
Taken(lg, big, prev, batch) ==
  /\ ~appendFromFails(lg, prev, batch)
  /\ appendFrom(lg, prev, batch) \in Seq(Entry)
  /\ \/ /\ appendFrom(lg, prev, batch) = lg
        /\ Agree(lg, big, prev + Len(batch))
     \/ /\ Len(appendFrom(lg, prev, batch)) = prev + Len(batch)
        /\ Agree(appendFrom(lg, prev, batch), big, prev + Len(batch))
        /\ \/ Len(lg) < prev + Len(batch)
           \/ \E k \in 1..Len(batch) :
                prev + k <= Len(lg) /\ lg[prev + k].term # big[prev + k].term

\* appendFrom with a batch cut out of a longer log, placed where the two logs
\* agree: it never fails, and what results is the old log, when it held the
\* whole batch, or the longer log up to the batch's end.
LEMMA AppendFromSlice ==
  ASSUME Counting, NEW lg \in Seq(Entry), NEW big \in Seq(Entry), NEW prev \in 0..Len(lg),
         NEW batch \in Seq(Entry), prev + Len(batch) <= Len(big),
         \A k \in 1..Len(batch) : batch[k] = big[prev + k],
         Agree(lg, big, prev),
         \A k \in 1..Len(lg) : k <= Len(big) /\ lg[k].term = big[k].term => lg[k] = big[k]
  PROVE  Taken(lg, big, prev, batch)
<1>. DEFINE C    == TermConflicts(lg, prev, batch)
            kept == KeptLength(lg, prev, batch)
            new  == appendFrom(lg, prev, batch)
<1>1. Len(lg) \in Nat /\ Len(batch) \in Nat /\ Len(big) \in Nat /\ prev \in Nat
  BY SeqLen
<1>2. C = {k \in 1..Len(batch) : prev + k <= Len(lg) /\ lg[prev + k].term # big[prev + k].term}
  BY <1>1 DEF TermConflicts, Overlap
<1>3. ASSUME NEW k \in 1..Len(batch), prev + k <= Len(lg), k \notin C
      PROVE  lg[prev + k] = batch[k]
  <2>. HIDE DEF C
  <2>. lg[prev + k].term = big[prev + k].term
    BY <1>2, <1>3
  <2>. prev + k \in 1..Len(lg) /\ prev + k <= Len(big)
    BY <1>1, <1>3
  <2>. QED
    BY Zenon
<1>4. ~appendFromFails(lg, prev, batch)
  <2>. SUFFICES ASSUME NEW k \in 1..Len(batch), prev + k <= Len(lg),
                       \A j \in C : k < j, lg[prev + k] # batch[k]
                PROVE  FALSE
    BY Zenon DEF appendFromFails, Overlap
  <2>. k \notin C
    <3>. HIDE DEF C
    <3>. QED
      BY <1>1
  <2>. QED
    BY <1>3
<1>5. new \in Seq(Entry)
  BY AppendFromType
<1>6. C \in SUBSET Nat
  BY <1>1, <1>2
<1>7. CASE C = {} /\ prev + Len(batch) <= Len(lg)
  <2>. kept = Len(lg)
    BY <1>7 DEF KeptLength
  <2>. new = lg
    <3>. SubSeq(lg, 1, Len(lg)) = lg
      BY SeqWhole
    <3>. SubSeq(batch, Len(lg) - prev + 1, Len(batch)) = <<>>
      <4>. Len(lg) - prev + 1 \in Int /\ Len(lg) - prev + 1 > Len(batch)
        BY <1>1, <1>7
      <4>. QED
        BY <1>1, SeqNothing
    <3>. lg \o <<>> = lg
      BY SeqConcatEmpty
    <3>. QED
      BY Zenon DEF appendFrom
  <2>. Agree(lg, big, prev + Len(batch))
    <3>. SUFFICES ASSUME NEW k \in 1..(prev + Len(batch)) PROVE lg[k] = big[k]
      BY <1>1, <1>7 DEF Agree
    <3>. CASE k <= prev
      BY <1>1 DEF Agree
    <3>. CASE k > prev
      <4>. PICK j \in 1..Len(batch) : k = prev + j
        <5>. k - prev \in 1..Len(batch) /\ k = prev + (k - prev)
          BY <1>1
        <5>. QED
          OBVIOUS
      <4>. j \notin C /\ prev + j <= Len(lg)
        BY <1>1, <1>7
      <4>. lg[prev + j] = batch[j]
        BY <1>3
      <4>. QED
        OBVIOUS
    <3>. QED
      BY <1>1
  <2>. QED
    BY Zenon, <1>4, <1>5 DEF Taken
<1>8. CASE C # {} \/ prev + Len(batch) > Len(lg)
  <2>1. /\ kept \in Nat /\ prev <= kept /\ kept <= Len(lg) /\ kept <= prev + Len(batch)
        /\ \A k \in 1..Len(batch) : prev + k <= kept => k \notin C
    <3>. CASE C = {}
      <4>. kept = Len(lg)
        BY DEF KeptLength
      <4>. HIDE DEF C, kept
      <4>. QED
        BY <1>1, <1>8
    <3>. CASE C # {}
      <4>1. kept = prev + Min(C) - 1
        BY DEF KeptLength
      <4>2. Min(C) \in C /\ \A y \in C : Min(C) <= y
        <5>. HIDE DEF C
        <5>. QED
          BY Zenon, <1>6, MinOfNaturals
      <4>. HIDE DEF kept, C
      <4>3. PICK j \in C : j = Min(C)
        BY <4>2
      <4>4. j \in 1..Len(batch) /\ prev + j <= Len(lg)
        BY <1>2
      <4>5. kept = prev + j - 1 /\ \A y \in C : j <= y
        BY <4>1, <4>2, <4>3
      <4>. QED
        BY <1>1, <4>4, <4>5
    <3>. QED
      OBVIOUS
  <2>. DEFINE a == SubSeq(lg, 1, kept)
              b == SubSeq(batch, kept - prev + 1, Len(batch))
  <2>2. new = a \o b
    BY DEF appendFrom
  <2>. HIDE DEF new, kept, C
  <2>3. /\ a \in Seq(Entry) /\ Len(a) = kept
        /\ \A k \in 1..kept : a[k] = lg[k]
    BY <1>1, <2>1
  <2>4. /\ b \in Seq(Entry) /\ Len(b) = Len(batch) - (kept - prev)
        /\ \A k \in 1..(Len(batch) - (kept - prev)) : b[k] = batch[kept - prev + k]
    BY <1>1, <2>1
  <2>. HIDE DEF a, b
  <2>5. /\ Len(new) = prev + Len(batch)
        /\ \A k \in 1..kept : new[k] = lg[k]
        /\ \A k \in (kept + 1)..(prev + Len(batch)) : new[k] = batch[k - prev]
    <3>. Len(new) = prev + Len(batch)
      <4>. Len(new) = Len(a) + Len(b)
        <5>. a \in Seq(Entry) /\ b \in Seq(Entry)
          BY <2>3, <2>4
        <5>. Len(a \o b) = Len(a) + Len(b)
          BY Zenon, SeqConcat
        <5>. QED
          BY Zenon, <2>2
      <4>. QED
        BY <1>1, <2>1, <2>3, <2>4
    <3>. ASSUME NEW k \in 1..kept PROVE new[k] = lg[k]
      BY <1>1, <2>1, <2>2, <2>3, <2>4
    <3>. ASSUME NEW k \in (kept + 1)..(prev + Len(batch)) PROVE new[k] = batch[k - prev]
      <4>. new[k] = b[k - kept]
        BY ONLY SMTT(30), <1>1, <2>1, <2>2, <2>3, <2>4
      <4>. k - kept \in 1..(Len(batch) - (kept - prev)) /\ kept - prev + (k - kept) = k - prev
        BY <1>1, <2>1
      <4>. QED
        BY <2>4
    <3>. QED
      OBVIOUS
  <2>6. Agree(new, big, prev + Len(batch))
    <3>. prev + Len(batch) <= Len(new) /\ prev + Len(batch) <= Len(big)
      BY <1>1, <2>5
    <3>. SUFFICES ASSUME NEW k \in 1..(prev + Len(batch)) PROVE new[k] = big[k]
      BY Zenon DEF Agree
    <3>. CASE k <= prev
      BY <1>1, <2>1, <2>5 DEF Agree
    <3>. CASE k > prev
      <4>1. k - prev \in 1..Len(batch) /\ prev + (k - prev) = k
        BY <1>1
      <4>2. batch[k - prev] = big[k]
        BY <4>1
      <4>3. CASE k <= kept
        <5>. k - prev \notin C /\ k <= Len(lg)
          BY <1>1, <2>1, <4>1, <4>3
        <5>. lg[k] = batch[k - prev]
          BY Zenon, <1>3, <4>1
        <5>. QED
          BY <1>1, <2>1, <2>5, <4>2, <4>3
      <4>4. CASE k > kept
        BY <1>1, <2>1, <2>5, <4>2, <4>4
      <4>. QED
        BY <1>1, <2>1, <4>3, <4>4
    <3>. QED
      BY <1>1
  <2>7. \/ Len(lg) < prev + Len(batch)
        \/ \E k \in 1..Len(batch) :
             prev + k <= Len(lg) /\ lg[prev + k].term # big[prev + k].term
    BY Zenon, <1>1, <1>2, <1>8
  <2>. QED
    BY Zenon, <1>4, <1>5, <2>5, <2>6, <2>7 DEF new, Taken
<1>. QED
  BY <1>1, <1>7, <1>8

-----------------------------------------------------------------------------
(* Logs explained by the terms *)

\* The terms of an explained log never decrease.
LEMMA TermsAscend ==
  ASSUME NEW L \in TermLogs, TermsExplained(L), NEW lg \in Seq(Entry), NEW t \in Nat,
         Explained(L, lg, t), NEW j \in 1..Len(lg), NEW i \in 1..j
  PROVE  lg[i].term \in 1..lg[j].term /\ lg[j].term \in 1..t
<1>1. Len(lg) \in Nat
  BY SeqLen
<1>2. PICK u \in 1..t : u = lg[j].term
  BY DEF Explained
<1>3. Agree(lg, L[u], j) /\ u \in Nat
  BY <1>2 DEF Explained
<1>4. L[u] \in Seq(Entry) /\ Len(L[u]) \in Nat
  BY <1>3, SeqLen DEF TermLogs
<1>5. i \in 1..Len(L[u]) /\ lg[i] = L[u][i]
  BY <1>1, <1>3, <1>4 DEF Agree
<1>6. L[u][i].term \in 1..u
  BY Zenon, <1>3, <1>5 DEF TermsExplained, Explained
<1>. QED
  BY <1>2, <1>5, <1>6

\* Two explained logs with equal terms at an index agree up to it.
LEMMA ExplainedAgree ==
  ASSUME NEW L \in TermLogs, NEW a \in Seq(Entry), NEW b \in Seq(Entry),
         NEW t \in Nat, NEW u \in Nat, Explained(L, a, t), Explained(L, b, u),
         NEW i \in Nat, i <= Len(a), i <= Len(b), termAt(a, i) = termAt(b, i)
  PROVE  Agree(a, b, i)
<1>. Len(a) \in Nat /\ Len(b) \in Nat
  BY SeqLen
<1>. CASE i = 0
  BY DEF Agree
<1>. CASE i # 0
  <2>. i \in 1..Len(a) /\ i \in 1..Len(b) /\ a[i].term = b[i].term
    BY DEF termAt
  <2>. Agree(a, L[a[i].term], i) /\ Agree(b, L[b[i].term], i)
    BY DEF Explained
  <2>. QED
    BY AgreeSym, AgreeTrans
<1>. QED
  OBVIOUS

-----------------------------------------------------------------------------
(* Backing off *)

\* The next index after a rejection: past the leader's last entry of the
\* conflicting term, or else the index the node named.
AfterConflict(lg, ci, ct, n) ==
  \/ /\ n = IF ci <= Len(lg) + 1 THEN ci ELSE Len(lg) + 1
     /\ ct = NoTerm \/ \A k \in 1..Len(lg) : lg[k].term # ct
  \/ /\ ct # NoTerm
     /\ \E j \in 1..Len(lg) : /\ n = j + 1 /\ lg[j].term = ct
                              /\ \A k \in (j + 1)..Len(lg) : lg[k].term # ct

\* Equal terms at an index make two logs agree up to it.
Matched(a, b) ==
  \A i \in Nat : i <= Len(a) /\ i <= Len(b) /\ termAt(a, i) = termAt(b, i) => Agree(a, b, i)

TermsWithin(lg, t) == \A k \in 1..Len(lg) : lg[k].term \in 1..t

\* nextIndexAfterConflict returns that index.
LEMMA NextAfterConflict ==
  ASSUME Counting, NEW lg \in Seq(Entry), NEW ci \in Nat, ci >= 1, NEW ct \in Nat,
         NEW n, n = nextIndexAfterConflict(lg, ci, ct)
  PROVE  AfterConflict(lg, ci, ct, n)
<1>. DEFINE S == IF ct = NoTerm THEN {} ELSE IndicesOfTerm(lg, ct)
            c == IF S = {} THEN ci ELSE lastIndexOfTerm(lg, ct) + 1
<1>1. Len(lg) \in Nat
  BY SeqLen
<1>2. n = Min({Max({1, c}), Len(lg) + 1})
  BY DEF nextIndexAfterConflict, lastIndex
<1>3. ASSUME c \in Nat, c >= 1 PROVE n = IF c <= Len(lg) + 1 THEN c ELSE Len(lg) + 1
  <2>. HIDE DEF c
  <2>. Max({1, c}) = c
    BY <1>3, MaxOfTwo
  <2>. Min({c, Len(lg) + 1}) = IF c <= Len(lg) + 1 THEN c ELSE Len(lg) + 1
    BY <1>1, <1>3, MinOfTwo
  <2>. QED
    BY Zenon, <1>2
<1>4. ASSUME NEW k \in 1..Len(lg), ct # NoTerm PROVE k \in S <=> lg[k].term = ct
  BY <1>1, <1>4 DEF IndicesOfTerm, termAt
<1>5. CASE S = {}
  <2>. c = ci
    BY <1>5
  <2>. ct = NoTerm \/ \A k \in 1..Len(lg) : lg[k].term # ct
    BY <1>4, <1>5
  <2>. HIDE DEF c, S
  <2>. n = IF ci <= Len(lg) + 1 THEN ci ELSE Len(lg) + 1
    BY <1>3
  <2>. QED
    BY DEF AfterConflict
<1>6. CASE S # {}
  <2>1. ct # NoTerm /\ S = IndicesOfTerm(lg, ct)
    BY <1>6
  <2>2. S \in SUBSET Nat /\ \A x \in S : x <= Len(lg)
    BY <1>1, <2>1 DEF IndicesOfTerm
  <2>. HIDE DEF S
  <2>3. Max(S) \in S /\ \A y \in S : y <= Max(S)
    BY Zenon, <1>1, <1>6, <2>2, MaxOfNaturals
  <2>4. PICK j \in S : j = Max(S)
    BY <2>3
  <2>5. j \in 1..Len(lg)
    BY <1>1, <2>1, <2>2 DEF IndicesOfTerm, termAt, NoTerm
  <2>6. c = j + 1
    BY <1>6, <2>1, <2>4 DEF lastIndexOfTerm
  <2>7. lg[j].term = ct
    BY <1>4, <2>1, <2>5
  <2>8. ASSUME NEW k \in (j + 1)..Len(lg) PROVE lg[k].term # ct
    <3>. k \in 1..Len(lg) /\ ~(k <= j)
      BY <1>1, <2>5
    <3>. k \notin S
      BY <2>3, <2>4
    <3>. QED
      BY <1>4, <2>1
  <2>. HIDE DEF c
  <2>9. n = j + 1
    BY <1>1, <1>3, <2>5, <2>6
  <2>. QED
    BY <2>1, <2>5, <2>7, <2>8, <2>9 DEF AfterConflict
<1>. QED
  BY <1>5, <1>6

\* A log that holds all its term's entries holds nothing else.
LEMMA NoTail ==
  ASSUME NEW L \in TermLogs, TermsExplained(L), EndsInTerm(L), NEW t \in Nat, L[t] # <<>>,
         NEW lp \in Seq(Entry), Explained(L, lp, t), Agree(lp, L[t], Len(L[t]))
  PROVE  StartsWith(L[t], lp)
<1>. L[t] \in Seq(Entry) /\ Len(L[t]) \in Nat /\ Len(lp) \in Nat /\ Len(L[t]) >= 1
  BY SeqLen, SeqEmpty DEF TermLogs
<1>. CASE Len(lp) <= Len(L[t])
  BY DEF StartsWith, Agree
<1>. CASE Len(lp) > Len(L[t])
  <2>. DEFINE j == Len(L[t]) + 1
  <2>1. j \in 1..Len(lp) /\ Len(L[t]) \in 1..j
    OBVIOUS
  <2>2. lp[Len(L[t])].term = t
    BY DEF EndsInTerm, Agree
  <2>3. lp[Len(L[t])].term \in 1..lp[j].term /\ lp[j].term \in 1..t
    BY <2>1, TermsAscend
  <2>4. lp[j].term = t
    BY <2>2, <2>3
  <2>5. Agree(lp, L[t], j)
    BY Zenon, <2>1, <2>4 DEF Explained
  <2>. QED
    BY <2>5 DEF Agree
<1>. QED
  OBVIOUS

\* The place a rejection leads to is a good one.
LEMMA HintPlaces ==
  ASSUME Counting, NEW L \in TermLogs, TermsExplained(L), EndsInTerm(L), NEW t \in Nat,
         NEW big \in Seq(Entry), big = L[t], big # <<>>,
         NEW lp \in Seq(Entry), Explained(L, lp, t), NEW prev \in Nat,
         NEW ci \in Nat, NEW ct \in Nat, Hint(big, lp, prev, ci, ct),
         NEW n, n = nextIndexAfterConflict(big, ci, ct)
  PROVE  Placed(big, lp, t, t, n, Len(big))
<1>1. Len(big) \in Nat /\ Len(lp) \in Nat
  BY SeqLen
<1>2. Explained(L, big, t)
  BY DEF TermsExplained
<1>5. n \in Nat /\ n >= 1 /\ n <= Len(big) + 1
  <2>. n \in 1..(Len(big) + 1)
    BY Zenon, <1>1, NextIndexAfterConflictRange DEF lastIndex
  <2>. QED
    BY <1>1
<1>3. SUFFICES ASSUME n - 1 <= Len(lp), termAt(lp, n - 1) = termAt(big, n - 1),
                      ~StartsWith(big, lp)
               PROVE  n <= Len(lp) /\ n <= Len(big) /\ lp[n].term # big[n].term
  BY <1>1, <1>5 DEF Placed
<1>4. ci >= 1
  BY <1>1, <1>3 DEF Hint
<1>6. Agree(lp, big, n - 1)
  <2>. n - 1 \in Nat /\ n - 1 <= Len(big)
    BY <1>1, <1>5
  <2>. QED
    BY <1>2, <1>3, ExplainedAgree
<1>7. \/ /\ n = IF ci <= Len(big) + 1 THEN ci ELSE Len(big) + 1
         /\ ct = NoTerm \/ \A k \in 1..Len(big) : big[k].term # ct
      \/ /\ ct # NoTerm
         /\ \E j \in 1..Len(big) : /\ n = j + 1 /\ big[j].term = ct
                                   /\ \A k \in (j + 1)..Len(big) : big[k].term # ct
  <2>. AfterConflict(big, ci, ct, n)
    BY <1>4, NextAfterConflict
  <2>. QED
    BY DEF AfterConflict
<1>8. CASE ct = NoTerm /\ ci = Len(lp) + 1
  <2>. CASE Len(lp) <= Len(big)
    <3>. n - 1 = Len(lp)
      BY <1>1, <1>7, <1>8
    <3>. QED
      BY <1>3, <1>6 DEF StartsWith
  <2>. CASE Len(lp) > Len(big)
    <3>. n - 1 = Len(big)
      BY <1>1, <1>7, <1>8
    <3>. QED
      BY Zenon, <1>3, <1>6, NoTail
  <2>. QED
    BY <1>1
<1>9. CASE /\ prev \in 1..Len(lp) /\ prev <= Len(big)
           /\ big[prev].term # ct
           /\ lp[prev].term = ct
           /\ ci \in 1..prev /\ lp[ci].term = ct
  <2>. ct # NoTerm
    BY <1>9 DEF Explained, NoTerm
  <2>. CASE \A k \in 1..Len(big) : big[k].term # ct
    <3>. n = ci
      BY <1>1, <1>7, <1>9
    <3>. QED
      BY <1>1, <1>9
  <2>. CASE \E j \in 1..Len(big) : /\ n = j + 1 /\ big[j].term = ct
                                   /\ \A k \in (j + 1)..Len(big) : big[k].term # ct
    <3>1. PICK j \in 1..Len(big) : /\ n = j + 1 /\ big[j].term = ct
                                   /\ \A k \in (j + 1)..Len(big) : big[k].term # ct
      BY Zenon
    <3>2. Agree(lp, big, j) /\ n - 1 = j
      BY ONLY <1>1, <1>6, <3>1
    <3>3. j < prev
      BY ONLY <1>1, <1>9, <3>1, <3>2 DEF Agree
    <3>4. n \in (j + 1)..Len(big) /\ n \in 1..prev /\ j \in 1..n /\ n \in 1..Len(lp)
      BY ONLY <1>1, <1>5, <1>9, <3>1, <3>3
    <3>5. lp[j].term = ct
      BY ONLY <1>1, <3>1, <3>2 DEF Agree
    <3>6. lp[j].term \in 1..lp[n].term /\ lp[n].term \in 1..lp[prev].term
      BY Zenon, <1>9, <3>4, TermsAscend
    <3>7. lp[n].term = ct
      BY ONLY <1>1, <1>9, <3>5, <3>6
    <3>. QED
      BY ONLY <1>1, <3>1, <3>4, <3>7
  <2>. QED
    BY Zenon, <1>7
<1>. QED
  BY <1>3, <1>8, <1>9 DEF Hint

-----------------------------------------------------------------------------
(* Requests fit where they are placed *)

\* A place stays good.
LEMMA PlacedStays ==
  ASSUME NEW big \in Seq(Entry), NEW big2 \in Seq(Entry), StartsWith(big2, big),
         NEW lp \in Seq(Entry), NEW lp2 \in Seq(Entry), NEW cp \in Nat, NEW cp2 \in Nat,
         NEW t \in Nat, cp <= cp2, TermsWithin(lp, cp), Matched(lp, big),
         lp2 = lp \/ (cp2 = t => StartsWith(big2, lp2)),
         NEW n \in 1..(Len(big) + 1), NEW e, NEW e2, n <= e => n <= e2, Placed(big, lp, cp, t, n, e)
  PROVE  Placed(big2, lp2, cp2, t, n, e2)
<1>. /\ Len(big) \in Nat /\ Len(big2) \in Nat /\ Len(lp) \in Nat /\ n \in Nat /\ n >= 1
     /\ Len(big) <= Len(big2) /\ \A k \in 1..Len(big) : big[k] = big2[k]
  BY SeqLen DEF StartsWith, Agree
<1>. ASSUME cp < t PROVE n <= Len(big2) /\ big2[n].term = t /\ n <= e2
  BY DEF Placed
<1>. ASSUME cp2 = t, n - 1 <= Len(lp2), termAt(lp2, n - 1) = termAt(big2, n - 1),
            ~StartsWith(big2, lp2)
     PROVE  n <= Len(lp2) /\ n <= Len(big2) /\ lp2[n].term # big2[n].term /\ n <= e2
  <2>1. lp2 = lp
    OBVIOUS
  <2>2. n - 1 \in Nat /\ n - 1 <= Len(big) /\ termAt(lp, n - 1) = termAt(big, n - 1)
    BY <2>1 DEF termAt
  <2>3. ASSUME StartsWith(big, lp) PROVE FALSE
    BY <2>1, <2>3 DEF StartsWith, Agree
  <2>4. CASE cp = t
    BY <2>1, <2>2, <2>3, <2>4 DEF Placed
  <2>5. CASE cp < t
    <3>. CASE n <= Len(lp)
      <4>. n \in 1..Len(lp)
        OBVIOUS
      <4>. lp[n].term \in 1..cp
        BY Zenon DEF TermsWithin
      <4>. QED
        BY <2>1, <2>5
    <3>. CASE n > Len(lp)
      <4>. n - 1 = Len(lp)
        BY <2>1
      <4>. /\ Len(lp) <= Len(lp) /\ Len(lp) <= Len(big)
           /\ termAt(lp, Len(lp)) = termAt(big, Len(lp))
        BY Zenon, <2>2 DEF termAt
      <4>. Agree(lp, big, Len(lp))
        BY DEF Matched
      <4>. QED
        BY Zenon, <2>3 DEF StartsWith
    <3>. QED
      OBVIOUS
  <2>. QED
    BY <2>4, <2>5
<1>. QED
  BY DEF Placed

\* A place is no worse for a request with entries.
LEMMA PlacedWeaken ==
  ASSUME NEW big, NEW lp, NEW cp, NEW t, NEW n, NEW e, NEW e2, n <= e => n <= e2,
         Placed(big, lp, cp, t, n, e)
  PROVE  Placed(big, lp, cp, t, n, e2)
  BY Zenon DEF Placed

\* A new leader's first request is placed for every peer.
LEMMA FreshPlaced ==
  ASSUME NEW L \in TermLogs, TermsExplained(L), EndsInTerm(L), NEW t \in Nat, L[t] # <<>>,
         NEW lp \in Seq(Entry), NEW cp \in Nat, cp = t => Explained(L, lp, t),
         NEW n, n = Len(L[t])
  PROVE  Placed(L[t], lp, cp, t, n, Len(L[t]))
<1>. L[t] \in Seq(Entry) /\ n \in Nat /\ Len(lp) \in Nat /\ n >= 1
  BY SeqLen, SeqEmpty DEF TermLogs
<1>. L[t][n].term = t /\ n <= Len(L[t]) /\ ~(n > Len(L[t]))
  BY DEF EndsInTerm
<1>. ASSUME cp = t, n - 1 <= Len(lp), termAt(lp, n - 1) = termAt(L[t], n - 1),
            ~StartsWith(L[t], lp)
     PROVE  n <= Len(lp) /\ lp[n].term # L[t][n].term
  <2>1. Explained(L, L[t], t) /\ Explained(L, lp, t)
    BY Zenon DEF TermsExplained
  <2>2. Agree(lp, L[t], n - 1)
    <3>. n - 1 \in Nat /\ n - 1 <= Len(L[t])
      OBVIOUS
    <3>. QED
      BY Zenon, <2>1, ExplainedAgree
  <2>3. n <= Len(lp)
    <3>. SUFFICES ASSUME n - 1 = Len(lp) PROVE FALSE
      OBVIOUS
    <3>. QED
      BY <2>2 DEF StartsWith
  <2>4. ASSUME lp[n].term = t PROVE FALSE
    <3>. Agree(lp, L[t], n)
      BY <2>1, <2>3, <2>4 DEF Explained
    <3>. QED
      BY Zenon, <2>1, NoTail
  <2>. QED
    BY <2>3, <2>4
<1>. QED
  BY DEF Placed

\* The start of a conflicting term is an entry of that term.
LEMMA FirstIndexHolds ==
  ASSUME Counting, NEW lg \in Seq(Entry), NEW i \in 1..Len(lg), lg[i].term >= 1
  PROVE  LET ci == firstIndexOfTerm(lg, lg[i].term)
         IN  ci \in 1..i /\ lg[ci].term = lg[i].term
<1>. DEFINE S == IndicesOfTerm(lg, lg[i].term)
<1>1. Len(lg) \in Nat /\ lg[i].term \in Nat
  <2>. lg[i] \in Entry
    OBVIOUS
  <2>. QED
    BY SeqLen DEF Entry
<1>2. S \in SUBSET Nat /\ i \in S
  BY <1>1 DEF IndicesOfTerm, termAt
<1>3. \A k \in S : k \in 0..Len(lg) /\ (k # 0 => lg[k].term = lg[i].term)
  BY <1>1 DEF IndicesOfTerm, termAt
<1>4. 0 \notin S
  BY <1>1 DEF IndicesOfTerm, termAt
<1>. HIDE DEF S
<1>5. Min(S) \in S /\ Min(S) <= i
  BY <1>2, MinOfNaturals
<1>6. PICK k \in S : k = Min(S)
  BY <1>5
<1>7. k \in 1..i /\ lg[k].term = lg[i].term
  BY <1>1, <1>2, <1>3, <1>4, <1>5, <1>6
<1>. QED
  BY <1>6, <1>7 DEF firstIndexOfTerm, S

\* Such a table of stored lengths exists.
LEMMA RestoredExists ==
  ASSUME NEW K \in Stores, NEW t \in Nat, NEW s \in Server, NEW n \in Nat
  PROVE  \E K2 \in Stores : Restored(K, K2, t, s, n)
<1>. DEFINE K2 == [K EXCEPT ![t] = [K[t] EXCEPT ![s] = n]]
<1>. K2 \in Stores
  BY DEF Stores
<1>. K2[t][s] = n /\ \A u \in Nat, p \in Server : u # t \/ p # s => K2[u][p] = K[u][p]
  BY DEF Stores
<1>. QED
  BY Zenon DEF Restored

-----------------------------------------------------------------------------
(* What an accepted request does to a log *)

\* Server s, having taken in request m.
TakesIn(L, s, m) ==
  LET fits == previousMatches(log[s], m)
      end  == m.prevIndex + Len(m.entries)
  IN  /\ m.term \in Nat /\ m.prevIndex \in Nat /\ end \in Nat
      /\ Len(m.entries) \in Nat /\ SliceOf(L[m.term], m)
      /\ \A x \in Server \ {s} : log'[x] = log[x] /\ currentTerm'[x] = currentTerm[x]
      /\ currentTerm'[s] = m.term /\ currentTerm[s] <= m.term
      /\ role' = [role EXCEPT ![s] = "Follower"]
      /\ ~fits => log'[s] = log[s]
      /\ fits => ~appendFromFails(log[s], m.prevIndex, m.entries)
      /\ fits => Agree(log'[s], L[m.term], end)
      /\ fits => Agree(log[s], L[m.term], m.prevIndex)
      /\ fits => \/ log'[s] = log[s]
                 \/ /\ Len(log'[s]) = end
                    /\ \/ Len(log[s]) < end
                       \/ \E k \in 1..end : k <= Len(log[s]) /\
                            log[s][k].term # L[m.term][k].term

\* What taking in a request does to a log: where the request fits, the log ends
\* up holding the term's log up to the end of the batch, and is cut only to
\* replace an entry that is not the term's.
LEMMA FollowOutcome ==
  ASSUME Counting, NEW L \in TermLogs, VoteInv, MatchInv(L), NEW s \in Server,
         NEW m \in appendRequests, FollowStep(s, m)
  PROVE  TakesIn(L, s, m)
<1>. DEFINE t    == m.term
            fits == previousMatches(log[s], m)
            end  == m.prevIndex + Len(m.entries)
<1>1. TypeOK /\ m \in AppendRequest
  BY Zenon DEF VoteInv, TypeInv, TypeOK
<1>2. /\ t \in Nat /\ m.prevIndex \in Nat /\ m.entries \in Seq(Entry)
      /\ Len(m.entries) \in Nat
  BY <1>1, SeqLen DEF AppendRequest
<1>3. /\ log[s] \in Seq(Entry) /\ Len(log[s]) \in Nat /\ currentTerm[s] \in Nat
      /\ L[t] \in Seq(Entry) /\ Len(L[t]) \in Nat
  BY Zenon, <1>1, <1>2, SeqLen DEF TypeOK, TermLogs
<1>4. /\ \A x \in Server \ {s} : log'[x] = log[x] /\ currentTerm'[x] = currentTerm[x]
      /\ currentTerm'[s] = t /\ currentTerm[s] <= t
      /\ role' = [role EXCEPT ![s] = "Follower"]
      /\ log'[s] = IF fits /\ ~appendFromFails(log[s], m.prevIndex, m.entries)
                   THEN appendFrom(log[s], m.prevIndex, m.entries) ELSE log[s]
  BY Zenon, <1>1, <1>2, <1>3 DEF FollowStep, TypeOK
<1>5. SliceOf(L[t], m)
  BY Zenon DEF MatchInv, Slices
<1>6. Explained(L, log[s], currentTerm[s]) /\ Explained(L, L[t], t)
  BY Zenon, <1>2 DEF MatchInv, NodesExplained, TermsExplained
<1>7. ASSUME fits
      PROVE  /\ ~appendFromFails(log[s], m.prevIndex, m.entries)
             /\ Agree(log[s], L[t], m.prevIndex)
             /\ Agree(log'[s], L[t], end)
             /\ \/ log'[s] = log[s]
                \/ /\ Len(log'[s]) = end
                   /\ \/ Len(log[s]) < end
                      \/ \E k \in 1..end : k <= Len(log[s]) /\ log[s][k].term # L[t][k].term
  <2>1. m.prevIndex <= Len(log[s]) /\ m.prevIndex <= Len(L[t])
        /\ termAt(log[s], m.prevIndex) = termAt(L[t], m.prevIndex)
    BY <1>2, <1>3, <1>5, <1>7 DEF previousMatches, lastIndex, SliceOf
  <2>2. Agree(log[s], L[t], m.prevIndex)
    BY Zenon, <1>2, <1>3, <1>6, <2>1, ExplainedAgree
  <2>3. ASSUME NEW k \in 1..Len(log[s]), k <= Len(L[t]), log[s][k].term = L[t][k].term
        PROVE  log[s][k] = L[t][k]
    <3>. k \in Nat /\ k <= Len(log[s]) /\ termAt(log[s], k) = termAt(L[t], k)
      BY <1>3, <2>3 DEF termAt
    <3>. Agree(log[s], L[t], k)
      BY Zenon, <1>2, <1>3, <1>6, <2>3, ExplainedAgree
    <3>. QED
      BY <1>3 DEF Agree
  <2>4. /\ end <= Len(L[t])
        /\ \A k \in 1..Len(m.entries) : m.entries[k] = L[t][m.prevIndex + k]
    BY <1>5 DEF SliceOf
  <2>5. m.prevIndex \in 0..Len(log[s])
    BY <1>2, <1>3, <2>1
  <2>6. /\ ~appendFromFails(log[s], m.prevIndex, m.entries)
        /\ \/ /\ appendFrom(log[s], m.prevIndex, m.entries) = log[s]
              /\ Agree(log[s], L[t], end)
           \/ /\ Len(appendFrom(log[s], m.prevIndex, m.entries)) = end
              /\ Agree(appendFrom(log[s], m.prevIndex, m.entries), L[t], end)
              /\ \/ Len(log[s]) < end
                 \/ \E k \in 1..Len(m.entries) :
                      /\ m.prevIndex + k <= Len(log[s])
                      /\ log[s][m.prevIndex + k].term # L[t][m.prevIndex + k].term
    <3>1. \A k \in 1..Len(log[s]) :
            k <= Len(L[t]) /\ log[s][k].term = L[t][k].term => log[s][k] = L[t][k]
      BY <2>3
    <3>2. PICK lg \in Seq(Entry), big \in Seq(Entry), batch \in Seq(Entry) :
            lg = log[s] /\ big = L[t] /\ batch = m.entries
      BY <1>2, <1>3
    <3>3. PICK prev \in 0..Len(lg) : prev = m.prevIndex
      BY Zenon, <2>5, <3>2
    <3>. HIDE DEF end, t
    <3>4. /\ prev + Len(batch) <= Len(big) /\ Agree(lg, big, prev)
          /\ \A k \in 1..Len(batch) : batch[k] = big[prev + k]
          /\ \A k \in 1..Len(lg) : k <= Len(big) /\ lg[k].term = big[k].term => lg[k] = big[k]
      BY <2>2, <2>4, <3>1, <3>2, <3>3 DEF end
    <3>5. Taken(lg, big, prev, batch)
      BY Zenon, <3>4, AppendFromSlice
    <3>. QED
      BY Zenon, <3>2, <3>3, <3>5 DEF end, Taken
  <2>7. log'[s] = appendFrom(log[s], m.prevIndex, m.entries)
    BY Zenon, <1>4, <1>7, <2>6
  <2>8. ASSUME NEW k \in 1..Len(m.entries), m.prevIndex + k <= Len(log[s]),
               log[s][m.prevIndex + k].term # L[t][m.prevIndex + k].term
        PROVE  \E j \in 1..end : j <= Len(log[s]) /\ log[s][j].term # L[t][j].term
    <3>. m.prevIndex + k \in 1..end
      BY <1>2
    <3>. QED
      BY <2>8
  <2>. HIDE DEF end, t, fits
  <2>9. Agree(log'[s], L[t], end)
    BY Zenon, <2>6, <2>7
  <2>10. \/ log'[s] = log[s]
         \/ /\ Len(log'[s]) = end
            /\ \/ Len(log[s]) < end
               \/ \E k \in 1..end : k <= Len(log[s]) /\ log[s][k].term # L[t][k].term
    BY Zenon, <2>6, <2>7, <2>8
  <2>. QED
    BY Zenon, <2>2, <2>6, <2>9, <2>10
<1>8. end \in Nat
  BY <1>2
<1>. QED
  BY Zenon, <1>2, <1>4, <1>5, <1>7, <1>8 DEF TakesIn

\* What a node stored in a term never shrinks.
LEMMA StoresGrow ==
  ASSUME NEW L, NEW L2, NEW K \in Stores, NEW K2, GhostMoves(L, L2, K, K2),
         TypeOK', NEW t \in Nat, NEW p \in Server
  PROVE  K[t][p] \in Nat /\ K2[t][p] \in Nat /\ K[t][p] <= K2[t][p]
<1>1. K[t][p] \in Nat /\ K2[t][p] \in Nat
  BY DEF Stores, GhostMoves
<1>2. NodeMoves(L2, K, K2, p)
  BY DEF GhostMoves
<1>3. CASE K2[t][p] = K[t][p]
  BY ONLY <1>1, <1>3
<1>4. CASE K2[t][p] # K[t][p]
  <2>. t = currentTerm'[p]
    BY Zenon, <1>2, <1>4 DEF NodeMoves
  <2>. QED
    BY Zenon, <1>1, <1>2, <1>4 DEF NodeMoves
<1>. QED
  BY <1>3, <1>4

\* A request that fits leaves a prefix of its leader's log: no tail of another
\* term survives below what the follower may then commit.
LEMMA FollowSyncs ==
  ASSUME Counting, NEW L \in TermLogs, NEW K \in Stores, VoteInv, VoteInv', MatchInv(L),
         ProgressInv(L, K), NEW s \in Server, NEW m \in appendRequests, FollowStep(s, m),
         previousMatches(log[s], m)
  PROVE  /\ StartsWith(L[m.term], log'[s]) /\ K[m.term][s] <= Len(log'[s])
         /\ m.prevIndex + Len(m.entries) <= Len(log'[s])
<1>. DEFINE t   == m.term
            end == m.prevIndex + Len(m.entries)
            n   == m.prevIndex + 1
<1>1. /\ t \in Nat /\ m.prevIndex \in Nat /\ end \in Nat /\ Len(m.entries) \in Nat
      /\ currentTerm[s] <= t
      /\ Agree(log'[s], L[t], end) /\ Agree(log[s], L[t], m.prevIndex)
      /\ \/ log'[s] = log[s]
         \/ /\ Len(log'[s]) = end
            /\ \/ Len(log[s]) < end
               \/ \E k \in 1..end : k <= Len(log[s]) /\ log[s][k].term # L[t][k].term
  <2>. TakesIn(L, s, m)
    BY Zenon, FollowOutcome
  <2>. QED
    BY Zenon DEF TakesIn
<1>2. Placed(L[t], log[s], currentTerm[s], t, n, end)
  <2>. m.dst = s
    BY DEF FollowStep
  <2>. QED
    BY Zenon DEF ProgressInv, RequestsPlaced
<1>3. /\ previousMatches(log[s], m) /\ SliceOf(L[t], m)
  BY Zenon DEF MatchInv, Slices
<1>. HIDE DEF t
<1>4. /\ log[s] \in Seq(Entry) /\ log'[s] \in Seq(Entry) /\ L[t] \in Seq(Entry)
      /\ currentTerm[s] \in Nat /\ K[t][s] \in Nat
  <2>. log[s] \in Seq(Entry) /\ log'[s] \in Seq(Entry) /\ currentTerm[s] \in Nat
    BY DEF VoteInv, TypeInv, TypeOK
  <2>. QED
    BY Zenon, <1>1 DEF TermLogs, Stores
<1>5. Len(log[s]) \in Nat /\ Len(log'[s]) \in Nat /\ Len(L[t]) \in Nat
  BY Zenon, <1>4, SeqLen
<1>6. end <= Len(log'[s])
  BY Zenon, <1>1 DEF Agree
<1>7. StartsWith(L[t], log'[s])
  <2>. CASE Len(log'[s]) = end
    BY <1>1 DEF StartsWith
  <2>. CASE log'[s] = log[s] /\ currentTerm[s] < t
    <3>1. n <= Len(L[t]) /\ L[t][n].term = t /\ n <= end
      BY Zenon, <1>2 DEF Placed
    <3>2. n \in 1..end /\ n \in 1..Len(log[s])
      BY <1>1, <1>5, <1>6, <3>1
    <3>3. log[s][n].term = t
      BY <1>1, <3>1, <3>2 DEF Agree
    <3>4. log[s][n].term \in 1..currentTerm[s]
      BY Zenon, <3>2 DEF MatchInv, NodesExplained, Explained
    <3>5. currentTerm[s] \in Nat /\ t \in Nat /\ currentTerm[s] < t
      BY Zenon, <1>1, <1>4
    <3>. QED
      BY ONLY <3>3, <3>4, <3>5
  <2>. CASE log'[s] = log[s] /\ currentTerm[s] = t
    <3>1. n - 1 = m.prevIndex
      BY ONLY <1>1
    <3>2. n - 1 <= Len(log[s]) /\ termAt(log[s], n - 1) = termAt(L[t], n - 1)
      BY <1>3, <3>1 DEF previousMatches, lastIndex, SliceOf
    <3>3. SUFFICES ASSUME n <= Len(log[s]), log[s][n].term # L[t][n].term, n <= end
                   PROVE  FALSE
      BY Zenon, <1>2, <3>2 DEF Placed
    <3>4. m.prevIndex \in Nat /\ end \in Nat /\ Agree(log[s], L[t], end)
      BY Zenon, <1>1
    <3>5. n \in 1..end
      BY ONLY <3>3, <3>4
    <3>. QED
      BY ONLY Zenon, <3>3, <3>4, <3>5 DEF Agree
  <2>. QED
    BY <1>1, <1>4
<1>8. K[t][s] <= Len(log'[s])
  <2>. CASE K[t][s] = 0
    BY <1>5
  <2>. CASE K[t][s] # 0
    <3>1. currentTerm[s] = t
      <4>. K[t][s] > 0
        BY ONLY <1>4, K[t][s] # 0
      <4>1. t <= currentTerm[s]
        BY Zenon, <1>1 DEF ProgressInv, StoreBounds
      <4>2. t \in Nat /\ currentTerm[s] \in Nat /\ currentTerm[s] <= t
        BY Zenon, <1>1, <1>4
      <4>. QED
        BY ONLY <4>1, <4>2
    <3>2. K[t][s] = Len(log[s]) /\ StartsWith(L[t], log[s])
      BY Zenon, <1>1, <3>1 DEF ProgressInv, Synced
    <3>3. \A k \in 1..Len(log[s]) : log[s][k] = L[t][k]
      BY <3>2 DEF StartsWith, Agree
    <3>4. Len(log[s]) <= Len(log'[s])
      <4>. CASE log'[s] = log[s]
        BY <1>5
      <4>. CASE Len(log'[s]) = end /\ Len(log[s]) < end
        BY <1>1, <1>5
      <4>. ASSUME NEW k \in 1..end, k <= Len(log[s]), log[s][k].term # L[t][k].term
           PROVE  FALSE
        <5>. k \in 1..Len(log[s])
          BY <1>1, <1>5
        <5>. QED
          BY Zenon, <3>3
      <4>. QED
        BY Zenon, <1>1
    <3>. QED
      BY <3>2, <3>4
  <2>. QED
    OBVIOUS
<1>. QED
  BY <1>6, <1>7, <1>8 DEF t

-----------------------------------------------------------------------------
(* Logs and requests are pieces of the term logs *)

\* An explanation survives a growing term and growing term logs.
LEMMA ExplainedGrows ==
  ASSUME NEW L \in TermLogs, NEW L2 \in TermLogs, Extends(L, L2),
         NEW lg \in Seq(Entry), NEW t \in Nat, NEW u \in Nat, t <= u, Explained(L, lg, t)
  PROVE  Explained(L2, lg, u)
<1>. SUFFICES ASSUME NEW i \in 1..Len(lg)
              PROVE  lg[i].term \in 1..u /\ Agree(lg, L2[lg[i].term], i)
  BY DEF Explained
<1>1. PICK v \in 1..t : v = lg[i].term
  BY DEF Explained
<1>2. Agree(lg, L[v], i) /\ v \in Nat
  BY <1>1 DEF Explained
<1>3. /\ L[v] \in Seq(Entry) /\ Len(L[v]) \in Nat /\ Len(lg) \in Nat
      /\ L2[v] \in Seq(Entry) /\ Len(L2[v]) \in Nat
  BY Zenon, <1>2, SeqLen DEF TermLogs
<1>4. Agree(L[v], L2[v], i)
  BY <1>2, <1>3 DEF Extends, StartsWith, Agree
<1>. QED
  BY <1>1, <1>2, <1>4, AgreeTrans

\* A prefix of an explained log is explained.
LEMMA ExplainedPrefix ==
  ASSUME NEW L \in TermLogs, NEW a \in Seq(Entry), NEW b \in Seq(Entry),
         StartsWith(b, a), NEW t, Explained(L, b, t)
  PROVE  Explained(L, a, t)
<1>. Len(a) \in Nat /\ Len(b) \in Nat
  BY Zenon, SeqLen
<1>. SUFFICES ASSUME NEW i \in 1..Len(a)
              PROVE  a[i].term \in 1..t /\ Agree(a, L[a[i].term], i)
  BY DEF Explained
<1>. a[i] = b[i] /\ i \in 1..Len(b) /\ Agree(a, b, i)
  BY DEF StartsWith, Agree
<1>. b[i].term \in 1..t /\ Agree(b, L[b[i].term], i)
  BY Zenon DEF Explained
<1>. QED
  BY AgreeTrans

\* So is a log its term's leader has just extended.
LEMMA ExplainedAppend ==
  ASSUME NEW L2 \in TermLogs, NEW lg \in Seq(Entry), NEW t \in Nat, t >= 1,
         Explained(L2, lg, t), NEW e \in Entry, e.term = t, L2[t] = Append(lg, e)
  PROVE  Explained(L2, Append(lg, e), t)
<1>. DEFINE new == Append(lg, e)
<1>. /\ Len(lg) \in Nat /\ new \in Seq(Entry) /\ Len(new) = Len(lg) + 1
     /\ \A k \in 1..Len(lg) : new[k] = lg[k]
     /\ new[Len(lg) + 1] = e
  BY SeqLen, SeqAppend
<1>. HIDE DEF new
<1>. SUFFICES ASSUME NEW i \in 1..Len(new)
              PROVE  new[i].term \in 1..t /\ Agree(new, L2[new[i].term], i)
  BY DEF Explained, new
<1>. CASE i = Len(lg) + 1
  <2>. new[i].term = t /\ L2[t] = new
    BY DEF new
  <2>. QED
    BY DEF Agree
<1>. CASE i # Len(lg) + 1
  <2>. i \in 1..Len(lg) /\ new[i] = lg[i]
    OBVIOUS
  <2>. lg[i].term \in 1..t /\ Agree(lg, L2[lg[i].term], i)
    BY Zenon DEF Explained
  <2>. Agree(new, lg, i)
    BY DEF Agree
  <2>. QED
    BY AgreeTrans
<1>. QED
  OBVIOUS

\* What a leader sends is a piece of its log, and empty only at the log's end.
LEMMA MakeSlice ==
  ASSUME NEW s, NEW p, NEW t, NEW lg \in Seq(Entry), NEW next \in 1..(Len(lg) + 1),
         NEW commit, NEW m, m = makeAppendEntries(s, p, t, lg, next, commit)
  PROVE  /\ SliceOf(lg, m) /\ m.prevIndex = next - 1
         /\ m.entries = <<>> <=> next > Len(lg)
         /\ m.src = s /\ m.dst = p /\ m.term = t /\ m.leaderCommit = commit
<1>. DEFINE last == Min({lastIndex(lg), next + MaxEntries - 1})
<1>1. Len(lg) \in Nat /\ next \in Nat /\ MaxEntries \in Nat /\ MaxEntries >= 1
  BY SeqLen, BoundAssumption
<1>2. last = IF Len(lg) <= next + MaxEntries - 1 THEN Len(lg) ELSE next + MaxEntries - 1
  <2>. next + MaxEntries - 1 \in Nat
    BY <1>1
  <2>. QED
    BY <1>1, MinOfTwo DEF lastIndex
<1>3. /\ m.entries = SubSeq(lg, next, last)
      /\ m.prevIndex = next - 1 /\ m.prevTerm = termAt(lg, next - 1)
      /\ m.src = s /\ m.dst = p /\ m.term = t /\ m.leaderCommit = commit
  BY Zenon DEF makeAppendEntries, entriesFrom
<1>4. last \in Nat /\ last <= Len(lg) /\ (next <= Len(lg) => next <= last) /\ next <= last + 1
  BY <1>1, <1>2
<1>. HIDE DEF last
<1>5. /\ Len(m.entries) = last - next + 1
      /\ \A k \in 1..(last - next + 1) : m.entries[k] = lg[next + k - 1]
  BY ONLY <1>1, <1>3, <1>4
<1>6. m.entries = <<>> <=> next > Len(lg)
  <2>. m.entries \in Seq(Entry)
    BY <1>1, <1>3, <1>4
  <2>. m.entries = <<>> <=> Len(m.entries) = 0
    BY SeqEmpty
  <2>. QED
    BY <1>1, <1>4, <1>5
<1>7. SliceOf(lg, m)
  <2>. m.prevIndex + Len(m.entries) <= Len(lg)
    BY ONLY <1>1, <1>3, <1>4, <1>5
  <2>. ASSUME NEW k \in 1..Len(m.entries) PROVE m.entries[k] = lg[m.prevIndex + k]
    <3>. next + k - 1 = m.prevIndex + k
      BY <1>1, <1>3, <1>4, <1>5
    <3>. QED
      BY Zenon, <1>5
  <2>. QED
    BY Zenon, <1>3 DEF SliceOf
<1>. QED
  BY Zenon, <1>3, <1>6, <1>7

\* Request m is what leader s sends to p at the end of a step.
SentBy(m, s, p) ==
  /\ role'[s] = "Leader" /\ m.src = s /\ m.dst = p /\ m.term = currentTerm'[s]
  /\ m.leaderCommit = commitIndex'[s] /\ SliceOf(log'[s], m)
  /\ log'[s] \in Seq(Entry) /\ nextIndex'[s][p] \in 1..(Len(log'[s]) + 1)
  /\ m.prevIndex = nextIndex'[s][p] - 1
  /\ m.entries = <<>> <=> nextIndex'[s][p] > Len(log'[s])

\* Every new request is a leader's.
LEMMA SentSlice ==
  ASSUME TypeInv', Sent, NEW m \in appendRequests', m \notin appendRequests
  PROVE  \E s \in Server : \E p \in peers(s) : SentBy(m, s, p)
<1>1. PICK s \in Server : \E p \in peers(s) :
        /\ role'[s] = "Leader"
        /\ m = makeAppendEntries(s, p, currentTerm'[s], log'[s], nextIndex'[s][p],
                                 commitIndex'[s])
  BY Zenon DEF Sent
<1>2. PICK p \in peers(s) :
        /\ role'[s] = "Leader"
        /\ m = makeAppendEntries(s, p, currentTerm'[s], log'[s], nextIndex'[s][p],
                                 commitIndex'[s])
  BY Zenon, <1>1
<1>3. /\ log'[s] \in Seq(Entry) /\ nextIndex'[s][p] \in 1..(Len(log'[s]) + 1)
  BY Zenon, <1>2 DEF TypeInv, TypeOK, NextInLog, lastIndex
<1>4. /\ SliceOf(log'[s], m) /\ m.prevIndex = nextIndex'[s][p] - 1
      /\ m.entries = <<>> <=> nextIndex'[s][p] > Len(log'[s])
      /\ m.src = s /\ m.dst = p /\ m.term = currentTerm'[s]
      /\ m.leaderCommit = commitIndex'[s]
  BY ONLY <1>2, <1>3, MakeSlice
<1>. QED
  BY Zenon, <1>2, <1>3, <1>4 DEF SentBy

\* A piece of a log is a piece of what the log grows into.
LEMMA SliceGrows ==
  ASSUME NEW a \in Seq(Entry), NEW b \in Seq(Entry), StartsWith(b, a),
         NEW m \in AppendRequest, SliceOf(a, m)
  PROVE  SliceOf(b, m)
<1>1. /\ Len(a) \in Nat /\ Len(b) \in Nat /\ m.prevIndex \in Nat
      /\ m.entries \in Seq(Entry) /\ Len(m.entries) \in Nat
  BY SeqLen DEF AppendRequest
<1>2. m.prevIndex + Len(m.entries) <= Len(b)
  BY <1>1 DEF SliceOf, StartsWith, Agree
<1>3. ASSUME NEW k \in 1..Len(m.entries) PROVE m.entries[k] = b[m.prevIndex + k]
  <2>. m.prevIndex + k \in 1..Len(a)
    BY <1>1 DEF SliceOf
  <2>. QED
    BY DEF SliceOf, StartsWith, Agree
<1>4. termAt(b, m.prevIndex) = termAt(a, m.prevIndex)
  <2>. m.prevIndex \in 0..Len(a)
    BY <1>1 DEF SliceOf
  <2>. QED
    BY <1>1 DEF termAt, StartsWith, Agree
<1>. QED
  BY <1>2, <1>3, <1>4 DEF SliceOf

\* Whatever the step, requests, hints and candidates follow from the offices.
LEMMA MatchRest ==
  ASSUME NEW L \in TermLogs, NEW L2 \in TermLogs, Extends(L, L2), VoteInv, VoteInv',
         MatchInv(L), StepFacts, Offices(L2)'
  PROVE  Slices(L2)' /\ LeaderHintSound' /\ CandidateTerms'
<1>1. TypeOK /\ TypeOK' /\ NextInLog'
  BY DEF VoteInv, TypeInv
<1>2. Slices(L2)'
  <2>. SUFFICES ASSUME NEW m \in appendRequests'
                PROVE  SliceOf(L2[m.term], m) /\ <<m.term, m.src>> \in leaders'
    BY Zenon DEF Slices
  <2>. CASE m \in appendRequests
    <3>. SliceOf(L[m.term], m) /\ <<m.term, m.src>> \in leaders /\ m \in AppendRequest
      BY <1>1 DEF MatchInv, Slices, TypeOK
    <3>. m.term \in Nat
      BY DEF AppendRequest
    <3>. L[m.term] \in Seq(Entry) /\ L2[m.term] \in Seq(Entry) /\ StartsWith(L2[m.term], L[m.term])
      BY DEF TermLogs, Extends
    <3>. QED
      BY SliceGrows DEF StepFacts
  <2>. CASE m \notin appendRequests
    <3>1. PICK s \in Server : \E p \in peers(s) : SentBy(m, s, p)
      BY Zenon, SentSlice DEF VoteInv, StepFacts
    <3>2. PICK p \in peers(s) : SentBy(m, s, p)
      BY Zenon, <3>1
    <3>3. role'[s] = "Leader" /\ SliceOf(log'[s], m) /\ m.term = currentTerm'[s] /\ m.src = s
      BY Zenon, <3>2 DEF SentBy
    <3>4. log'[s] = L2[currentTerm'[s]] /\ <<currentTerm'[s], s>> \in leaders'
      BY Zenon, <3>3 DEF Offices
    <3>. QED
      BY Zenon, <3>3, <3>4
  <2>. QED
    OBVIOUS
<1>3. LeaderHintSound'
  <2>. SUFFICES ASSUME NEW s \in Server, leaderId'[s] # None
                PROVE  <<currentTerm'[s], leaderId'[s]>> \in leaders'
    BY Zenon DEF LeaderHintSound
  <2>. CASE leaderId'[s] = leaderId[s] /\ currentTerm'[s] = currentTerm[s]
    BY DEF MatchInv, LeaderHintSound, StepFacts
  <2>. CASE <<currentTerm'[s], leaderId'[s]>> \in leaders'
    BY Zenon
  <2>. CASE \E m \in appendRequests : currentTerm'[s] = m.term /\ leaderId'[s] = m.src
    BY DEF MatchInv, Slices, StepFacts
  <2>. QED
    BY DEF StepFacts, HintMoves
<1>4. CandidateTerms'
  <2>. SUFFICES ASSUME NEW s \in Server, role'[s] = "Candidate" PROVE currentTerm'[s] >= 1
    BY Zenon DEF CandidateTerms
  <2>. currentTerm[s] \in Nat /\ currentTerm'[s] \in Nat
    BY Zenon, <1>1 DEF TypeOK
  <2>. CASE role[s] = "Candidate" /\ currentTerm'[s] = currentTerm[s]
    BY DEF MatchInv, CandidateTerms
  <2>. CASE currentTerm'[s] > currentTerm[s]
    OBVIOUS
  <2>. QED
    BY DEF StepFacts, CandidateMoves
<1>. QED
  BY <1>2, <1>3, <1>4

\* A term stays won.
LEMMA WonStays ==
  ASSUME NEW L \in TermLogs, VoteInv, VoteInv', StepFacts, WonOnce(L)
  PROVE  WonOnce(L)'
<1>. SUFFICES ASSUME NEW t \in Nat, L[t] # <<>>
              PROVE  \E l \in Server :
                       /\ Elected(t, l)'
                       /\ currentTerm'[l] >= t
                       /\ currentTerm'[l] = t => role'[l] # "Candidate"
  BY DEF WonOnce
<1>1. PICK l \in Server :
        /\ Elected(t, l)
        /\ currentTerm[l] >= t
        /\ currentTerm[l] = t => role[l] # "Candidate"
  BY Zenon DEF WonOnce
<1>2. Elected(t, l)'
  BY <1>1 DEF Elected, StepFacts, VotesCast
<1>3. currentTerm[l] \in Nat /\ currentTerm'[l] \in Nat /\ currentTerm'[l] >= currentTerm[l]
  BY Zenon DEF VoteInv, TypeInv, TypeOK, StepFacts
<1>4. currentTerm'[l] = t => role'[l] # "Candidate"
  BY <1>1, <1>3 DEF StepFacts, CandidateMoves
<1>. QED
  BY ONLY <1>1, <1>2, <1>3, <1>4

\* A node that wins a term finds it without entries.
LEMMA NewTerm ==
  ASSUME Counting, NEW L \in TermLogs, VoteInv, VoteInv', StepFacts, WonOnce(L),
         NEW s \in Server, NEW t \in Nat, LeadStep(s, t)
  PROVE  L[t] = <<>>
<1>. SUFFICES ASSUME L[t] # <<>> PROVE FALSE
  BY Zenon
<1>1. PICK l \in Server :
        /\ Elected(t, l)
        /\ currentTerm[l] >= t
        /\ currentTerm[l] = t => role[l] # "Candidate"
  BY Zenon DEF WonOnce
<1>2. PICK P \in SUBSET Server :
        /\ hasQuorum(Cardinality(P), Cardinality(Server))
        /\ \A v \in P : <<v, t, l>> \in granted'
  BY Zenon, <1>1 DEF Elected, StepFacts, VotesCast
<1>3. PICK Q \in SUBSET Server :
        /\ hasQuorum(Cardinality(Q), Cardinality(Server))
        /\ \A v \in Q : <<v, t, s>> \in granted'
  BY Zenon DEF Elected, LeadStep
<1>4. PICK v \in P : v \in Q
  BY Zenon, <1>2, <1>3, QuorumsIntersect
<1>5. l = s
  <2>. <<v, t, l>> \in granted' /\ <<v, t, s>> \in granted'
    BY Zenon, <1>2, <1>3, <1>4
  <2>. <<v, t, l>>[3] = <<v, t, s>>[3]
    BY DEF VoteInv, OneVotePerTerm
  <2>. QED
    BY Zenon
<1>6. currentTerm[s] \in Nat
  BY Zenon DEF VoteInv, TypeInv, TypeOK
<1>. QED
  <2>. t > currentTerm[s] \/ (t = currentTerm[s] /\ role[s] = "Candidate")
    BY Zenon DEF LeadStep
  <2>. currentTerm[s] >= t /\ (currentTerm[s] = t => role[s] # "Candidate")
    BY Zenon, <1>1, <1>5
  <2>. QED
    BY <1>6

\* A step that appends nothing keeps the term logs.
LEMMA KeepMatch ==
  ASSUME NEW L \in TermLogs, VoteInv, VoteInv', StepFacts, MatchInv(L), KeepStep
  PROVE  MatchInv(L)'
<1>1. TypeOK /\ TypeOK'
  BY DEF VoteInv, TypeInv
<1>2. Extends(L, L)
  <2>. ASSUME NEW t \in Nat PROVE Len(L[t]) \in Nat
    BY Zenon, SeqLen DEF TermLogs
  <2>. QED
    BY DEF Extends, StartsWith, Agree
<1>3. NodesExplained(L)'
  <2>. SUFFICES ASSUME NEW s \in Server PROVE Explained(L, log'[s], currentTerm'[s])
    BY Zenon DEF NodesExplained
  <2>. /\ log'[s] = log[s] /\ log[s] \in Seq(Entry)
       /\ currentTerm[s] \in Nat /\ currentTerm'[s] \in Nat
       /\ currentTerm[s] <= currentTerm'[s]
    BY <1>1 DEF KeepStep, TypeOK, StepFacts
  <2>. Explained(L, log[s], currentTerm[s])
    BY Zenon DEF MatchInv, NodesExplained
  <2>. QED
    BY Zenon, <1>2, ExplainedGrows
<1>4. Offices(L)'
  BY Zenon DEF MatchInv, Offices, KeepStep
<1>5. WonOnce(L)'
  BY WonStays DEF MatchInv
<1>6. TermsExplained(L)' /\ EndsInTerm(L)'
  BY Zenon DEF MatchInv, TermsExplained, EndsInTerm
<1>. QED
  BY <1>2, <1>3, <1>4, <1>5, <1>6, MatchRest DEF MatchInv

\* What a leader's append changes.
LEMMA AppendFacts ==
  ASSUME VoteInv, NEW s \in Server, NEW t \in Nat, AppendStep(s, t)
  PROVE  /\ log[s] \in Seq(Entry) /\ Len(log[s]) \in Nat /\ currentTerm[s] \in Nat
         /\ Len(log'[s]) = Len(log[s]) + 1 /\ currentTerm'[s] = t
         /\ \A x \in Server \ {s} : log'[x] = log[x] /\ currentTerm'[x] = currentTerm[x]
<1>1. currentTerm \in [Server -> Nat] /\ log \in [Server -> Seq(Entry)]
  BY DEF VoteInv, TypeInv, TypeOK
<1>2. PICK e \in Entry : e.term = t /\ log' = [log EXCEPT ![s] = Append(log[s], e)]
  BY Zenon DEF AppendStep
<1>3. log[s] \in Seq(Entry) /\ log'[s] = Append(log[s], e)
  BY <1>1, <1>2
<1>4. Len(log'[s]) = Len(log[s]) + 1 /\ Len(log[s]) \in Nat
  BY <1>3, SeqAppend, SeqLen
<1>5. currentTerm' = [currentTerm EXCEPT ![s] = t]
  BY Zenon DEF AppendStep
<1>. QED
  BY Zenon, <1>1, <1>2, <1>3, <1>4, <1>5

\* A leader's append extends its term's log.
LEMMA GrowTerm ==
  ASSUME NEW L \in TermLogs, VoteInv, MatchInv(L), NEW s \in Server, NEW t \in Nat,
         NEW L2, Growing(L, L2, s, t)
  PROVE  Grown(L, L2, s, t)
<1>1. /\ log \in [Server -> Seq(Entry)] /\ currentTerm \in [Server -> Nat]
      /\ Len(log[s]) \in Nat
  BY SeqLen DEF VoteInv, TypeInv, TypeOK
<1>2. PICK e \in Entry : e.term = t /\ log' = [log EXCEPT ![s] = Append(log[s], e)]
  BY Zenon DEF Growing, AppendStep
<1>3. /\ log[s] \in Seq(Entry) /\ currentTerm[s] \in Nat
      /\ log'[s] = Append(log[s], e)
  BY <1>1, <1>2
<1>4. /\ currentTerm'[s] = t
      /\ \A x \in Server \ {s} : log'[x] = log[x] /\ currentTerm'[x] = currentTerm[x]
  <2>. AppendStep(s, t)
    BY Zenon DEF Growing
  <2>. QED
    BY Zenon, AppendFacts
<1>5. /\ log'[s] \in Seq(Entry) /\ Len(log'[s]) = Len(log[s]) + 1
      /\ \A k \in 1..Len(log[s]) : log'[s][k] = log[s][k]
      /\ log'[s][Len(log[s]) + 1] = e
  BY <1>2, <1>3, SeqAppend
<1>6. /\ L2 \in TermLogs /\ L2[t] = log'[s] /\ \A u \in Nat \ {t} : L2[u] = L[u]
  BY Zenon DEF Growing, Regrown
<1>7. Extends(L, L2)
  <2>. SUFFICES ASSUME NEW u \in Nat PROVE StartsWith(L2[u], L[u])
    BY DEF Extends
  <2>1. L[u] \in Seq(Entry) /\ Len(L[u]) \in Nat
    BY Zenon, SeqLen DEF TermLogs
  <2>2. CASE u # t
    <3>. L2[u] = L[u]
      BY Zenon, <1>6, <2>2
    <3>. QED
      BY <2>1 DEF StartsWith, Agree
  <2>3. CASE u = t
    <3>1. Agree(L[t], log[s], Len(L[t]))
      BY Zenon DEF Growing, StartsWith
    <3>2. Agree(log[s], log'[s], Len(L[t]))
      BY ONLY <1>1, <1>5, <2>1, <2>3, <3>1 DEF Agree
    <3>. QED
      BY Zenon, <1>6, <2>3, <3>1, <3>2, AgreeTrans DEF StartsWith
  <2>. QED
    BY Zenon, <2>2, <2>3
<1>8. L2[t] # <<>>
  <2>1. Len(L2[t]) # 0
    BY <1>1, <1>5, <1>6
  <2>. QED
    BY Zenon, <2>1, SeqEmpty
<1>9. Explained(L2, log'[s], t)
  <2>1. Explained(L, log[s], currentTerm[s]) /\ currentTerm[s] <= t /\ t >= 1
    BY Zenon, <1>3 DEF MatchInv, NodesExplained, Growing
  <2>2. Explained(L2, log[s], t)
    BY Zenon, <1>3, <1>6, <1>7, <2>1, ExplainedGrows
  <2>3. L2[t] = Append(log[s], e)
    BY Zenon, <1>3, <1>6
  <2>4. Explained(L2, Append(log[s], e), t)
    BY Zenon, <1>2, <1>3, <1>6, <2>1, <2>2, <2>3, ExplainedAppend
  <2>. QED
    BY Zenon, <1>3, <2>4
<1>10. NodesExplained(L2)'
  <2>. SUFFICES ASSUME NEW x \in Server PROVE Explained(L2, log'[x], currentTerm'[x])
    BY Zenon DEF NodesExplained
  <2>1. CASE x = s
    BY Zenon, <1>4, <1>9, <2>1
  <2>2. CASE x # s
    <3>1. Explained(L, log[x], currentTerm[x])
      BY Zenon DEF MatchInv, NodesExplained
    <3>2. log[x] \in Seq(Entry) /\ currentTerm[x] \in Nat /\ currentTerm[x] <= currentTerm[x]
      BY <1>1
    <3>. QED
      BY Zenon, <1>4, <1>6, <1>7, <2>2, <3>1, <3>2, ExplainedGrows
  <2>. QED
    BY Zenon, <2>1, <2>2
<1>11. TermsExplained(L2)
  <2>. SUFFICES ASSUME NEW u \in Nat PROVE Explained(L2, L2[u], u)
    BY Zenon DEF TermsExplained
  <2>1. CASE u = t
    BY Zenon, <1>6, <1>9, <2>1
  <2>2. CASE u # t
    <3>1. Explained(L, L[u], u) /\ L[u] \in Seq(Entry) /\ u <= u
      BY DEF MatchInv, TermsExplained, TermLogs
    <3>. QED
      BY Zenon, <1>6, <1>7, <2>2, <3>1, ExplainedGrows
  <2>. QED
    BY Zenon, <2>1, <2>2
<1>12. EndsInTerm(L2)
  <2>. SUFFICES ASSUME NEW u \in Nat, L2[u] # <<>> PROVE L2[u][Len(L2[u])].term = u
    BY Zenon DEF EndsInTerm
  <2>1. CASE u = t
    BY Zenon, <1>2, <1>5, <1>6, <2>1
  <2>2. CASE u # t
    <3>. L2[u] = L[u]
      BY Zenon, <1>6, <2>2
    <3>. L[u][Len(L[u])].term = u
      BY Zenon DEF MatchInv, EndsInTerm
    <3>. QED
      BY Zenon
  <2>. QED
    BY Zenon, <2>1, <2>2
<1>. QED
  BY Zenon, <1>6, <1>7, <1>8, <1>10, <1>11, <1>12 DEF Grown

\* The log of a new leader's term is the leader's.
LEMMA LeadGrows ==
  ASSUME Counting, NEW L \in TermLogs, VoteInv, VoteInv', StepFacts, MatchInv(L),
         NEW s \in Server, NEW t \in Nat, LeadStep(s, t), NEW L2, Regrown(L, L2, t, log'[s])
  PROVE  Growing(L, L2, s, t)
<1>1. currentTerm[s] \in Nat /\ log[s] \in Seq(Entry) /\ Len(log[s]) \in Nat
  BY SeqLen DEF VoteInv, TypeInv, TypeOK
<1>2. L[t] = <<>>
  <2>. WonOnce(L)
    BY Zenon DEF MatchInv
  <2>. QED
    BY Zenon, NewTerm
<1>3. StartsWith(log[s], L[t])
  BY ONLY <1>1, <1>2 DEF StartsWith, Agree
<1>4. /\ t > currentTerm[s] \/ (t = currentTerm[s] /\ role[s] = "Candidate")
      /\ role[s] = "Candidate" => currentTerm[s] >= 1
  BY Zenon DEF LeadStep, MatchInv, CandidateTerms
<1>5. t >= 1 /\ t >= currentTerm[s]
  BY <1>1, <1>4
<1>. QED
  BY Zenon, <1>3, <1>5 DEF LeadStep, Growing

\* A leader in office adds to its term's log.
LEMMA ExtendGrows ==
  ASSUME NEW L \in TermLogs, VoteInv, MatchInv(L), NEW s \in Server, ExtendStep(s),
         NEW t \in Nat, t = currentTerm[s], NEW L2, Regrown(L, L2, t, log'[s])
  PROVE  Growing(L, L2, s, t) /\ L[t] # <<>>
<1>1. log[s] \in Seq(Entry) /\ Len(log[s]) \in Nat
  BY SeqLen DEF VoteInv, TypeInv, TypeOK
<1>2. log[s] = L[t] /\ L[t] # <<>>
  BY Zenon DEF MatchInv, Offices, ExtendStep
<1>3. StartsWith(log[s], L[t])
  BY ONLY SMTT(30), <1>1, <1>2 DEF StartsWith, Agree
<1>4. t >= 1
  <2>. Len(log[s]) \in 1..Len(log[s])
    BY ONLY <1>1, <1>2, SeqEmpty
  <2>. log[s][Len(log[s])].term \in 1..t
    BY Zenon DEF MatchInv, NodesExplained, Explained
  <2>. QED
    OBVIOUS
<1>5. t >= currentTerm[s]
  OBVIOUS
<1>. QED
  BY Zenon, <1>2, <1>3, <1>4, <1>5 DEF ExtendStep, Growing

\* A new leader starts its term's log.
LEMMA LeadMatch ==
  ASSUME Counting, NEW L \in TermLogs, VoteInv, VoteInv', StepFacts, MatchInv(L),
         NEW s \in Server, NEW t \in Nat, LeadStep(s, t),
         NEW L2, Regrown(L, L2, t, log'[s])
  PROVE  MatchInv(L2)'
<1>1. AppendStep(s, t) /\ Growing(L, L2, s, t)
  BY Zenon, LeadGrows DEF LeadStep
<1>2. Grown(L, L2, s, t)
  BY Zenon, <1>1, GrowTerm
<1>3. /\ L2 \in TermLogs /\ Extends(L, L2) /\ L2[t] = log'[s] /\ L2[t] # <<>>
      /\ \A u \in Nat \ {t} : L2[u] = L[u]
  BY Zenon, <1>2 DEF Grown
<1>4. /\ currentTerm'[s] = t
      /\ \A x \in Server \ {s} : log'[x] = log[x] /\ currentTerm'[x] = currentTerm[x]
  BY Zenon, <1>1, AppendFacts
<1>5. Offices(L2)'
  <2>1. ASSUME NEW u \in Nat, L[u] # <<>> PROVE u # t
    <3>. WonOnce(L)
      BY Zenon DEF MatchInv
    <3>. QED
      BY Zenon, <2>1, NewTerm
  <2>2. ASSUME NEW x \in Server, role'[x] = "Leader"
        PROVE  <<currentTerm'[x], x>> \in leaders' /\ log'[x] = L2[currentTerm'[x]]
    <3>1. CASE x = s
      BY Zenon, <1>3, <1>4, <2>2, <3>1 DEF LeadStep
    <3>2. CASE x # s
      <4>1. role[x] = "Leader" /\ log'[x] = log[x] /\ currentTerm'[x] = currentTerm[x]
        BY Zenon, <1>1, <1>4, <2>2, <3>2 DEF AppendStep
      <4>2. currentTerm[x] \in Nat
        BY DEF VoteInv, TypeInv, TypeOK
      <4>3. /\ <<currentTerm[x], x>> \in leaders /\ log[x] = L[currentTerm[x]]
            /\ L[currentTerm[x]] # <<>>
        BY Zenon, <4>1, <4>2 DEF MatchInv, Offices
      <4>4. L2[currentTerm[x]] = L[currentTerm[x]]
        BY Zenon, <1>3, <2>1, <4>2, <4>3
      <4>. QED
        BY Zenon, <4>1, <4>3, <4>4 DEF LeadStep
    <3>. QED
      BY Zenon, <3>1, <3>2
  <2>3. ASSUME NEW u \in Nat, NEW x \in Server, <<u, x>> \in leaders' PROVE L2[u] # <<>>
    <3>1. CASE <<u, x>> \in leaders
      <4>. L[u] # <<>>
        BY Zenon, <3>1 DEF MatchInv, Offices
      <4>. QED
        BY Zenon, <1>3, <2>1
    <3>2. CASE <<u, x>> = <<t, s>>
      BY Zenon, <1>3, <3>2
    <3>. QED
      BY Zenon, <2>3, <3>1, <3>2 DEF LeadStep
  <2>. QED
    BY Zenon, <2>2, <2>3 DEF Offices
<1>6. WonOnce(L2)'
  <2>. SUFFICES ASSUME NEW u \in Nat, L2[u] # <<>>
                PROVE  \E l \in Server :
                         /\ Elected(u, l)'
                         /\ currentTerm'[l] >= u
                         /\ currentTerm'[l] = u => role'[l] # "Candidate"
    BY Zenon DEF WonOnce
  <2>1. CASE u = t
    <3>1. Elected(t, s)' /\ role'[s] \in {"Leader", "Follower"}
      BY Zenon, <1>1 DEF LeadStep, AppendStep
    <3>2. currentTerm'[s] >= t /\ role'[s] # "Candidate"
      BY <1>4, <3>1
    <3>. QED
      BY Zenon, <2>1, <3>1, <3>2
  <2>2. CASE u # t
    <3>. WonOnce(L)'
      BY Zenon, WonStays DEF MatchInv
    <3>. L[u] # <<>>
      BY Zenon, <1>3, <2>2
    <3>. QED
      BY Zenon DEF WonOnce
  <2>. QED
    BY Zenon, <2>1, <2>2
<1>7. Slices(L2)' /\ LeaderHintSound' /\ CandidateTerms'
  BY Zenon, <1>3, <1>5, MatchRest
<1>8. NodesExplained(L2)' /\ TermsExplained(L2)' /\ EndsInTerm(L2)'
  BY Zenon, <1>2 DEF Grown, TermsExplained, EndsInTerm
<1>. QED
  BY Zenon, <1>5, <1>6, <1>7, <1>8 DEF MatchInv

\* A leader in office adds to its term's log.
LEMMA ExtendMatch ==
  ASSUME Counting, NEW L \in TermLogs, VoteInv, VoteInv', StepFacts, MatchInv(L),
         NEW s \in Server, ExtendStep(s),
         NEW L2, NEW t \in Nat, t = currentTerm[s], Regrown(L, L2, t, log'[s])
  PROVE  MatchInv(L2)'
<1>1. AppendStep(s, t) /\ Growing(L, L2, s, t) /\ L[t] # <<>>
  BY Zenon, ExtendGrows DEF ExtendStep
<1>2. Grown(L, L2, s, t)
  BY Zenon, <1>1, GrowTerm
<1>3. /\ L2 \in TermLogs /\ Extends(L, L2) /\ L2[t] = log'[s] /\ L2[t] # <<>>
      /\ \A u \in Nat \ {t} : L2[u] = L[u]
  BY Zenon, <1>2 DEF Grown
<1>4. /\ currentTerm'[s] = t
      /\ \A x \in Server \ {s} : log'[x] = log[x] /\ currentTerm'[x] = currentTerm[x]
  BY Zenon, <1>1, AppendFacts
<1>5. ASSUME NEW x \in Server, role[x] = "Leader", currentTerm[x] = t PROVE x = s
  <2>. <<t, x>> \in leaders /\ <<t, s>> \in leaders
    BY Zenon, <1>5 DEF MatchInv, Offices, ExtendStep
  <2>. ElectionSafety
    BY Zenon, VoteInvElectionSafety
  <2>. QED
    BY DEF ElectionSafety
<1>6. Offices(L2)'
  <2>1. ASSUME NEW x \in Server, role'[x] = "Leader"
        PROVE  <<currentTerm'[x], x>> \in leaders' /\ log'[x] = L2[currentTerm'[x]]
    <3>1. CASE x = s
      BY Zenon, <1>3, <1>4, <3>1 DEF ExtendStep, MatchInv, Offices
    <3>2. CASE x # s
      <4>1. role[x] = "Leader" /\ log'[x] = log[x] /\ currentTerm'[x] = currentTerm[x]
        BY Zenon, <1>1, <1>4, <2>1, <3>2 DEF AppendStep
      <4>2. currentTerm[x] \in Nat /\ currentTerm[x] # t
        BY <1>5, <3>2, <4>1 DEF VoteInv, TypeInv, TypeOK
      <4>3. <<currentTerm[x], x>> \in leaders /\ log[x] = L[currentTerm[x]]
        BY Zenon, <4>1 DEF MatchInv, Offices
      <4>4. L2[currentTerm[x]] = L[currentTerm[x]]
        BY Zenon, <1>3, <4>2
      <4>. QED
        BY Zenon, <4>1, <4>3, <4>4 DEF ExtendStep
    <3>. QED
      BY Zenon, <3>1, <3>2
  <2>2. ASSUME NEW u \in Nat, NEW x \in Server, <<u, x>> \in leaders' PROVE L2[u] # <<>>
    <3>. L[u] # <<>>
      BY Zenon, <2>2 DEF ExtendStep, MatchInv, Offices
    <3>. QED
      BY Zenon, <1>3
  <2>. QED
    BY Zenon, <2>1, <2>2 DEF Offices
<1>7. WonOnce(L2)'
  <2>. WonOnce(L)'
    BY Zenon, WonStays DEF MatchInv
  <2>. \A u \in Nat : L2[u] # <<>> => L[u] # <<>>
    BY Zenon, <1>1, <1>3
  <2>. QED
    BY Zenon DEF WonOnce
<1>8. Slices(L2)' /\ LeaderHintSound' /\ CandidateTerms'
  BY Zenon, <1>3, <1>6, MatchRest
<1>9. NodesExplained(L2)' /\ TermsExplained(L2)' /\ EndsInTerm(L2)'
  BY Zenon, <1>2 DEF Grown, TermsExplained, EndsInTerm
<1>. QED
  BY Zenon, <1>6, <1>7, <1>8, <1>9 DEF MatchInv

\* A follower's log stays explained.
LEMMA FollowMatch ==
  ASSUME Counting, NEW L \in TermLogs, VoteInv, VoteInv', StepFacts, MatchInv(L),
         NEW s \in Server, NEW m \in appendRequests, FollowStep(s, m)
  PROVE  MatchInv(L)'
<1>. DEFINE t    == m.term
            fits == previousMatches(log[s], m)
            end  == m.prevIndex + Len(m.entries)
<1>1. /\ t \in Nat /\ end \in Nat
      /\ \A x \in Server \ {s} : log'[x] = log[x] /\ currentTerm'[x] = currentTerm[x]
      /\ currentTerm'[s] = t /\ currentTerm[s] <= t
      /\ role' = [role EXCEPT ![s] = "Follower"]
      /\ ~fits => log'[s] = log[s]
      /\ fits => /\ Agree(log'[s], L[t], end)
                 /\ log'[s] = log[s] \/ Len(log'[s]) = end
  <2>. TakesIn(L, s, m)
    BY Zenon, FollowOutcome
  <2>. QED
    BY Zenon DEF TakesIn
<1>. HIDE DEF t, fits, end
<1>2. TypeOK /\ TypeOK'
  BY DEF VoteInv, TypeInv
<1>3. Extends(L, L)
  <2>. ASSUME NEW u \in Nat PROVE Len(L[u]) \in Nat
    BY SeqLen DEF TermLogs
  <2>. QED
    BY DEF Extends, StartsWith, Agree
<1>4. NodesExplained(L)'
  <2>. SUFFICES ASSUME NEW x \in Server PROVE Explained(L, log'[x], currentTerm'[x])
    BY Zenon DEF NodesExplained
  <2>1. /\ Explained(L, log[x], currentTerm[x]) /\ log[x] \in Seq(Entry)
        /\ currentTerm[x] \in Nat
    BY <1>2 DEF MatchInv, NodesExplained, TypeOK
  <2>2. CASE x # s
    BY Zenon, <1>1, <2>1, <2>2
  <2>3. CASE x = s /\ log'[s] = log[s]
    BY Zenon, <1>1, <1>3, <2>1, <2>3, ExplainedGrows
  <2>4. CASE x = s /\ log'[s] # log[s]
    <3>. StartsWith(L[t], log'[s])
      BY Zenon, <1>1, <2>4 DEF StartsWith
    <3>. L[t] \in Seq(Entry) /\ log'[s] \in Seq(Entry) /\ Explained(L, L[t], t)
      BY <1>1, <1>2 DEF TermLogs, TypeOK, MatchInv, TermsExplained
    <3>. Explained(L, log'[s], t)
      BY Zenon, ExplainedPrefix
    <3>. QED
      BY Zenon, <1>1, <2>4
  <2>. QED
    BY Zenon, <2>2, <2>3, <2>4
<1>5. Offices(L)'
  <2>. ASSUME NEW x \in Server, role'[x] = "Leader"
       PROVE  <<currentTerm'[x], x>> \in leaders' /\ log'[x] = L[currentTerm'[x]]
    <3>. x # s /\ role[x] = "Leader"
      BY <1>1, <1>2 DEF TypeOK
    <3>1. log'[x] = log[x] /\ currentTerm'[x] = currentTerm[x] /\ leaders' = leaders
      BY Zenon, <1>1 DEF FollowStep
    <3>2. <<currentTerm[x], x>> \in leaders /\ log[x] = L[currentTerm[x]]
      BY Zenon DEF MatchInv, Offices
    <3>. QED
      BY Zenon, <3>1, <3>2
  <2>. QED
    BY Zenon DEF MatchInv, Offices, FollowStep
<1>6. WonOnce(L)'
  BY Zenon, WonStays DEF MatchInv
<1>7. TermsExplained(L)' /\ EndsInTerm(L)'
  BY Zenon DEF MatchInv, TermsExplained, EndsInTerm
<1>. QED
  BY <1>3, <1>4, <1>5, <1>6, <1>7, MatchRest DEF MatchInv

\* Before the first election no term has a log.
LEMMA MatchInit == Init => MatchInv([t \in Nat |-> <<>>])
<1>. SUFFICES ASSUME Init PROVE MatchInv([t \in Nat |-> <<>>])
  OBVIOUS
<1>. DEFINE L == [t \in Nat |-> <<>>]
<1>. \A t \in Nat : L[t] = <<>>
  BY Zenon
<1>. HIDE DEF L
<1>. LeaderHintSound /\ CandidateTerms /\ Slices(L) /\ Offices(L)
  BY Zenon DEF Init, LeaderHintSound, CandidateTerms, Slices, Offices
<1>1. \A s \in Server : log[s] = <<>>
  BY Zenon DEF Init
<1>2. \A t : Explained(L, <<>>, t)
  <2>1. 1..Len(<<>>) = {}
    BY ONLY SMT
  <2>. QED
    BY Zenon, <2>1 DEF Explained
<1>3. NodesExplained(L) /\ TermsExplained(L) /\ EndsInTerm(L) /\ WonOnce(L)
  BY Zenon, <1>1, <1>2 DEF NodesExplained, TermsExplained, EndsInTerm, WonOnce
<1>. QED
  BY Zenon, <1>3 DEF MatchInv, L

=============================================================================
