------------------------- MODULE CaptureJournalProofs -------------------------
(***************************************************************************)
(* Proofs about CaptureJournal.  Both properties rest on what the cursors, *)
(* the seen ids and the batch in hand have to do with the outcome of       *)
(* events: what is behind a cursor or was seen has been handled, and what  *)
(* a connector has read and not handled is still in its batch.             *)
(***************************************************************************)
EXTENDS CaptureJournal, FiniteSetTheorems, SequenceTheorems, TLAPS

Handled == ingested \cup refused \cup missed

\* Events of version v of file f on lines that begin before position p.
Behind(f, v, p) == {<<f, v, n>> : n \in 1 .. FirstFrom(f, p) - 1}

\* Those of the batch that are still to be handled.
Left(b) == {<<b.file, b.version, n>> : n \in b.next .. b.until}

CursorsBehind(m) ==
  \A f \in Files : Behind(f, m.cursor[f].version, m.cursor[f].at) \subseteq Handled

BatchIsOwn(c) ==
  /\ todo[c] \subseteq {f \in Files : Owner[f] = c}
  /\ \A f \in todo[c] : size[f] >= 0
  /\ batch[c].file # None => Owner[batch[c].file] = c
  /\ batch[c].next >= 1
  /\ batch[c].file # None => batch[c].until <= MaxLines * PerLine[batch[c].file]
  /\ pc[c] = "ingest" => AtEvent(c)

BatchIsLeft(c) ==
  batch[c].file # None =>
    Behind(batch[c].file, batch[c].version, batch[c].upto) \subseteq Handled \cup Left(batch[c])

SeenIsHandled(c) ==
  \A id \in Range(memory[c].seen) :
    id[1] \in ingested \cup refused \/ (pc[c] = "ingest" /\ id[1] = Event(c))

UnseenIsRare(c) ==
  \A e \in Events \ (cut \cup Undated) : Owner[e[1]] = c =>
    /\ journal[e] <= 1 + unsaved[c]
    /\ <<e, 0>> \notin Range(memory[c].seen) => journal[e] <= unsaved[c]

JournalInv ==
  /\ TypeOK
  /\ CursorsBehind(state) /\ \A c \in Connectors : CursorsBehind(memory[c])
  /\ \A id \in Range(state.seen) : id[1] \in ingested \cup refused
  /\ \A c \in Connectors : BatchIsOwn(c) /\ BatchIsLeft(c) /\ SeenIsHandled(c) /\ UnseenIsRare(c)

-----------------------------------------------------------------------------
\* A connector that goes on to its next event still has a batch.
LEMMA BatchAdvances ==
  ASSUME batch \in [Connectors -> Batches], NEW c \in Connectors
  PROVE  [batch EXCEPT ![c].next = @ + 1] \in [Connectors -> Batches]
<1>1. [batch[c] EXCEPT !.next = @ + 1] \in Batches
  BY DEF Batches
<1> QED
  BY <1>1

\* Multiplication by a positive number keeps the order.
LEMMA TimesMonotone ==
  ASSUME NEW a \in Nat, NEW b \in Nat, NEW k \in Nat \ {0}, a <= b
  PROVE  a * k <= b * k
  OBVIOUS

\* A number is below the next multiple of the divisor.
LEMMA BelowNextMultiple ==
  ASSUME NEW a \in Nat, NEW k \in Nat \ {0}
  PROVE  a < (a \div k + 1) * k
  OBVIOUS

\* One more id is kept, and the ids there were or the last of them.
LEMMA LatestKeeps ==
  ASSUME NEW S, NEW ids \in Seq(S), NEW id \in S
  PROVE  LET kept == Latest(Append(ids, id)) IN
         /\ kept \in Seq(S)
         /\ id \in Range(kept)
         /\ Range(kept) \subseteq Range(ids) \cup {id}
<1> DEFINE all == Append(ids, id)
           N == Len(all)
           kept == Latest(all)
<1>1. /\ all \in Seq(S) /\ N = Len(ids) + 1 /\ Len(ids) \in Nat
      /\ \A i \in 1 .. Len(ids) : all[i] = ids[i]
      /\ all[N] = id
  BY AppendProperties, LenProperties
<1>2. \A i \in 1 .. N : all[i] \in S
  BY <1>1, ElementOfSeq
<1>3. \A i \in 1 .. N : all[i] \in Range(ids) \cup {id}
  <2> SUFFICES ASSUME NEW i \in 1 .. N, i # N PROVE all[i] \in Range(ids)
    BY <1>1
  <2>1. i \in 1 .. Len(ids)
    BY <1>1
  <2>2. ids[i] \in Range(ids)
    BY <2>1, RangeEquality
  <2> QED
    BY <1>1, <2>1, <2>2
<1>4. \A seq \in Seq(S) : Range(seq) = {seq[i] : i \in 1 .. Len(seq)}
  BY RangeEquality
<1>5. MaxSeen \in Nat \ {0}
  BY CaptureJournalAssumption
<1> HIDE DEF all, N
<1>6. CASE N <= MaxSeen
  <2>1. kept = all
    BY <1>6 DEF Latest, N
  <2>2. Range(all) = {all[i] : i \in 1 .. N}
    BY <1>1, <1>4 DEF N
  <2>3. N \in 1 .. N
    BY <1>1
  <2> QED
    BY <1>1, <1>3, <2>1, <2>2, <2>3 DEF all
<1>7. CASE ~ (N <= MaxSeen)
  <2> DEFINE m == N - MaxSeen + 1
             sub == SubSeq(all, m, N)
  <2>1. kept = sub
    BY <1>7 DEF Latest, N
  <2>2. m \in Int /\ m >= 1 /\ m <= N /\ N \in Int /\ N - m + 1 = MaxSeen
    BY <1>1, <1>5, <1>7
  <2>3. \A i \in m .. N : all[i] \in S
    BY <1>2, <2>2
  <2> HIDE DEF m
  <2>4. /\ sub \in Seq(S) /\ Len(sub) = N - m + 1
        /\ \A i \in 1 .. N - m + 1 : sub[i] = all[m + i - 1]
    BY <2>2, <2>3, SubSeqProperties
  <2> HIDE DEF sub
  <2>5. Range(sub) = {sub[i] : i \in 1 .. MaxSeen}
    BY <1>4, <2>2, <2>4
  <2>6. sub[MaxSeen] = id
    <3>1. m + MaxSeen - 1 = N /\ MaxSeen \in 1 .. N - m + 1
      BY <1>5, <2>2
    <3> QED
      BY <3>1, <2>4, <1>1
  <2>7. MaxSeen \in 1 .. MaxSeen
    BY <1>5
  <2>8. id \in Range(sub)
    BY <2>5, <2>6, <2>7
  <2>9. ASSUME NEW i \in 1 .. MaxSeen PROVE sub[i] \in Range(ids) \cup {id}
    <3>1. m + i - 1 \in 1 .. N /\ i \in 1 .. N - m + 1
      BY <1>5, <2>2
    <3> QED
      BY <3>1, <2>4, <1>3
  <2> HIDE DEF kept
  <2>10. kept \in Seq(S) /\ id \in Range(kept) /\ Range(kept) \subseteq Range(ids) \cup {id}
    BY <2>1, <2>4, <2>5, <2>8, <2>9
  <2> QED
    BY <2>10 DEF kept, all
<1> QED
  BY <1>6, <1>7

\* What a cursor has passed is behind it.
LEMMA PassedIsBehind ==
  ASSUME NEW f \in Files, NEW cursor \in Cursors
  PROVE  Passed(f, cursor) \subseteq Behind(f, cursor.version, cursor.at)
<1> SUFFICES ASSUME NEW n \in Numbers(f), 2 * Line(f, n) <= cursor.at
             PROVE  n < FirstFrom(f, cursor.at)
  BY CaptureJournalAssumption DEF Passed, Behind, Numbers, FirstFrom, Cursors
<1> DEFINE P == PerLine[f]
           q == (n - 1) \div P
           h == (cursor.at + 1) \div 2
<1>1. P \in Nat \ {0} /\ n \in Nat /\ n - 1 \in Nat /\ cursor.at \in Nat \cup {-1}
  BY CaptureJournalAssumption DEF Numbers, Cursors
<1>2. n - 1 < (q + 1) * P
  BY <1>1, BelowNextMultiple
<1>3. q \in Nat /\ q + 1 <= h /\ h \in Nat
  BY <1>1 DEF Line
<1>4. (q + 1) * P <= h * P
  BY <1>1, <1>3, TimesMonotone
<1>5. FirstFrom(f, cursor.at) = h * P + 1
  BY DEF FirstFrom
<1>6. (q + 1) * P \in Nat /\ h * P \in Nat
  BY <1>1, <1>3
<1> HIDE DEF P, q, h
<1> QED
  BY <1>1, <1>2, <1>4, <1>5, <1>6

\* The event a connector is at is one, and of a file of its own.
LEMMA EventIsOwn ==
  ASSUME TypeOK, NEW c \in Connectors, BatchIsOwn(c), AtEvent(c)
  PROVE  Event(c) \in Events /\ Owner[Event(c)[1]] = c /\ batch[c].file \in Files
<1> DEFINE f == batch[c].file
           v == batch[c].version
           n == batch[c].next
<1>1. f \in Files /\ v \in 0 .. MaxVersions /\ n \in Nat /\ batch[c].until \in Nat
  BY DEF TypeOK, AtEvent, Batches
<1>2. n \in Numbers(f)
  BY <1>1, CaptureJournalAssumption DEF BatchIsOwn, AtEvent, Numbers
<1>3. <<f, v, n>> \in {f} \X (0 .. MaxVersions) \X Numbers(f)
  BY <1>1, <1>2
<1>4. <<f, v, n>> \in Events
  BY <1>1, <1>3 DEF Events
<1> QED
  BY <1>1, <1>4 DEF Event, BatchIsOwn, AtEvent

LEMMA JournalInitially == Init => JournalInv
<1> SUFFICES ASSUME Init PROVE JournalInv
  OBVIOUS
<1>1. EmptyState \in Copies
  BY CaptureJournalAssumption, EmptySeq DEF EmptyState, Copies, Cursors
<1>2. NoBatch \in Batches
  BY CaptureJournalAssumption DEF NoBatch, Batches
<1>3. TypeOK
  BY <1>1, <1>2, CaptureJournalAssumption DEF Init, TypeOK
<1>4. ASSUME NEW f \in Files, NEW v PROVE Behind(f, v, -1) = {}
  BY CaptureJournalAssumption DEF Behind, FirstFrom
<1>5. CursorsBehind(EmptyState)
  BY <1>4 DEF CursorsBehind, EmptyState
<1>6. ASSUME NEW c \in Connectors
      PROVE  BatchIsOwn(c) /\ BatchIsLeft(c) /\ SeenIsHandled(c) /\ UnseenIsRare(c)
  BY DEF Init, BatchIsOwn, BatchIsLeft, SeenIsHandled, UnseenIsRare, NoBatch, EmptyState, AtEvent,
         Range
<1>7. Range(EmptyState.seen) = {}
  BY DEF EmptyState, Range
<1> QED
  BY <1>3, <1>5, <1>6, <1>7 DEF Init, JournalInv

-----------------------------------------------------------------------------
\* A writer's step leaves the connectors as they are, and no file gets lost.
LEMMA WriterKeeps ==
  ASSUME JournalInv, NEW f \in Files, Appends(f) \/ Rewrites(f)
  PROVE  JournalInv'
<1>1. UNCHANGED <<pc, memory, scan, state, outcome, history>>
  BY DEF Appends, Rewrites
<1>2. /\ version' \in [Files -> 0 .. MaxVersions]
      /\ size' \in [Files -> -1 .. 2 * MaxLines]
      /\ \A g \in Files : size[g] >= 0 => size'[g] >= 0
  <2>1. CASE Appends(f)
    BY <2>1, CaptureJournalAssumption DEF JournalInv, TypeOK, Appends
  <2>2. CASE Rewrites(f)
    BY <2>2, CaptureJournalAssumption DEF JournalInv, TypeOK, Rewrites
  <2> QED
    BY <2>1, <2>2
<1>3. TypeOK'
  BY <1>1, <1>2 DEF JournalInv, TypeOK, scan, outcome, history
<1>4. Handled' = Handled
  BY <1>1 DEF Handled, outcome, history
<1>5. CursorsBehind(state)' /\ \A c \in Connectors : CursorsBehind(memory[c])'
  BY <1>1, <1>4 DEF JournalInv, CursorsBehind, Behind, FirstFrom
<1>6. ASSUME NEW c \in Connectors
      PROVE  (BatchIsOwn(c) /\ BatchIsLeft(c) /\ SeenIsHandled(c) /\ UnseenIsRare(c))'
  <2>1. BatchIsOwn(c)'
    BY <1>1, <1>2 DEF JournalInv, BatchIsOwn, AtEvent, scan
  <2>2. BatchIsLeft(c)'
    BY <1>1, <1>4 DEF JournalInv, BatchIsLeft, Behind, Left, FirstFrom, scan
  <2>3. SeenIsHandled(c)' /\ UnseenIsRare(c)'
    BY <1>1 DEF JournalInv, SeenIsHandled, UnseenIsRare, Event, scan, outcome, history
  <2> QED
    BY <2>1, <2>2, <2>3
<1> QED
  BY <1>1, <1>3, <1>5, <1>6 DEF JournalInv, outcome, history

LEMMA BeginsKeeps ==
  ASSUME JournalInv, NEW c \in Connectors, Begins(c)
  PROVE  JournalInv'
<1>1. TypeOK'
  BY DEF JournalInv, TypeOK, Begins, files, outcome, history
<1>2. CursorsBehind(state)' /\ \A d \in Connectors : CursorsBehind(memory[d])'
  BY DEF JournalInv, Begins, CursorsBehind, Behind, FirstFrom, Handled, outcome, history
<1>3. ASSUME NEW d \in Connectors
      PROVE  (BatchIsOwn(d) /\ BatchIsLeft(d) /\ SeenIsHandled(d) /\ UnseenIsRare(d))'
  <2>1. BatchIsOwn(d)'
    BY DEF JournalInv, TypeOK, Begins, BatchIsOwn, AtEvent, files
  <2>2. BatchIsLeft(d)'
    BY DEF JournalInv, Begins, BatchIsLeft, Behind, Left, FirstFrom, Handled, outcome, history
  <2>3. SeenIsHandled(d)' /\ UnseenIsRare(d)'
    BY DEF JournalInv, TypeOK, Begins, SeenIsHandled, UnseenIsRare, Event, outcome, history
  <2> QED
    BY <2>1, <2>2, <2>3
<1> QED
  BY <1>1, <1>2, <1>3 DEF JournalInv, Begins, outcome, history

\* The start of what is read of a file: a position in it.
LEMMA StartInFile ==
  ASSUME JournalInv, NEW c \in Connectors, NEW f \in todo[c]
  PROVE  /\ f \in Files /\ Owner[f] = c /\ size[f] \in Nat
         /\ Start(c, f) \in Nat
         /\ memory[c].cursor[f].at >= 0 => Start(c, f) \in {0, memory[c].cursor[f].at}
<1>1. f \in Files /\ Owner[f] = c /\ size[f] \in Nat
  BY CaptureJournalAssumption DEF JournalInv, TypeOK, BatchIsOwn
<1>2. memory[c].cursor[f] \in Cursors
  BY <1>1 DEF JournalInv, TypeOK, Copies
<1>3. InitialOffset(f) \in Nat
  BY <1>1, CaptureJournalAssumption DEF InitialOffset
<1> QED
  BY <1>1, <1>2, <1>3 DEF Start, Cursors

\* What is parsed begins with the first event from the start on, is of lines the
\* file has, and ends at a position.
LEMMA ParsedInFile ==
  ASSUME JournalInv, NEW f \in Files, size[f] \in Nat,
         NEW p \in Nat, NEW room \in Nat \ {0}
  PROVE  LET b == Parsed(f, p, room) IN
         /\ b \in Batches
         /\ b.file = f /\ b.version = version[f]
         /\ b.next = FirstFrom(f, p) /\ b.next >= 1
         /\ b.until <= MaxLines * PerLine[f]
<1> DEFINE P == PerLine[f]
           h == (p + 1) \div 2
           w == size[f] \div 2
           first == FirstFrom(f, p)
           whole == w * P
           last == first + room - 1
           l == (last - 1) \div P
<1>1. P \in Nat \ {0} /\ h \in Nat /\ w \in Nat /\ w <= MaxLines /\ MaxLines \in Nat
  BY CaptureJournalAssumption DEF JournalInv, TypeOK
<1>2. h * P \in Nat /\ whole \in Nat /\ MaxLines * P \in Nat
  BY <1>1
<1>3. whole <= MaxLines * P
  BY <1>1, TimesMonotone
<1>4. first = h * P + 1
  BY DEF FirstFrom
<1>5. first \in Nat /\ first >= 1 /\ last \in Nat /\ last - 1 \in Nat
  BY <1>2, <1>4
<1>6. l \in Nat
  BY <1>1, <1>5
<1>7. 2 * Line(f, last) \in Nat
  BY <1>6 DEF Line
<1>8. version[f] \in 0 .. MaxVersions
  BY DEF JournalInv, TypeOK
<1> HIDE DEF P, h, w, first, whole, last, l
<1>9. CASE last <= whole
  <2>1. Parsed(f, p, room) = [file |-> f, version |-> version[f], next |-> first,
                              until |-> last, upto |-> 2 * Line(f, last)]
    BY <1>9 DEF Parsed, first, whole, last, w, P
  <2> QED
    BY <2>1, <1>2, <1>3, <1>5, <1>7, <1>8, <1>9 DEF first, P, Batches
<1>10. CASE ~ (last <= whole)
  <2>1. Parsed(f, p, room) = [file |-> f, version |-> version[f], next |-> first,
                              until |-> whole, upto |-> size[f]]
    BY <1>10 DEF Parsed, first, whole, last, w, P
  <2> QED
    BY <2>1, <1>2, <1>3, <1>5, <1>8 DEF first, P, Batches
<1> QED
  BY <1>9, <1>10

LEMMA VisitsKeeps ==
  ASSUME JournalInv, NEW c \in Connectors, Visits(c)
  PROVE  JournalInv'
<1>1. PICK f \in todo[c] :
        LET cursor == memory[c].cursor[f]
            b      == Parsed(f, Start(c, f), MaxEvents - scanned[c])
            before == IF cursor.at < 0 \/ cursor.version # version[f] THEN 1 .. b.next - 1 ELSE {}
        IN  /\ batch' = [batch EXCEPT ![c] = b]
            /\ todo' = [todo EXCEPT ![c] = @ \ {f}]
            /\ visited' = [visited EXCEPT ![c] = @ + 1]
            /\ scanned' = [scanned EXCEPT ![c] = @ + Cardinality(b.next .. b.until)]
            /\ missed' = missed \cup ({f} \X {version[f]} \X (before \cup LeftBehind(b)))
  BY DEF Visits
<1> DEFINE p == Start(c, f)
           room == MaxEvents - scanned[c]
           b == Parsed(f, p, room)
           cursor == memory[c].cursor[f]
           before == IF cursor.at < 0 \/ cursor.version # version[f] THEN 1 .. b.next - 1 ELSE {}
<1>2. /\ f \in Files /\ Owner[f] = c /\ size[f] \in Nat /\ p \in Nat
      /\ cursor.at >= 0 => p \in {0, cursor.at}
  BY StartInFile
<1>3. room \in Nat \ {0}
  <2>1. scanned[c] \in Nat /\ scanned[c] < MaxEvents
    BY DEF JournalInv, TypeOK, Visits
  <2> QED
    BY <2>1, CaptureJournalAssumption
<1>4. /\ b \in Batches
      /\ b.file = f /\ b.version = version[f]
      /\ b.next = FirstFrom(f, p) /\ b.next >= 1
      /\ b.until <= MaxLines * PerLine[f]
      /\ b.next \in Nat /\ b.until \in Nat /\ b.upto \in Nat
  <2>1. b \in Batches
    BY <1>2, <1>3, ParsedInFile
  <2>2. /\ b.file = f /\ b.version = version[f]
        /\ b.next = FirstFrom(f, p) /\ b.next >= 1
        /\ b.until <= MaxLines * PerLine[f]
    BY <1>2, <1>3, ParsedInFile
  <2> HIDE DEF b
  <2> QED
    BY <2>1, <2>2 DEF Batches
<1>5. cursor \in Cursors
  BY <1>2 DEF JournalInv, TypeOK, Copies
<1>6. /\ batch' = [batch EXCEPT ![c] = b]
      /\ todo' = [todo EXCEPT ![c] = @ \ {f}]
      /\ visited' = [visited EXCEPT ![c] = @ + 1]
      /\ scanned' = [scanned EXCEPT ![c] = @ + Cardinality(b.next .. b.until)]
      /\ missed' = missed \cup ({f} \X {version[f]} \X (before \cup LeftBehind(b)))
  BY <1>1
<1>7. UNCHANGED <<files, pc, memory, state, outcome, cut, unsaved, raised, failures>> /\ pc[c] = "scan"
  BY DEF Visits
<1>8. FirstFrom(f, 0) = 1
  BY <1>2, CaptureJournalAssumption DEF FirstFrom
<1> HIDE DEF b, p, room, cursor, before
<1>9. Cardinality(b.next .. b.until) \in Nat
  <2>1. b.next \in Int /\ b.until \in Int
    BY <1>4
  <2>2. IsFiniteSet(b.next .. b.until)
    BY <2>1, FS_Interval
  <2> QED
    BY <2>2, FS_CardinalityType
<1>10. TypeOK'
  <2>1. batch' \in [Connectors -> Batches]
    BY <1>4, <1>6 DEF JournalInv, TypeOK
  <2>2. scanned' \in [Connectors -> Nat] /\ visited' \in [Connectors -> Nat]
    BY <1>6, <1>9 DEF JournalInv, TypeOK
  <2>3. todo' \in [Connectors -> SUBSET Files]
    BY <1>6 DEF JournalInv, TypeOK
  <2> QED
    BY <2>1, <2>2, <2>3, <1>7 DEF JournalInv, TypeOK, files, outcome, history
<1>11. Handled \subseteq Handled'
  BY <1>6, <1>7 DEF Handled, outcome, history
<1>12. CursorsBehind(state)' /\ \A d \in Connectors : CursorsBehind(memory[d])'
  BY <1>7, <1>11 DEF JournalInv, CursorsBehind, Behind, FirstFrom
<1>13. Behind(f, version[f], b.upto) \subseteq Handled' \cup Left(b)
  <2> SUFFICES ASSUME NEW n \in 1 .. FirstFrom(f, b.upto) - 1
               PROVE  <<f, version[f], n>> \in Handled' \cup Left(b)
    BY DEF Behind
  <2>1. n \in Nat /\ n >= 1
    <3>1. FirstFrom(f, b.upto) \in Nat
      BY <1>2, <1>4, CaptureJournalAssumption DEF FirstFrom
    <3> QED
      BY <3>1
  <2>2. CASE n \in b.next .. b.until
    BY <2>2, <1>4 DEF Left
  <2>3. CASE n > b.until /\ n >= b.next
    <3>1. ((b.upto + 1) \div 2) * PerLine[f] \in Nat
      BY <1>2, <1>4, CaptureJournalAssumption
    <3>2. n \in LeftBehind(b)
      BY <2>1, <2>3, <3>1, <1>4 DEF LeftBehind, FirstFrom
    <3> QED
      BY <3>2, <1>6 DEF Handled
  <2>4. CASE n < b.next /\ (cursor.at < 0 \/ cursor.version # version[f])
    <3>1. n \in before
      BY <2>1, <2>4, <1>4 DEF before
    <3> QED
      BY <3>1, <1>6 DEF Handled
  <2>5. CASE n < b.next /\ cursor.at >= 0 /\ cursor.version = version[f]
    <3>1. p = cursor.at
      BY <1>2, <1>4, <1>5, <1>8, <2>1, <2>5
    <3>2. n \in 1 .. FirstFrom(f, cursor.at) - 1
      BY <3>1, <2>1, <2>5, <1>4
    <3>3. <<f, version[f], n>> \in Behind(f, cursor.version, cursor.at)
      BY <3>2, <2>5 DEF Behind
    <3>4. Behind(f, cursor.version, cursor.at) \subseteq Handled
      BY <1>2 DEF JournalInv, CursorsBehind, cursor
    <3> QED
      BY <3>3, <3>4, <1>11
  <2> QED
    BY <2>1, <2>2, <2>3, <2>4, <2>5, <1>4, <1>5 DEF Cursors
<1>14. ASSUME NEW d \in Connectors
       PROVE  (BatchIsOwn(d) /\ BatchIsLeft(d) /\ SeenIsHandled(d) /\ UnseenIsRare(d))'
  <2>1. batch[d]' = (IF d = c THEN b ELSE batch[d]) /\ todo[d]' \subseteq todo[d]
    BY <1>6 DEF JournalInv, TypeOK
  <2>2. BatchIsOwn(d)'
    <3>1. CASE d = c
      BY <3>1, <2>1, <1>2, <1>4, <1>7 DEF JournalInv, BatchIsOwn, files
    <3>2. CASE d # c
      BY <3>2, <2>1, <1>7 DEF JournalInv, BatchIsOwn, AtEvent, files
    <3> QED
      BY <3>1, <3>2
  <2>3. BatchIsLeft(d)'
    <3>1. CASE d = c
      BY <3>1, <2>1, <1>4, <1>13 DEF BatchIsLeft, Behind, Left, FirstFrom
    <3>2. CASE d # c
      BY <3>2, <2>1, <1>11 DEF JournalInv, BatchIsLeft, Behind, Left, FirstFrom
    <3> QED
      BY <3>1, <3>2
  <2>4. SeenIsHandled(d)'
    BY <1>7, <2>1 DEF JournalInv, SeenIsHandled, Event, outcome, history
  <2>5. UnseenIsRare(d)'
    BY <1>7 DEF JournalInv, UnseenIsRare, outcome, history
  <2> QED
    BY <2>2, <2>3, <2>4, <2>5
<1> QED
  BY <1>7, <1>10, <1>12, <1>14 DEF JournalInv, outcome, history

LEMMA SkipsKeeps ==
  ASSUME JournalInv, NEW c \in Connectors, Skips(c)
  PROVE  JournalInv'
<1>1. Event(c) \in ingested \cup refused
  BY DEF JournalInv, SeenIsHandled, Skips, Id
<1>2. TypeOK'
  <2>1. batch' \in [Connectors -> Batches]
    BY BatchAdvances DEF JournalInv, TypeOK, Skips
  <2> QED
    BY <2>1 DEF JournalInv, TypeOK, Skips, files, outcome, history
<1>3. Handled' = Handled
  BY DEF Skips, Handled, outcome, history
<1>4. CursorsBehind(state)' /\ \A d \in Connectors : CursorsBehind(memory[d])'
  BY <1>3 DEF JournalInv, Skips, CursorsBehind, Behind, FirstFrom
<1>5. ASSUME NEW d \in Connectors
      PROVE  (BatchIsOwn(d) /\ BatchIsLeft(d) /\ SeenIsHandled(d) /\ UnseenIsRare(d))'
  <2>1. batch[d]' = (IF d = c THEN [batch[c] EXCEPT !.next = @ + 1] ELSE batch[d])
    BY DEF JournalInv, TypeOK, Skips
  <2>2. batch[d] \in Batches
    BY DEF JournalInv, TypeOK
  <2>3. BatchIsOwn(d)'
    BY <2>1, <2>2 DEF JournalInv, BatchIsOwn, AtEvent, Skips, files, Batches
  <2>4. BatchIsLeft(d)'
    <3>1. CASE d = c
      BY <3>1, <2>1, <2>2, <1>1, <1>3
         DEF JournalInv, BatchIsLeft, Behind, Left, FirstFrom, Event, Handled, Batches
    <3>2. CASE d # c
      BY <3>2, <2>1, <1>3 DEF JournalInv, BatchIsLeft, Behind, Left, FirstFrom
    <3> QED
      BY <3>1, <3>2
  <2>5. SeenIsHandled(d)'
    BY <2>1 DEF JournalInv, SeenIsHandled, Event, Skips, outcome, history
  <2>6. UnseenIsRare(d)'
    BY DEF JournalInv, UnseenIsRare, Skips, outcome, history
  <2> QED
    BY <2>3, <2>4, <2>5, <2>6
<1> QED
  BY <1>2, <1>4, <1>5 DEF JournalInv, Skips, outcome, history

\* The copy of a connector that journals an event has its id, keeps the others
\* or has cut them, and no other copy changes.
SeenGrows(c) ==
  \A d \in Connectors :
    /\ memory'[d] \in Copies
    /\ memory'[d].cursor = memory[d].cursor
    /\ d # c => memory'[d] = memory[d]
    /\ d = c =>
         /\ Id(Event(c)) \in Range(memory'[c].seen)
         /\ Range(memory'[c].seen) \subseteq Range(memory[c].seen) \cup {Id(Event(c))}
         /\ \A id \in Range(memory[c].seen) :
              id \in Range(memory'[c].seen) \/ id[1] \in cut'

LEMMA JournalsGrows ==
  ASSUME JournalInv, NEW c \in Connectors, Journals(c)
  PROVE  SeenGrows(c)
<1> DEFINE id == Id(Event(c))
           old == memory[c].seen
           new == Latest(Append(old, id))
<1>1. Event(c) \in Events
  BY EventIsOwn DEF JournalInv, Journals
<1>2. id \in Ids
  BY <1>1 DEF JournalInv, TypeOK, Id, Ids
<1>3. memory[c] \in Copies /\ old \in Seq(Ids)
  BY DEF JournalInv, TypeOK, Copies
<1>4. new \in Seq(Ids) /\ id \in Range(new) /\ Range(new) \subseteq Range(old) \cup {id}
  BY <1>2, <1>3, LatestKeeps
<1>5. memory' = [memory EXCEPT ![c].seen = new]
  BY DEF Journals
<1>6. cut' = cut \cup {i[1] : i \in Range(old) \ Range(memory'[c].seen)}
  BY DEF Journals
<1> HIDE DEF new, id
<1>7. \A d \in Connectors :
        /\ memory'[d] \in Copies
        /\ memory'[d].cursor = memory[d].cursor
        /\ d # c => memory'[d] = memory[d]
        /\ d = c => memory'[d].seen = new
  BY <1>3, <1>4, <1>5 DEF JournalInv, TypeOK, Copies
<1>8. \A i \in Range(old) : i \in Range(memory'[c].seen) \/ i[1] \in cut'
  BY <1>6
<1> QED
  BY <1>4, <1>7, <1>8 DEF SeenGrows, id

LEMMA JournalsKeeps ==
  ASSUME JournalInv, NEW c \in Connectors, Journals(c)
  PROVE  JournalInv'
<1>1. Event(c) \in Events /\ Owner[Event(c)[1]] = c
  BY EventIsOwn DEF JournalInv, Journals
<1>2. /\ memory' = [memory EXCEPT ![c].seen = Latest(Append(@, Id(Event(c))))]
      /\ journal' = [journal EXCEPT ![Event(c)] = @ + 1]
      /\ pc' = [pc EXCEPT ![c] = "ingest"]
      /\ Id(Event(c)) \notin Range(memory[c].seen)
      /\ AtEvent(c) /\ pc[c] = "scan"
      /\ cut' = cut \cup {id[1] : id \in Range(memory[c].seen) \ Range(memory'[c].seen)}
      /\ UNCHANGED <<files, scan, state, ingested, refused, missed, unsaved, raised, failures>>
  BY DEF Journals
<1>3. SeenGrows(c)
  BY JournalsGrows
<1>4. TypeOK'
  <2>1. memory' \in [Connectors -> Copies]
    BY <1>2, <1>3 DEF JournalInv, TypeOK, SeenGrows
  <2>2. cut' \subseteq Events
    <3>1. memory[c].seen \in Seq(Ids)
      BY DEF JournalInv, TypeOK, Copies
    <3>2. Range(memory[c].seen) \subseteq Ids
      BY <3>1, RangeOfSeq
    <3> QED
      BY <1>2, <3>2 DEF JournalInv, TypeOK, Ids
  <2>3. journal' \in [Events -> Nat]
    BY <1>1, <1>2 DEF JournalInv, TypeOK
  <2> QED
    BY <1>1, <1>2, <2>1, <2>2, <2>3 DEF JournalInv, TypeOK, files, scan
<1>5. Handled' = Handled
  BY <1>2 DEF Handled
<1>6. CursorsBehind(state)' /\ \A d \in Connectors : CursorsBehind(memory[d])'
  BY <1>2, <1>3, <1>5 DEF JournalInv, CursorsBehind, Behind, FirstFrom, SeenGrows
<1>7. ASSUME NEW d \in Connectors
      PROVE  (BatchIsOwn(d) /\ BatchIsLeft(d) /\ SeenIsHandled(d) /\ UnseenIsRare(d))'
  <2>1. BatchIsOwn(d)'
    BY <1>2 DEF JournalInv, TypeOK, BatchIsOwn, AtEvent, files, scan
  <2>2. BatchIsLeft(d)'
    BY <1>2, <1>5 DEF JournalInv, BatchIsLeft, Behind, Left, FirstFrom, scan
  <2>3. SeenIsHandled(d)'
    <3>1. CASE d = c
      <4>1. Id(Event(c))[1] = Event(c)
        BY DEF Id
      <4> QED
        BY <3>1, <4>1, <1>2, <1>3 DEF JournalInv, TypeOK, SeenIsHandled, SeenGrows, Event, scan
    <3>2. CASE d # c
      BY <3>2, <1>2, <1>3 DEF JournalInv, TypeOK, SeenIsHandled, SeenGrows, Event, scan
    <3> QED
      BY <3>1, <3>2
  <2>4. UnseenIsRare(d)'
    <3> SUFFICES ASSUME NEW e \in Events, e \notin cut', e \notin Undated, Owner[e[1]] = d
                 PROVE  /\ journal'[e] <= 1 + unsaved[d]
                        /\ <<e, 0>> \notin Range(memory'[d].seen) => journal'[e] <= unsaved[d]
      BY <1>2 DEF UnseenIsRare
    <3>1. journal[e] \in Nat /\ unsaved[d] \in Nat
      BY DEF JournalInv, TypeOK
    <3>2. e \notin cut
      BY <1>2
    <3>3. /\ journal[e] <= 1 + unsaved[d]
          /\ <<e, 0>> \notin Range(memory[d].seen) => journal[e] <= unsaved[d]
      BY <3>2 DEF JournalInv, UnseenIsRare
    <3>4. CASE e = Event(c)
      <4>1. Id(Event(c)) = <<e, 0>> /\ d = c
        BY <3>4, <1>1 DEF Id
      <4>2. journal'[e] = journal[e] + 1
        BY <3>4, <1>1, <1>2 DEF JournalInv, TypeOK
      <4>3. <<e, 0>> \in Range(memory'[d].seen)
        BY <4>1, <1>3 DEF SeenGrows
      <4>4. journal[e] <= unsaved[d]
        BY <4>1, <3>3, <1>2
      <4> QED
        BY <4>2, <4>3, <4>4, <3>1
    <3>5. CASE e # Event(c)
      <4>1. journal'[e] = journal[e]
        BY <3>5, <1>1, <1>2 DEF JournalInv, TypeOK
      <4>2. <<e, 0>> \in Range(memory[d].seen) => <<e, 0>> \in Range(memory'[d].seen)
        <5>1. <<e, 0>>[1] = e
          OBVIOUS
        <5> QED
          BY <5>1, <1>3 DEF SeenGrows
      <4> QED
        BY <4>1, <4>2, <3>3
    <3> QED
      BY <3>4, <3>5
  <2> QED
    BY <2>1, <2>2, <2>3, <2>4
<1>8. \A id \in Range(state'.seen) : id[1] \in ingested' \cup refused'
  BY <1>2 DEF JournalInv
<1> QED
  BY <1>4, <1>6, <1>7, <1>8 DEF JournalInv

LEMMA IngestsKeeps ==
  ASSUME JournalInv, NEW c \in Connectors, Ingests(c)
  PROVE  JournalInv'
<1>1. /\ ingested' = ingested \cup {Event(c)}
      /\ batch' = [batch EXCEPT ![c].next = @ + 1]
      /\ pc' = [pc EXCEPT ![c] = "scan"]
      /\ pc[c] = "ingest"
      /\ UNCHANGED <<files, memory, todo, visited, scanned, state, journal, refused, history>>
  BY DEF Ingests
<1>2. Event(c) \in Events
  BY <1>1, EventIsOwn DEF JournalInv, BatchIsOwn
<1>3. TypeOK'
  <2>1. batch' \in [Connectors -> Batches]
    BY <1>1, BatchAdvances DEF JournalInv, TypeOK
  <2> QED
    BY <1>1, <1>2, <2>1 DEF JournalInv, TypeOK, files, history
<1>4. Handled' = Handled \cup {Event(c)}
  BY <1>1 DEF Handled, history
<1>5. CursorsBehind(state)' /\ \A d \in Connectors : CursorsBehind(memory[d])'
  BY <1>1, <1>4 DEF JournalInv, CursorsBehind, Behind, FirstFrom
<1>6. ASSUME NEW d \in Connectors
      PROVE  (BatchIsOwn(d) /\ BatchIsLeft(d) /\ SeenIsHandled(d) /\ UnseenIsRare(d))'
  <2>1. batch[d]' = (IF d = c THEN [batch[c] EXCEPT !.next = @ + 1] ELSE batch[d])
    BY <1>1 DEF JournalInv, TypeOK
  <2>2. batch[d] \in Batches
    BY DEF JournalInv, TypeOK
  <2>3. pc[d]' = IF d = c THEN "scan" ELSE pc[d]
    BY <1>1 DEF JournalInv, TypeOK
  <2>4. BatchIsOwn(d)'
    BY <1>1, <2>1, <2>2, <2>3 DEF JournalInv, BatchIsOwn, AtEvent, files, Batches
  <2>5. BatchIsLeft(d)'
    <3>1. CASE d = c
      BY <3>1, <2>1, <2>2, <1>4
         DEF JournalInv, BatchIsLeft, Behind, Left, FirstFrom, Event, Batches
    <3>2. CASE d # c
      BY <3>2, <2>1, <1>4 DEF JournalInv, BatchIsLeft, Behind, Left, FirstFrom
    <3> QED
      BY <3>1, <3>2
  <2>6. SeenIsHandled(d)'
    <3>1. CASE d = c
      BY <3>1, <1>1 DEF JournalInv, SeenIsHandled
    <3>2. CASE d # c
      BY <3>2, <1>1, <2>1, <2>3 DEF JournalInv, SeenIsHandled, Event
    <3> QED
      BY <3>1, <3>2
  <2>7. UnseenIsRare(d)'
    BY <1>1 DEF JournalInv, UnseenIsRare, history
  <2> QED
    BY <2>4, <2>5, <2>6, <2>7
<1> QED
  BY <1>1, <1>3, <1>5, <1>6 DEF JournalInv

\* A connector at rest has nothing to read.
LEMMA RestsOwn ==
  ASSUME TypeOK, NEW c \in Connectors, Rests(c)
  PROVE  /\ pc' \in [Connectors -> {"idle", "scan", "ingest"}]
         /\ todo' \in [Connectors -> SUBSET Files]
         /\ visited' \in [Connectors -> Nat] /\ scanned' \in [Connectors -> Nat]
         /\ batch' \in [Connectors -> Batches]
         /\ pc[c]' = "idle" /\ todo[c]' = {} /\ batch[c]' = NoBatch
         /\ \A d \in Connectors \ {c} :
              pc[d]' = pc[d] /\ todo[d]' = todo[d] /\ batch[d]' = batch[d]
<1>1. NoBatch \in Batches
  BY CaptureJournalAssumption DEF NoBatch, Batches
<1> QED
  BY <1>1 DEF TypeOK, Rests

LEMMA IngestRaisesKeeps ==
  ASSUME JournalInv, NEW c \in Connectors, IngestRaises(c)
  PROVE  JournalInv'
<1>1. /\ refused' = refused \cup {Event(c)}
      /\ failures < MaxFailures /\ failures' = failures + 1
      /\ pc[c] = "ingest" /\ Rests(c)
      /\ raised' = [raised EXCEPT ![c] = @ + 1]
      /\ UNCHANGED <<files, memory, state, journal, ingested, missed, cut, unsaved>>
  BY DEF IngestRaises
<1>2. Event(c) \in Events
  BY <1>1, EventIsOwn DEF JournalInv, BatchIsOwn
<1>3. TypeOK'
  BY <1>1, <1>2, RestsOwn, CaptureJournalAssumption DEF JournalInv, TypeOK, files
<1>4. Handled' = Handled \cup {Event(c)}
  BY <1>1 DEF Handled
<1>5. CursorsBehind(state)' /\ \A d \in Connectors : CursorsBehind(memory[d])'
  BY <1>1, <1>4 DEF JournalInv, CursorsBehind, Behind, FirstFrom
<1>6. ASSUME NEW d \in Connectors
      PROVE  (BatchIsOwn(d) /\ BatchIsLeft(d) /\ SeenIsHandled(d) /\ UnseenIsRare(d))'
  <2>1. CASE d = c
    <3>1. BatchIsOwn(d)' /\ BatchIsLeft(d)'
      BY <2>1, <1>1, RestsOwn DEF JournalInv, BatchIsOwn, BatchIsLeft, NoBatch
    <3>2. SeenIsHandled(d)' /\ UnseenIsRare(d)'
      BY <2>1, <1>1 DEF JournalInv, SeenIsHandled, UnseenIsRare
    <3> QED
      BY <3>1, <3>2
  <2>2. CASE d # c
    <3>1. pc[d]' = pc[d] /\ todo[d]' = todo[d] /\ batch[d]' = batch[d]
      BY <2>2, <1>1, RestsOwn DEF JournalInv
    <3>2. BatchIsOwn(d)'
      BY <3>1, <1>1 DEF JournalInv, BatchIsOwn, AtEvent, files
    <3>3. BatchIsLeft(d)'
      BY <3>1, <1>4 DEF JournalInv, BatchIsLeft, Behind, Left, FirstFrom
    <3>4. SeenIsHandled(d)' /\ UnseenIsRare(d)'
      BY <3>1, <1>1 DEF JournalInv, SeenIsHandled, UnseenIsRare, Event
    <3> QED
      BY <3>2, <3>3, <3>4
  <2> QED
    BY <2>1, <2>2
<1> QED
  BY <1>1, <1>3, <1>5, <1>6 DEF JournalInv

LEMMA FileReadKeeps ==
  ASSUME JournalInv, NEW c \in Connectors, FileRead(c)
  PROVE  JournalInv'
<1> DEFINE f == batch[c].file
           passed == [at |-> batch[c].upto, version |-> batch[c].version]
<1>1. /\ memory' = [memory EXCEPT ![c].cursor[f] = passed]
      /\ batch' = [batch EXCEPT ![c] = NoBatch]
      /\ pc[c] = "scan" /\ f # None /\ ~ AtEvent(c)
      /\ UNCHANGED <<files, pc, todo, visited, scanned, state, outcome, history>>
  BY DEF FileRead
<1>2. NoBatch \in Batches
  BY CaptureJournalAssumption DEF NoBatch, Batches
<1>3. f \in Files /\ passed \in Cursors /\ batch[c] \in Batches
  BY <1>1 DEF JournalInv, TypeOK, Batches, Cursors
<1>4. \A d \in Connectors :
        /\ memory'[d] \in Copies
        /\ memory'[d].seen = memory[d].seen
        /\ memory'[d].cursor =
             IF d = c THEN [memory[c].cursor EXCEPT ![f] = passed] ELSE memory[d].cursor
  BY <1>1, <1>3 DEF JournalInv, TypeOK, Copies
<1>5. TypeOK'
  <2>1. memory' \in [Connectors -> Copies]
    BY <1>1, <1>4 DEF JournalInv, TypeOK
  <2>2. batch' \in [Connectors -> Batches]
    BY <1>1, <1>2 DEF JournalInv, TypeOK
  <2> QED
    BY <1>1, <2>1, <2>2 DEF JournalInv, TypeOK, files, outcome, history
<1>6. Handled' = Handled
  BY <1>1 DEF Handled, outcome, history
<1>7. Behind(f, passed.version, passed.at) \subseteq Handled
  <2>1. Left(batch[c]) = {}
    BY <1>1, <1>3 DEF AtEvent, Left, Batches
  <2> QED
    BY <1>1, <2>1 DEF JournalInv, BatchIsLeft
<1>8. CursorsBehind(state)'
  BY <1>1, <1>6 DEF JournalInv, CursorsBehind, Behind, FirstFrom
<1>9. ASSUME NEW d \in Connectors PROVE CursorsBehind(memory[d])'
  <2> SUFFICES ASSUME NEW g \in Files
               PROVE  Behind(g, memory'[d].cursor[g].version, memory'[d].cursor[g].at) \subseteq Handled
    BY <1>6 DEF CursorsBehind, Behind, FirstFrom
  <2>1. memory[d].cursor \in [Files -> Cursors]
    BY DEF JournalInv, TypeOK, Copies
  <2>2. CASE d = c /\ g = f
    BY <2>1, <2>2, <1>4, <1>7
  <2>3. CASE ~ (d = c /\ g = f)
    BY <2>1, <2>3, <1>4 DEF JournalInv, CursorsBehind
  <2> QED
    BY <2>2, <2>3
<1>10. ASSUME NEW d \in Connectors
       PROVE  (BatchIsOwn(d) /\ BatchIsLeft(d) /\ SeenIsHandled(d) /\ UnseenIsRare(d))'
  <2>1. batch[d]' = IF d = c THEN NoBatch ELSE batch[d]
    BY <1>1 DEF JournalInv, TypeOK
  <2>2. BatchIsOwn(d)'
    BY <1>1, <2>1 DEF JournalInv, BatchIsOwn, AtEvent, NoBatch, files
  <2>3. BatchIsLeft(d)'
    <3>1. CASE d = c
      BY <3>1, <2>1 DEF BatchIsLeft, NoBatch
    <3>2. CASE d # c
      BY <3>2, <2>1, <1>6 DEF JournalInv, BatchIsLeft, Behind, Left, FirstFrom
    <3> QED
      BY <3>1, <3>2
  <2>4. SeenIsHandled(d)'
    BY <1>1, <1>4, <2>1 DEF JournalInv, SeenIsHandled, Event, outcome, history
  <2>5. UnseenIsRare(d)'
    BY <1>1, <1>4 DEF JournalInv, UnseenIsRare, outcome, history
  <2> QED
    BY <2>2, <2>3, <2>4, <2>5
<1> QED
  BY <1>1, <1>5, <1>8, <1>9, <1>10 DEF JournalInv, outcome, history

LEMMA SavesKeeps ==
  ASSUME JournalInv, NEW c \in Connectors, Saves(c)
  PROVE  JournalInv'
<1>1. /\ state' = memory[c] /\ pc[c] = "scan" /\ Rests(c)
      /\ UNCHANGED <<files, memory, outcome, history>>
  BY DEF Saves
<1>2. TypeOK'
  BY <1>1, RestsOwn DEF JournalInv, TypeOK, files, outcome, history
<1>3. Handled' = Handled
  BY <1>1 DEF Handled, outcome, history
<1>4. CursorsBehind(state)' /\ \A d \in Connectors : CursorsBehind(memory[d])'
  BY <1>1, <1>3 DEF JournalInv, CursorsBehind, Behind, FirstFrom
<1>5. \A id \in Range(state'.seen) : id[1] \in ingested' \cup refused'
  BY <1>1 DEF JournalInv, SeenIsHandled, outcome, history
<1>6. ASSUME NEW d \in Connectors
      PROVE  (BatchIsOwn(d) /\ BatchIsLeft(d) /\ SeenIsHandled(d) /\ UnseenIsRare(d))'
  <2>1. CASE d = c
    <3>1. BatchIsOwn(d)' /\ BatchIsLeft(d)'
      BY <2>1, <1>1, RestsOwn DEF JournalInv, BatchIsOwn, BatchIsLeft, NoBatch
    <3>2. SeenIsHandled(d)' /\ UnseenIsRare(d)'
      BY <2>1, <1>1 DEF JournalInv, SeenIsHandled, UnseenIsRare, outcome, history
    <3> QED
      BY <3>1, <3>2
  <2>2. CASE d # c
    <3>1. pc[d]' = pc[d] /\ todo[d]' = todo[d] /\ batch[d]' = batch[d]
      BY <2>2, <1>1, RestsOwn DEF JournalInv
    <3>2. BatchIsOwn(d)'
      BY <3>1, <1>1 DEF JournalInv, BatchIsOwn, AtEvent, files
    <3>3. BatchIsLeft(d)'
      BY <3>1, <1>3 DEF JournalInv, BatchIsLeft, Behind, Left, FirstFrom
    <3>4. SeenIsHandled(d)' /\ UnseenIsRare(d)'
      BY <3>1, <1>1 DEF JournalInv, SeenIsHandled, UnseenIsRare, Event, outcome, history
    <3> QED
      BY <3>2, <3>3, <3>4
  <2> QED
    BY <2>1, <2>2
<1> QED
  BY <1>2, <1>4, <1>5, <1>6 DEF JournalInv

LEMMA EndsKeeps ==
  ASSUME JournalInv, Ends
  PROVE  JournalInv'
<1>1. NoBatch \in Batches
  BY CaptureJournalAssumption DEF NoBatch, Batches
<1>2. TypeOK'
  BY <1>1, CaptureJournalAssumption DEF JournalInv, TypeOK, Ends, files, outcome, history
<1>3. Handled' = Handled
  BY DEF Ends, Handled, outcome, history
<1>4. CursorsBehind(state)' /\ \A d \in Connectors : CursorsBehind(memory[d])'
  BY <1>3 DEF JournalInv, Ends, CursorsBehind, Behind, FirstFrom
<1>5. ASSUME NEW d \in Connectors
      PROVE  (BatchIsOwn(d) /\ BatchIsLeft(d) /\ SeenIsHandled(d) /\ UnseenIsRare(d))'
  <2>1. BatchIsOwn(d)' /\ BatchIsLeft(d)' /\ SeenIsHandled(d)'
    BY DEF JournalInv, Ends, BatchIsOwn, BatchIsLeft, SeenIsHandled, NoBatch, outcome, history
  <2>2. UnseenIsRare(d)'
    <3> SUFFICES ASSUME NEW e \in Events, e \notin cut, e \notin Undated, Owner[e[1]] = d
                 PROVE  /\ journal[e] <= 1 + unsaved'[d]
                        /\ <<e, 0>> \notin Range(state.seen) => journal[e] <= unsaved'[d]
      BY DEF Ends, UnseenIsRare, outcome, history
    <3>1. journal[e] \in Nat /\ unsaved[d] \in Nat
      BY DEF JournalInv, TypeOK
    <3>2. /\ journal[e] <= 1 + unsaved[d]
          /\ <<e, 0>> \notin Range(memory[d].seen) => journal[e] <= unsaved[d]
      BY DEF JournalInv, UnseenIsRare
    <3>3. CASE Range(memory[d].seen) \subseteq Range(state.seen)
      <4>1. unsaved'[d] = unsaved[d]
        BY <3>1, <3>3 DEF Ends
      <4> QED
        BY <4>1, <3>2, <3>3
    <3>4. CASE ~ (Range(memory[d].seen) \subseteq Range(state.seen))
      <4>1. unsaved'[d] = unsaved[d] + 1
        BY <3>4 DEF Ends
      <4> QED
        BY <4>1, <3>1, <3>2
    <3> QED
      BY <3>3, <3>4
  <2> QED
    BY <2>1, <2>2
<1> QED
  BY <1>2, <1>4, <1>5 DEF JournalInv, Ends, outcome, history

-----------------------------------------------------------------------------
LEMMA JournalStep == JournalInv /\ [Next]_vars => JournalInv'
<1> SUFFICES ASSUME JournalInv, [Next]_vars PROVE JournalInv'
  OBVIOUS
<1>1. ASSUME NEW f \in Files, Appends(f) \/ Rewrites(f) PROVE JournalInv'
  BY <1>1, WriterKeeps
<1>2. ASSUME NEW c \in Connectors, Scan(c) PROVE JournalInv'
  BY <1>2, BeginsKeeps, VisitsKeeps, SkipsKeeps, JournalsKeeps, IngestsKeeps,
     IngestRaisesKeeps, FileReadKeeps, SavesKeeps DEF Scan
<1>3. CASE Ends
  BY <1>3, EndsKeeps
<1>4. CASE UNCHANGED vars
  <2>1. /\ UNCHANGED <<version, size, pc, memory, todo, visited, scanned, batch, state, journal,
                       ingested, refused, missed, cut, unsaved, raised, failures>>
    BY <1>4 DEF vars, files, scan, outcome, history
  <2>2. TypeOK' /\ Handled' = Handled
    BY <2>1 DEF JournalInv, TypeOK, Handled
  <2>3. CursorsBehind(state)' /\ \A c \in Connectors : CursorsBehind(memory[c])'
    BY <2>1, <2>2 DEF JournalInv, CursorsBehind, Behind, FirstFrom
  <2>4. ASSUME NEW c \in Connectors
        PROVE  (BatchIsOwn(c) /\ BatchIsLeft(c) /\ SeenIsHandled(c) /\ UnseenIsRare(c))'
    <3>1. BatchIsOwn(c)' /\ SeenIsHandled(c)' /\ UnseenIsRare(c)'
      BY <2>1 DEF JournalInv, BatchIsOwn, AtEvent, SeenIsHandled, UnseenIsRare, Event
    <3>2. BatchIsLeft(c)'
      BY <2>1, <2>2 DEF JournalInv, BatchIsLeft, Behind, Left, FirstFrom
    <3> QED
      BY <3>1, <3>2
  <2> QED
    BY <2>1, <2>2, <2>3, <2>4 DEF JournalInv
<1> QED
  BY <1>1, <1>2, <1>3, <1>4 DEF Next

\* However writers, scans, failures and ends of the process interleave, what is
\* behind a cursor or was seen is handled, and the rest is still in a batch.
THEOREM JournalSafety == Spec => []JournalInv
  BY JournalInitially, JournalStep, PTL DEF Spec

\* No event falls between two scans: those a cursor has passed were ingested,
\* or their ingestion raised, or the reader leaves them behind by design.
THEOREM NoEventFallsThrough == Spec => []PassedIsIngested
<1>1. JournalInv => PassedIsIngested
  <2> SUFFICES ASSUME JournalInv, NEW f \in Files,
                      NEW cursor \in {state.cursor[f], memory[Owner[f]].cursor[f]}
               PROVE  Passed(f, cursor) \subseteq ingested \cup refused \cup missed
    BY DEF PassedIsIngested
  <2>1. Owner[f] \in Connectors
    BY CaptureJournalAssumption
  <2>2. cursor \in Cursors
    BY <2>1 DEF JournalInv, TypeOK, Copies
  <2>3. Behind(f, cursor.version, cursor.at) \subseteq Handled
    BY <2>1 DEF JournalInv, CursorsBehind
  <2> QED
    BY <2>2, <2>3, PassedIsBehind DEF Handled
<1> QED
  BY <1>1, JournalSafety, PTL

-----------------------------------------------------------------------------
(***************************************************************************)
(* An event without a timestamp has another id whenever it is parsed, and  *)
(* seen ids do not keep it from being journalled twice.  What does is that *)
(* cursors and the batch in hand only go forward in a file: if the state   *)
(* file has the last id of an event, its cursor is past the event.         *)
(***************************************************************************)
CursorsInFile(m) ==
  \A f \in Files :
    /\ m.cursor[f].version <= version[f]
    /\ m.cursor[f].version = version[f] => m.cursor[f].at <= size[f]

\* The ids an event without a timestamp had: one for each time it was journalled.
StampsPast(m) ==
  \A id \in Range(m.seen) : id[1] \in Undated => id[2] < journal[id[1]]

BatchInFile(c) ==
  LET b == batch[c]
      f == b.file
      cursor == memory[c].cursor[f]
  IN  f # None =>
        /\ b.version <= version[f]
        /\ b.version = version[f] => b.upto <= size[f]
        /\ b.next <= FirstFrom(f, b.upto) /\ b.until < FirstFrom(f, b.upto)
        /\ cursor.version <= b.version
        /\ cursor.version = b.version => FirstFrom(f, cursor.at) <= b.next

\* A copy's cursor is past event e.
PassedBy(m, e) ==
  LET cursor == m.cursor[e[1]]
  IN  \/ cursor.version > e[2]
      \/ cursor.version = e[2] /\ e[3] < FirstFrom(e[1], cursor.at)

\* Event e was journalled from batch b, by a connector that is at place p.
DoneIn(b, p, e) ==
  /\ b.file = e[1] /\ b.version = e[2]
  /\ \/ e[3] < b.next
     \/ e[3] = b.next /\ p = "ingest"

\* Connector c will not read event e again, nor will one that begins with the
\* state file, now or after it is replaced, and loses no seen id.
Settled(c, e) ==
  LET last == <<e, journal[e] - 1>>
  IN  /\ last \in Range(memory[c].seen)
      /\ PassedBy(memory[c], e) \/ DoneIn(batch[c], pc[c], e)
      /\ last \in Range(state.seen) => PassedBy(state, e)
      /\ \A d \in Connectors \ {c} :
           last \in Range(memory[d].seen) => PassedBy(memory[d], e)

Budget(c) == unsaved[c] + raised[c]

RereadIsRare(c) ==
  \A e \in Events \cap Undated : e \notin cut /\ Owner[e[1]] = c =>
    /\ journal[e] <= 1 + Budget(c)
    /\ journal[e] > Budget(c) => Settled(c, e)

RereadInv ==
  /\ CursorsInFile(state) /\ StampsPast(state)
  /\ \A c \in Connectors :
       /\ CursorsInFile(memory[c]) /\ StampsPast(memory[c])
       /\ BatchInFile(c) /\ RereadIsRare(c)

\* A number below a multiple of the divisor has a quotient below the factor.
LEMMA QuotientBelow ==
  ASSUME NEW a \in Nat, NEW w \in Nat, NEW k \in Nat \ {0}, a < w * k
  PROVE  a \div k < w
<1> DEFINE q == a \div k
<1>1. q \in Nat /\ q * k <= a
  OBVIOUS
<1> HIDE DEF q
<1>2. ASSUME w <= q PROVE FALSE
  <2>1. w * k <= q * k
    BY <1>1, <1>2, TimesMonotone
  <2>2. w * k \in Nat /\ q * k \in Nat
    BY <1>1
  <2> QED
    BY <1>1, <2>1, <2>2
<1>3. q < w
  BY <1>1, <1>2
<1> QED
  BY <1>3 DEF q

LEMMA FirstFromMonotone ==
  ASSUME NEW f \in Files, NEW p \in Nat \cup {-1}, NEW q \in Nat \cup {-1}, p <= q
  PROVE  FirstFrom(f, p) \in Nat /\ FirstFrom(f, q) \in Nat /\ FirstFrom(f, p) <= FirstFrom(f, q)
<1> DEFINE a == (p + 1) \div 2
           b == (q + 1) \div 2
<1>1. a \in Nat /\ b \in Nat /\ a <= b /\ PerLine[f] \in Nat \ {0}
  BY CaptureJournalAssumption
<1> HIDE DEF a, b
<1>2. a * PerLine[f] <= b * PerLine[f] /\ a * PerLine[f] \in Nat /\ b * PerLine[f] \in Nat
  BY <1>1, TimesMonotone
<1> QED
  BY <1>2 DEF FirstFrom, a, b

\* What is parsed of a file ends in the file, and where the events that are left
\* behind end.
LEMMA ParsedEndsInFile ==
  ASSUME JournalInv, NEW f \in Files, size[f] \in Nat,
         NEW p \in Nat, p <= size[f], NEW room \in Nat \ {0}
  PROVE  LET b == Parsed(f, p, room) IN
         /\ b.upto <= size[f]
         /\ b.next <= FirstFrom(f, b.upto) /\ b.until < FirstFrom(f, b.upto)
<1> DEFINE P == PerLine[f]
           w == size[f] \div 2
           first == FirstFrom(f, p)
           whole == w * P
           last == first + room - 1
           l == (last - 1) \div P
<1>1. P \in Nat \ {0} /\ w \in Nat /\ whole \in Nat /\ 2 * w <= size[f]
  BY CaptureJournalAssumption
<1>2. first \in Nat /\ first >= 1
  <2>1. FirstFrom(f, -1) = 1
    BY CaptureJournalAssumption DEF FirstFrom
  <2> QED
    BY <2>1, FirstFromMonotone
<1>3. last - 1 \in Nat /\ last \in Nat /\ first <= last
  BY <1>2
<1>4. l \in Nat /\ last - 1 < (l + 1) * P
  <2> DEFINE a == last - 1
  <2>1. a \in Nat /\ P \in Nat \ {0}
    BY <1>1, <1>3
  <2> HIDE DEF P, a
  <2>2. a < (a \div P + 1) * P
    BY <2>1, BelowNextMultiple
  <2>3. a \div P \in Nat
    BY <2>1
  <2> QED
    BY <2>2, <2>3 DEF a
<1>5. Line(f, last) = l + 1
  BY DEF Line
<1> HIDE DEF P, w, first, whole, last, l
<1>6. CASE last <= whole
  <2>1. Parsed(f, p, room) = [file |-> f, version |-> version[f], next |-> first,
                              until |-> last, upto |-> 2 * (l + 1)]
    BY <1>5, <1>6 DEF Parsed, first, whole, last, w, P
  <2>2. l + 1 <= w
    <3>1. last - 1 < w * P
      BY <1>1, <1>3, <1>6 DEF whole
    <3>2. l < w
      BY <1>1, <1>3, <3>1, QuotientBelow DEF l
    <3> QED
      BY <3>2, <1>1, <1>4
  <2>3. FirstFrom(f, 2 * (l + 1)) = (l + 1) * P + 1
    <3>1. (2 * (l + 1) + 1) \div 2 = l + 1
      BY <1>4
    <3> QED
      BY <3>1 DEF FirstFrom, P
  <2>4. (l + 1) * P \in Nat
    BY <1>1, <1>4
  <2>5. 2 * (l + 1) <= size[f]
    BY <1>1, <1>4, <2>2
  <2>6. last < (l + 1) * P + 1 /\ first <= (l + 1) * P + 1
    BY <1>2, <1>3, <1>4, <2>4
  <2> QED
    BY <2>1, <2>3, <2>5, <2>6
<1>7. CASE ~ (last <= whole)
  <2>1. Parsed(f, p, room) = [file |-> f, version |-> version[f], next |-> first,
                              until |-> whole, upto |-> size[f]]
    BY <1>7 DEF Parsed, first, whole, last, w, P
  <2>2. first <= FirstFrom(f, size[f])
    BY FirstFromMonotone DEF first
  <2>3. whole < FirstFrom(f, size[f])
    <3> DEFINE h == (size[f] + 1) \div 2
    <3>1. h \in Nat /\ w <= h
      BY DEF w
    <3>2. FirstFrom(f, size[f]) = h * P + 1
      BY DEF FirstFrom, P
    <3> HIDE DEF h
    <3>3. whole <= h * P /\ h * P \in Nat
      BY <1>1, <3>1, TimesMonotone DEF whole
    <3> QED
      BY <3>2, <3>3, <1>1
  <2> QED
    BY <2>1, <2>2, <2>3
<1> QED
  BY <1>6, <1>7

\* A file is read from a position in it, and from its cursor on or later.
LEMMA StartPastCursor ==
  ASSUME JournalInv, RereadInv, NEW c \in Connectors, NEW f \in todo[c]
  PROVE  LET cursor == memory[c].cursor[f] IN
         /\ Start(c, f) <= size[f]
         /\ cursor.version = version[f] => FirstFrom(f, cursor.at) <= FirstFrom(f, Start(c, f))
<1> DEFINE cursor == memory[c].cursor[f]
           p == Start(c, f)
<1>1. f \in Files /\ size[f] \in Nat /\ p \in Nat
  BY StartInFile
<1>2. cursor \in Cursors
  BY <1>1 DEF JournalInv, TypeOK, Copies
<1>3. InitialOffset(f) <= size[f]
  BY <1>1, CaptureJournalAssumption DEF InitialOffset
<1>4. p <= size[f]
  BY <1>1, <1>2, <1>3 DEF Start, Cursors
<1>5. ASSUME cursor.version = version[f] PROVE cursor.at <= p
  <2>1. cursor.at <= size[f]
    BY <1>1, <1>5 DEF RereadInv, CursorsInFile
  <2> QED
    BY <1>1, <1>2, <2>1 DEF Start, Cursors
<1>6. ASSUME cursor.version = version[f] PROVE FirstFrom(f, cursor.at) <= FirstFrom(f, p)
  <2>1. cursor.at \in Nat \cup {-1} /\ p \in Nat \cup {-1}
    BY <1>1, <1>2 DEF Cursors
  <2> QED
    BY <1>1, <1>5, <1>6, <2>1, FirstFromMonotone
<1> QED
  BY <1>4, <1>6

-----------------------------------------------------------------------------
\* What is to show of a connector after a step, with nothing of it hidden
\* behind a prime.
LEMMA RareFollows ==
  ASSUME NEW c \in Connectors,
         \A e \in Events \cap Undated : e \notin cut' /\ Owner[e[1]] = c =>
           /\ journal'[e] <= 1 + (unsaved'[c] + raised'[c])
           /\ journal'[e] > unsaved'[c] + raised'[c] =>
                /\ <<e, journal'[e] - 1>> \in Range(memory'[c].seen)
                /\ PassedBy(memory'[c], e) \/ DoneIn(batch'[c], pc'[c], e)
                /\ <<e, journal'[e] - 1>> \in Range(state'.seen) => PassedBy(state', e)
                /\ \A d \in Connectors \ {c} :
                     <<e, journal'[e] - 1>> \in Range(memory'[d].seen) => PassedBy(memory'[d], e)
  PROVE  RereadIsRare(c)'
  BY DEF RereadIsRare, Budget, Settled, PassedBy, DoneIn, FirstFrom, Range

\* No file is cut but by writing it anew.
FilesGrow ==
  \A f \in Files :
    /\ version[f] <= version'[f]
    /\ version'[f] = version[f] => size[f] <= size'[f]

\* A step in which nothing is journalled and no copy changes.
LEMMA QuietCopies ==
  ASSUME JournalInv, RereadInv, FilesGrow, version' \in [Files -> Nat], size' \in [Files -> Int],
         UNCHANGED <<memory, state, journal>>
  PROVE  /\ CursorsInFile(state)' /\ StampsPast(state)'
         /\ \A c \in Connectors : CursorsInFile(memory[c])' /\ StampsPast(memory[c])'
<1>1. \A f \in Files : version[f] \in Nat /\ size[f] \in Int
  BY CaptureJournalAssumption DEF JournalInv, TypeOK
<1>2. \A f \in Files : version'[f] \in Nat /\ size'[f] \in Int
  OBVIOUS
<1>3. ASSUME NEW m \in Copies, CursorsInFile(m), NEW f \in Files
      PROVE  /\ m.cursor[f].version <= version'[f]
             /\ m.cursor[f].version = version'[f] => m.cursor[f].at <= size'[f]
  <2>1. m.cursor[f].version \in Nat /\ m.cursor[f].at \in Int
    BY CaptureJournalAssumption DEF Copies, Cursors
  <2> QED
    BY <1>1, <1>2, <1>3, <2>1 DEF CursorsInFile, FilesGrow
<1>4. state \in Copies /\ \A c \in Connectors : memory[c] \in Copies
  BY DEF JournalInv, TypeOK
<1>5. CursorsInFile(state)' /\ \A c \in Connectors : CursorsInFile(memory[c])'
  <2>1. CursorsInFile(state) /\ \A c \in Connectors : CursorsInFile(memory[c])
    BY DEF RereadInv
  <2> QED
    BY <1>3, <1>4, <2>1 DEF CursorsInFile
<1>6. StampsPast(state)' /\ \A c \in Connectors : StampsPast(memory[c])'
  BY DEF RereadInv, StampsPast, Range
<1> QED
  BY <1>5, <1>6

LEMMA QuietBatch ==
  ASSUME JournalInv, RereadInv, FilesGrow, version' \in [Files -> Nat], size' \in [Files -> Int],
         NEW c \in Connectors,
         batch[c]' = batch[c], memory[c]' = memory[c]
  PROVE  BatchInFile(c)'
<1> DEFINE b == batch[c]
           f == b.file
<1> SUFFICES ASSUME f # None
             PROVE  /\ b.version <= version'[f]
                    /\ b.version = version'[f] => b.upto <= size'[f]
  BY DEF RereadInv, BatchInFile, FirstFrom
<1>1. f \in Files /\ b.version \in Nat /\ b.upto \in Nat
  BY CaptureJournalAssumption DEF JournalInv, TypeOK, Batches
<1>2. version[f] \in Nat /\ version'[f] \in Nat /\ size[f] \in Int /\ size'[f] \in Int
  BY <1>1, CaptureJournalAssumption DEF JournalInv, TypeOK
<1>3. b.version <= version[f] /\ (b.version = version[f] => b.upto <= size[f])
  BY DEF RereadInv, BatchInFile
<1> QED
  BY <1>1, <1>2, <1>3 DEF FilesGrow

LEMMA QuietRare ==
  ASSUME RereadInv, NEW c \in Connectors, cut' = cut,
         UNCHANGED <<journal, memory, state, unsaved, raised>>,
         \A e \in Events : DoneIn(batch[c], pc[c], e) => DoneIn(batch'[c], pc'[c], e)
  PROVE  RereadIsRare(c)'
  BY RareFollows DEF RereadInv, RereadIsRare, Settled, Budget

LEMMA WriterRereads ==
  ASSUME JournalInv, RereadInv, NEW f \in Files, Appends(f) \/ Rewrites(f)
  PROVE  RereadInv'
<1>1. UNCHANGED <<pc, memory, batch, state, journal, cut, unsaved, raised>>
  BY DEF Appends, Rewrites, scan, outcome, history
<1>2. FilesGrow /\ version' \in [Files -> Nat] /\ size' \in [Files -> Int]
  <2>1. CASE Appends(f)
    BY <2>1, CaptureJournalAssumption DEF JournalInv, TypeOK, Appends, FilesGrow
  <2>2. CASE Rewrites(f)
    BY <2>2, CaptureJournalAssumption DEF JournalInv, TypeOK, Rewrites, FilesGrow
  <2> QED
    BY <2>1, <2>2
<1>3. /\ CursorsInFile(state)' /\ StampsPast(state)'
      /\ \A c \in Connectors : CursorsInFile(memory[c])' /\ StampsPast(memory[c])'
  BY <1>1, <1>2, QuietCopies
<1>4. \A c \in Connectors : BatchInFile(c)'
  BY <1>1, <1>2, QuietBatch
<1>5. \A c \in Connectors : RereadIsRare(c)'
  BY <1>1, QuietRare
<1> QED
  BY <1>3, <1>4, <1>5 DEF RereadInv

LEMMA FilesStay ==
  ASSUME JournalInv, UNCHANGED files
  PROVE  FilesGrow /\ version' \in [Files -> Nat] /\ size' \in [Files -> Int]
  BY CaptureJournalAssumption DEF JournalInv, TypeOK, FilesGrow, files

LEMMA BeginsRereads ==
  ASSUME JournalInv, RereadInv, NEW c \in Connectors, Begins(c)
  PROVE  RereadInv'
<1>1. /\ UNCHANGED <<files, memory, batch, state, journal, cut, unsaved, raised>>
      /\ pc[c] = "idle" /\ pc' = [pc EXCEPT ![c] = "scan"]
  BY DEF Begins, scan, outcome, history
<1>2. FilesGrow /\ version' \in [Files -> Nat] /\ size' \in [Files -> Int]
  BY <1>1, FilesStay
<1>3. /\ CursorsInFile(state)' /\ StampsPast(state)'
      /\ \A d \in Connectors : CursorsInFile(memory[d])' /\ StampsPast(memory[d])'
  BY <1>1, <1>2, QuietCopies
<1>4. \A d \in Connectors : BatchInFile(d)'
  BY <1>1, <1>2, QuietBatch
<1>5. ASSUME NEW d \in Connectors PROVE RereadIsRare(d)'
  <2>1. \A e \in Events : DoneIn(batch[d], pc[d], e) => DoneIn(batch'[d], pc'[d], e)
    BY <1>1 DEF JournalInv, TypeOK, DoneIn
  <2> QED
    BY <1>1, <2>1, QuietRare
<1> QED
  BY <1>3, <1>4, <1>5 DEF RereadInv

LEMMA VisitsRereads ==
  ASSUME JournalInv, RereadInv, NEW c \in Connectors, Visits(c)
  PROVE  RereadInv'
<1>1. PICK f \in todo[c] :
        batch' = [batch EXCEPT ![c] = Parsed(f, Start(c, f), MaxEvents - scanned[c])]
  BY DEF Visits
<1> DEFINE p == Start(c, f)
           room == MaxEvents - scanned[c]
           b == Parsed(f, p, room)
           cursor == memory[c].cursor[f]
<1>2. /\ UNCHANGED <<files, pc, memory, state, journal, cut, unsaved, raised>>
      /\ pc[c] = "scan" /\ batch[c].file = None
  BY DEF Visits, outcome
<1>3. f \in Files /\ size[f] \in Nat /\ p \in Nat
  BY StartInFile
<1>4. p <= size[f] /\ (cursor.version = version[f] => FirstFrom(f, cursor.at) <= FirstFrom(f, p))
  BY StartPastCursor
<1>5. room \in Nat \ {0}
  <2>1. scanned[c] \in Nat /\ scanned[c] < MaxEvents
    BY DEF JournalInv, TypeOK, Visits
  <2> QED
    BY <2>1, CaptureJournalAssumption
<1>6. b.file = f /\ b.version = version[f] /\ b.next = FirstFrom(f, p)
  BY <1>3, <1>5, ParsedInFile
<1>7. /\ b.upto <= size[f]
      /\ b.next <= FirstFrom(f, b.upto) /\ b.until < FirstFrom(f, b.upto)
  BY <1>3, <1>4, <1>5, ParsedEndsInFile
<1>8. cursor.version <= version[f]
  BY <1>3 DEF RereadInv, CursorsInFile
<1>9. batch' = [batch EXCEPT ![c] = b]
  BY <1>1
<1> HIDE DEF b, p, room
<1>10. FilesGrow /\ version' \in [Files -> Nat] /\ size' \in [Files -> Int]
  BY <1>2, FilesStay
<1>11. /\ CursorsInFile(state)' /\ StampsPast(state)'
       /\ \A d \in Connectors : CursorsInFile(memory[d])' /\ StampsPast(memory[d])'
  BY <1>2, <1>10, QuietCopies
<1>12. ASSUME NEW d \in Connectors PROVE BatchInFile(d)'
  <2>1. CASE d = c
    <3>1. batch'[c] = b
      BY <1>9 DEF JournalInv, TypeOK
    <3>2. version' = version /\ size' = size /\ memory' = memory
      BY <1>2 DEF files
    <3>3. version[f] \in Nat
      BY <1>3 DEF JournalInv, TypeOK
    <3>4. /\ b.version <= version[f] /\ b.upto <= size[f]
          /\ b.next <= FirstFrom(f, b.upto) /\ b.until < FirstFrom(f, b.upto)
          /\ cursor.version <= b.version
          /\ cursor.version = b.version => FirstFrom(f, cursor.at) <= b.next
      BY <3>3, <1>4, <1>6, <1>7, <1>8
    <3> HIDE DEF cursor
    <3> QED
      BY <2>1, <3>1, <3>2, <3>4, <1>6 DEF BatchInFile, FirstFrom, cursor
  <2>2. CASE d # c
    <3>1. batch[d]' = batch[d] /\ memory[d]' = memory[d]
      BY <2>2, <1>2, <1>9 DEF JournalInv, TypeOK
    <3> QED
      BY <3>1, <1>10, QuietBatch
  <2> QED
    BY <2>1, <2>2
<1>13. ASSUME NEW d \in Connectors PROVE RereadIsRare(d)'
  <2>1. \A e \in Events : e[1] \in Files
    BY DEF Events
  <2>2. \A e \in Events : DoneIn(batch[d], pc[d], e) => DoneIn(batch'[d], pc'[d], e)
    BY <1>2, <1>9, <2>1, CaptureJournalAssumption DEF JournalInv, TypeOK, DoneIn
  <2> QED
    BY <1>2, <2>2, QuietRare
<1> QED
  BY <1>11, <1>12, <1>13 DEF RereadInv

\* A connector that goes on to its next event.
LEMMA AdvanceRereads ==
  ASSUME JournalInv, RereadInv, NEW c \in Connectors, AtEvent(c),
         UNCHANGED <<files, memory, state, journal, cut, unsaved, raised>>,
         batch' = [batch EXCEPT ![c].next = @ + 1],
         pc' = [pc EXCEPT ![c] = "scan"]
  PROVE  RereadInv'
<1>1. FilesGrow /\ version' \in [Files -> Nat] /\ size' \in [Files -> Int]
  BY FilesStay
<1>2. /\ CursorsInFile(state)' /\ StampsPast(state)'
      /\ \A d \in Connectors : CursorsInFile(memory[d])' /\ StampsPast(memory[d])'
  BY <1>1, QuietCopies
<1>3. \A d \in Connectors : batch[d] \in Batches
  BY DEF JournalInv, TypeOK
<1>4. \A d \in Connectors :
        batch'[d] = IF d = c THEN [batch[c] EXCEPT !.next = @ + 1] ELSE batch[d]
  BY DEF JournalInv, TypeOK
<1>5. /\ batch'[c].file = batch[c].file /\ batch'[c].version = batch[c].version
      /\ batch'[c].next = batch[c].next + 1 /\ batch'[c].until = batch[c].until
      /\ batch'[c].upto = batch[c].upto
      /\ batch[c].next \in Nat /\ batch[c].until \in Nat /\ batch[c].upto \in Nat
  BY <1>3, <1>4 DEF Batches
<1>6. ASSUME NEW d \in Connectors PROVE BatchInFile(d)'
  <2>1. CASE d = c
    <3> DEFINE f == batch[c].file
               cursor == memory[c].cursor[f]
    <3>1. f \in Files /\ f # None /\ batch[c].next <= batch[c].until
      BY <1>3 DEF AtEvent, Batches
    <3>2. cursor \in Cursors
      BY <3>1 DEF JournalInv, TypeOK, Copies
    <3>3. FirstFrom(f, cursor.at) \in Nat /\ FirstFrom(f, batch[c].upto) \in Nat
      BY <3>1, <3>2, <1>5, FirstFromMonotone DEF Cursors
    <3>4. /\ batch[c].version <= version[f]
          /\ batch[c].version = version[f] => batch[c].upto <= size[f]
          /\ batch[c].until < FirstFrom(f, batch[c].upto)
          /\ cursor.version <= batch[c].version
          /\ cursor.version = batch[c].version => FirstFrom(f, cursor.at) <= batch[c].next
      BY <3>1 DEF RereadInv, BatchInFile
    <3>5. batch[c].next + 1 <= FirstFrom(f, batch[c].upto)
      BY <3>1, <3>3, <3>4, <1>5
    <3>6. cursor.version = batch[c].version => FirstFrom(f, cursor.at) <= batch[c].next + 1
      BY <3>3, <3>4, <1>5
    <3> QED
      BY <2>1, <3>4, <3>5, <3>6, <1>5 DEF BatchInFile, FirstFrom, files
  <2>2. CASE d # c
    BY <2>2, <1>1, <1>4, QuietBatch
  <2> QED
    BY <2>1, <2>2
<1>7. ASSUME NEW d \in Connectors PROVE RereadIsRare(d)'
  <2>1. ASSUME NEW e \in Events, DoneIn(batch[d], pc[d], e) PROVE DoneIn(batch'[d], pc'[d], e)
    <3>1. e[3] \in Nat
      <4>1. PICK f \in Files : e \in {f} \X (0 .. MaxVersions) \X Numbers(f)
        BY DEF Events
      <4>2. MaxLines * PerLine[f] \in Nat
        BY CaptureJournalAssumption
      <4> QED
        BY <4>1, <4>2 DEF Numbers
    <3>2. CASE d = c
      BY <2>1, <3>1, <3>2, <1>5 DEF DoneIn
    <3>3. CASE d # c
      BY <2>1, <3>3, <1>4 DEF DoneIn, JournalInv, TypeOK
    <3> QED
      BY <3>2, <3>3
  <2> QED
    BY <2>1, QuietRare
<1> QED
  BY <1>2, <1>6, <1>7 DEF RereadInv

LEMMA SkipsRereads ==
  ASSUME JournalInv, RereadInv, NEW c \in Connectors, Skips(c) \/ Ingests(c)
  PROVE  RereadInv'
<1>1. CASE Skips(c)
  <2>1. pc' = [pc EXCEPT ![c] = "scan"]
    BY <1>1 DEF JournalInv, TypeOK, Skips
  <2> QED
    BY <1>1, <2>1, AdvanceRereads DEF Skips, outcome, history
<1>2. CASE Ingests(c)
  <2>1. AtEvent(c)
    BY <1>2 DEF JournalInv, BatchIsOwn, Ingests
  <2> QED
    BY <1>2, <2>1, AdvanceRereads DEF Ingests, history
<1> QED
  BY <1>1, <1>2

\* The ids in a copy are of events, and of times they were journalled.
LEMMA SeenIsIds ==
  ASSUME JournalInv
  PROVE  /\ Range(state.seen) \subseteq Ids
         /\ \A c \in Connectors : Range(memory[c].seen) \subseteq Ids
<1>1. state.seen \in Seq(Ids) /\ \A c \in Connectors : memory[c].seen \in Seq(Ids)
  BY DEF JournalInv, TypeOK, Copies
<1> QED
  BY <1>1, RangeOfSeq

LEMMA JournalsRereads ==
  ASSUME JournalInv, RereadInv, NEW c \in Connectors, Journals(c)
  PROVE  RereadInv'
<1> DEFINE at == Event(c)
<1>1. /\ at \in Events /\ Owner[at[1]] = c /\ batch[c].file \in Files
      /\ at = <<batch[c].file, batch[c].version, batch[c].next>>
  BY EventIsOwn DEF JournalInv, Journals, Event
<1>2. /\ pc[c] = "scan" /\ pc' = [pc EXCEPT ![c] = "ingest"]
      /\ journal' = [journal EXCEPT ![at] = @ + 1]
      /\ cut \subseteq cut'
      /\ UNCHANGED <<files, batch, state, unsaved, raised>>
  BY DEF Journals, scan
<1>3. SeenGrows(c)
  BY JournalsGrows
<1>4. Id(at) = <<at, IF at \in Undated THEN journal[at] ELSE 0>>
  BY DEF Id
<1> HIDE DEF at
<1>5. \A e \in Events : journal[e] \in Nat /\ journal'[e] = IF e = at THEN journal[e] + 1 ELSE journal[e]
  BY <1>1, <1>2 DEF JournalInv, TypeOK
<1>6. \A d \in Connectors : memory'[d].cursor = memory[d].cursor
  BY <1>3 DEF SeenGrows
<1>7. CursorsInFile(state)' /\ \A d \in Connectors : CursorsInFile(memory[d])'
  BY <1>2, <1>6 DEF RereadInv, CursorsInFile, files
<1>8. ASSUME NEW id \in Ids, id[1] \in Undated => id[2] < journal[id[1]]
      PROVE  id[1] \in Undated => id[2] < journal'[id[1]]
  <2>1. id[1] \in Events /\ id[2] \in Nat
    BY DEF Ids
  <2> QED
    BY <1>5, <1>8, <2>1
<1>9. StampsPast(state)'
  <2>1. \A id \in Range(state.seen) : id \in Ids /\ (id[1] \in Undated => id[2] < journal[id[1]])
    BY SeenIsIds DEF RereadInv, StampsPast
  <2> QED
    BY <1>2, <1>8, <2>1 DEF StampsPast, Range
<1>10. ASSUME NEW d \in Connectors PROVE StampsPast(memory[d])'
  <2>1. \A id \in Range(memory[d].seen) : id \in Ids /\ (id[1] \in Undated => id[2] < journal[id[1]])
    BY SeenIsIds DEF RereadInv, StampsPast
  <2> SUFFICES ASSUME NEW id \in Range(memory'[d].seen), id[1] \in Undated
               PROVE  id[2] < journal'[id[1]]
    BY DEF StampsPast, Range
  <2>2. CASE id \in Range(memory[d].seen)
    BY <1>8, <2>1, <2>2
  <2>3. CASE d = c /\ id = Id(at)
    <3>1. id[1] = at /\ id[2] = journal[at]
      BY <1>4, <2>3
    <3> QED
      BY <3>1, <1>1, <1>5
  <2> QED
    BY <1>3, <2>2, <2>3 DEF SeenGrows, at
<1>11. \A d \in Connectors : BatchInFile(d)'
  BY <1>2, <1>6 DEF RereadInv, BatchInFile, FirstFrom, files
<1>12. ASSUME NEW d \in Connectors PROVE RereadIsRare(d)'
  <2>1. unsaved[d] \in Nat /\ raised[d] \in Nat
    BY DEF JournalInv, TypeOK
  <2> SUFFICES ASSUME NEW e \in Events \cap Undated, e \notin cut', Owner[e[1]] = d
               PROVE  /\ journal'[e] <= 1 + (unsaved'[d] + raised'[d])
                      /\ journal'[e] > unsaved'[d] + raised'[d] =>
                          /\ <<e, journal'[e] - 1>> \in Range(memory'[d].seen)
                          /\ PassedBy(memory'[d], e) \/ DoneIn(batch'[d], pc'[d], e)
                          /\ <<e, journal'[e] - 1>> \in Range(state'.seen) => PassedBy(state', e)
                          /\ \A k \in Connectors \ {d} :
                               <<e, journal'[e] - 1>> \in Range(memory'[k].seen)
                                 => PassedBy(memory'[k], e)
    BY RareFollows
  <2>2. /\ journal[e] <= 1 + Budget(d)
        /\ journal[e] > Budget(d) => Settled(d, e)
    BY <1>2 DEF RereadInv, RereadIsRare
  <2>3. \A k \in Connectors : PassedBy(memory[k], e) => PassedBy(memory'[k], e)
    BY <1>6 DEF PassedBy
  <2>4. CASE e = at
    <3>1. d = c
      BY <1>1, <2>4
    <3>2. ~ PassedBy(memory[c], e) /\ ~ DoneIn(batch[c], pc[c], e)
      <4> DEFINE f == batch[c].file
                 cursor == memory[c].cursor[f]
      <4>1. batch[c].file # None /\ batch[c] \in Batches
        BY DEF Journals, AtEvent, JournalInv, TypeOK
      <4>2. /\ cursor.version <= batch[c].version
            /\ cursor.version = batch[c].version => FirstFrom(f, cursor.at) <= batch[c].next
        BY <4>1 DEF RereadInv, BatchInFile
      <4>3. cursor \in Cursors
        BY <1>1 DEF JournalInv, TypeOK, Copies
      <4>4. FirstFrom(f, cursor.at) \in Nat
        BY <1>1, <4>3, FirstFromMonotone DEF Cursors
      <4>5. batch[c].next \in Nat /\ batch[c].version \in Nat /\ cursor.version \in Nat
        BY <4>1, <4>3, CaptureJournalAssumption DEF Batches, Cursors
      <4>6. e[1] = f /\ e[2] = batch[c].version /\ e[3] = batch[c].next
        BY <1>1, <2>4
      <4>7. ~ PassedBy(memory[c], e)
        BY <4>2, <4>4, <4>5, <4>6 DEF PassedBy
      <4>8. ~ DoneIn(batch[c], pc[c], e)
        BY <1>2, <4>5, <4>6 DEF DoneIn
      <4> QED
        BY <4>7, <4>8
    <3>3. journal[e] <= Budget(c)
      BY <2>1, <2>2, <3>1, <3>2, <1>5 DEF Settled, Budget
    <3>4. journal'[e] = journal[e] + 1 /\ journal'[e] - 1 = journal[e] /\ journal[e] \in Nat
      BY <1>5, <2>4
    <3>5. <<e, journal[e]>> = Id(at)
      BY <1>4, <2>4
    <3>6. <<e, journal[e]>> \in Range(memory'[c].seen)
      BY <3>5, <1>3 DEF SeenGrows, at
    <3>7. DoneIn(batch'[c], pc'[c], e)
      BY <1>1, <1>2, <2>4 DEF DoneIn, JournalInv, TypeOK
    <3>8. /\ <<e, journal[e]>> \notin Range(state'.seen)
          /\ \A k \in Connectors \ {c} : <<e, journal[e]>> \notin Range(memory'[k].seen)
      <4>1. <<e, journal[e]>>[1] \in Undated /\ ~ (<<e, journal[e]>>[2] < journal[<<e, journal[e]>>[1]])
        BY <3>4
      <4>2. \A k \in Connectors \ {c} : memory'[k] = memory[k]
        BY <1>3 DEF SeenGrows
      <4> QED
        BY <1>2, <4>1, <4>2 DEF RereadInv, StampsPast
    <3>9. journal'[e] <= 1 + (unsaved'[d] + raised'[d])
      BY <1>2, <2>1, <3>1, <3>3, <3>4 DEF Budget
    <3> QED
      BY <3>1, <3>4, <3>6, <3>7, <3>8, <3>9
  <2>5. CASE e # at
    <3>1. journal'[e] = journal[e]
      BY <1>5, <2>5
    <3>2. ASSUME journal[e] > Budget(d), NEW k \in Connectors,
                 <<e, journal[e] - 1>> \in Range(memory'[k].seen)
          PROVE  <<e, journal[e] - 1>> \in Range(memory[k].seen)
      <4>1. <<e, journal[e] - 1>> # Id(at)
        BY <1>4, <2>5
      <4> QED
        BY <3>2, <4>1, <1>3 DEF SeenGrows, at
    <3>3. ASSUME <<e, journal[e] - 1>> \in Range(memory[d].seen)
          PROVE  <<e, journal[e] - 1>> \in Range(memory'[d].seen)
      <4>1. <<e, journal[e] - 1>>[1] = e
        OBVIOUS
      <4> QED
        BY <3>3, <4>1, <1>3 DEF SeenGrows
    <3>4. DoneIn(batch[d], pc[d], e) => DoneIn(batch'[d], pc'[d], e)
      BY <1>2 DEF DoneIn, JournalInv, TypeOK
    <3>5. ASSUME journal[e] > Budget(d)
          PROVE  /\ <<e, journal[e] - 1>> \in Range(memory'[d].seen)
                 /\ PassedBy(memory'[d], e) \/ DoneIn(batch'[d], pc'[d], e)
                 /\ <<e, journal[e] - 1>> \in Range(state'.seen) => PassedBy(state', e)
                 /\ \A k \in Connectors \ {d} :
                      <<e, journal[e] - 1>> \in Range(memory'[k].seen) => PassedBy(memory'[k], e)
      <4>1. Settled(d, e)
        BY <2>2, <3>5
      <4> QED
        BY <1>2, <2>3, <3>2, <3>3, <3>4, <3>5, <4>1 DEF Settled
    <3> QED
      BY <1>2, <2>2, <3>1, <3>5 DEF Budget
  <2> QED
    BY <2>4, <2>5
<1> QED
  BY <1>7, <1>9, <1>10, <1>11, <1>12 DEF RereadInv

LEMMA RaisesRereads ==
  ASSUME JournalInv, RereadInv, NEW c \in Connectors, IngestRaises(c)
  PROVE  RereadInv'
<1>1. /\ raised' = [raised EXCEPT ![c] = @ + 1] /\ Rests(c)
      /\ UNCHANGED <<files, memory, state, journal, cut, unsaved>>
  BY DEF IngestRaises
<1>2. FilesGrow /\ version' \in [Files -> Nat] /\ size' \in [Files -> Int]
  BY <1>1, FilesStay
<1>3. /\ CursorsInFile(state)' /\ StampsPast(state)'
      /\ \A d \in Connectors : CursorsInFile(memory[d])' /\ StampsPast(memory[d])'
  BY <1>1, <1>2, QuietCopies
<1>4. ASSUME NEW d \in Connectors PROVE BatchInFile(d)'
  <2>1. CASE d = c
    BY <2>1, <1>1, RestsOwn DEF JournalInv, BatchInFile, NoBatch
  <2>2. CASE d # c
    <3>1. batch[d]' = batch[d]
      BY <2>2, <1>1, RestsOwn DEF JournalInv
    <3> QED
      BY <3>1, <1>1, <1>2, QuietBatch
  <2> QED
    BY <2>1, <2>2
<1>5. ASSUME NEW d \in Connectors PROVE RereadIsRare(d)'
  <2>1. unsaved[d] \in Nat /\ raised[d] \in Nat /\ \A e \in Events : journal[e] \in Nat
    BY DEF JournalInv, TypeOK
  <2>2. CASE d = c
    <3>1. unsaved'[d] + raised'[d] = Budget(d) + 1
      BY <2>1, <2>2, <1>1 DEF Budget, JournalInv, TypeOK
    <3>2. \A e \in Events \cap Undated : e \notin cut /\ Owner[e[1]] = d => journal[e] <= 1 + Budget(d)
      BY DEF RereadInv, RereadIsRare
    <3>3. Budget(d) \in Nat
      BY <2>1 DEF Budget
    <3>4. ASSUME NEW e \in Events \cap Undated, e \notin cut', Owner[e[1]] = d
          PROVE  /\ journal'[e] <= 1 + (unsaved'[d] + raised'[d])
                 /\ ~ (journal'[e] > unsaved'[d] + raised'[d])
      BY <1>1, <2>1, <3>1, <3>2, <3>3, <3>4
    <3> QED
      BY <3>4, RareFollows
  <2>3. CASE d # c
    <3>1. batch'[d] = batch[d] /\ pc'[d] = pc[d]
      BY <2>3, <1>1, RestsOwn DEF JournalInv
    <3>2. raised'[d] = raised[d] /\ unsaved'[d] = unsaved[d]
      BY <2>3, <1>1 DEF JournalInv, TypeOK
    <3> QED
      BY <1>1, <3>1, <3>2, RareFollows DEF RereadInv, RereadIsRare, Settled, Budget
  <2> QED
    BY <2>2, <2>3
<1> QED
  BY <1>3, <1>4, <1>5 DEF RereadInv

\* A cursor that moves to the end of a batch passes what was journalled from it.
LEMMA FileReadRereads ==
  ASSUME JournalInv, RereadInv, NEW c \in Connectors, FileRead(c)
  PROVE  RereadInv'
<1> DEFINE b == batch[c]
           f == b.file
           passed == [at |-> b.upto, version |-> b.version]
           old == memory[c].cursor[f]
<1>1. /\ memory' = [memory EXCEPT ![c].cursor[f] = passed]
      /\ batch' = [batch EXCEPT ![c] = NoBatch]
      /\ pc[c] = "scan" /\ f # None
      /\ UNCHANGED <<files, pc, state, journal, cut, unsaved, raised>>
  BY DEF FileRead, outcome, history
<1>2. f \in Files /\ Owner[f] = c /\ b \in Batches
  BY <1>1 DEF JournalInv, TypeOK, Batches, BatchIsOwn
<1>3. \A d \in Connectors :
        /\ memory'[d].seen = memory[d].seen
        /\ memory'[d].cursor =
             IF d = c THEN [memory[c].cursor EXCEPT ![f] = passed] ELSE memory[d].cursor
  BY <1>1, <1>2 DEF JournalInv, TypeOK, Copies
<1>4. /\ b.version <= version[f] /\ (b.version = version[f] => b.upto <= size[f])
      /\ b.next <= FirstFrom(f, b.upto)
      /\ old.version <= b.version
      /\ old.version = b.version => FirstFrom(f, old.at) <= b.next
  BY <1>1 DEF RereadInv, BatchInFile
<1>5. old \in Cursors /\ \A d \in Connectors : memory[d].cursor \in [Files -> Cursors]
  BY <1>2 DEF JournalInv, TypeOK, Copies
<1>6. FirstFrom(f, old.at) \in Nat /\ FirstFrom(f, b.upto) \in Nat
  BY <1>2, <1>5, FirstFromMonotone DEF Cursors, Batches
<1>7. /\ b.next \in Nat /\ b.version \in Nat /\ old.version \in Nat
      /\ passed.at = b.upto /\ passed.version = b.version
  BY <1>2, <1>5, CaptureJournalAssumption DEF Batches, Cursors
<1> HIDE DEF b, f, passed, old
<1>8. CursorsInFile(state)' /\ StampsPast(state)'
  BY <1>1 DEF RereadInv, CursorsInFile, StampsPast, Range, files
<1>9. ASSUME NEW d \in Connectors PROVE CursorsInFile(memory[d])' /\ StampsPast(memory[d])'
  <2>1. StampsPast(memory[d])'
    BY <1>1, <1>3 DEF RereadInv, StampsPast, Range
  <2>2. ASSUME NEW g \in Files
        PROVE  /\ memory'[d].cursor[g].version <= version[g]
               /\ memory'[d].cursor[g].version = version[g] => memory'[d].cursor[g].at <= size[g]
    <3>1. CASE d = c /\ g = f
      <4>1. memory'[d].cursor[g] = passed
        BY <3>1, <1>3, <1>5
      <4> QED
        BY <3>1, <4>1, <1>4, <1>7
    <3>2. CASE ~ (d = c /\ g = f)
      <4>1. memory'[d].cursor[g] = memory[d].cursor[g]
        BY <3>2, <1>3, <1>5
      <4> QED
        BY <4>1 DEF RereadInv, CursorsInFile
    <3> QED
      BY <3>1, <3>2
  <2> QED
    BY <1>1, <2>1, <2>2 DEF CursorsInFile, files
<1>10. ASSUME NEW d \in Connectors PROVE BatchInFile(d)'
  <2>1. CASE d = c
    <3>1. batch'[c].file = None
      BY <1>1 DEF JournalInv, TypeOK, NoBatch
    <3> QED
      BY <2>1, <3>1 DEF BatchInFile
  <2>2. CASE d # c
    <3>1. batch'[d] = batch[d] /\ memory'[d].cursor = memory[d].cursor
      BY <2>2, <1>1, <1>3 DEF JournalInv, TypeOK
    <3> QED
      BY <3>1, <1>1 DEF RereadInv, BatchInFile, FirstFrom, files
  <2> QED
    BY <2>1, <2>2
<1>11. ASSUME NEW e \in Events, PassedBy(memory[c], e) \/ DoneIn(b, pc[c], e)
       PROVE  PassedBy(memory'[c], e)
  <2>1. e[1] \in Files /\ e[2] \in Nat /\ e[3] \in Nat
    <3>1. PICK g \in Files : e \in {g} \X (0 .. MaxVersions) \X Numbers(g)
      BY DEF Events
    <3>2. MaxLines * PerLine[g] \in Nat /\ MaxVersions \in Nat
      BY CaptureJournalAssumption
    <3> QED
      BY <3>1, <3>2 DEF Numbers
  <2>2. CASE e[1] = f
    <3>1. memory'[c].cursor[e[1]] = passed
      BY <2>2, <1>2, <1>3, <1>5
    <3>2. e[2] <= b.version /\ (e[2] = b.version => e[3] < FirstFrom(f, b.upto))
      <4>1. CASE PassedBy(memory[c], e)
        BY <4>1, <2>1, <2>2, <1>4, <1>6, <1>7 DEF PassedBy, old
      <4>2. CASE DoneIn(b, pc[c], e)
        BY <4>2, <2>1, <1>1, <1>4, <1>6, <1>7 DEF DoneIn
      <4> QED
        BY <4>1, <4>2, <1>11
    <3> QED
      BY <3>1, <3>2, <2>1, <2>2, <1>7 DEF PassedBy
  <2>3. CASE e[1] # f
    <3>1. memory'[c].cursor[e[1]] = memory[c].cursor[e[1]]
      BY <2>1, <2>3, <1>3, <1>5
    <3>2. ~ DoneIn(b, pc[c], e)
      BY <2>3 DEF DoneIn, f
    <3> QED
      BY <3>1, <3>2, <1>11 DEF PassedBy
  <2> QED
    BY <2>2, <2>3
<1>12. ASSUME NEW d \in Connectors PROVE RereadIsRare(d)'
  <2>1. ASSUME NEW e \in Events \cap Undated, e \notin cut', Owner[e[1]] = d,
               journal[e] > Budget(d)
        PROVE  /\ <<e, journal[e] - 1>> \in Range(memory'[d].seen)
               /\ PassedBy(memory'[d], e) \/ DoneIn(batch'[d], pc'[d], e)
               /\ <<e, journal[e] - 1>> \in Range(state'.seen) => PassedBy(state', e)
               /\ \A k \in Connectors \ {d} :
                    <<e, journal[e] - 1>> \in Range(memory'[k].seen) => PassedBy(memory'[k], e)
    <3>1. Settled(d, e)
      BY <2>1, <1>1 DEF RereadInv, RereadIsRare
    <3>2. \A k \in Connectors : PassedBy(memory[k], e) => PassedBy(memory'[k], e)
      BY <1>3, <1>11 DEF PassedBy
    <3>3. PassedBy(memory'[d], e) \/ DoneIn(batch'[d], pc'[d], e)
      <4>1. CASE d = c
        BY <3>1, <4>1, <1>11 DEF Settled, b
      <4>2. CASE d # c
        BY <3>1, <3>2, <4>2, <1>1 DEF Settled, JournalInv, TypeOK
      <4> QED
        BY <4>1, <4>2
    <3> QED
      BY <3>1, <3>2, <3>3, <1>1, <1>3 DEF Settled
  <2> QED
    BY <1>1, <2>1, RareFollows DEF RereadInv, RereadIsRare, Budget
<1> QED
  BY <1>8, <1>9, <1>10, <1>12 DEF RereadInv

LEMMA SavesRereads ==
  ASSUME JournalInv, RereadInv, NEW c \in Connectors, Saves(c)
  PROVE  RereadInv'
<1>1. /\ state' = memory[c] /\ Rests(c) /\ batch[c].file = None
      /\ UNCHANGED <<files, memory, journal, cut, unsaved, raised>>
  BY DEF Saves, outcome, history
<1>2. ASSUME NEW d \in Connectors PROVE CursorsInFile(memory[d])' /\ StampsPast(memory[d])'
  BY <1>1 DEF RereadInv, CursorsInFile, StampsPast, Range, files
<1>3. CursorsInFile(state)' /\ StampsPast(state)'
  BY <1>1 DEF RereadInv, CursorsInFile, StampsPast, Range, files
<1>4. /\ batch'[c] = NoBatch
      /\ \A d \in Connectors \ {c} : batch'[d] = batch[d] /\ pc'[d] = pc[d]
  BY <1>1, RestsOwn DEF JournalInv
<1>5. ASSUME NEW d \in Connectors PROVE BatchInFile(d)'
  BY <1>1, <1>4 DEF RereadInv, BatchInFile, FirstFrom, NoBatch, files
<1>6. ASSUME NEW d \in Connectors PROVE RereadIsRare(d)'
  <2>1. ASSUME NEW e \in Events \cap Undated, e \notin cut', Owner[e[1]] = d,
               journal[e] > Budget(d)
        PROVE  /\ <<e, journal[e] - 1>> \in Range(memory'[d].seen)
               /\ PassedBy(memory'[d], e) \/ DoneIn(batch'[d], pc'[d], e)
               /\ <<e, journal[e] - 1>> \in Range(state'.seen) => PassedBy(state', e)
               /\ \A k \in Connectors \ {d} :
                    <<e, journal[e] - 1>> \in Range(memory'[k].seen) => PassedBy(memory'[k], e)
    <3>1. Settled(d, e)
      BY <2>1, <1>1 DEF RereadInv, RereadIsRare
    <3>2. CASE d = c
      <4>1. e[1] \in Files
        BY DEF Events
      <4>2. ~ DoneIn(batch[c], pc[c], e)
        BY <4>1, <1>1, CaptureJournalAssumption DEF DoneIn
      <4> QED
        BY <3>1, <3>2, <4>2, <1>1 DEF Settled
    <3>3. CASE d # c
      BY <3>1, <3>3, <1>1, <1>4 DEF Settled
    <3> QED
      BY <3>2, <3>3
  <2> QED
    BY <1>1, <2>1, RareFollows DEF RereadInv, RereadIsRare, Budget
<1> QED
  BY <1>2, <1>3, <1>5, <1>6 DEF RereadInv

\* The state file has the last id of an event that it is past, or the end of
\* the process counts.
LEMMA EndsRereads ==
  ASSUME JournalInv, RereadInv, Ends
  PROVE  RereadInv'
<1>1. /\ memory' = [d \in Connectors |-> state]
      /\ batch' = [d \in Connectors |-> NoBatch]
      /\ UNCHANGED <<files, state, journal, cut, raised>>
  BY DEF Ends, outcome
<1>2. CursorsInFile(state)' /\ StampsPast(state)'
  BY <1>1 DEF RereadInv, CursorsInFile, StampsPast, Range, files
<1>3. ASSUME NEW d \in Connectors PROVE CursorsInFile(memory[d])' /\ StampsPast(memory[d])'
  BY <1>1 DEF RereadInv, CursorsInFile, StampsPast, Range, files
<1>4. ASSUME NEW d \in Connectors PROVE BatchInFile(d)'
  BY <1>1 DEF BatchInFile, NoBatch
<1>5. ASSUME NEW d \in Connectors PROVE RereadIsRare(d)'
  <2>1. unsaved[d] \in Nat /\ raised[d] \in Nat /\ \A e \in Events : journal[e] \in Nat
    BY DEF JournalInv, TypeOK
  <2>2. \A e \in Events \cap Undated : e \notin cut' /\ Owner[e[1]] = d =>
          /\ journal[e] <= 1 + Budget(d)
          /\ journal[e] > Budget(d) => Settled(d, e)
    BY <1>1 DEF RereadInv, RereadIsRare
  <2>3. CASE Range(memory[d].seen) \subseteq Range(state.seen)
    <3>1. unsaved'[d] + raised'[d] = Budget(d)
      BY <2>1, <2>3, <1>1 DEF Ends, Budget
    <3>2. ASSUME NEW e \in Events \cap Undated, e \notin cut', Owner[e[1]] = d,
                 journal[e] > Budget(d)
          PROVE  /\ <<e, journal[e] - 1>> \in Range(state.seen)
                 /\ PassedBy(state, e)
      BY <2>2, <2>3, <3>2 DEF Settled
    <3> QED
      BY <1>1, <2>2, <3>1, <3>2, RareFollows
  <2>4. CASE ~ (Range(memory[d].seen) \subseteq Range(state.seen))
    <3>1. unsaved'[d] + raised'[d] = Budget(d) + 1
      <4>1. unsaved'[d] = unsaved[d] + 1
        BY <2>4 DEF Ends
      <4> QED
        BY <2>1, <4>1, <1>1 DEF Budget
    <3>2. Budget(d) \in Nat
      BY <2>1 DEF Budget
    <3>3. ASSUME NEW e \in Events \cap Undated, e \notin cut', Owner[e[1]] = d
          PROVE  /\ journal'[e] <= 1 + (unsaved'[d] + raised'[d])
                 /\ ~ (journal'[e] > unsaved'[d] + raised'[d])
      BY <1>1, <2>1, <2>2, <3>1, <3>2, <3>3
    <3> QED
      BY <3>3, RareFollows
  <2> QED
    BY <2>3, <2>4
<1> QED
  BY <1>2, <1>3, <1>4, <1>5 DEF RereadInv

LEMMA RereadInitially == Init => RereadInv
<1> SUFFICES ASSUME Init PROVE RereadInv
  OBVIOUS
<1>1. CursorsInFile(EmptyState)
  BY CaptureJournalAssumption DEF Init, CursorsInFile, EmptyState
<1>2. StampsPast(EmptyState)
  BY DEF StampsPast, EmptyState, Range
<1>3. \A c \in Connectors : BatchInFile(c)
  BY DEF Init, BatchInFile, NoBatch
<1>4. \A c \in Connectors : RereadIsRare(c)
  BY DEF Init, RereadIsRare, Budget
<1> QED
  BY <1>1, <1>2, <1>3, <1>4 DEF Init, RereadInv

LEMMA RereadStep == JournalInv /\ RereadInv /\ [Next]_vars => RereadInv'
<1> SUFFICES ASSUME JournalInv, RereadInv, [Next]_vars PROVE RereadInv'
  OBVIOUS
<1>1. ASSUME NEW f \in Files, Appends(f) \/ Rewrites(f) PROVE RereadInv'
  BY <1>1, WriterRereads
<1>2. ASSUME NEW c \in Connectors, Scan(c) PROVE RereadInv'
  BY <1>2, BeginsRereads, VisitsRereads, SkipsRereads, JournalsRereads, RaisesRereads,
     FileReadRereads, SavesRereads DEF Scan
<1>3. CASE Ends
  BY <1>3, EndsRereads
<1>4. CASE UNCHANGED vars
  <2>1. UNCHANGED <<files, pc, memory, batch, state, journal, cut, unsaved, raised>>
    BY <1>4 DEF vars, scan, outcome, history
  <2>2. FilesGrow /\ version' \in [Files -> Nat] /\ size' \in [Files -> Int]
    BY <2>1, FilesStay
  <2>3. /\ CursorsInFile(state)' /\ StampsPast(state)'
        /\ \A c \in Connectors : CursorsInFile(memory[c])' /\ StampsPast(memory[c])'
    BY <2>1, <2>2, QuietCopies
  <2>4. \A c \in Connectors : BatchInFile(c)'
    BY <2>1, <2>2, QuietBatch
  <2>5. \A c \in Connectors : RereadIsRare(c)'
    BY <2>1, QuietRare
  <2> QED
    BY <2>3, <2>4, <2>5 DEF RereadInv
<1> QED
  BY <1>1, <1>2, <1>3, <1>4 DEF Next

\* An event whose id is kept is journalled once, and once more at most for each
\* end of the process that lost a seen id of its connector; one without a
\* timestamp once more also for each ingestion that raised.
THEOREM NoEventIsJournalledTwice == Spec => []JournalledOnce
<1>1. JournalInv /\ RereadInv => JournalledOnce
  <2> SUFFICES ASSUME JournalInv, RereadInv, NEW e \in Events, e \notin cut
               PROVE  journal[e] <= 1 + unsaved[Owner[e[1]]]
                                      + IF e \in Undated THEN raised[Owner[e[1]]] ELSE 0
    BY DEF JournalledOnce
  <2> DEFINE c == Owner[e[1]]
  <2>0. e[1] \in Files
    BY DEF Events
  <2>1. c \in Connectors
    BY <2>0, CaptureJournalAssumption
  <2> HIDE DEF c
  <2>2. unsaved[c] \in Nat /\ raised[c] \in Nat /\ journal[e] \in Nat
    BY <2>1 DEF JournalInv, TypeOK
  <2>3. CASE e \in Undated
    <3>1. e \in Events \cap Undated /\ Owner[e[1]] = c
      BY <2>3 DEF c
    <3>2. journal[e] <= 1 + Budget(c)
      BY <2>1, <3>1 DEF RereadInv, RereadIsRare
    <3>3. journal[e] <= 1 + unsaved[c] + raised[c]
      BY <2>2, <3>2 DEF Budget
    <3> QED
      BY <2>3, <3>3 DEF c
  <2>4. CASE e \notin Undated
    <3>1. e \in Events \ (cut \cup Undated) /\ Owner[e[1]] = c
      BY <2>4 DEF c
    <3>2. journal[e] <= 1 + unsaved[c]
      BY <2>1, <3>1 DEF JournalInv, UnseenIsRare
    <3>3. journal[e] <= 1 + unsaved[c] + 0
      BY <2>2, <3>2
    <3> QED
      BY <2>4, <3>3 DEF c
  <2> QED
    BY <2>3, <2>4 DEF c
<1>2. Spec => []RereadInv
  BY RereadInitially, RereadStep, JournalSafety, PTL DEF Spec
<1> QED
  BY <1>1, <1>2, JournalSafety, PTL
=============================================================================
