---------------------------- MODULE CaptureJournal ----------------------------
(***************************************************************************)
(* The connectors that read the session files other programs write         *)
(* (sensory_cortex/capture.py).  scan_once goes through the files of one   *)
(* kind, reads each from its cursor on, appends every event it has not     *)
(* seen to a journal and awaits its ingestion.  Cursors and seen ids are   *)
(* in memory until the scan ends and save() replaces the state file.       *)
(* Connectors of one process run on one event loop and share a state file, *)
(* of which each has read a copy when it was made.                         *)
(*                                                                         *)
(* A file is a number of lines, and a position in it a number of half      *)
(* lines: its writer may be in the middle of one, which does not parse.    *)
(* Every line holds PerLine events, and the events of a file are numbered. *)
(* An event's id is a hash of its place and its contents, its timestamp    *)
(* included: one without gets the time at which it is parsed, and with it  *)
(* another id each time.  Lines without events, and the session an event   *)
(* is attributed to, are left out.                                         *)
(*                                                                         *)
(* No specification uses the definitions that state a plausible slip in    *)
(* the code of the definition right after them (JournalsUnseen before      *)
(* Journals).                                                              *)
(***************************************************************************)
EXTENDS Integers, FiniteSets, Sequences, Functions

CONSTANTS
  Connectors,
  Files,         \* session files, each of one connector
  Owner,         \* whose they are
  PerLine,       \* events on a line: for VS Code, a request and its response
  Undated,       \* events without a timestamp
  MaxEvents,     \* max_events_per_scan
  MaxSeen,       \* how many seen ids are kept: 10000
  Backfill,      \* initial_backfill_events, in lines
  BackfillFiles, \* max_initial_backfill_files
  MaxLines,      \* bound: lines of a file
  MaxVersions,   \* bound: how often a file is written anew
  MaxFailures,   \* bound: ingestions that raise, and ends of the process
  None

ASSUME CaptureJournalAssumption ==
  /\ Owner \in [Files -> Connectors]
  /\ PerLine \in [Files -> Nat \ {0}]
  /\ MaxEvents \in Nat \ {0} /\ MaxSeen \in Nat \ {0}
  /\ Backfill \in Nat /\ BackfillFiles \in Nat
  /\ MaxLines \in Nat /\ MaxVersions \in Nat /\ MaxFailures \in Nat
  /\ None \notin Files

VARIABLES
  version,   \* how often a file was written anew
  size,      \* its length in half lines; -1: there is no such file
  pc,        \* what a connector does: nothing, scan, or wait for an ingestion
  memory,    \* its copy of the state: cursors and seen ids
  todo,      \* files it has yet to visit in this scan
  visited,   \* how many it has visited
  scanned,   \* how many events it has read
  batch,     \* the file it is at, and what it has read of it
  state,     \* the state file
  journal,   \* for each event, how often it was journalled
  ingested,  \* events whose ingestion returned
  refused,   \* those whose ingestion raised
  missed,    \* those a scan leaves behind by design: see Visits
  cut,       \* those whose id a connector no longer keeps
  unsaved,   \* ends of the process with an event seen that was not saved
  raised,    \* scans that ended because an ingestion raised
  failures   \* exceptions and ends of the process so far

files == <<version, size>>
scan == <<todo, visited, scanned, batch>>
outcome == <<journal, ingested, refused>>
history == <<missed, cut, unsaved, raised, failures>>
vars == <<files, pc, memory, scan, state, outcome, history>>

Numbers(f) == 1 .. MaxLines * PerLine[f]
Events == UNION {{f} \X (0 .. MaxVersions) \X Numbers(f) : f \in Files}

\* A cursor remembers the version it was read from, which the code does not.
Cursors == [at : Nat \cup {-1}, version : 0 .. MaxVersions]
Batches == [file : Files \cup {None}, version : 0 .. MaxVersions,
            next : Nat, until : Nat, upto : Nat]
Ids == Events \X Nat
Copies == [cursor : [Files -> Cursors], seen : Seq(Ids)]

EmptyState == [cursor |-> [f \in Files |-> [at |-> -1, version |-> 0]], seen |-> <<>>]
NoBatch == [file |-> None, version |-> 0, next |-> 1, until |-> 0, upto |-> 0]

Init ==
  /\ version = [f \in Files |-> 0]
  /\ size = [f \in Files |-> -1]
  /\ pc = [c \in Connectors |-> "idle"]
  /\ memory = [c \in Connectors |-> EmptyState]
  /\ todo = [c \in Connectors |-> {}]
  /\ visited = [c \in Connectors |-> 0]
  /\ scanned = [c \in Connectors |-> 0]
  /\ batch = [c \in Connectors |-> NoBatch]
  /\ state = EmptyState
  /\ journal = [e \in Events |-> 0]
  /\ ingested = {} /\ refused = {} /\ missed = {} /\ cut = {}
  /\ unsaved = [c \in Connectors |-> 0]
  /\ raised = [c \in Connectors |-> 0]
  /\ failures = 0

-----------------------------------------------------------------------------
(***************************************************************************)
(* The programs that write the files.                                      *)
(***************************************************************************)

\* A whole line, or half of one.
Appends(f) ==
  /\ \E n \in {1, 2} :
       /\ size' = [size EXCEPT ![f] = (IF @ = -1 THEN 0 ELSE @) + n]
       /\ size'[f] <= 2 * MaxLines
  /\ UNCHANGED <<version, pc, memory, scan, state, outcome, history>>

Rewrites(f) ==
  /\ size[f] > 0
  /\ version[f] < MaxVersions
  /\ version' = [version EXCEPT ![f] = @ + 1]
  /\ size' = [size EXCEPT ![f] = 0]
  /\ UNCHANGED <<pc, memory, scan, state, outcome, history>>

-----------------------------------------------------------------------------
(***************************************************************************)
(* scan_once.  It suspends only while it awaits an ingestion.              *)
(***************************************************************************)

\* No other connector has the event loop.
Alone(c) == \A d \in Connectors \ {c} : pc[d] # "scan"

\* The scan is over.
Rests(c) ==
  /\ pc' = [pc EXCEPT ![c] = "idle"]
  /\ todo' = [todo EXCEPT ![c] = {}]
  /\ visited' = [visited EXCEPT ![c] = 0]
  /\ scanned' = [scanned EXCEPT ![c] = 0]
  /\ batch' = [batch EXCEPT ![c] = NoBatch]

Begins(c) ==
  /\ pc[c] = "idle"
  /\ Alone(c)
  /\ pc' = [pc EXCEPT ![c] = "scan"]
  /\ todo' = [todo EXCEPT ![c] = {f \in Files : Owner[f] = c /\ size[f] >= 0}]
  /\ UNCHANGED <<files, memory, visited, scanned, batch, state, outcome, history>>

\* _initial_offset: where the last lines begin, as many as are backfilled.
InitialOffset(f) ==
  LET lines == size[f] \div 2
  IN  IF Backfill = 0 THEN size[f]
      ELSE IF lines <= Backfill THEN 0 ELSE 2 * (lines - Backfill)

\* Where connector c starts to read file f: at its cursor, or where a file it
\* meets for the first time is begun; from the start if the file is shorter.
Start(c, f) ==
  LET at == memory[c].cursor[f].at
  IN  IF at < 0 THEN (IF visited[c] < BackfillFiles THEN InitialOffset(f) ELSE size[f])
      ELSE IF at > size[f] THEN 0 ELSE at

\* The line event n is on; and the first event that starts at position p or later.
Line(f, n) == (n - 1) \div PerLine[f] + 1
FirstFrom(f, p) == ((p + 1) \div 2) * PerLine[f] + 1

\* What the parser reads of file f from position p on, until it has `room`
\* events or meets the end of the file.  It is then past the last line it read,
\* be it half a line, or one with more events than there was room for.
Parsed(f, p, room) ==
  LET first == FirstFrom(f, p)
      whole == (size[f] \div 2) * PerLine[f]
      last  == first + room - 1
  IN  IF last <= whole
        THEN [file |-> f, version |-> version[f], next |-> first, until |-> last,
              upto |-> 2 * Line(f, last)]
        ELSE [file |-> f, version |-> version[f], next |-> first, until |-> whole,
              upto |-> size[f]]

\* The events of the lines before the cursor `upto` that were not read up to `until`.
LeftBehind(b) == (b.until + 1) .. (((b.upto + 1) \div 2) * PerLine[b.file])

\* Before a file it meets for the first time, or one that was written anew and
\* is at least as long as before, it leaves behind what is before the start.
Visits(c) ==
  /\ pc[c] = "scan"
  /\ batch[c].file = None
  /\ scanned[c] < MaxEvents
  /\ \E f \in todo[c] :
       LET cursor == memory[c].cursor[f]
           b      == Parsed(f, Start(c, f), MaxEvents - scanned[c])
           before == IF cursor.at < 0 \/ cursor.version # version[f] THEN 1 .. b.next - 1 ELSE {}
       IN  /\ batch' = [batch EXCEPT ![c] = b]
           /\ todo' = [todo EXCEPT ![c] = @ \ {f}]
           /\ visited' = [visited EXCEPT ![c] = @ + 1]
           /\ scanned' = [scanned EXCEPT ![c] = @ + Cardinality(b.next .. b.until)]
           /\ missed' = missed \cup ({f} \X {version[f]} \X (before \cup LeftBehind(b)))
  /\ UNCHANGED <<files, pc, memory, state, outcome, cut, unsaved, raised, failures>>

\* The event connector c is at.
Event(c) == <<batch[c].file, batch[c].version, batch[c].next>>

AtEvent(c) == batch[c].file # None /\ batch[c].next <= batch[c].until

\* Its id.  Parsed once more, one without a timestamp has another.
Id(e) == <<e, IF e \in Undated THEN journal[e] ELSE 0>>

\* append_event has seen it.
Skips(c) ==
  /\ pc[c] = "scan"
  /\ AtEvent(c)
  /\ Id(Event(c)) \in Range(memory[c].seen)
  /\ batch' = [batch EXCEPT ![c].next = @ + 1]
  /\ UNCHANGED <<files, pc, memory, todo, visited, scanned, state, outcome, history>>

\* The last ids that were seen, as many as are kept.
Latest(ids) ==
  IF Len(ids) <= MaxSeen THEN ids ELSE SubSeq(ids, Len(ids) - MaxSeen + 1, Len(ids))

\* It has not: the event is journalled, and its ingestion awaited.
JournalsUnseen(c) ==
  /\ pc[c] = "scan"
  /\ AtEvent(c)
  /\ Id(Event(c)) \notin Range(memory[c].seen)
  /\ journal' = [journal EXCEPT ![Event(c)] = @ + 1]
  /\ pc' = [pc EXCEPT ![c] = "ingest"]
  /\ UNCHANGED <<files, memory, scan, state, ingested, refused, history>>
Journals(c) ==
  /\ pc[c] = "scan"
  /\ AtEvent(c)
  /\ Id(Event(c)) \notin Range(memory[c].seen)
  /\ journal' = [journal EXCEPT ![Event(c)] = @ + 1]
  /\ memory' = [memory EXCEPT ![c].seen = Latest(Append(@, Id(Event(c))))]
  /\ cut' = cut \cup {id[1] : id \in Range(memory[c].seen) \ Range(memory'[c].seen)}
  /\ pc' = [pc EXCEPT ![c] = "ingest"]
  /\ UNCHANGED <<files, scan, state, ingested, refused, missed, unsaved, raised, failures>>

Ingests(c) ==
  /\ pc[c] = "ingest"
  /\ Alone(c)
  /\ ingested' = ingested \cup {Event(c)}
  /\ batch' = [batch EXCEPT ![c].next = @ + 1]
  /\ pc' = [pc EXCEPT ![c] = "scan"]
  /\ UNCHANGED <<files, memory, todo, visited, scanned, state, journal, refused, history>>

\* scan_once does not catch what the ingestion raises.
IngestRaises(c) ==
  /\ pc[c] = "ingest"
  /\ Alone(c)
  /\ failures < MaxFailures
  /\ failures' = failures + 1
  /\ refused' = refused \cup {Event(c)}
  /\ raised' = [raised EXCEPT ![c] = @ + 1]
  /\ Rests(c)
  /\ UNCHANGED <<files, memory, state, journal, ingested, missed, cut, unsaved>>

\* The cursor moves when all that was read has been ingested.
FileReadEarly(c) ==
  /\ pc[c] = "scan"
  /\ batch[c].file # None
  /\ memory' = [memory EXCEPT ![c].cursor[batch[c].file] =
                  [at |-> batch[c].upto, version |-> batch[c].version]]
  /\ batch' = [batch EXCEPT ![c] = IF AtEvent(c) THEN @ ELSE NoBatch]
  /\ UNCHANGED <<files, pc, todo, visited, scanned, state, outcome, history>>
FileRead(c) ==
  /\ pc[c] = "scan"
  /\ batch[c].file # None
  /\ ~ AtEvent(c)
  /\ memory' = [memory EXCEPT ![c].cursor[batch[c].file] =
                  [at |-> batch[c].upto, version |-> batch[c].version]]
  /\ batch' = [batch EXCEPT ![c] = NoBatch]
  /\ UNCHANGED <<files, pc, todo, visited, scanned, state, outcome, history>>

\* All files are visited, or enough events are read: the state file is replaced
\* by this connector's copy.
Saves(c) ==
  /\ pc[c] = "scan"
  /\ batch[c].file = None
  /\ todo[c] = {} \/ scanned[c] >= MaxEvents
  /\ state' = memory[c]
  /\ Rests(c)
  /\ UNCHANGED <<files, memory, outcome, history>>

-----------------------------------------------------------------------------
\* The process ends and another begins, with connectors that load the state.
Ends ==
  /\ failures < MaxFailures
  /\ failures' = failures + 1
  /\ unsaved' = [c \in Connectors |->
                   unsaved[c] + IF Range(memory[c].seen) \subseteq Range(state.seen) THEN 0 ELSE 1]
  /\ memory' = [c \in Connectors |-> state]
  /\ pc' = [c \in Connectors |-> "idle"]
  /\ todo' = [c \in Connectors |-> {}]
  /\ visited' = [c \in Connectors |-> 0]
  /\ scanned' = [c \in Connectors |-> 0]
  /\ batch' = [c \in Connectors |-> NoBatch]
  /\ UNCHANGED <<files, state, outcome, missed, cut, raised>>

Scan(c) ==
  \/ Begins(c) \/ Visits(c) \/ Skips(c) \/ Journals(c) \/ Ingests(c) \/ IngestRaises(c)
  \/ FileRead(c) \/ Saves(c)

Next ==
  \/ \E f \in Files : Appends(f) \/ Rewrites(f)
  \/ \E c \in Connectors : Scan(c)
  \/ Ends

Spec == Init /\ [][Next]_vars

-----------------------------------------------------------------------------
(***************************************************************************)
(* Properties.                                                             *)
(***************************************************************************)

TypeOK ==
  /\ version \in [Files -> 0 .. MaxVersions]
  /\ size \in [Files -> -1 .. 2 * MaxLines]
  /\ pc \in [Connectors -> {"idle", "scan", "ingest"}]
  /\ memory \in [Connectors -> Copies]
  /\ todo \in [Connectors -> SUBSET Files]
  /\ visited \in [Connectors -> Nat]
  /\ scanned \in [Connectors -> Nat]
  /\ batch \in [Connectors -> Batches]
  /\ state \in Copies
  /\ journal \in [Events -> Nat]
  /\ ingested \subseteq Events /\ refused \subseteq Events /\ cut \subseteq Events
  /\ unsaved \in [Connectors -> Nat] /\ raised \in [Connectors -> Nat]
  /\ failures \in 0 .. MaxFailures

\* The events of the lines a cursor has passed, if the file is the one it was
\* read from.
Passed(f, cursor) ==
  IF cursor.version = version[f]
    THEN {<<f, version[f], n>> : n \in {m \in Numbers(f) : 2 * Line(f, m) <= cursor.at}}
    ELSE {}

\* No event falls between two scans: whatever raises and whenever the process
\* ends, the events a cursor has passed, in the state file or in memory, were
\* ingested, unless their ingestion raised or the reader leaves them behind by
\* design (the tail it starts at, a line that was half written, a line with
\* more events than there was room for).
PassedIsIngested ==
  \A f \in Files :
    \A cursor \in {state.cursor[f], memory[Owner[f]].cursor[f]} :
      Passed(f, cursor) \subseteq ingested \cup refused \cup missed

\* An event whose id is kept is journalled once, and once more at most for each
\* time the process ended when its connector had seen an event that the state
\* file had not: by its own fault, or because another connector saved an older
\* copy over it.  One without a timestamp is journalled once more also when an
\* ingestion raised and its connector read it again.
JournalledOnce ==
  \A e \in Events \ cut :
    LET c == Owner[e[1]]
    IN  journal[e] <= 1 + unsaved[c] + IF e \in Undated THEN raised[c] ELSE 0

=============================================================================
