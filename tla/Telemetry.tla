------------------------------ MODULE Telemetry ------------------------------
(***************************************************************************)
(* The rows of a telemetry file: recorded by the worker ("rx") and by the  *)
(* update thread ("tx") of a node in a list they share, without a lock     *)
(* (_rec_telemetry() of juturna/components/_node.py), and written, list by *)
(* list, by the thread of the TelemetryManager                             *)
(* (juturna/components/_telemetry_manager.py). Lists are numbered as they  *)
(* are made.                                                               *)
(***************************************************************************)
EXTENDS Integers, Sequences, FiniteSets, SequencesExt

CONSTANTS
  TelemetryBatch,  \* JUTURNA_TELEMETRY_BATCH_SIZE
  MaxRows,         \* bound: entries a thread records
  MaxWriters       \* bound: calls of start() of the manager

ASSUME TelemetryAssumption ==
  /\ TelemetryBatch \in Nat \ {0}
  /\ MaxRows \in Nat
  /\ MaxWriters \in Nat

Recorders == {"rx", "tx"}
Writers == 1..MaxWriters
EndMark == 0

VARIABLES
  rec,       \* where each recorder is in _rec_telemetry(), "idle" elsewhere
  entries,   \* entries each recorder has had so far
  lists,     \* the lists, by their numbers
  current,   \* _telemetry_buffer
  ref,       \* the list a recorder is to append to
  rowQueue,  \* _queue of the manager: lists, and EndMark for a STOP
  writer,    \* each writer thread
  reading,   \* the list each writer has, and the next entry
  latest,    \* _thread, 0 for None
  manager,   \* the thread that calls the manager
  mixed,     \* history: have both been in _rec_telemetry() at once?
  rows       \* the rows written

telemetryVars == <<rec, entries, lists, current, ref, rowQueue, writer, reading,
                   latest, manager, mixed, rows>>

TelemetryInit ==
  /\ rec = [r \in Recorders |-> "idle"]
  /\ entries = [r \in Recorders |-> 0]
  /\ lists = <<<<>>>> /\ current = 1
  /\ ref = [r \in Recorders |-> 1]
  /\ rowQueue = <<>>
  /\ writer = [w \in Writers |-> "none"]
  /\ reading = [w \in Writers |-> <<1, 1>>]
  /\ latest = 0
  /\ manager = "idle"
  /\ mixed = FALSE
  /\ rows = <<>>

-----------------------------------------------------------------------------
RecBegin(r) ==
  /\ rec[r] = "idle"
  /\ rec' = [rec EXCEPT ![r] = "append"]
  /\ entries' = [entries EXCEPT ![r] = @ + 1]
  /\ ref' = [ref EXCEPT ![r] = current]
  /\ mixed' = (mixed \/ \E q \in Recorders : rec[q] # "idle")
  /\ UNCHANGED <<lists, current, rowQueue, writer, reading, latest, manager, rows>>

RecAppend(r) ==
  /\ rec[r] = "append"
  /\ lists' = [lists EXCEPT ![ref[r]] = Append(@, <<r, entries[r]>>)]
  /\ rec' = [rec EXCEPT ![r] = "test"]
  /\ UNCHANGED <<entries, current, ref, rowQueue, writer, reading, latest,
                 manager, mixed, rows>>

RecTest(r) ==
  /\ rec[r] = "test"
  /\ rec' = [rec EXCEPT ![r] =
               IF Len(lists[current]) >= TelemetryBatch THEN "hand" ELSE "idle"]
  /\ UNCHANGED <<entries, lists, current, ref, rowQueue, writer, reading, latest,
                 manager, mixed, rows>>

RecHand(r) ==
  /\ rec[r] = "hand"
  /\ rowQueue' = Append(rowQueue, current)
  /\ rec' = [rec EXCEPT ![r] = "renew"]
  /\ UNCHANGED <<entries, lists, current, ref, writer, reading, latest, manager, mixed, rows>>

\* Mutant: the list is not replaced.
RecKeep(r) ==
  /\ rec[r] = "renew"
  /\ rec' = [rec EXCEPT ![r] = "idle"]
  /\ UNCHANGED <<entries, lists, current, ref, rowQueue, writer, reading, latest,
                 manager, mixed, rows>>

RecRenew(r) ==
  /\ rec[r] = "renew"
  /\ lists' = Append(lists, <<>>)
  /\ current' = Len(lists')
  /\ rec' = [rec EXCEPT ![r] = "idle"]
  /\ UNCHANGED <<entries, ref, rowQueue, writer, reading, latest, manager, mixed, rows>>

RecStep(r) == RecAppend(r) \/ RecTest(r) \/ RecHand(r) \/ RecRenew(r)

-----------------------------------------------------------------------------
(***************************************************************************)
(* The manager: start() does not mind a thread that runs; stop() ends one  *)
(* thread and joins the latest. A pipeline whose start() has raised is     *)
(* started again without a stop().                                         *)
(***************************************************************************)
ManagerStart ==
  /\ manager = "idle"
  /\ latest < MaxWriters
  /\ latest' = latest + 1
  /\ writer' = [writer EXCEPT ![latest'] = "read"]
  /\ UNCHANGED <<rec, entries, lists, current, ref, rowQueue, reading, manager, mixed, rows>>

ManagerStop ==
  /\ manager = "idle"
  /\ latest # 0 /\ writer[latest] # "over"
  /\ rowQueue' = Append(rowQueue, EndMark)
  /\ manager' = "join"
  /\ UNCHANGED <<rec, entries, lists, current, ref, writer, reading, latest, mixed, rows>>

ManagerJoined ==
  /\ manager = "join"
  /\ writer[latest] = "over"
  /\ manager' = "idle"
  /\ UNCHANGED <<rec, entries, lists, current, ref, rowQueue, writer, reading,
                 latest, mixed, rows>>

WriterGet(w) ==
  /\ writer[w] = "read"
  /\ rowQueue # <<>>
  /\ rowQueue' = Tail(rowQueue)
  /\ IF Head(rowQueue) = EndMark
     THEN writer' = [writer EXCEPT ![w] = "over"] /\ UNCHANGED reading
     ELSE /\ writer' = [writer EXCEPT ![w] = "write"]
          /\ reading' = [reading EXCEPT ![w] = <<Head(rowQueue), 1>>]
  /\ UNCHANGED <<rec, entries, lists, current, ref, latest, manager, mixed, rows>>

\* The loop over a list goes on to what is appended meanwhile.
WriterRow(w) ==
  LET list == reading[w][1]
      next == reading[w][2]
  IN
  /\ writer[w] = "write"
  /\ IF next <= Len(lists[list])
     THEN /\ rows' = Append(rows, lists[list][next])
          /\ reading' = [reading EXCEPT ![w] = <<list, next + 1>>]
          /\ UNCHANGED writer
     ELSE /\ writer' = [writer EXCEPT ![w] = "read"]
          /\ UNCHANGED <<rows, reading>>
  /\ UNCHANGED <<rec, entries, lists, current, ref, rowQueue, latest, manager, mixed>>

WriterStep(w) == WriterGet(w) \/ WriterRow(w)

-----------------------------------------------------------------------------
TelemetryTypeOK ==
  /\ rec \in [Recorders -> {"idle", "append", "test", "hand", "renew"}]
  /\ entries \in [Recorders -> 0..MaxRows]
  /\ lists \in Seq(Seq(Recorders \X (1..MaxRows)))
  /\ current \in DOMAIN lists /\ ref \in [Recorders -> DOMAIN lists]
  /\ rowQueue \in Seq(0..Len(lists))
  /\ writer \in [Writers -> {"none", "read", "write", "over"}]
  /\ mixed \in BOOLEAN
  /\ latest \in 0..MaxWriters /\ manager \in {"idle", "join"}

\* As long as the two threads never record at once, which a node that does not
\* transmit makes sure of, no row is written twice, and with the one writer
\* there should be no row is left out before a later one of its thread.
RowsOnce ==
  ~mixed =>
    /\ \A i, j \in DOMAIN rows : rows[i] = rows[j] => i = j
    /\ Cardinality({w \in Writers : writer[w] # "none"}) <= 1 =>
         \A i \in DOMAIN rows :
           rows[i][2] = 1 \/ \E j \in 1..(i - 1) : rows[j] = <<rows[i][1], rows[i][2] - 1>>

\* What keeps stop() waiting: a writer of an earlier start() has taken its mark.
MarkTaken == writer[latest] # "over" /\ \E w \in Writers : w < latest /\ writer[w] = "over"
=============================================================================
