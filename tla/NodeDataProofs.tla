---------------------------- MODULE NodeDataProofs ----------------------------
(***************************************************************************)
(* The rows of the telemetry, for every value of the constants: as long as *)
(* the two threads have not recorded at once. RowsInv is the inductive     *)
(* invariant: the entries stand in the lists in their order, a list that   *)
(* was handed over is in the queue until one writer takes it, and the rows *)
(* are the entries the writers are past.                                   *)
(***************************************************************************)
EXTENDS NodeData, TLAPS, FiniteSetTheorems

Entry == Recorders \X Nat

RowsType ==
  /\ rec \in [Recorders -> {"idle", "append", "test", "hand", "renew"}]
  /\ entries \in [Recorders -> Nat]
  /\ lists \in Seq(Seq(Entry)) /\ current = Len(lists) /\ current # 0
  /\ ref \in [Recorders -> 1..Len(lists)]
  /\ rowQueue \in Seq(0..Len(lists))
  /\ writer \in [Writers -> {"none", "read", "write", "over"}]
  /\ reading \in [Writers -> (1..Len(lists)) \X (Nat \ {0})]
  /\ latest \in 0..MaxWriters /\ \A w \in Writers : w > latest => writer[w] = "none"
  /\ mixed \in BOOLEAN
  /\ rows \in Seq(Entry)

\* The entries a thread has appended so far.
Appended(r) == IF rec[r] = "append" THEN entries[r] - 1 ELSE entries[r]

Before(l, i, m, j) == l < m \/ (l = m /\ i < j)

\* One thread at a time records, in the current list; the entries of a thread
\* stand in the lists in their order, and none is missing.
Recorded ==
  /\ \A q, r \in Recorders : rec[q] # "idle" /\ rec[r] # "idle" => q = r
  /\ \A r \in Recorders : rec[r] = "append" => ref[r] = current /\ entries[r] # 0
  /\ \A l, m \in 1..Len(lists) : \A i \in 1..Len(lists[l]), j \in 1..Len(lists[m]) :
       lists[l][i][1] = lists[m][j][1] /\ Before(l, i, m, j)
         => lists[l][i][2] < lists[m][j][2]
  /\ \A r \in Recorders : \A l \in 1..Len(lists) : \A i \in 1..Len(lists[l]) :
       lists[l][i][1] = r => lists[l][i][2] \in 1..Appended(r)
  /\ \A r \in Recorders : \A k \in 1..Appended(r) :
       \E l \in 1..Len(lists) : \E i \in 1..Len(lists[l]) : lists[l][i] = <<r, k>>

\* A list that has been handed over is in the queue until one writer takes it,
\* in the order of the numbers.
Handed(l) == l < current \/ (l = current /\ \E r \in Recorders : rec[r] = "renew")
Queued(l) == \E i \in 1..Len(rowQueue) : rowQueue[i] = l
Reads(w, l) == writer[w] = "write" /\ reading[w][1] = l

HandedOnce ==
  /\ \A l \in 1..Len(lists) : Queued(l) => Handed(l)
  /\ \A i, j \in 1..Len(rowQueue) :
       i < j /\ rowQueue[i] # EndMark /\ rowQueue[j] # EndMark => rowQueue[i] < rowQueue[j]
  /\ \A w \in Writers : \A l \in 1..Len(lists) : Reads(w, l) =>
       /\ Handed(l)
       /\ \A m \in 1..Len(lists) : Queued(m) => l < m
       /\ \A v \in Writers : Reads(v, l) => v = w

\* The rows are the entries the writers are past, and with one writer the
\* entries of a thread are written in their order.
Past(l, j) ==
  /\ Handed(l) /\ ~Queued(l)
  /\ \A w \in Writers : Reads(w, l) => j < reading[w][2]

OneWriter == \A v, w \in Writers : writer[v] # "none" /\ writer[w] # "none" => v = w

WrittenOnce ==
  /\ \A i \in 1..Len(rows) : \E l \in 1..Len(lists) : \E j \in 1..Len(lists[l]) :
       rows[i] = lists[l][j] /\ Past(l, j)
  /\ \A l \in 1..Len(lists) : \A j \in 1..Len(lists[l]) :
       Past(l, j) => \E i \in 1..Len(rows) : rows[i] = lists[l][j]
  /\ \A i, j \in 1..Len(rows) : rows[i] = rows[j] => i = j
  /\ OneWriter => \A i \in 1..Len(rows) :
       rows[i][2] = 1 \/ \E j \in 1..(i - 1) : rows[j] = <<rows[i][1], rows[i][2] - 1>>

RowsInv == RowsType /\ (~mixed => Recorded /\ HandedOnce /\ WrittenOnce)

-----------------------------------------------------------------------------
\* What the invariant says of the elements of lists, queue and rows.
LEMMA RowsFacts ==
  ASSUME RowsType
  PROVE  /\ \A l \in 1..Len(lists) : lists[l] \in Seq(Entry)
         /\ \A l \in 1..Len(lists) : \A j \in 1..Len(lists[l]) :
              lists[l][j] \in Entry /\ lists[l][j] = <<lists[l][j][1], lists[l][j][2]>>
         /\ \A i \in 1..Len(rowQueue) : rowQueue[i] \in 0..Len(lists)
         /\ \A i \in 1..Len(rows) :
              rows[i] \in Entry /\ rows[i] = <<rows[i][1], rows[i][2]>>
         /\ Len(lists) \in Nat /\ Len(rowQueue) \in Nat /\ Len(rows) \in Nat
         /\ \A l \in 1..Len(lists) : Len(lists[l]) \in Nat
         /\ \A w \in Writers : /\ reading[w][1] \in 1..Len(lists)
                               /\ reading[w][2] \in Nat \ {0}
                               /\ reading[w] = <<reading[w][1], reading[w][2]>>
<1>1. \A l \in 1..Len(lists) : lists[l] \in Seq(Entry)
  BY DEF RowsType
<1>2. \A l \in 1..Len(lists) : \A j \in 1..Len(lists[l]) : lists[l][j] \in Entry
  BY <1>1
<1>3. \A l \in 1..Len(lists) : Len(lists[l]) \in Nat
  BY <1>1
<1>4. \A i \in 1..Len(rowQueue) : rowQueue[i] \in 0..Len(lists)
  BY DEF RowsType
<1>5. \A i \in 1..Len(rows) : rows[i] \in Entry
  BY DEF RowsType
<1>6. Len(lists) \in Nat /\ Len(rowQueue) \in Nat /\ Len(rows) \in Nat
  BY DEF RowsType
<1>7. \A e \in Entry : e = <<e[1], e[2]>>
  BY DEF Entry
<1>8. \A w \in Writers : reading[w] \in (1..Len(lists)) \X (Nat \ {0})
  BY DEF RowsType
<1> QED BY <1>1, <1>2, <1>3, <1>4, <1>5, <1>6, <1>7, <1>8

\* A step that writes no row and leaves every entry as far as it is written
\* keeps what is known of the rows.
LEMMA RowsStay ==
  ASSUME RowsType, WrittenOnce, rows' = rows, OneWriter' => OneWriter,
         \A l \in 1..Len(lists) : \A j \in 1..Len(lists[l]) :
           /\ l \in 1..Len(lists') /\ j \in 1..Len(lists'[l])
           /\ lists'[l][j] = lists[l][j]
           /\ Past(l, j)' <=> Past(l, j),
         \A l \in 1..Len(lists') : \A j \in 1..Len(lists'[l]) :
           Past(l, j)' => l \in 1..Len(lists) /\ j \in 1..Len(lists[l])
  PROVE  WrittenOnce'
<1>1. \A i \in 1..Len(rows) : \E l \in 1..Len(lists') : \E j \in 1..Len(lists'[l]) :
        rows[i] = lists'[l][j] /\ Past(l, j)'
  <2> SUFFICES ASSUME NEW i \in 1..Len(rows)
      PROVE  \E l \in 1..Len(lists') : \E j \in 1..Len(lists'[l]) :
               rows[i] = lists'[l][j] /\ Past(l, j)'
    OBVIOUS
  <2>1. PICK l \in 1..Len(lists) : \E j \in 1..Len(lists[l]) :
               rows[i] = lists[l][j] /\ Past(l, j)
    BY DEF WrittenOnce
  <2>2. PICK j \in 1..Len(lists[l]) : rows[i] = lists[l][j] /\ Past(l, j)
    BY <2>1
  <2>3. /\ l \in 1..Len(lists') /\ j \in 1..Len(lists'[l])
        /\ lists'[l][j] = lists[l][j] /\ Past(l, j)'
    BY <2>2
  <2> QED BY ONLY <2>2, <2>3
<1>2. \A l \in 1..Len(lists') : \A j \in 1..Len(lists'[l]) :
        Past(l, j)' => \E i \in 1..Len(rows) : rows[i] = lists'[l][j]
  <2> SUFFICES ASSUME NEW l \in 1..Len(lists'), NEW j \in 1..Len(lists'[l]), Past(l, j)'
      PROVE  \E i \in 1..Len(rows) : rows[i] = lists'[l][j]
    OBVIOUS
  <2>1. l \in 1..Len(lists) /\ j \in 1..Len(lists[l])
    OBVIOUS
  <2>2. lists'[l][j] = lists[l][j] /\ Past(l, j)
    BY <2>1
  <2> QED BY <2>1, <2>2 DEF WrittenOnce
<1>3. \A i, j \in 1..Len(rows) : rows[i] = rows[j] => i = j
  BY DEF WrittenOnce
<1>4. OneWriter' => \A i \in 1..Len(rows) :
        rows[i][2] = 1 \/ \E j \in 1..(i - 1) : rows[j] = <<rows[i][1], rows[i][2] - 1>>
  BY DEF WrittenOnce
<1>5. rows' = rows
  OBVIOUS
<1> QED BY ONLY <1>1, <1>2, <1>3, <1>4, <1>5 DEF WrittenOnce

\* The same where lists, queue and writers stay, and no list is handed over.
LEMMA PastStays ==
  ASSUME rowQueue' = rowQueue, writer' = writer, reading' = reading,
         NEW l, NEW j, Handed(l)' <=> Handed(l)
  PROVE  Past(l, j)' <=> Past(l, j)
  BY DEF Past, Queued, Reads

\* The entries stay where lists and the numbers of entries do.
LEMMA RecordedStays ==
  ASSUME Recorded, lists' = lists, current' = current,
         \A r \in Recorders : Appended(r)' = Appended(r),
         \A q, r \in Recorders : rec'[q] # "idle" /\ rec'[r] # "idle" => q = r,
         \A r \in Recorders : rec'[r] = "append" => ref'[r] = current /\ entries'[r] # 0
  PROVE  Recorded'
<1>2. \A r \in Recorders : \A l \in 1..Len(lists) : \A i \in 1..Len(lists[l]) :
        lists[l][i][1] = r => lists[l][i][2] \in 1..Appended(r)'
  BY DEF Recorded
<1>3. \A r \in Recorders : \A k \in 1..Appended(r)' :
       \E l \in 1..Len(lists) : \E i \in 1..Len(lists[l]) : lists[l][i] = <<r, k>>
  BY DEF Recorded
<1>4. \A l, m \in 1..Len(lists) : \A i \in 1..Len(lists[l]), j \in 1..Len(lists[m]) :
       lists[l][i][1] = lists[m][j][1] /\ Before(l, i, m, j)
         => lists[l][i][2] < lists[m][j][2]
  BY DEF Recorded
<1>5. \A r \in Recorders : rec'[r] = "append" => ref'[r] = current' /\ entries'[r] # 0
  OBVIOUS
<1>6. /\ lists' = lists
      /\ \A q, r \in Recorders : rec'[q] # "idle" /\ rec'[r] # "idle" => q = r
  OBVIOUS
<1>7. \A r \in Recorders : \A l \in 1..Len(lists') : \A i \in 1..Len(lists'[l]) :
        lists'[l][i][1] = r => lists'[l][i][2] \in 1..Appended(r)'
  BY <1>2, <1>6
<1>8. \A r \in Recorders : \A k \in 1..Appended(r)' :
       \E l \in 1..Len(lists') : \E i \in 1..Len(lists'[l]) : lists'[l][i] = <<r, k>>
  BY <1>3, <1>6
<1>9. \A l, m \in 1..Len(lists') : \A i \in 1..Len(lists'[l]), j \in 1..Len(lists'[m]) :
       lists'[l][i][1] = lists'[m][j][1] /\ Before(l, i, m, j)
         => lists'[l][i][2] < lists'[m][j][2]
  BY <1>4, <1>6
<1> QED BY ONLY <1>5, <1>6, <1>7, <1>8, <1>9 DEF Recorded, Before
\* What is handed over stays so where the queue, the writers and the number of
\* lists do.
LEMMA HandedStays ==
  ASSUME RowsType, HandedOnce, rowQueue' = rowQueue, writer' = writer, reading' = reading,
         Len(lists') \in Nat, Len(lists) <= Len(lists'),
         \A l \in 1..Len(lists') : Handed(l)' <=> Handed(l)
  PROVE  HandedOnce'
<1>1. /\ \A l : Queued(l)' <=> Queued(l)
      /\ \A w, l : Reads(w, l)' <=> Reads(w, l)
      /\ rowQueue' = rowQueue
  BY DEF Queued, Reads
<1>2. /\ \A l : Queued(l) /\ l \in 1..Len(lists') => l \in 1..Len(lists)
      /\ \A w \in Writers : \A l : Reads(w, l) => l \in 1..Len(lists)
  <2>1. \A i \in 1..Len(rowQueue) : rowQueue[i] \in 0..Len(lists)
    BY RowsFacts
  <2>2. \A w \in Writers : reading[w][1] \in 1..Len(lists)
    BY RowsFacts
  <2> QED BY <2>1, <2>2 DEF Queued, Reads
<1>3. \A l \in 1..Len(lists') : Queued(l) => Handed(l)'
  BY <1>2 DEF HandedOnce
<1>4. \A w \in Writers : \A l \in 1..Len(lists') : Reads(w, l) =>
       /\ Handed(l)'
       /\ \A m \in 1..Len(lists') : Queued(m) => l < m
       /\ \A v \in Writers : Reads(v, l) => v = w
  BY <1>2 DEF HandedOnce
<1>5. \A i, j \in 1..Len(rowQueue) :
       i < j /\ rowQueue[i] # EndMark /\ rowQueue[j] # EndMark => rowQueue[i] < rowQueue[j]
  BY DEF HandedOnce
<1> QED BY ONLY <1>1, <1>3, <1>4, <1>5 DEF HandedOnce

-----------------------------------------------------------------------------
LEMMA SeqOfMore ==
  ASSUME NEW S, NEW T, S \subseteq T, NEW q \in Seq(S)
  PROVE  q \in Seq(T)
<1>1. q = [i \in 1..Len(q) |-> q[i]] /\ Len(q) \in Nat
  OBVIOUS
<1>2. \A i \in 1..Len(q) : q[i] \in T
  OBVIOUS
<1>3. [i \in 1..Len(q) |-> q[i]] \in Seq(T)
  BY <1>1, <1>2
<1> QED BY <1>1, <1>3

LEMMA HeadAndTail ==
  ASSUME NEW S, NEW q \in Seq(S), q # <<>>
  PROVE  /\ Tail(q) \in Seq(S) /\ Head(q) \in S /\ Head(q) = q[1]
         /\ Len(q) \in Nat \ {0} /\ Len(Tail(q)) = Len(q) - 1
         /\ \A i \in 1..Len(Tail(q)) : i + 1 \in 1..Len(q) /\ Tail(q)[i] = q[i + 1]
  OBVIOUS

\* The types, step by step.
LEMMA RowsTypeStep ==
  ASSUME TelemetryAssumption, RowsType,
         \/ \E r \in Recorders : RecBegin(r) \/ RecStep(r)
         \/ ManagerStart \/ ManagerStop \/ ManagerJoined
         \/ \E w \in Writers : WriterStep(w)
  PROVE  RowsType'
<1> USE DEF RowsType
<1> MaxWriters \in Nat /\ Writers = 1..MaxWriters
  BY DEF TelemetryAssumption, Writers
<1>1. ASSUME NEW r \in Recorders, RecBegin(r)  PROVE RowsType'
  <2>1. /\ rec' = [rec EXCEPT ![r] = "append"] /\ entries' = [entries EXCEPT ![r] = @ + 1]
        /\ ref' = [ref EXCEPT ![r] = current]
        /\ UNCHANGED <<lists, current, rowQueue, writer, reading, latest, rows>>
    BY <1>1 DEF RecBegin
  <2>2. rec' \in [Recorders -> {"idle", "append", "test", "hand", "renew"}]
    BY <2>1
  <2>3. entries' \in [Recorders -> Nat]
    <3>1. entries \in [Recorders -> Nat]
      OBVIOUS
    <3>2. entries[r] + 1 \in Nat
      BY ONLY <3>1
    <3> QED BY ONLY <2>1, <3>1, <3>2
  <2>4. ref' \in [Recorders -> 1..Len(lists)]
    <3>1. current \in 1..Len(lists)
      OBVIOUS
    <3> QED BY <2>1, <3>1
  <2>5. mixed' \in BOOLEAN
    BY <1>1 DEF RecBegin
  <2> QED BY <2>1, <2>2, <2>3, <2>4, <2>5
<1>2. ASSUME NEW r \in Recorders, RecAppend(r)  PROVE RowsType'
  <2> DEFINE l == ref[r]
             e == <<r, entries[r]>>
  <2>1. /\ l \in 1..Len(lists) /\ lists[l] \in Seq(Entry) /\ e \in Entry
        /\ lists' = [lists EXCEPT ![l] = Append(lists[l], e)]
        /\ rec' = [rec EXCEPT ![r] = "test"]
        /\ UNCHANGED <<entries, current, ref, rowQueue, writer, reading, latest,
                       mixed, rows>>
    BY <1>2 DEF RecAppend, Entry
  <2>2. lists' \in Seq(Seq(Entry)) /\ Len(lists') = Len(lists)
    <3> HIDE DEF l, e
    <3>1. Append(lists[l], e) \in Seq(Entry)
      BY <2>1
    <3> QED BY <2>1, <3>1
  <2> HIDE DEF l, e
  <2> QED BY <2>1, <2>2
<1>3. ASSUME NEW r \in Recorders, RecTest(r)  PROVE RowsType'
  BY <1>3 DEF RecTest
<1>4. ASSUME NEW r \in Recorders, RecHand(r)  PROVE RowsType'
  <2>1. rowQueue' \in Seq(0..Len(lists))
    BY <1>4 DEF RecHand
  <2> QED BY <1>4, <2>1 DEF RecHand
<1>5. ASSUME NEW r \in Recorders, RecRenew(r)  PROVE RowsType'
  <2>1. /\ lists' \in Seq(Seq(Entry)) /\ Len(lists') = Len(lists) + 1
        /\ Len(lists) \in Nat
    BY <1>5 DEF RecRenew
  <2>2. rowQueue \in Seq(0..Len(lists'))
    <3>1. 0..Len(lists) \subseteq 0..Len(lists')
      BY <2>1
    <3> QED BY <3>1, SeqOfMore
  <2>3. /\ ref \in [Recorders -> 1..Len(lists')]
        /\ reading \in [Writers -> (1..Len(lists')) \X (Nat \ {0})]
    <3>1. 1..Len(lists) \subseteq 1..Len(lists')
      BY <2>1
    <3>2. \A r2 \in Recorders : ref[r2] \in 1..Len(lists')
      BY <3>1
    <3>3. \A w \in Writers : reading[w] \in (1..Len(lists')) \X (Nat \ {0})
      BY <3>1
    <3> QED BY <3>2, <3>3
  <2>4. /\ current' = Len(lists') /\ rec' = [rec EXCEPT ![r] = "idle"]
        /\ UNCHANGED <<entries, ref, rowQueue, writer, reading, latest, mixed, rows>>
    BY <1>5 DEF RecRenew
  <2>5. current' # 0
    BY ONLY <2>1, <2>4
  <2>6. rec' \in [Recorders -> {"idle", "append", "test", "hand", "renew"}]
    BY <2>4
  <2> QED BY <2>1, <2>2, <2>3, <2>4, <2>5, <2>6
<1>6. ASSUME ManagerStart  PROVE RowsType'
  BY <1>6 DEF ManagerStart
<1>7. ASSUME ManagerStop  PROVE RowsType'
  <2>1. rowQueue' \in Seq(0..Len(lists))
    BY <1>7 DEF ManagerStop, EndMark
  <2> QED BY <1>7, <2>1 DEF ManagerStop
<1>8. ASSUME ManagerJoined  PROVE RowsType'
  BY <1>8 DEF ManagerJoined
<1>9. ASSUME NEW w \in Writers, WriterGet(w)  PROVE RowsType'
  <2>0. /\ rowQueue # <<>> /\ rowQueue' = Tail(rowQueue) /\ writer[w] = "read"
        /\ UNCHANGED <<rec, entries, lists, current, ref, latest, mixed, rows>>
    BY <1>9 DEF WriterGet
  <2>1. rowQueue' \in Seq(0..Len(lists)) /\ Head(rowQueue) \in 0..Len(lists)
    <3> DEFINE S == 0..Len(lists)
    <3>1. rowQueue \in Seq(S)
      OBVIOUS
    <3> HIDE DEF S
    <3>2. Tail(rowQueue) \in Seq(S) /\ Head(rowQueue) \in S
      BY ONLY <2>0, <3>1, HeadAndTail
    <3> QED BY <2>0, <3>2 DEF S
  <2>2. CASE Head(rowQueue) = EndMark
    <3>1. writer' = [writer EXCEPT ![w] = "over"] /\ reading' = reading
      BY <1>9, <2>2 DEF WriterGet
    <3>2. writer' \in [Writers -> {"none", "read", "write", "over"}]
      BY <3>1
    <3>3. \A v \in Writers : v > latest => writer'[v] = "none"
      BY <2>0, <3>1
    <3> QED BY <2>0, <2>1, <3>1, <3>2, <3>3
  <2>3. CASE Head(rowQueue) # EndMark
    <3>1. Head(rowQueue) \in 1..Len(lists)
      BY <2>1, <2>3 DEF EndMark
    <3>2. <<Head(rowQueue), 1>> \in (1..Len(lists)) \X (Nat \ {0})
      BY ONLY <3>1
    <3>3. /\ writer' = [writer EXCEPT ![w] = "write"]
          /\ reading' = [reading EXCEPT ![w] = <<Head(rowQueue), 1>>]
      BY <1>9, <2>3 DEF WriterGet
    <3>4. reading' \in [Writers -> (1..Len(lists)) \X (Nat \ {0})]
      BY <3>2, <3>3
    <3> QED BY <2>0, <2>1, <3>3, <3>4
  <2> QED BY <2>2, <2>3
<1>10. ASSUME NEW w \in Writers, WriterRow(w)  PROVE RowsType'
  <2> DEFINE l == reading[w][1]
             n == reading[w][2]
  <2>1. l \in 1..Len(lists) /\ n \in Nat \ {0} /\ lists[l] \in Seq(Entry)
    BY RowsFacts
  <2>2. CASE n <= Len(lists[l])
    <3>1. lists[l][n] \in Entry
      <4>1. n \in 1..Len(lists[l])
        BY ONLY <2>1, <2>2
      <4> QED BY ONLY <2>1, <4>1
    <3>2. <<l, n + 1>> \in (1..Len(lists)) \X (Nat \ {0})
      <4>1. n + 1 \in Nat \ {0}
        BY ONLY <2>1
      <4> QED BY ONLY <2>1, <4>1
    <3>3. /\ rows' = Append(rows, lists[l][n])
          /\ reading' = [reading EXCEPT ![w] = <<l, n + 1>>]
          /\ UNCHANGED <<rec, entries, lists, current, ref, rowQueue, writer, latest, mixed>>
      BY <1>10, <2>2 DEF WriterRow
    <3> HIDE DEF l, n
    <3>4. rows' \in Seq(Entry)
      BY <3>1, <3>3
    <3>5. reading' \in [Writers -> (1..Len(lists)) \X (Nat \ {0})]
      BY <3>2, <3>3
    <3> QED BY <3>3, <3>4, <3>5
  <2>3. CASE ~(n <= Len(lists[l]))
    <3>1. /\ writer' = [writer EXCEPT ![w] = "read"] /\ writer[w] = "write"
          /\ UNCHANGED <<rec, entries, lists, current, ref, rowQueue, reading, latest,
                         mixed, rows>>
      BY <1>10, <2>3 DEF WriterRow
    <3> QED BY <3>1
  <2> QED BY <2>2, <2>3
<1> QED
  BY <1>1, <1>2, <1>3, <1>4, <1>5, <1>6, <1>7, <1>8, <1>9, <1>10 DEF RecStep, WriterStep

-----------------------------------------------------------------------------
\* A thread that records is in the list that is not handed over yet, but before
\* it makes the next one.
LEMMA BeginRows ==
  ASSUME RowsType, Recorded, HandedOnce, WrittenOnce,
         NEW r \in Recorders, RecBegin(r), ~mixed'
  PROVE  Recorded' /\ HandedOnce' /\ WrittenOnce'
<1>1. /\ \A q \in Recorders : rec[q] = "idle"
      /\ rec' = [rec EXCEPT ![r] = "append"] /\ entries' = [entries EXCEPT ![r] = @ + 1]
      /\ ref' = [ref EXCEPT ![r] = current]
      /\ UNCHANGED <<lists, current, rowQueue, writer, reading, rows>>
      /\ rec \in [Recorders -> {"idle", "append", "test", "hand", "renew"}]
      /\ entries \in [Recorders -> Nat] /\ ref \in [Recorders -> 1..Len(lists)]
  BY DEF RecBegin, RowsType
<1>2. \A q \in Recorders : /\ rec'[q] = IF q = r THEN "append" ELSE "idle"
                           /\ entries'[q] = IF q = r THEN entries[q] + 1 ELSE entries[q]
                           /\ ref'[q] = IF q = r THEN current ELSE ref[q]
                           /\ entries[q] \in Nat
  BY <1>1
<1>3. \A q \in Recorders : Appended(q)' = Appended(q)
  BY <1>1, <1>2 DEF Appended
<1>4. Recorded'
  <2>1. \A q, p \in Recorders : rec'[q] # "idle" /\ rec'[p] # "idle" => q = p
    BY <1>2
  <2>2. \A q \in Recorders : rec'[q] = "append" => ref'[q] = current /\ entries'[q] # 0
    BY <1>2
  <2> QED BY <1>1, <1>3, <2>1, <2>2, RecordedStays
<1>5. \A l : Handed(l)' <=> Handed(l)
  BY <1>1, <1>2 DEF Handed
<1>6. HandedOnce'
  <2>1. Len(lists) \in Nat /\ lists' = lists
    BY <1>1, RowsFacts
  <2>2. Len(lists') \in Nat /\ Len(lists) <= Len(lists')
    BY <2>1
  <2> QED BY <1>1, <1>5, <2>2, HandedStays
<1>7. WrittenOnce'
  <2>1. \A l, j : Past(l, j)' <=> Past(l, j)
    BY <1>1, <1>5, PastStays
  <2>2. OneWriter' => OneWriter
    BY <1>1 DEF OneWriter
  <2> QED BY <1>1, <2>1, <2>2, RowsStay
<1> QED BY <1>4, <1>6, <1>7

LEMMA AppendRows ==
  ASSUME RowsType, Recorded, HandedOnce, WrittenOnce, NEW r \in Recorders, RecAppend(r)
  PROVE  Recorded' /\ HandedOnce' /\ WrittenOnce'
<1> DEFINE c == current
           k == entries[r]
           n == Len(lists[current]) + 1
<1>1. /\ c \in 1..Len(lists) /\ c = Len(lists) /\ k \in Nat \ {0} /\ n \in Nat \ {0}
      /\ Len(lists) \in Nat /\ lists \in Seq(Seq(Entry)) /\ lists[c] \in Seq(Entry)
      /\ rec[r] = "append" /\ rec' = [rec EXCEPT ![r] = "test"]
      /\ lists' = [lists EXCEPT ![c] = Append(lists[c], <<r, k>>)]
      /\ UNCHANGED <<entries, current, ref, rowQueue, writer, reading, rows>>
      /\ rec \in [Recorders -> {"idle", "append", "test", "hand", "renew"}]
      /\ entries \in [Recorders -> Nat]
  <2>1. rec[r] = "append" /\ ref[r] = current /\ entries[r] # 0
    BY DEF RecAppend, Recorded
  <2>2. /\ c \in 1..Len(lists) /\ c = Len(lists) /\ k \in Nat /\ Len(lists) \in Nat
        /\ lists \in Seq(Seq(Entry))
    BY DEF RowsType
  <2>3. lists[c] \in Seq(Entry)
    BY <2>2
  <2>4. n \in Nat \ {0}
    BY <2>3
  <2> QED BY <2>1, <2>2, <2>3, <2>4 DEF RecAppend, RowsType
<1>2. /\ \A l \in 1..Len(lists) : l # c => lists'[l] = lists[l]
      /\ Len(lists'[c]) = n /\ lists'[c][n] = <<r, k>> /\ Len(lists') = Len(lists)
      /\ \A i \in 1..Len(lists[c]) : i \in 1..n /\ i < n /\ lists'[c][i] = lists[c][i]
      /\ n = Len(lists[c]) + 1 /\ Len(lists[c]) \in Nat
  <2> DEFINE q == Append(lists[c], <<r, k>>)
  <2>1. /\ Len(q) = Len(lists[c]) + 1 /\ q[n] = <<r, k>> /\ Len(lists[c]) \in Nat
        /\ \A i \in 1..Len(lists[c]) : q[i] = lists[c][i]
    BY <1>1
  <2>2. lists'[c] = q /\ Len(lists') = Len(lists)
    BY <1>1
  <2>3. \A l \in 1..Len(lists) : l # c => lists'[l] = lists[l]
    BY <1>1
  <2> HIDE DEF q
  <2> QED BY <1>1, <2>1, <2>2, <2>3
<1> HIDE DEF c, k, n
\* The entries are those there were and the new one.
<1>3. \A l \in 1..Len(lists) : \A i \in 1..Len(lists'[l]) :
        \/ i \in 1..Len(lists[l]) /\ lists'[l][i] = lists[l][i]
        \/ l = c /\ i = n /\ lists'[l][i] = <<r, k>> /\ i \notin 1..Len(lists[l])
  BY <1>1, <1>2
<1>4. \A l \in 1..Len(lists) : \A i \in 1..Len(lists[l]) :
        i \in 1..Len(lists'[l]) /\ lists'[l][i] = lists[l][i]
  BY <1>1, <1>2
<1>5. \A q \in Recorders : q # r => rec[q] = "idle"
  BY <1>1 DEF Recorded
<1>6. \A q \in Recorders : rec'[q] = IF q = r THEN "test" ELSE "idle"
  BY <1>1, <1>5
<1>7. /\ k \in Nat \ {0} /\ Appended(r) = k - 1
      /\ \A q \in Recorders : /\ Appended(q) \in Nat
                             /\ Appended(q)' = IF q = r THEN k ELSE Appended(q)
  <2>1. /\ k = entries[r] /\ k \in Nat \ {0} /\ rec[r] = "append" /\ entries' = entries
        /\ \A q \in Recorders : entries[q] \in Nat
    BY <1>1 DEF k
  <2>2. Appended(r) = k - 1 /\ k - 1 \in Nat
    BY <2>1 DEF Appended
  <2>3. \A q \in Recorders : Appended(q)' = IF q = r THEN k ELSE Appended(q)
    BY <2>1, <1>5, <1>6 DEF Appended
  <2>4. \A q \in Recorders : q # r => Appended(q) \in Nat
    BY <2>1, <1>5 DEF Appended
  <2> QED BY <2>1, <2>2, <2>3, <2>4
<1>8. Recorded'
  <2>1. \A q, p \in Recorders : rec'[q] # "idle" /\ rec'[p] # "idle" => q = p
    BY <1>6
  <2>2. \A q \in Recorders : rec'[q] # "append"
    BY <1>6
  <2>3. ASSUME NEW l \in 1..Len(lists), NEW m \in 1..Len(lists),
               NEW i \in 1..Len(lists'[l]), NEW j \in 1..Len(lists'[m]),
               lists'[l][i][1] = lists'[m][j][1], Before(l, i, m, j)
        PROVE  lists'[l][i][2] < lists'[m][j][2]
    <3>1. i \in 1..Len(lists[l]) /\ lists'[l][i] = lists[l][i]
      <4>1. SUFFICES ASSUME l = c, i = n PROVE FALSE
        BY <1>3
      <4>2. l = m /\ n < j
        BY <1>1, <2>3, <4>1 DEF Before
      <4> QED BY <1>1, <1>2, <4>1, <4>2
    <3>2. CASE j \in 1..Len(lists[m]) /\ lists'[m][j] = lists[m][j]
      BY <2>3, <3>1, <3>2 DEF Recorded
    <3>3. CASE lists'[m][j] = <<r, k>>
      <4>1. lists[l][i][1] = r
        BY <2>3, <3>1, <3>3
      <4>2. lists[l][i][2] \in 1..Appended(r)
        BY <3>1, <4>1 DEF Recorded
      <4>3. lists[l][i][2] < k
        BY <1>7, <4>2
      <4> QED BY <3>1, <3>3, <4>3
    <3> QED BY <1>3, <3>2, <3>3
  <2>4. ASSUME NEW q \in Recorders, NEW l \in 1..Len(lists), NEW i \in 1..Len(lists'[l]),
               lists'[l][i][1] = q
        PROVE  lists'[l][i][2] \in 1..Appended(q)'
    <3>1. CASE i \in 1..Len(lists[l]) /\ lists'[l][i] = lists[l][i]
      <4>1. lists'[l][i][2] \in 1..Appended(q)
        <5>1. lists[l][i][1] = q /\ i \in 1..Len(lists[l])
          BY <2>4, <3>1
        <5> QED BY <3>1, <5>1 DEF Recorded
      <4>2. Appended(q)' = Appended(q) \/ (Appended(q) = k - 1 /\ Appended(q)' = k)
        BY <1>7
      <4>3. Appended(q) \in Nat /\ k \in Nat
        BY <1>7
      <4>4. 1..Appended(q) \subseteq 1..Appended(q)'
        BY ONLY <4>2, <4>3
      <4> QED BY ONLY <4>1, <4>4
    <3>2. CASE lists'[l][i] = <<r, k>>
      <4>1. q = r /\ lists'[l][i][2] = k
        BY <2>4, <3>2
      <4> QED BY <1>7, <4>1
    <3> QED BY <1>3, <3>1, <3>2
  <2>5. ASSUME NEW q \in Recorders, NEW v \in 1..Appended(q)'
        PROVE  \E l \in 1..Len(lists) : \E i \in 1..Len(lists'[l]) : lists'[l][i] = <<q, v>>
    <3>1. CASE v \in 1..Appended(q)
      <4>1. PICK l \in 1..Len(lists) : \E i \in 1..Len(lists[l]) : lists[l][i] = <<q, v>>
        BY <3>1 DEF Recorded
      <4> QED BY <1>4, <4>1
    <3>2. CASE v \notin 1..Appended(q)
      <4>1. q = r /\ v = k
        BY <1>7, <3>2
      <4>2. n \in 1..Len(lists'[c])
        BY <1>1, <1>2
      <4>3. c \in 1..Len(lists) /\ lists'[c][n] = <<q, v>>
        BY <1>1, <1>2, <4>1
      <4> QED BY ONLY <4>2, <4>3
    <3> QED BY <3>1, <3>2
  <2>6. Len(lists') = Len(lists)
    BY <1>2
  <2> QED BY ONLY <2>1, <2>2, <2>3, <2>4, <2>5, <2>6 DEF Recorded, Before
<1>9. \A l : Handed(l)' <=> Handed(l)
  BY <1>1, <1>5, <1>6 DEF Handed
<1>10. HandedOnce'
  BY <1>1, <1>2, <1>9, HandedStays
<1>11. WrittenOnce'
  <2>1. \A l, j : Past(l, j)' <=> Past(l, j)
    BY <1>1, <1>9, PastStays
  <2>2. OneWriter' => OneWriter
    BY <1>1 DEF OneWriter
  <2>3. ~Handed(c)
    <3>1. c = current /\ c \in Nat /\ \A q \in Recorders : rec[q] # "renew"
      BY <1>1, <1>5 DEF c
    <3> QED BY <3>1 DEF Handed
  <2>4. \A l \in 1..Len(lists') : \A j \in 1..Len(lists'[l]) :
          Past(l, j)' => l \in 1..Len(lists) /\ j \in 1..Len(lists[l])
    <3> SUFFICES ASSUME NEW l \in 1..Len(lists'), NEW j \in 1..Len(lists'[l]), Past(l, j)'
        PROVE  l \in 1..Len(lists) /\ j \in 1..Len(lists[l])
      OBVIOUS
    <3>1. l \in 1..Len(lists) /\ Past(l, j)
      BY <1>2, <2>1
    <3>2. l # c
      BY <2>3, <3>1 DEF Past
    <3> QED BY <1>3, <3>1, <3>2
  <2>5. \A l \in 1..Len(lists) : \A j \in 1..Len(lists[l]) :
          l \in 1..Len(lists') /\ j \in 1..Len(lists'[l]) /\ lists'[l][j] = lists[l][j]
    BY <1>2, <1>4
  <2>6. rows' = rows
    BY <1>1
  <2> QED BY ONLY RowsType, WrittenOnce, <2>1, <2>2, <2>4, <2>5, <2>6, RowsStay
<1> QED BY <1>8, <1>10, <1>11

LEMMA TestRows ==
  ASSUME RowsType, Recorded, HandedOnce, WrittenOnce, NEW r \in Recorders, RecTest(r)
  PROVE  Recorded' /\ HandedOnce' /\ WrittenOnce'
<1>1. /\ rec[r] = "test"
      /\ rec' = [rec EXCEPT ![r] = "hand"] \/ rec' = [rec EXCEPT ![r] = "idle"]
      /\ UNCHANGED <<entries, lists, current, ref, rowQueue, writer, reading, rows>>
      /\ rec \in [Recorders -> {"idle", "append", "test", "hand", "renew"}]
  BY DEF RecTest, RowsType
<1>2. \A q \in Recorders : q # r => rec[q] = "idle"
  BY <1>1 DEF Recorded
<1>3. /\ \A q \in Recorders : rec'[q] # "append" /\ rec'[q] # "renew" /\ rec[q] # "renew"
      /\ \A q \in Recorders : rec[q] # "append"
      /\ \A q \in Recorders : q # r => rec'[q] = "idle"
  BY <1>1, <1>2
<1>4. \A q \in Recorders : Appended(q)' = Appended(q)
  BY <1>1, <1>3 DEF Appended
<1>5. Recorded'
  BY <1>1, <1>3, <1>4, RecordedStays
<1>6. \A l : Handed(l)' <=> Handed(l)
  BY <1>1, <1>3 DEF Handed
<1>7. HandedOnce'
  <2>1. Len(lists) \in Nat /\ lists' = lists
    BY <1>1, RowsFacts
  <2>2. Len(lists') \in Nat /\ Len(lists) <= Len(lists')
    BY <2>1
  <2> QED BY <1>1, <1>6, <2>2, HandedStays
<1>8. WrittenOnce'
  <2>1. \A l, j : Past(l, j)' <=> Past(l, j)
    BY <1>1, <1>6, PastStays
  <2>2. OneWriter' => OneWriter
    BY <1>1 DEF OneWriter
  <2> QED BY <1>1, <2>1, <2>2, RowsStay
<1> QED BY <1>5, <1>7, <1>8

\* Whoever puts a mark or a list behind those in the queue.
LEMMA QueueMore ==
  ASSUME RowsType, HandedOnce, NEW x \in 0..Len(lists), rowQueue' = Append(rowQueue, x),
         lists' = lists, writer' = writer, reading' = reading,
         \A l \in 1..Len(lists) : Handed(l) => Handed(l)',
         x # EndMark => Handed(x)' /\ \A l \in 1..Len(lists) : Handed(l) => l < x
  PROVE  /\ HandedOnce'
         /\ \A l : Queued(l)' <=> Queued(l) \/ l = x
         /\ \A w, l : Reads(w, l)' <=> Reads(w, l)
<1>1. /\ Len(rowQueue') = Len(rowQueue) + 1 /\ Len(rowQueue) \in Nat
      /\ rowQueue'[Len(rowQueue) + 1] = x
      /\ \A i \in 1..Len(rowQueue) : rowQueue'[i] = rowQueue[i]
  BY DEF RowsType
<1>2. \A i \in 1..Len(rowQueue') :
        \/ i \in 1..Len(rowQueue) /\ rowQueue'[i] = rowQueue[i]
        \/ i = Len(rowQueue) + 1 /\ rowQueue'[i] = x
  BY <1>1
<1>3. \A l : Queued(l)' <=> Queued(l) \/ l = x
  BY <1>1, <1>2 DEF Queued
<1>4. \A i \in 1..Len(rowQueue) : rowQueue[i] # EndMark =>
        rowQueue[i] \in 1..Len(lists) /\ Handed(rowQueue[i])
  <2>1. \A i \in 1..Len(rowQueue) : rowQueue[i] # EndMark => rowQueue[i] \in 1..Len(lists)
    BY RowsFacts DEF EndMark
  <2> QED BY <2>1 DEF HandedOnce, Queued
<1>5. \A l \in 1..Len(lists) : Queued(l)' => Handed(l)'
  BY <1>3 DEF HandedOnce, EndMark
<1>6. \A i, j \in 1..Len(rowQueue') :
        i < j /\ rowQueue'[i] # EndMark /\ rowQueue'[j] # EndMark
          => rowQueue'[i] < rowQueue'[j]
  <2> SUFFICES ASSUME NEW i \in 1..Len(rowQueue'), NEW j \in 1..Len(rowQueue'),
                      i < j, rowQueue'[i] # EndMark, rowQueue'[j] # EndMark
      PROVE  rowQueue'[i] < rowQueue'[j]
    OBVIOUS
  <2>1. i \in 1..Len(rowQueue) /\ rowQueue'[i] = rowQueue[i]
    BY <1>1, <1>2
  <2>2. CASE j \in 1..Len(rowQueue) /\ rowQueue'[j] = rowQueue[j]
    BY <2>1, <2>2 DEF HandedOnce
  <2>3. CASE rowQueue'[j] = x
    BY <1>4, <2>1, <2>3
  <2> QED BY <1>2, <2>2, <2>3
<1>7. \A w, l : Reads(w, l)' <=> Reads(w, l)
  BY DEF Reads
<1>8. \A w \in Writers : \A l \in 1..Len(lists) : Reads(w, l) =>
        /\ Handed(l)'
        /\ \A m \in 1..Len(lists) : Queued(m)' => l < m
        /\ \A v \in Writers : Reads(v, l) => v = w
  <2> SUFFICES ASSUME NEW w \in Writers, NEW l \in 1..Len(lists), Reads(w, l)
      PROVE  /\ Handed(l)'
             /\ \A m \in 1..Len(lists) : Queued(m)' => l < m
             /\ \A v \in Writers : Reads(v, l) => v = w
    OBVIOUS
  <2>1. /\ Handed(l)
        /\ \A m \in 1..Len(lists) : Queued(m) => l < m
        /\ \A v \in Writers : Reads(v, l) => v = w
    BY DEF HandedOnce
  <2>2. x # EndMark => l < x
    BY <2>1
  <2> QED BY <1>3, <2>1, <2>2 DEF EndMark
<1>9. lists' = lists
  OBVIOUS
<1>10. HandedOnce'
  BY ONLY <1>5, <1>6, <1>7, <1>8, <1>9 DEF HandedOnce
<1> QED BY <1>3, <1>7, <1>10

LEMMA HandRows ==
  ASSUME RowsType, Recorded, HandedOnce, WrittenOnce, NEW r \in Recorders, RecHand(r)
  PROVE  Recorded' /\ HandedOnce' /\ WrittenOnce'
<1>1. /\ rec[r] = "hand" /\ rec' = [rec EXCEPT ![r] = "renew"]
      /\ rowQueue' = Append(rowQueue, current)
      /\ UNCHANGED <<entries, lists, current, ref, writer, reading, rows>>
      /\ rec \in [Recorders -> {"idle", "append", "test", "hand", "renew"}]
      /\ current \in 1..Len(lists)
  BY DEF RecHand, RowsType
<1>2. \A q \in Recorders : q # r => rec[q] = "idle"
  BY <1>1 DEF Recorded
<1>3. /\ \A q \in Recorders : rec[q] # "append" /\ rec[q] # "renew"
      /\ \A q \in Recorders : rec'[q] = IF q = r THEN "renew" ELSE "idle"
  BY <1>1, <1>2
<1>4. \A q \in Recorders : Appended(q)' = Appended(q)
  BY <1>1, <1>3 DEF Appended
<1>5. Recorded'
  BY <1>1, <1>3, <1>4, RecordedStays
<1>6. \A l \in 1..Len(lists) : /\ Handed(l)' <=> Handed(l) \/ l = current
                               /\ Handed(l) => l < current
  BY <1>1, <1>3 DEF Handed
<1>7. /\ HandedOnce'
      /\ \A l : Queued(l)' <=> Queued(l) \/ l = current
      /\ \A w, l : Reads(w, l)' <=> Reads(w, l)
  <2>1. Handed(current)'
    <3>1. current' = current /\ \E q \in Recorders : rec'[q] = "renew"
      BY <1>1, <1>3
    <3> QED BY <3>1 DEF Handed
  <2> QED BY <1>1, <1>6, <2>1, QueueMore
<1>8. \A l \in 1..Len(lists) : \A j : Past(l, j)' <=> Past(l, j)
  <2> SUFFICES ASSUME NEW l \in 1..Len(lists), NEW j
      PROVE  Past(l, j)' <=> Past(l, j)
    OBVIOUS
  <2>1. CASE l = current
    <3>1. ~Handed(l) /\ Queued(l)'
      BY <1>1, <1>6, <1>7, <2>1
    <3> QED BY <3>1 DEF Past
  <2>2. CASE l # current
    <3>1. (Handed(l)' <=> Handed(l)) /\ (Queued(l)' <=> Queued(l)) /\ reading' = reading
      BY <1>1, <1>6, <1>7, <2>2
    <3> QED BY <1>7, <3>1 DEF Past
  <2> QED BY <2>1, <2>2
<1>9. WrittenOnce'
  <2>1. OneWriter' => OneWriter
    BY <1>1 DEF OneWriter
  <2> QED BY <1>1, <1>8, <2>1, RowsStay
<1> QED BY <1>5, <1>7, <1>9

LEMMA RenewRows ==
  ASSUME RowsType, Recorded, HandedOnce, WrittenOnce, NEW r \in Recorders, RecRenew(r)
  PROVE  Recorded' /\ HandedOnce' /\ WrittenOnce'
<1>1. /\ rec[r] = "renew" /\ rec' = [rec EXCEPT ![r] = "idle"]
      /\ lists' = Append(lists, <<>>) /\ current' = Len(lists')
      /\ UNCHANGED <<entries, ref, rowQueue, writer, reading, rows>>
      /\ rec \in [Recorders -> {"idle", "append", "test", "hand", "renew"}]
      /\ lists \in Seq(Seq(Entry)) /\ current = Len(lists)
  BY DEF RecRenew, RowsType
<1>2. /\ Len(lists) \in Nat /\ Len(lists') = Len(lists) + 1 /\ current' = current + 1
      /\ Len(lists'[current']) = 0
      /\ \A l \in 1..Len(lists) : lists'[l] = lists[l]
  BY <1>1
<1>3. \A q \in Recorders : q # r => rec[q] = "idle"
  BY <1>1 DEF Recorded
<1>4. \A q \in Recorders : rec'[q] = "idle" /\ rec[q] # "append"
  BY <1>1, <1>3
<1>5. \A q \in Recorders : Appended(q)' = Appended(q)
  BY <1>1, <1>4 DEF Appended
<1>6. \A l \in 1..Len(lists') : \A i \in 1..Len(lists'[l]) :
        l \in 1..Len(lists) /\ lists'[l] = lists[l]
  BY <1>1, <1>2
<1>7. \A l \in 1..Len(lists) : l \in 1..Len(lists')
  BY <1>2
<1>8. Recorded'
  <2>1. \A q, p \in Recorders : rec'[q] # "idle" /\ rec'[p] # "idle" => q = p
    BY <1>4
  <2>2. \A q \in Recorders : rec'[q] # "append"
    BY <1>4
  <2>3. \A l, m \in 1..Len(lists') : \A i \in 1..Len(lists'[l]), j \in 1..Len(lists'[m]) :
          lists'[l][i][1] = lists'[m][j][1] /\ Before(l, i, m, j)
            => lists'[l][i][2] < lists'[m][j][2]
    <3> SUFFICES ASSUME NEW l \in 1..Len(lists'), NEW m \in 1..Len(lists'),
                        NEW i \in 1..Len(lists'[l]), NEW j \in 1..Len(lists'[m]),
                        lists'[l][i][1] = lists'[m][j][1], Before(l, i, m, j)
        PROVE  lists'[l][i][2] < lists'[m][j][2]
      OBVIOUS
    <3>1. /\ l \in 1..Len(lists) /\ lists'[l] = lists[l]
          /\ m \in 1..Len(lists) /\ lists'[m] = lists[m]
      BY <1>6
    <3> QED BY <3>1 DEF Recorded
  <2>4. \A q \in Recorders : \A l \in 1..Len(lists') : \A i \in 1..Len(lists'[l]) :
          lists'[l][i][1] = q => lists'[l][i][2] \in 1..Appended(q)'
    BY <1>5, <1>6 DEF Recorded
  <2>5. \A q \in Recorders : \A v \in 1..Appended(q)' :
          \E l \in 1..Len(lists') : \E i \in 1..Len(lists'[l]) : lists'[l][i] = <<q, v>>
    <3> SUFFICES ASSUME NEW q \in Recorders, NEW v \in 1..Appended(q)'
        PROVE  \E l \in 1..Len(lists') : \E i \in 1..Len(lists'[l]) : lists'[l][i] = <<q, v>>
      OBVIOUS
    <3>1. PICK l \in 1..Len(lists) : \E i \in 1..Len(lists[l]) : lists[l][i] = <<q, v>>
      BY <1>5 DEF Recorded
    <3>2. l \in 1..Len(lists') /\ lists'[l] = lists[l]
      BY <1>2, <1>7
    <3> QED BY <3>1, <3>2
  <2> QED BY ONLY <2>1, <2>2, <2>3, <2>4, <2>5 DEF Recorded, Before
<1>9. \A l \in 1..Len(lists') : Handed(l)' <=> Handed(l)
  <2>1. \A l \in 1..Len(lists') : Handed(l) <=> l <= current
    BY <1>1, <1>2 DEF Handed
  <2>2. \A l \in 1..Len(lists') : Handed(l)' <=> l < current + 1
    BY <1>2, <1>4 DEF Handed
  <2> QED BY <1>1, <1>2, <2>1, <2>2
<1>10. HandedOnce'
  <2>1. Len(lists') \in Nat /\ Len(lists) <= Len(lists')
    BY <1>2
  <2> QED BY <1>1, <1>9, <2>1, HandedStays
<1>11. WrittenOnce'
  <2>1. \A l \in 1..Len(lists') : \A j : Past(l, j)' <=> Past(l, j)
    BY <1>1, <1>9, PastStays
  <2>2. OneWriter' => OneWriter
    BY <1>1 DEF OneWriter
  <2>3. \A l \in 1..Len(lists) : \A j \in 1..Len(lists[l]) :
          /\ l \in 1..Len(lists') /\ j \in 1..Len(lists'[l])
          /\ lists'[l][j] = lists[l][j]
          /\ Past(l, j)' <=> Past(l, j)
    BY <1>2, <1>7, <2>1
  <2>4. \A l \in 1..Len(lists') : \A j \in 1..Len(lists'[l]) :
          Past(l, j)' => l \in 1..Len(lists) /\ j \in 1..Len(lists[l])
    BY <1>6
  <2>5. rows' = rows
    BY <1>1
  <2> QED BY ONLY RowsType, WrittenOnce, <2>2, <2>3, <2>4, <2>5, RowsStay
<1> QED BY <1>8, <1>10, <1>11

\* start() of the manager adds a writer, stop() a mark to the queue.
LEMMA ManagerRows ==
  ASSUME TelemetryAssumption, RowsType, Recorded, HandedOnce, WrittenOnce,
         ManagerStart \/ ManagerStop \/ ManagerJoined
  PROVE  Recorded' /\ HandedOnce' /\ WrittenOnce'
<1>1. UNCHANGED <<rec, entries, lists, current, ref, reading, rows>>
  BY DEF ManagerStart, ManagerStop, ManagerJoined
<1>2. Recorded'
  <2>1. \A r \in Recorders : Appended(r)' = Appended(r)
    BY <1>1 DEF Appended
  <2>2. /\ \A q, r \in Recorders : rec[q] # "idle" /\ rec[r] # "idle" => q = r
        /\ \A r \in Recorders : rec[r] = "append" => ref[r] = current /\ entries[r] # 0
    BY DEF Recorded
  <2> QED BY <1>1, <2>1, <2>2, RecordedStays
<1>3. \A l : Handed(l)' <=> Handed(l)
  BY <1>1 DEF Handed
<1>4. HandedOnce' /\ (OneWriter' => OneWriter)
      /\ \A l \in 1..Len(lists) : \A j : Past(l, j)' <=> Past(l, j)
  <2>1. CASE ManagerStart
    <3>1. /\ latest + 1 \in Writers /\ writer[latest + 1] = "none" /\ rowQueue' = rowQueue
          /\ writer' = [writer EXCEPT ![latest + 1] = "read"]
          /\ writer \in [Writers -> {"none", "read", "write", "over"}]
      BY <2>1 DEF ManagerStart, RowsType, TelemetryAssumption, Writers
    <3>2. /\ \A w \in Writers, l \in 1..Len(lists) : Reads(w, l)' <=> Reads(w, l)
          /\ \A l : Queued(l)' <=> Queued(l)
      BY <1>1, <3>1 DEF Reads, Queued
    <3>3. OneWriter' => OneWriter
      BY <3>1 DEF OneWriter
    <3>4. \A l \in 1..Len(lists) : \A j : Past(l, j)' <=> Past(l, j)
      BY <1>1, <1>3, <3>2 DEF Past
    <3>5. HandedOnce'
      <4>1. \A l \in 1..Len(lists) : Queued(l)' => Handed(l)'
        BY <1>3, <3>2 DEF HandedOnce
      <4>2. \A w \in Writers : \A l \in 1..Len(lists) : Reads(w, l)' =>
              /\ Handed(l)'
              /\ \A m \in 1..Len(lists) : Queued(m)' => l < m
              /\ \A v \in Writers : Reads(v, l)' => v = w
        BY <1>3, <3>2 DEF HandedOnce
      <4>3. \A i, j \in 1..Len(rowQueue) :
              i < j /\ rowQueue[i] # EndMark /\ rowQueue[j] # EndMark
                => rowQueue[i] < rowQueue[j]
        BY DEF HandedOnce
      <4>4. lists' = lists /\ rowQueue' = rowQueue
        BY <1>1, <3>1
      <4> QED BY ONLY <4>1, <4>2, <4>3, <4>4 DEF HandedOnce
    <3> QED BY <3>3, <3>4, <3>5
  <2>2. CASE ManagerStop
    <3>1. /\ rowQueue' = Append(rowQueue, EndMark) /\ writer' = writer
          /\ EndMark \in 0..Len(lists) /\ Len(lists) \in Nat
      BY <2>2, RowsFacts DEF ManagerStop, EndMark
    <3>2. /\ HandedOnce'
          /\ \A l : Queued(l)' <=> Queued(l) \/ l = EndMark
          /\ \A w, l : Reads(w, l)' <=> Reads(w, l)
      BY <1>1, <1>3, <3>1, QueueMore
    <3>3. \A l \in 1..Len(lists) : Queued(l)' <=> Queued(l)
      BY <3>1, <3>2 DEF EndMark
    <3> QED BY <1>1, <1>3, <3>1, <3>2, <3>3 DEF Past, OneWriter
  <2>3. CASE ManagerJoined
    <3>1. rowQueue' = rowQueue /\ writer' = writer /\ reading' = reading /\ lists' = lists
      BY <1>1, <2>3 DEF ManagerJoined
    <3>2. Len(lists') \in Nat /\ Len(lists) <= Len(lists')
      BY <3>1, RowsFacts
    <3> QED BY <1>3, <3>1, <3>2, HandedStays, PastStays DEF OneWriter
  <2> QED BY <2>1, <2>2, <2>3
<1>5. WrittenOnce'
  BY <1>1, <1>4, RowsStay
<1> QED BY <1>2, <1>4, <1>5

\* A writer takes the head of the queue: the list of the lowest number, of which
\* it has written nothing.
LEMMA GetRows ==
  ASSUME RowsType, Recorded, HandedOnce, WrittenOnce, NEW w \in Writers, WriterGet(w)
  PROVE  Recorded' /\ HandedOnce' /\ WrittenOnce'
<1> DEFINE h == Head(rowQueue)
<1>1. /\ writer[w] = "read" /\ rowQueue' = Tail(rowQueue) /\ rowQueue # <<>>
      /\ h = EndMark => /\ writer' = [writer EXCEPT ![w] = "over"] /\ reading' = reading
      /\ h # EndMark => /\ writer' = [writer EXCEPT ![w] = "write"]
                        /\ reading' = [reading EXCEPT ![w] = <<h, 1>>]
      /\ UNCHANGED <<rec, entries, lists, current, ref, rows>>
      /\ writer \in [Writers -> {"none", "read", "write", "over"}]
      /\ reading \in [Writers -> (1..Len(lists)) \X (Nat \ {0})]
      /\ rowQueue \in Seq(0..Len(lists))
  BY DEF WriterGet, RowsType
<1>2. /\ Len(rowQueue') = Len(rowQueue) - 1 /\ Len(rowQueue) \in Nat \ {0}
      /\ h = rowQueue[1] /\ h \in 0..Len(lists)
      /\ \A i \in 1..Len(rowQueue') :
           i + 1 \in 1..Len(rowQueue) /\ rowQueue'[i] = rowQueue[i + 1]
  <2> DEFINE S == 0..Len(lists)
  <2>1. rowQueue \in Seq(S) /\ rowQueue # <<>> /\ rowQueue' = Tail(rowQueue)
    BY <1>1
  <2> HIDE DEF S
  <2>2. /\ Len(rowQueue') = Len(rowQueue) - 1 /\ Len(rowQueue) \in Nat \ {0}
        /\ h = rowQueue[1] /\ h \in S
        /\ \A i \in 1..Len(rowQueue') :
             i + 1 \in 1..Len(rowQueue) /\ rowQueue'[i] = rowQueue[i + 1]
    BY ONLY <2>1, HeadAndTail DEF h
  <2> QED BY <2>2 DEF S
<1>3. \A i \in 1..Len(rowQueue) :
        i = 1 \/ (i - 1 \in 1..Len(rowQueue') /\ rowQueue'[i - 1] = rowQueue[i])
  <2> SUFFICES ASSUME NEW i \in 1..Len(rowQueue), i # 1
      PROVE  i - 1 \in 1..Len(rowQueue') /\ rowQueue'[i - 1] = rowQueue[i]
    OBVIOUS
  <2>1. i - 1 \in 1..Len(rowQueue') /\ (i - 1) + 1 = i
    BY <1>2
  <2> QED BY <1>2, <2>1
<1> HIDE DEF h
<1>4. \A i, j \in 1..Len(rowQueue') :
        i < j /\ rowQueue'[i] # EndMark /\ rowQueue'[j] # EndMark
          => rowQueue'[i] < rowQueue'[j]
  <2> SUFFICES ASSUME NEW i \in 1..Len(rowQueue'), NEW j \in 1..Len(rowQueue'),
                      i < j, rowQueue'[i] # EndMark, rowQueue'[j] # EndMark
      PROVE  rowQueue'[i] < rowQueue'[j]
    OBVIOUS
  <2>1. i + 1 < j + 1 /\ rowQueue'[i] = rowQueue[i + 1] /\ rowQueue'[j] = rowQueue[j + 1]
    BY <1>2
  <2> QED BY <1>2, <2>1 DEF HandedOnce
\* What is left in the queue has a higher number.
<1>5. \A l \in 1..Len(lists) :
        /\ Queued(l)' => Queued(l)
        /\ Queued(l) /\ l # h => Queued(l)'
        /\ h # EndMark /\ Queued(l)' => h < l
  <2> SUFFICES ASSUME NEW l \in 1..Len(lists)
      PROVE  /\ Queued(l)' => Queued(l)
             /\ Queued(l) /\ l # h => Queued(l)'
             /\ h # EndMark /\ Queued(l)' => h < l
    OBVIOUS
  <2>1. Queued(l)' => Queued(l)
    BY <1>2 DEF Queued
  <2>2. Queued(l) /\ l # h => Queued(l)'
    BY <1>2, <1>3 DEF Queued
  <2>3. ASSUME h # EndMark, Queued(l)'  PROVE h < l
    <3>1. PICK i \in 1..Len(rowQueue') : rowQueue'[i] = l
      BY <2>3 DEF Queued
    <3>2. i + 1 \in 1..Len(rowQueue) /\ rowQueue[i + 1] = l /\ 1 < i + 1 /\ l # EndMark
      BY <1>2, <3>1 DEF EndMark
    <3>3. 1 \in 1..Len(rowQueue)
      BY <1>2
    <3> QED BY <1>2, <2>3, <3>2, <3>3 DEF HandedOnce
  <2> QED BY <2>1, <2>2, <2>3
<1>6. Recorded'
  <2>1. \A r \in Recorders : Appended(r)' = Appended(r)
    BY <1>1 DEF Appended
  <2>2. /\ \A q, r \in Recorders : rec[q] # "idle" /\ rec[r] # "idle" => q = r
        /\ \A r \in Recorders : rec[r] = "append" => ref[r] = current /\ entries[r] # 0
    BY DEF Recorded
  <2> QED BY <1>1, <2>1, <2>2, RecordedStays
<1>7. \A l : Handed(l)' <=> Handed(l)
  BY <1>1 DEF Handed
<1>8. OneWriter' => OneWriter
  <2>1. \A v \in Writers : writer[v] # "none" => writer'[v] # "none"
    BY <1>1
  <2> QED BY <2>1 DEF OneWriter
\* The list, if it is one, has been nobody's.
<1>9. h # EndMark => h \in 1..Len(lists) /\ Queued(h) /\ Handed(h)
                     /\ \A v \in Writers : ~Reads(v, h)
  <2> SUFFICES ASSUME h # EndMark
      PROVE  h \in 1..Len(lists) /\ Queued(h) /\ Handed(h) /\ \A v \in Writers : ~Reads(v, h)
    OBVIOUS
  <2>1. h \in 1..Len(lists) /\ Queued(h)
    BY <1>2 DEF EndMark, Queued
  <2>2. Handed(h) /\ \A v \in Writers : Reads(v, h) => h < h
    BY <2>1 DEF HandedOnce
  <2> QED BY <2>1, <2>2
<1>10. /\ \A v \in Writers, l \in 1..Len(lists) :
            Reads(v, l)' <=> Reads(v, l) \/ (v = w /\ l = h)
       /\ \A v \in Writers : v # w => reading'[v] = reading[v]
       /\ h # EndMark => reading'[w] = <<h, 1>>
       /\ \A l : ~Reads(w, l)
  <2>1. CASE h = EndMark
    <3>1. /\ writer'[w] = "over" /\ \A v \in Writers : v # w => writer'[v] = writer[v]
          /\ reading' = reading /\ \A l \in 1..Len(lists) : l # h
      BY <1>1, <2>1 DEF EndMark
    <3> QED BY <1>1, <2>1, <3>1 DEF Reads
  <2>2. CASE h # EndMark
    <3>1. /\ writer'[w] = "write" /\ \A v \in Writers : v # w => writer'[v] = writer[v]
          /\ reading'[w] = <<h, 1>> /\ \A v \in Writers : v # w => reading'[v] = reading[v]
      BY <1>1, <2>2
    <3> QED BY <1>1, <3>1 DEF Reads
  <2> QED BY <2>1, <2>2
<1>11. HandedOnce'
  <2>1. \A l \in 1..Len(lists) : Queued(l)' => Handed(l)'
    BY <1>5, <1>7 DEF HandedOnce
  <2>2. ASSUME NEW v \in Writers, NEW l \in 1..Len(lists), Reads(v, l)'
        PROVE  /\ Handed(l)'
               /\ \A m \in 1..Len(lists) : Queued(m)' => l < m
               /\ \A u \in Writers : Reads(u, l)' => u = v
    <3>1. CASE Reads(v, l)
      <4>1. /\ Handed(l)
            /\ \A m \in 1..Len(lists) : Queued(m) => l < m
            /\ \A u \in Writers : Reads(u, l) => u = v
        BY <3>1 DEF HandedOnce
      <4>2. l # h
        BY <1>9, <3>1 DEF EndMark
      <4> QED BY <1>5, <1>7, <1>10, <4>1, <4>2
    <3>2. CASE ~Reads(v, l)
      <4>1. v = w /\ l = h /\ h # EndMark
        BY <1>10, <2>2, <3>2 DEF EndMark
      <4> QED BY <1>5, <1>7, <1>9, <1>10, <4>1
    <3> QED BY <3>1, <3>2
  <2>3. lists' = lists
    BY <1>1
  <2> QED BY ONLY <1>4, <2>1, <2>2, <2>3 DEF HandedOnce
<1>12. \A l \in 1..Len(lists) : \A j \in 1..Len(lists[l]) : Past(l, j)' <=> Past(l, j)
  <2> SUFFICES ASSUME NEW l \in 1..Len(lists), NEW j \in 1..Len(lists[l])
      PROVE  Past(l, j)' <=> Past(l, j)
    OBVIOUS
  <2>1. CASE l = h
    <3>1. h # EndMark
      BY <2>1 DEF EndMark
    <3>2. ~Past(l, j)
      BY <1>9, <2>1, <3>1 DEF Past
    <3>3. Reads(w, l)' /\ reading'[w][2] = 1 /\ ~(j < 1)
      BY <1>10, <2>1, <3>1
    <3>4. ~Past(l, j)'
      BY <3>3 DEF Past
    <3> QED BY <3>2, <3>4
  <2>2. CASE l # h
    <3>1. Queued(l)' <=> Queued(l)
      BY <1>5, <2>2
    <3>2. \A v \in Writers : Reads(v, l)' <=> Reads(v, l)
      BY <1>10, <2>2
    <3>3. \A v \in Writers : Reads(v, l) => reading'[v] = reading[v]
      BY <1>10
    <3> QED BY <1>7, <3>1, <3>2, <3>3 DEF Past
  <2> QED BY <2>1, <2>2
<1>13. WrittenOnce'
  <2>1. rows' = rows /\ lists' = lists
    BY <1>1
  <2> QED BY <1>8, <1>12, <2>1, RowsStay
<1> QED BY <1>6, <1>11, <1>13

\* A writer goes on to the next entry of its list, or is done with it.
LEMMA RowRows ==
  ASSUME RowsType, Recorded, HandedOnce, WrittenOnce, NEW w \in Writers, WriterRow(w)
  PROVE  Recorded' /\ HandedOnce' /\ WrittenOnce'
<1>0. PICK l \in 1..Len(lists), n \in Nat \ {0} : reading[w] = <<l, n>>
  BY RowsFacts
<1>1. /\ Len(lists) \in Nat /\ Len(lists[l]) \in Nat /\ l \in Nat /\ n \in Nat \ {0}
      /\ reading[w] = <<l, n>> /\ writer[w] = "write"
      /\ n <= Len(lists[l]) => /\ rows' = Append(rows, lists[l][n]) /\ writer' = writer
                               /\ reading' = [reading EXCEPT ![w] = <<l, n + 1>>]
      /\ ~(n <= Len(lists[l])) => /\ writer' = [writer EXCEPT ![w] = "read"]
                                  /\ rows' = rows /\ reading' = reading
      /\ UNCHANGED <<rec, entries, lists, current, ref, rowQueue>>
      /\ writer \in [Writers -> {"none", "read", "write", "over"}]
      /\ reading \in [Writers -> (1..Len(lists)) \X (Nat \ {0})]
      /\ rows \in Seq(Entry)
  <2>1. reading[w][1] = l /\ reading[w][2] = n
    BY <1>0
  <2>2. /\ writer[w] = "write"
        /\ n <= Len(lists[l]) => /\ rows' = Append(rows, lists[l][n]) /\ writer' = writer
                                 /\ reading' = [reading EXCEPT ![w] = <<l, n + 1>>]
        /\ ~(n <= Len(lists[l])) => /\ writer' = [writer EXCEPT ![w] = "read"]
                                    /\ rows' = rows /\ reading' = reading
        /\ UNCHANGED <<rec, entries, lists, current, ref, rowQueue>>
    BY <2>1 DEF WriterRow
  <2>3. Len(lists) \in Nat /\ Len(lists[l]) \in Nat /\ l \in Nat
    BY <1>0, RowsFacts
  <2>4. /\ writer \in [Writers -> {"none", "read", "write", "over"}]
        /\ reading \in [Writers -> (1..Len(lists)) \X (Nat \ {0})]
        /\ rows \in Seq(Entry)
    BY DEF RowsType
  <2> QED BY ONLY <1>0, <2>2, <2>3, <2>4
<1>2. Recorded'
  <2>1. \A r \in Recorders : Appended(r)' = Appended(r)
    BY <1>1 DEF Appended
  <2>2. /\ \A q, r \in Recorders : rec[q] # "idle" /\ rec[r] # "idle" => q = r
        /\ \A r \in Recorders : rec[r] = "append" => ref[r] = current /\ entries[r] # 0
    BY DEF Recorded
  <2> QED BY <1>1, <2>1, <2>2, RecordedStays
<1>3. /\ \A m : Handed(m)' <=> Handed(m)
      /\ \A m : Queued(m)' <=> Queued(m)
  BY <1>1 DEF Handed, Queued
<1>4. \A v \in Writers : v # w => /\ writer'[v] = writer[v] /\ reading'[v] = reading[v]
  BY <1>1
<1>5. OneWriter' <=> OneWriter
  <2>1. \A v \in Writers : writer'[v] # "none" <=> writer[v] # "none"
    BY <1>1
  <2> QED BY <2>1 DEF OneWriter
<1>6. Reads(w, l) /\ \A v \in Writers : Reads(v, l) => v = w
  BY <1>1 DEF Reads, HandedOnce
<1>7. Handed(l) /\ ~Queued(l)
  <2>1. Handed(l) /\ (Queued(l) => l < l)
    BY <1>1, <1>6 DEF HandedOnce
  <2> QED BY <1>1, <2>1
\* It is past the entries before the next one.
<1>8. \A j \in 1..Len(lists[l]) : Past(l, j) <=> j < n
  <2>1. reading[w][2] = n
    BY <1>0
  <2> QED BY <1>6, <1>7, <2>1 DEF Past
<1>9. \A v \in Writers : \A m : m # l => (Reads(v, m)' <=> Reads(v, m))
  <2>1. \A m : m # l => ~Reads(w, m)
    BY <1>6 DEF Reads
  <2>2. \A m : m # l => ~Reads(w, m)'
    <3>1. CASE n <= Len(lists[l])
      BY <1>1, <3>1 DEF Reads
    <3>2. CASE ~(n <= Len(lists[l]))
      BY <1>1, <3>2 DEF Reads
    <3> QED BY <3>1, <3>2
  <2> QED BY <1>4, <2>1, <2>2 DEF Reads
<1>10. \A v \in Writers : \A m : Reads(v, m)' => Reads(v, m)
  <2>1. \A v \in Writers : v # w => (Reads(v, l)' <=> Reads(v, l))
    BY <1>4 DEF Reads
  <2> QED BY <1>6, <1>9, <2>1
<1>11. HandedOnce'
  <2>1. \A m \in 1..Len(lists) : Queued(m)' => Handed(m)'
    BY <1>3 DEF HandedOnce
  <2>2. \A v \in Writers : \A m \in 1..Len(lists) : Reads(v, m)' =>
          /\ Handed(m)'
          /\ \A k \in 1..Len(lists) : Queued(k)' => m < k
          /\ \A u \in Writers : Reads(u, m)' => u = v
    BY <1>3, <1>10 DEF HandedOnce
  <2>3. \A i, j \in 1..Len(rowQueue) :
          i < j /\ rowQueue[i] # EndMark /\ rowQueue[j] # EndMark => rowQueue[i] < rowQueue[j]
    BY DEF HandedOnce
  <2>4. lists' = lists /\ rowQueue' = rowQueue
    BY <1>1
  <2> QED BY ONLY <2>1, <2>2, <2>3, <2>4 DEF HandedOnce
<1>12. \A m \in 1..Len(lists) : m # l => \A j : Past(m, j)' <=> Past(m, j)
  <2> SUFFICES ASSUME NEW m \in 1..Len(lists), m # l, NEW j
      PROVE  Past(m, j)' <=> Past(m, j)
    OBVIOUS
  <2>1. \A v \in Writers : (Reads(v, m)' <=> Reads(v, m)) /\ (Reads(v, m) => v # w)
    BY <1>6, <1>9 DEF Reads
  <2> QED BY <1>3, <1>4, <2>1 DEF Past
<1>13. ASSUME ~(n <= Len(lists[l]))  PROVE WrittenOnce'
  <2>1. \A j \in 1..Len(lists[l]) : Past(l, j)' /\ Past(l, j)
    <3>1. \A v \in Writers : ~Reads(v, l)'
      <4>1. ~Reads(w, l)'
        BY <1>1, <1>13 DEF Reads
      <4> QED BY <1>6, <1>10, <4>1
    <3>2. \A j \in 1..Len(lists[l]) : j < n
      BY <1>1, <1>13
    <3> QED BY <1>3, <1>7, <1>8, <3>1, <3>2 DEF Past
  <2>2. \A m \in 1..Len(lists) : \A j \in 1..Len(lists[m]) : Past(m, j)' <=> Past(m, j)
    BY <1>12, <2>1
  <2>3. rows' = rows /\ lists' = lists
    BY <1>1, <1>13
  <2> QED BY <1>5, <2>2, <2>3, RowsStay
<1>14. ASSUME n <= Len(lists[l])  PROVE WrittenOnce'
  <2> DEFINE e == lists[l][n]
  <2>1. /\ n \in 1..Len(lists[l]) /\ e \in Entry /\ e = <<e[1], e[2]>>
        /\ e[1] \in Recorders /\ e[2] \in Nat
    <3>1. n \in 1..Len(lists[l])
      BY <1>1, <1>14
    <3>2. e \in Entry
      BY <1>1, <3>1, RowsFacts
    <3> QED BY <3>1, <3>2 DEF Entry
  <2>2. /\ Len(rows) \in Nat /\ Len(rows') = Len(rows) + 1 /\ rows'[Len(rows) + 1] = e
        /\ \A i \in 1..Len(rows) : rows'[i] = rows[i]
    <3>1. rows' = Append(rows, e) /\ rows \in Seq(Entry) /\ e \in Entry
      BY <1>1, <1>14, <2>1
    <3> HIDE DEF e
    <3> QED BY ONLY <3>1
  <2>3. \A i \in 1..Len(rows') : \/ i \in 1..Len(rows) /\ rows'[i] = rows[i]
                                 \/ i = Len(rows) + 1 /\ rows'[i] = e
    BY <2>2
  <2>4. \A j \in 1..Len(lists[l]) : Past(l, j)' <=> Past(l, j) \/ j = n
    <3>1. Reads(w, l)' /\ reading'[w][2] = n + 1
      BY <1>1, <1>14 DEF Reads
    <3>2. \A j \in 1..Len(lists[l]) : Past(l, j)' <=> j < n + 1
      BY <1>3, <1>6, <1>7, <1>10, <3>1 DEF Past
    <3> QED BY <1>1, <1>8, <3>2
  <2>5. \A m \in 1..Len(lists) : \A j \in 1..Len(lists[m]) :
          Past(m, j)' <=> Past(m, j) \/ (m = l /\ j = n)
    BY <1>12, <2>4
  <2> HIDE DEF e
  <2>6. lists[l][n] = e
    BY DEF e
  <2>7. \A m \in 1..Len(lists) : \A j \in 1..Len(lists[m]) :
           lists[m][j][1] = lists[l][n][1] =>
             /\ Before(m, j, l, n) => lists[m][j][2] < lists[l][n][2]
             /\ Before(l, n, m, j) => lists[l][n][2] < lists[m][j][2]
    BY <2>1 DEF Recorded
\* An entry that is written is not the new one: that one stands elsewhere.
  <2>8. \A i \in 1..Len(rows) : rows[i] # e
    <3> SUFFICES ASSUME NEW i \in 1..Len(rows), rows[i] = e
        PROVE  FALSE
      OBVIOUS
    <3>1. PICK m \in 1..Len(lists) : \E j \in 1..Len(lists[m]) : e = lists[m][j] /\ Past(m, j)
      BY DEF WrittenOnce
    <3>2. PICK j \in 1..Len(lists[m]) : e = lists[m][j] /\ Past(m, j)
      BY <3>1
    <3>3. CASE m = l /\ j = n
      BY <1>1, <1>8, <2>1, <3>2, <3>3
    <3>4. CASE Before(m, j, l, n)
      <4>1. e[2] < e[2]
        BY <2>1, <2>6, <2>7, <3>2, <3>4
      <4> QED BY <2>1, <4>1
    <3>5. CASE Before(l, n, m, j)
      <4>1. e[2] < e[2]
        BY <2>1, <2>6, <2>7, <3>2, <3>5
      <4> QED BY <2>1, <4>1
    <3>6. j \in Nat
      BY RowsFacts
    <3> QED BY <1>1, <3>3, <3>4, <3>5, <3>6 DEF Before
  <2>9. \A i \in 1..Len(rows') : \E m \in 1..Len(lists) : \E j \in 1..Len(lists[m]) :
          rows'[i] = lists[m][j] /\ Past(m, j)'
    <3> SUFFICES ASSUME NEW i \in 1..Len(rows')
        PROVE  \E m \in 1..Len(lists) : \E j \in 1..Len(lists[m]) :
                 rows'[i] = lists[m][j] /\ Past(m, j)'
      OBVIOUS
    <3>1. CASE i \in 1..Len(rows) /\ rows'[i] = rows[i]
      <4>1. PICK m \in 1..Len(lists) : \E j \in 1..Len(lists[m]) :
                   rows[i] = lists[m][j] /\ Past(m, j)
        BY <3>1 DEF WrittenOnce
      <4> QED BY <2>5, <3>1, <4>1
    <3>2. CASE rows'[i] = e
      BY <1>1, <2>1, <2>5, <2>6, <3>2
    <3> QED BY <2>3, <3>1, <3>2
  <2>10. \A m \in 1..Len(lists) : \A j \in 1..Len(lists[m]) :
          Past(m, j)' => \E i \in 1..Len(rows') : rows'[i] = lists[m][j]
    <3> SUFFICES ASSUME NEW m \in 1..Len(lists), NEW j \in 1..Len(lists[m]), Past(m, j)'
        PROVE  \E i \in 1..Len(rows') : rows'[i] = lists[m][j]
      OBVIOUS
    <3>1. CASE Past(m, j)
      <4>1. PICK i \in 1..Len(rows) : rows[i] = lists[m][j]
        BY <3>1 DEF WrittenOnce
      <4> QED BY <2>2, <4>1
    <3>2. CASE m = l /\ j = n
      BY <2>2, <2>6, <3>2
    <3> QED BY <2>5, <3>1, <3>2
  <2>11. \A i, j \in 1..Len(rows') : rows'[i] = rows'[j] => i = j
    <3>1. \A i, j \in 1..Len(rows) : rows[i] = rows[j] => i = j
      BY DEF WrittenOnce
    <3> QED BY <2>3, <2>8, <3>1
\* With one writer, all entries of the thread before this one are written.
  <2>12. OneWriter' => \A i \in 1..Len(rows') :
           rows'[i][2] = 1 \/ \E j \in 1..(i - 1) : rows'[j] = <<rows'[i][1], rows'[i][2] - 1>>
    <3> SUFFICES ASSUME OneWriter, NEW i \in 1..Len(rows'), rows'[i][2] # 1
        PROVE  \E j \in 1..(i - 1) : rows'[j] = <<rows'[i][1], rows'[i][2] - 1>>
      BY <1>5
    <3>1. CASE i \in 1..Len(rows) /\ rows'[i] = rows[i]
      <4>1. PICK j \in 1..(i - 1) : rows[j] = <<rows[i][1], rows[i][2] - 1>>
        BY <3>1 DEF WrittenOnce
      <4>2. j \in 1..Len(rows)
        BY <2>2, <3>1
      <4> QED BY <2>2, <3>1, <4>1, <4>2
    <3>2. CASE i = Len(rows) + 1 /\ rows'[i] = e
      <4> DEFINE k == e[2] - 1
      <4>1. k \in 1..Appended(e[1]) /\ k \in Nat /\ k < e[2]
        <5>1. e[2] \in 1..Appended(e[1])
          BY <1>1, <2>1, <2>6 DEF Recorded
        <5>2. Appended(e[1]) \in Int
          BY <2>1 DEF RowsType, Appended
        <5> QED BY <2>1, <3>2, <5>1, <5>2
      <4>2. PICK m \in 1..Len(lists) : \E j \in 1..Len(lists[m]) : lists[m][j] = <<e[1], k>>
        BY <2>1, <4>1 DEF Recorded
      <4>3. PICK j \in 1..Len(lists[m]) : lists[m][j] = <<e[1], k>>
        BY <4>2
      <4>4. m < l \/ (m = l /\ j < n)
        <5>1. ~Before(l, n, m, j)
          <6>1. Before(l, n, m, j) => e[2] < k
            <7>1. lists[m][j][1] = lists[l][n][1] /\ lists[m][j][2] = k
              BY <2>6, <4>3
            <7> QED BY <2>6, <2>7, <7>1
          <6> QED BY <2>1, <4>1, <6>1
        <5>2. ~(m = l /\ j = n)
          BY <2>1, <2>6, <4>1, <4>3
        <5>3. j \in Nat
          BY RowsFacts
        <5> QED BY <1>1, <5>1, <5>2, <5>3 DEF Before
      <4>5. Past(m, j)
        <5>1. CASE m < l
          <6>1. Handed(m)
            BY <1>1, <1>7, <5>1 DEF Handed, RowsType
          <6>2. ~Queued(m)
            <7>1. Queued(m) => l < m
              BY <1>1, <1>6 DEF HandedOnce
            <7> QED BY <1>1, <5>1, <7>1
          <6>3. \A v \in Writers : ~Reads(v, m)
            <7>1. \A v \in Writers : Reads(v, m) => v = w
              BY <1>6 DEF OneWriter, Reads
            <7> QED BY <1>1, <1>6, <5>1, <7>1 DEF Reads
          <6> QED BY <6>1, <6>2, <6>3 DEF Past
        <5>2. CASE m = l /\ j < n
          BY <1>8, <5>2
        <5> QED BY <4>4, <5>1, <5>2
      <4>6. PICK p \in 1..Len(rows) : rows[p] = <<e[1], k>>
        <5>1. \E p \in 1..Len(rows) : rows[p] = lists[m][j]
          BY <4>5 DEF WrittenOnce
        <5> QED BY <4>3, <5>1
      <4>7. p \in 1..(i - 1) /\ rows'[p] = <<e[1], k>>
        BY <2>2, <3>2, <4>6
      <4> QED BY <3>2, <4>7
    <3> QED BY ONLY <2>3, <3>1, <3>2
  <2>13. lists' = lists
    BY <1>1
  <2>14. \A i \in 1..Len(rows') : \E m \in 1..Len(lists') : \E j \in 1..Len(lists'[m]) :
           rows'[i] = lists'[m][j] /\ Past(m, j)'
    BY ONLY <2>9, <2>13
  <2>15. \A m \in 1..Len(lists') : \A j \in 1..Len(lists'[m]) :
           Past(m, j)' => \E i \in 1..Len(rows') : rows'[i] = lists'[m][j]
    BY ONLY <2>10, <2>13
  <2> QED BY ONLY <2>11, <2>12, <2>14, <2>15 DEF WrittenOnce
<1> QED BY <1>2, <1>11, <1>13, <1>14

LEMMA RowsInit ==
  ASSUME TelemetryAssumption, TelemetryInit
  PROVE  RowsInv
<1> USE DEF TelemetryInit
<1>1. /\ lists = <<<<>>>> /\ Len(lists) = 1 /\ \A l \in 1..Len(lists) : lists[l] = <<>>
      /\ lists \in Seq(Seq(Entry))
  OBVIOUS
<1>2. rows = <<>> /\ rows \in Seq(Entry) /\ Len(rows) = 0
  OBVIOUS
<1>3. rowQueue \in Seq(0..Len(lists)) /\ Len(rowQueue) = 0
  OBVIOUS
<1>4. reading \in [Writers -> (1..Len(lists)) \X (Nat \ {0})]
  <2>1. <<1, 1>> \in (1..Len(lists)) \X (Nat \ {0})
    BY <1>1
  <2> QED BY <2>1
<1>5. RowsType
  <2>1. /\ rec \in [Recorders -> {"idle", "append", "test", "hand", "renew"}]
        /\ entries \in [Recorders -> Nat]
        /\ writer \in [Writers -> {"none", "read", "write", "over"}]
        /\ \A w \in Writers : writer[w] = "none"
    OBVIOUS
  <2>3. latest \in 0..MaxWriters
    BY DEF TelemetryAssumption
  <2>4. mixed \in BOOLEAN
    OBVIOUS
  <2>2. current = Len(lists) /\ current # 0 /\ ref \in [Recorders -> 1..Len(lists)]
    BY <1>1
  <2> QED BY <1>1, <1>2, <1>3, <1>4, <2>1, <2>2, <2>3, <2>4 DEF RowsType
<1>6. \A l \in 1..Len(lists) : Len(lists[l]) = 0
  BY <1>1
<1>7. /\ \A r \in Recorders : Appended(r) = 0 /\ rec[r] = "idle"
      /\ \A w \in Writers : writer[w] = "none"
  BY DEF Appended
<1>8. Recorded
  BY <1>6, <1>7 DEF Recorded
<1>9. HandedOnce
  BY <1>3, <1>7 DEF HandedOnce, Queued, Reads
<1>10. WrittenOnce
  BY <1>2, <1>6 DEF WrittenOnce
<1> QED BY <1>5, <1>8, <1>9, <1>10 DEF RowsInv

\* What a step of the node does to the telemetry.
LEMMA TelemetryStep ==
  ASSUME [Next]_vars
  PROVE  \/ UNCHANGED telemetryVars
         \/ \E r \in Recorders : RecBegin(r) \/ RecStep(r)
         \/ ManagerStart \/ ManagerStop \/ ManagerJoined
         \/ \E w \in Writers : WriterStep(w)
<1>1. CASE UNCHANGED vars
  BY <1>1 DEF vars
<1>2. CASE Next
  <2>1. Received \/ Transmitted => UNCHANGED telemetryVars \/ \E r \in Recorders : RecBegin(r)
    BY DEF Received, Transmitted, Record, Recorders
  <2>2. Prompted => UNCHANGED telemetryVars
    BY DEF Prompted, telemetryVars
  <2> QED BY <1>2, <2>1, <2>2
    DEF Next, WorkerStep, UpdateStep, ManagerStep, InBuffer, InTelemetry
<1> QED BY <1>1, <1>2

LEMMA RowsNext ==
  ASSUME TelemetryAssumption, RowsInv, [Next]_vars
  PROVE  RowsInv'
<1>1. CASE UNCHANGED telemetryVars
  <2>1. UNCHANGED <<rec, entries, lists, current, ref, rowQueue, writer, reading,
                    latest, mixed, rows>>
    BY <1>1 DEF telemetryVars
  <2>2. RowsType' <=> RowsType
    BY <2>1 DEF RowsType
  <2>3. Recorded' <=> Recorded
    BY <2>1 DEF Recorded, Appended
  <2>4. HandedOnce' <=> HandedOnce
    BY <2>1 DEF HandedOnce, Handed, Queued, Reads
  <2>5. WrittenOnce' <=> WrittenOnce
    BY <2>1 DEF WrittenOnce, Past, Handed, Queued, Reads, OneWriter
  <2> QED BY <2>1, <2>2, <2>3, <2>4, <2>5 DEF RowsInv
<1>2. CASE \/ \E r \in Recorders : RecBegin(r) \/ RecStep(r)
           \/ ManagerStart \/ ManagerStop \/ ManagerJoined
           \/ \E w \in Writers : WriterStep(w)
  <2>1. RowsType'
    BY <1>2, RowsTypeStep DEF RowsInv
  <2>2. ~mixed' => ~mixed
    BY <1>2 DEF RecBegin, RecStep, RecAppend, RecTest, RecHand, RecRenew, ManagerStart,
      ManagerStop, ManagerJoined, WriterStep, WriterGet, WriterRow
  <2>3. ASSUME ~mixed'  PROVE Recorded' /\ HandedOnce' /\ WrittenOnce'
    <3>1. RowsType /\ Recorded /\ HandedOnce /\ WrittenOnce
      BY <2>2, <2>3 DEF RowsInv
    <3> QED
      BY <1>2, <2>3, <3>1, BeginRows, AppendRows, TestRows, HandRows, RenewRows,
        ManagerRows, GetRows, RowRows DEF RecStep, WriterStep
  <2> QED BY <2>1, <2>3 DEF RowsInv
<1> QED BY <1>1, <1>2, TelemetryStep

LEMMA AtMostOne ==
  ASSUME TelemetryAssumption, Cardinality({w \in Writers : writer[w] # "none"}) <= 1
  PROVE  OneWriter
<1> DEFINE W == {w \in Writers : writer[w] # "none"}
<1>1. IsFiniteSet(W)
  <2>1. IsFiniteSet(1..MaxWriters)
    BY FS_Interval DEF TelemetryAssumption
  <2> QED BY <2>1, FS_Subset DEF Writers
<1>2. Cardinality(W) <= 1
  OBVIOUS
<1> HIDE DEF W
<1>3. ASSUME NEW v \in W, NEW w \in W, v # w  PROVE FALSE
  <2>1. Cardinality(W \ {v}) = Cardinality(W) - 1 /\ IsFiniteSet(W \ {v})
    BY <1>1, FS_RemoveElement
  <2>2. Cardinality((W \ {v}) \ {w}) = Cardinality(W \ {v}) - 1 /\ IsFiniteSet((W \ {v}) \ {w})
    BY <1>3, <2>1, FS_RemoveElement
  <2>3. Cardinality((W \ {v}) \ {w}) \in Nat /\ Cardinality(W) \in Nat
    BY <1>1, <2>2, FS_CardinalityType
  <2> QED BY <1>2, <2>1, <2>2, <2>3
<1> QED BY <1>3 DEF W, OneWriter

\* As long as the worker and the update thread do not record at once, no row is
\* written twice, and with one writer none is left out before a later one of its
\* thread: for any size of a batch, number of messages and calls of start().
THEOREM RowsWrittenOnce == Spec => []RowsOnce
<1> USE TelemetryAssumption
<1>1. Init => RowsInv
  BY RowsInit DEF Init
<1>2. RowsInv /\ [Next]_vars => RowsInv'
  BY RowsNext
<1>3. RowsInv => RowsOnce
  <2> SUFFICES ASSUME RowsInv, ~mixed
      PROVE  /\ \A i, j \in DOMAIN rows : rows[i] = rows[j] => i = j
             /\ Cardinality({w \in Writers : writer[w] # "none"}) <= 1 =>
                  \A i \in DOMAIN rows :
                    \/ rows[i][2] = 1
                    \/ \E j \in 1..(i - 1) : rows[j] = <<rows[i][1], rows[i][2] - 1>>
    BY DEF RowsOnce
  <2>1. DOMAIN rows = 1..Len(rows)
    BY DEF RowsInv, RowsType
  <2> QED BY <2>1, AtMostOne DEF RowsInv, WrittenOnce
<1> QED BY <1>1, <1>2, <1>3, PTL DEF Spec
=============================================================================
