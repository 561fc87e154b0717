-------------------------- MODULE BackgroundProofs --------------------------
(***************************************************************************)
(* Proofs, for any rows, records, migrations and processes, of what        *)
(* happens outside a request: what becomes of the analytics rows a pod     *)
(* buffers, what the migration script keeps whoever runs it at the same    *)
(* time, what the re-push script's checkpoint says, what the repair of     *)
(* pins undoes, what pods know of the configuration that DEMI has, and     *)
(* the turns of the rows that wait for a sweep.                            *)
(***************************************************************************)
EXTENDS MCBackground, FiniteSetTheorems, SequenceTheorems, WellFoundedInduction, TLAPS

-----------------------------------------------------------------------------
(* The analytics rows: the inductive invariant, in parts. *)

\* A row is in one place: a request, a buffer of its own kind, or a batch.
OnePlace ==
  /\ \A b \in BufferName : buffer[b] \subseteq RowsOf(b) /\ buffer[b] \cap serving = {}
  /\ SentOnce

\* A buffer holds fewer rows than a batch takes.
BuffersShort == \A b \in BufferName : IsFiniteSet(buffer[b]) /\ Cardinality(buffer[b]) < MaxRows

\* Shutdown's flush leaves nothing buffered but what comes later.
LateOnly == stop # "no" => Buffered \subseteq late

PodInv ==
  /\ PodTypeOK /\ OnePlace /\ BuffersShort /\ BatchesFit
  /\ NoneForgotten /\ LateOnly /\ NothingUnsaid

-----------------------------------------------------------------------------
(* Lemmas *)

\* What a flush sends are batches, and what it leaves are buffers.
LEMMA FlushType ==
  ASSUME PodTypeOK, NEW names \in SUBSET BufferName, NEW rows \in [BufferName -> SUBSET Row]
  PROVE  /\ Flush(names, rows) \subseteq [of : BufferName, rows : SUBSET Row, fate : Fate]
         /\ Taken(names) \in [BufferName -> SUBSET Row]
<1>1. \A b \in BufferName : Batch(b, rows[b]) \in [of : BufferName, rows : SUBSET Row, fate : Fate]
  BY DEF Batch, Fate
<1>2. Flush(names, rows) \subseteq [of : BufferName, rows : SUBSET Row, fate : Fate]
  BY <1>1 DEF Flush
<1>3. Taken(names) \in [BufferName -> SUBSET Row]
  BY DEF Taken, PodTypeOK
<1>. QED BY <1>2, <1>3

\* Every step keeps the types.
LEMMA PodTypeStep ==
  ASSUME PodTypeOK, [PodNext]_podVars
  PROVE  PodTypeOK'
<1>. USE RowAssumption DEF PodTypeOK, rowVars, Fate, BufferName
<1>1. CASE UNCHANGED podVars
  <2>1. timer' \in BOOLEAN
    BY <1>1 DEF podVars
  <2>. QED BY <1>1, <2>1 DEF podVars
<1>2. CASE Connect
  <2>1. attempt' \in 1..MaxAttempts
    BY <1>2 DEF Connect
  <2>2. boot' \in {"connecting", "connected", "queued", "listening"}
        /\ exit' \in {"no", "exhausted", "clean", "killed"}
    BY <1>2 DEF Connect
  <2>3. UNCHANGED <<jobs, stop, serving, buffer, timer, sent, late>>
    BY <1>2 DEF Connect
  <2>. QED BY <2>1, <2>2, <2>3
<1>3. CASE StartJobQueue     BY <1>3 DEF StartJobQueue
<1>4. CASE Listen            BY <1>4 DEF Listen
<1>5. ASSUME NEW r \in Row, Accept(r)
      PROVE  PodTypeOK'
  BY <1>5 DEF Accept
<1>6. ASSUME NEW b \in BufferName, NEW r \in Row, Enqueue(b, r)
      PROVE  PodTypeOK'
  <2>. DEFINE more == [buffer EXCEPT ![b] = @ \cup {r}]
  <2>1. more \in [BufferName -> SUBSET Row] /\ {b} \in SUBSET BufferName
    OBVIOUS
  <2>2. /\ Flush({b}, more) \subseteq [of : BufferName, rows : SUBSET Row, fate : Fate]
        /\ Taken({b}) \in [BufferName -> SUBSET Row]
    BY <2>1, FlushType
  <2>3. /\ serving' = serving \ {r} /\ late' \subseteq late \cup {r}
        /\ UNCHANGED <<boot, attempt, jobs, stop, exit>>
    BY <1>6 DEF Enqueue
  <2>4. \/ buffer' = Taken({b}) /\ sent' = sent \cup Flush({b}, more) /\ timer' = timer
        \/ buffer' = more /\ sent' = sent /\ timer' = TRUE
    BY <1>6 DEF Enqueue
  <2>5. timer' \in BOOLEAN /\ buffer' \in [BufferName -> SUBSET Row]
        /\ sent' \subseteq [of : BufferName, rows : SUBSET Row, fate : Fate]
    <3>. HIDE DEF more
    <3>. QED BY <2>1, <2>2, <2>4
  <2>. QED BY <2>3, <2>5
<1>7. CASE Fire
  BY <1>7, FlushType DEF Fire
<1>8. ASSUME NEW s \in sent, NEW fate \in {"landed", "failed"}, SettleBatch(s, fate)
      PROVE  PodTypeOK'
  BY <1>8 DEF SettleBatch
<1>9. CASE Term              BY <1>9, FlushType DEF Term
<1>10. CASE EndDrain         BY <1>10 DEF EndDrain
<1>11. CASE JobsStopped      BY <1>11 DEF JobsStopped
<1>12. CASE Exit             BY <1>12 DEF Exit, LogUnsent
<1>13. CASE Kill             BY <1>13 DEF Kill
<1>. QED
  BY <1>1, <1>2, <1>3, <1>4, <1>5, <1>6, <1>7, <1>8, <1>9, <1>10, <1>11, <1>12, <1>13 DEF PodNext

\* Buffers that may be flushed while requests hold the rows of rest.
Ready(rows, rest) ==
  /\ \A b \in BufferName : rows[b] \subseteq RowsOf(b) /\ rows[b] \cap rest = {}
  /\ \A b \in BufferName : Cardinality(rows[b]) =< MaxRows
  /\ \A s \in sent, b \in BufferName : s.rows \cap rows[b] = {}
  /\ \A s \in sent : s.rows \cap rest = {}

\* The batches after some of those buffers are flushed.
Flushed(all, names, rows, rest) ==
  /\ \A s, t \in all : s # t => s.rows \cap t.rows = {}
  /\ \A s \in all : s.rows \cap rest = {}
  /\ \A s \in all : s.rows # {} /\ Cardinality(s.rows) =< MaxRows
  /\ \A s \in all, b \in BufferName \ names : s.rows \cap rows[b] = {}

\* A batch of a buffer's rows, together with the batches there were.
LEMMA FlushKeeps ==
  ASSUME PodTypeOK, OnePlace, BatchesFit, NEW names \in SUBSET BufferName,
         NEW rows, NEW rest, Ready(rows, rest)
  PROVE  Flushed(sent \cup Flush(names, rows), names, rows, rest)
<1>. USE DEF Ready
<1>. DEFINE new == Flush(names, rows)
<1>1. \A s \in new : \E b \in names : s = Batch(b, rows[b]) /\ s.rows = rows[b] /\ rows[b] # {}
  BY DEF Flush, Batch
<1>2. \A b, c \in BufferName : b # c => rows[b] \cap rows[c] = {}
  BY RowAssumption DEF RowsOf, BufferName
<1>3. \A s, t \in new : s # t => s.rows \cap t.rows = {}
  BY <1>1, <1>2
<1>4. \A s \in sent, t \in new : s.rows \cap t.rows = {}
  BY <1>1
<1>5. \A s, t \in sent : s # t => s.rows \cap t.rows = {}
  BY DEF OnePlace, SentOnce
<1>6. \A s \in new : s.rows \cap rest = {} /\ s.rows # {} /\ Cardinality(s.rows) =< MaxRows
  BY <1>1
<1>7. \A s \in new, b \in BufferName \ names : s.rows \cap rows[b] = {}
  BY <1>1, <1>2
<1>. HIDE DEF new
<1>8. \A s \in sent : s.rows # {} /\ Cardinality(s.rows) =< MaxRows
  BY DEF BatchesFit
<1>. QED
  BY <1>3, <1>4, <1>5, <1>6, <1>7, <1>8 DEF new, Flushed

\* Every step that leaves requests and rows alone keeps them where they are.
LEMMA RowsStay ==
  ASSUME OnePlace, BuffersShort, BatchesFit, UNCHANGED <<serving, buffer, sent>>
  PROVE  OnePlace' /\ BuffersShort' /\ BatchesFit'
BY DEF OnePlace, SentOnce, Buffered, BuffersShort, BatchesFit

\* A flush moves whole buffers into batches.
LEMMA FlushStep ==
  ASSUME PodTypeOK, OnePlace, BuffersShort, BatchesFit, serving' = serving,
         buffer' = Taken(BufferName), sent' = sent \cup Flush(BufferName, buffer)
  PROVE  /\ OnePlace' /\ BuffersShort' /\ BatchesFit'
         /\ Buffered' = {}
<1>1. \A b \in BufferName : buffer'[b] = {}
  BY DEF Taken
<1>2. Buffered' = {}
  BY <1>1 DEF Buffered, BufferName
<1>3. BuffersShort'
  BY <1>1, FS_EmptySet, RowAssumption DEF BuffersShort
<1>4. \A b \in BufferName : Cardinality(buffer[b]) =< MaxRows
  BY RowAssumption, FS_CardinalityType DEF BuffersShort
<1>5. \A s \in sent, b \in BufferName : s.rows \cap buffer[b] = {}
  BY DEF OnePlace, SentOnce, Buffered, BufferName
<1>6. /\ \A s, t \in sent' : s # t => s.rows \cap t.rows = {}
      /\ \A s \in sent' : s.rows \cap serving = {}
      /\ \A s \in sent' : s.rows # {} /\ Cardinality(s.rows) =< MaxRows
  <2>1. Ready(buffer, serving)
    BY <1>4, <1>5 DEF Ready, OnePlace, SentOnce
  <2>2. Flushed(sent', BufferName, buffer, serving)
    BY <2>1, FlushKeeps
  <2>. QED BY <2>2 DEF Flushed
<1>7. OnePlace'
  BY <1>1, <1>2, <1>6 DEF OnePlace, SentOnce
<1>. QED BY <1>2, <1>3, <1>6, <1>7 DEF BatchesFit

\* A row that is buffered, and the batch it may complete.
LEMMA EnqueueStep ==
  ASSUME PodTypeOK, OnePlace, BuffersShort, BatchesFit,
         NEW b \in BufferName, NEW r \in Row, Enqueue(b, r)
  PROVE  OnePlace' /\ BuffersShort' /\ BatchesFit'
<1>. DEFINE more == [buffer EXCEPT ![b] = @ \cup {r}]
            rest == serving \ {r}
<1>1. /\ r \in serving /\ r \in RowsOf(b) /\ serving' = rest
      /\ \/ /\ Cardinality(more[b]) >= MaxRows
            /\ buffer' = Taken({b}) /\ sent' = sent \cup Flush({b}, more)
         \/ /\ ~(Cardinality(more[b]) >= MaxRows)
            /\ buffer' = more /\ sent' = sent
  BY DEF Enqueue, PodTypeOK
<1>2. /\ more \in [BufferName -> SUBSET Row] /\ rest \in SUBSET Row
      /\ more[b] = buffer[b] \cup {r} /\ \A c \in BufferName \ {b} : more[c] = buffer[c]
  BY DEF PodTypeOK
<1>3. \A c \in BufferName : more[c] \subseteq RowsOf(c) /\ more[c] \cap rest = {}
  BY <1>1, <1>2 DEF OnePlace
<1>4. /\ IsFiniteSet(more[b]) /\ Cardinality(more[b]) =< MaxRows
      /\ Cardinality(more[b]) \in Nat
  <2>1. IsFiniteSet(buffer[b]) /\ Cardinality(buffer[b]) < MaxRows
    BY DEF BuffersShort
  <2>2. Cardinality(buffer[b]) \in Nat
    BY <2>1, FS_CardinalityType
  <2>3. /\ IsFiniteSet(buffer[b] \cup {r})
        /\ \/ Cardinality(buffer[b] \cup {r}) = Cardinality(buffer[b])
           \/ Cardinality(buffer[b] \cup {r}) = Cardinality(buffer[b]) + 1
    BY <2>1, FS_AddElement
  <2>4. more[b] = buffer[b] \cup {r}
    BY <1>2
  <2>. HIDE DEF more
  <2>. QED BY <2>1, <2>2, <2>3, <2>4, RowAssumption
<1>5. \A c \in BufferName : IsFiniteSet(more[c]) /\ Cardinality(more[c]) =< MaxRows
  BY <1>2, <1>4, FS_CardinalityType, RowAssumption DEF BuffersShort
<1>6. \A s \in sent, c \in BufferName : s.rows \cap more[c] = {}
  BY <1>1, <1>2 DEF OnePlace, SentOnce, Buffered, BufferName
<1>7. \A s \in sent : s.rows \cap rest = {}
  BY DEF OnePlace, SentOnce
<1>. HIDE DEF more, rest
<1>8. CASE buffer' = Taken({b}) /\ sent' = sent \cup Flush({b}, more)
  <2>1. buffer'[b] = {} /\ \A c \in BufferName \ {b} : buffer'[c] = more[c] /\ buffer'[c] = buffer[c]
    BY <1>2, <1>8 DEF Taken
  <2>2. /\ \A s, t \in sent' : s # t => s.rows \cap t.rows = {}
        /\ \A s \in sent' : s.rows \cap rest = {}
        /\ \A s \in sent' : s.rows # {} /\ Cardinality(s.rows) =< MaxRows
        /\ \A s \in sent', c \in BufferName \ {b} : s.rows \cap more[c] = {}
    <3>1. Ready(more, rest)
      BY <1>3, <1>5, <1>6, <1>7 DEF Ready
    <3>2. Flushed(sent', {b}, more, rest)
      BY <1>8, <3>1, FlushKeeps
    <3>. QED BY <3>2 DEF Flushed
  <2>3. \A s \in sent' : s.rows \cap Buffered' = {}
    BY <2>1, <2>2 DEF Buffered, BufferName
  <2>4. BuffersShort'
    <3>1. \A c \in BufferName : IsFiniteSet(buffer'[c]) /\ Cardinality(buffer'[c]) < MaxRows
      <4>. SUFFICES ASSUME NEW c \in BufferName
                    PROVE  IsFiniteSet(buffer'[c]) /\ Cardinality(buffer'[c]) < MaxRows
        OBVIOUS
      <4>1. CASE c = b
        BY <2>1, <4>1, FS_EmptySet, RowAssumption
      <4>2. CASE c # b
        BY <2>1, <4>2 DEF BuffersShort
      <4>. QED BY <4>1, <4>2
    <3>. QED BY <3>1 DEF BuffersShort
  <2>. QED BY <1>1, <1>3, <2>1, <2>2, <2>3, <2>4 DEF OnePlace, SentOnce, BatchesFit
<1>9. CASE ~(Cardinality(more[b]) >= MaxRows) /\ buffer' = more /\ sent' = sent
  <2>1. BuffersShort'
    <3>1. \A c \in BufferName : Cardinality(more[c]) < MaxRows
      BY <1>2, <1>4, <1>9, RowAssumption DEF BuffersShort
    <3>. QED BY <1>5, <1>9, <3>1 DEF BuffersShort
  <2>2. \A s \in sent : s.rows \cap Buffered' = {}
    BY <1>6, <1>9 DEF Buffered, BufferName
  <2>. QED BY <1>1, <1>3, <1>7, <1>9, <2>1, <2>2 DEF OnePlace, SentOnce, BatchesFit
<1>. QED BY <1>1, <1>8, <1>9

\* A batch that is settled or named keeps its rows.
LEMMA SettleStep ==
  ASSUME OnePlace, BuffersShort, BatchesFit, UNCHANGED <<serving, buffer>>,
         NEW f, sent' = {f[s] : s \in sent}, \A s \in sent : f[s].rows = s.rows
  PROVE  OnePlace' /\ BuffersShort' /\ BatchesFit'
<1>1. \A t \in sent' : \E s \in sent : t = f[s] /\ t.rows = s.rows
  OBVIOUS
<1>2. \A t, u \in sent' : t # u => t.rows \cap u.rows = {}
  BY <1>1 DEF OnePlace, SentOnce
<1>3. /\ \A t \in sent' : t.rows \cap Buffered' = {} /\ t.rows \cap serving' = {}
      /\ BatchesFit'
  BY <1>1 DEF OnePlace, SentOnce, BatchesFit, Buffered
<1>4. BuffersShort' /\ \A b \in BufferName : buffer'[b] \subseteq RowsOf(b) /\ buffer'[b] \cap serving' = {}
  BY DEF BuffersShort, OnePlace
<1>. QED BY <1>2, <1>3, <1>4 DEF OnePlace, SentOnce

\* Every step keeps each row in one place and each batch within the limit.
LEMMA PlaceStep ==
  ASSUME PodTypeOK, OnePlace, BuffersShort, BatchesFit, [PodNext]_podVars
  PROVE  OnePlace' /\ BuffersShort' /\ BatchesFit'
<1>1. CASE UNCHANGED podVars BY <1>1, RowsStay DEF podVars
<1>2. CASE Connect           BY <1>2, RowsStay DEF Connect, rowVars
<1>3. CASE StartJobQueue     BY <1>3, RowsStay DEF StartJobQueue, rowVars
<1>4. CASE Listen            BY <1>4, RowsStay DEF Listen, rowVars
<1>5. ASSUME NEW r \in Row, Accept(r)
      PROVE  OnePlace' /\ BuffersShort' /\ BatchesFit'
  <2>1. /\ r \notin Begun /\ serving' = serving \cup {r}
        /\ UNCHANGED <<buffer, sent>>
    BY <1>5 DEF Accept, rowVars
  <2>2. /\ \A b \in BufferName : r \notin buffer[b]
        /\ \A s \in sent : r \notin s.rows
    BY <2>1 DEF Begun
  <2>3. BuffersShort' /\ BatchesFit'
    BY <2>1 DEF BuffersShort, BatchesFit
  <2>4. \A b \in BufferName : buffer'[b] \subseteq RowsOf(b) /\ buffer'[b] \cap serving' = {}
    BY <2>1, <2>2 DEF OnePlace
  <2>5. SentOnce'
    BY <2>1, <2>2 DEF OnePlace, SentOnce, Buffered
  <2>. QED BY <2>3, <2>4, <2>5 DEF OnePlace
<1>6. ASSUME NEW b \in BufferName, NEW r \in Row, Enqueue(b, r)
      PROVE  OnePlace' /\ BuffersShort' /\ BatchesFit'
  BY <1>6, EnqueueStep
<1>7. CASE Fire              BY <1>7, FlushStep DEF Fire
<1>8. ASSUME NEW s \in sent, NEW fate \in {"landed", "failed"}, SettleBatch(s, fate)
      PROVE  OnePlace' /\ BuffersShort' /\ BatchesFit'
  <2>. DEFINE f == [t \in sent |-> IF t = s THEN [s EXCEPT !.fate = fate] ELSE t]
  <2>1. sent' = {f[t] : t \in sent} /\ UNCHANGED <<serving, buffer>>
    BY <1>8 DEF SettleBatch
  <2>2. \A t \in sent : f[t].rows = t.rows
    <3>1. \A t \in sent : t \in [of : BufferName, rows : SUBSET Row, fate : Fate]
      BY DEF PodTypeOK
    <3>2. \A t \in sent : [t EXCEPT !.fate = fate].rows = t.rows
      BY <3>1
    <3>3. \A t \in sent : f[t] = IF t = s THEN [s EXCEPT !.fate = fate] ELSE t
      OBVIOUS
    <3>. QED BY <3>2, <3>3
  <2>. HIDE DEF f
  <2>. QED BY <2>1, <2>2, SettleStep
<1>9. CASE Term              BY <1>9, FlushStep DEF Term
<1>10. CASE EndDrain         BY <1>10, RowsStay DEF EndDrain, rowVars
<1>11. CASE JobsStopped      BY <1>11, RowsStay DEF JobsStopped, rowVars
<1>12. CASE Exit
  <2>. DEFINE f == [t \in sent |-> IF t.fate = "flying" THEN [t EXCEPT !.fate = "named"] ELSE t]
  <2>1. sent' = {f[t] : t \in sent} /\ UNCHANGED <<serving, buffer>>
    BY <1>12 DEF Exit, LogUnsent
  <2>2. \A t \in sent : f[t].rows = t.rows
    BY DEF PodTypeOK
  <2>. HIDE DEF f
  <2>. QED BY <2>1, <2>2, SettleStep
<1>13. CASE Kill             BY <1>13, RowsStay DEF Kill, rowVars
<1>. QED
  BY <1>1, <1>2, <1>3, <1>4, <1>5, <1>6, <1>7, <1>8, <1>9, <1>10, <1>11, <1>12, <1>13 DEF PodNext

\* What a step that is not the exit leaves of the properties about waiting.
Kept == NoneForgotten' /\ LateOnly' /\ NothingUnsaid'

\* A step that moves no row and does not begin the shutdown.
LEMMA NothingMoves ==
  ASSUME NoneForgotten, LateOnly, Alive, exit' # "clean", UNCHANGED <<buffer, timer, late>>,
         stop' # "no" => stop # "no"
  PROVE  Kept
BY DEF Kept, NoneForgotten, LateOnly, NothingUnsaid, Buffered, Alive

\* Every step keeps the timer where rows wait, and says what it drops.
LEMMA WaitStep ==
  ASSUME PodInv, [PodNext]_podVars
  PROVE  Kept
<1>. USE DEF PodInv
<1>1. CASE UNCHANGED podVars
  BY <1>1 DEF podVars, Kept, NoneForgotten, LateOnly, NothingUnsaid, Buffered, Alive
<1>2. CASE Connect           BY <1>2, NothingMoves DEF Connect, rowVars, Alive
<1>3. CASE StartJobQueue     BY <1>3, NothingMoves DEF StartJobQueue, rowVars, Alive
<1>4. CASE Listen            BY <1>4, NothingMoves DEF Listen, rowVars, Alive
<1>5. ASSUME NEW r \in Row, Accept(r)
      PROVE  Kept
  BY <1>5, NothingMoves DEF Accept, rowVars, Alive
<1>6. ASSUME NEW b \in BufferName, NEW r \in Row, Enqueue(b, r)
      PROVE  Kept
  <2>1. /\ exit = "no" /\ UNCHANGED <<stop, exit>>
        /\ late' = IF stop = "no" THEN late ELSE late \cup {r}
    BY <1>6 DEF Enqueue, Alive
  <2>2. \/ buffer' = Taken({b}) /\ timer' = timer
        \/ buffer' = [buffer EXCEPT ![b] = @ \cup {r}] /\ timer' = TRUE
    BY <1>6 DEF Enqueue
  <2>3. CASE buffer' = Taken({b}) /\ timer' = timer
    <3>1. Buffered' \subseteq Buffered
      BY <2>3 DEF Taken, Buffered, BufferName
    <3>. QED BY <2>1, <2>3, <3>1 DEF Kept, NoneForgotten, LateOnly, NothingUnsaid, Alive
  <2>4. CASE buffer' = [buffer EXCEPT ![b] = @ \cup {r}] /\ timer' = TRUE
    <3>1. Buffered' \subseteq Buffered \cup {r}
      BY <2>4 DEF PodTypeOK, Buffered, BufferName
    <3>. QED BY <2>1, <2>4, <3>1 DEF Kept, NoneForgotten, LateOnly, NothingUnsaid, Alive
  <2>. QED BY <2>2, <2>3, <2>4
<1>7. CASE Fire
  <2>1. Buffered' = {}
    BY <1>7, FlushStep DEF Fire
  <2>. QED BY <1>7, <2>1 DEF Fire, Kept, NoneForgotten, LateOnly, NothingUnsaid, Alive
<1>8. ASSUME NEW s \in sent, NEW fate \in {"landed", "failed"}, SettleBatch(s, fate)
      PROVE  Kept
  BY <1>8, NothingMoves DEF SettleBatch, Alive
<1>9. CASE Term
  <2>1. Buffered' = {}
    BY <1>9, FlushStep DEF Term
  <2>. QED BY <1>9, <2>1 DEF Term, Kept, NoneForgotten, LateOnly, NothingUnsaid, Alive
<1>10. CASE EndDrain         BY <1>10, NothingMoves DEF EndDrain, rowVars, Alive
<1>11. CASE JobsStopped      BY <1>11, NothingMoves DEF JobsStopped, rowVars, Alive
<1>12. CASE Exit
  <2>1. \A s \in sent' : s.fate # "flying"
    BY <1>12 DEF Exit, LogUnsent, PodTypeOK
  <2>2. Buffered' \subseteq late' /\ exit' = "clean"
    BY <1>12 DEF Exit, LateOnly, Buffered
  <2>. QED BY <2>1, <2>2 DEF Kept, NoneForgotten, LateOnly, NothingUnsaid, Alive
<1>13. CASE Kill             BY <1>13, NothingMoves DEF Kill, rowVars, Alive
<1>. QED
  BY <1>1, <1>2, <1>3, <1>4, <1>5, <1>6, <1>7, <1>8, <1>9, <1>10, <1>11, <1>12, <1>13 DEF PodNext

\* A pod that starts has buffered and sent nothing.
LEMMA PodInvInit ==
  ASSUME PodInit
  PROVE  PodInv
<1>. USE DEF PodInit
<1>1. PodTypeOK
  <2>1. attempt \in 1..MaxAttempts
    BY RowAssumption
  <2>2. timer \in BOOLEAN /\ buffer \in [BufferName -> SUBSET Row] /\ serving \subseteq Row
        /\ late \subseteq Row
    OBVIOUS
  <2>3. sent \subseteq [of : BufferName, rows : SUBSET Row, fate : Fate]
    OBVIOUS
  <2>. QED BY <2>1, <2>2, <2>3 DEF PodTypeOK
<1>2. Buffered = {} /\ \A b \in BufferName : buffer[b] = {}
  BY DEF Buffered, BufferName
<1>3. OnePlace /\ BatchesFit
  BY <1>2 DEF OnePlace, SentOnce, BatchesFit
<1>4. BuffersShort
  BY <1>2, FS_EmptySet, RowAssumption DEF BuffersShort
<1>5. NoneForgotten /\ LateOnly /\ NothingUnsaid
  BY <1>2 DEF NoneForgotten, LateOnly, NothingUnsaid
<1>. QED BY <1>1, <1>3, <1>4, <1>5 DEF PodInv

\* And every step keeps the invariant.
LEMMA PodInvStep ==
  ASSUME PodInv, [PodNext]_podVars
  PROVE  PodInv'
<1>1. PodTypeOK' BY PodTypeStep DEF PodInv
<1>2. OnePlace' /\ BuffersShort' /\ BatchesFit' BY PlaceStep DEF PodInv
<1>3. Kept BY WaitStep
<1>. QED BY <1>1, <1>2, <1>3 DEF PodInv, Kept

-----------------------------------------------------------------------------
\* What it shows.
LEMMA PodInvShows == PodInv => PodTypeOK /\ RowsAccounted
BY DEF PodInv, OnePlace, RowsAccounted

\* Whatever the rows and the size of a batch: analytics.js sends a row in one
\* batch, never more rows than the ingest API takes, leaves none waiting
\* without a timer, and a pod that exits by itself has named what it drops.
THEOREM AnalyticsRowsAreAccountedFor ==
  PodSpec => [](PodTypeOK /\ RowsAccounted)
<1>1. PodInit => PodInv
  BY PodInvInit
<1>2. PodInv /\ [PodNext]_podVars => PodInv'
  BY PodInvStep
<1>. QED BY <1>1, <1>2, PodInvShows, PTL DEF PodSpec

-----------------------------------------------------------------------------
(* The migrations: the inductive invariant, in parts. *)

\* A database without documents was never migrated.
EmptyMeansNew == ~hasDocs => begun = {} /\ legacy = {}

\* Where a runner is tells what it has seen.
SeenByRunner ==
  \A r \in Runner :
    /\ phase[r] = "copy" => legacy # {}
    /\ phase[r] \in {"index", "mark"} => ~hasDocs
    /\ phase[r] = "mark" => indexed
    /\ phase[r] \notin {"log", "done"} => doing[r] = {}
    /\ phase[r] = "log" => doing[r] \subseteq pending[r]
    /\ phase[r] = "log" => \A m \in doing[r] : applied[m] > 0

\* The changelog that a runner has passed holds what was applied before.
Seeded ==
  /\ legacy \subseteq begun
  /\ changelog = {} => begun = legacy
  /\ ~halves /\ changelog # {} => begun \subseteq changelog
  /\ ~halves => \A r \in Runner :
       phase[r] \in {"baseline", "index", "mark", "plan", "up", "log"} => begun \subseteq changelog

\* On a database without documents it holds the old migrations, too.
Baselined ==
  ~halves /\ ~hasDocs =>
    /\ changelog # {} => Old \subseteq changelog
    /\ \A r \in Runner : phase[r] \in {"plan", "up", "log"} => Old \subseteq changelog

\* So no runner has any of them pending.
Planned ==
  ~halves => \A r \in Runner :
    phase[r] \in {"up", "log"} =>
      /\ pending[r] \cap begun = {}
      /\ ~hasDocs => pending[r] \cap Old = {}

\* A baseline cut short has its index.
HalvesIndexed == halves /\ ~hasDocs => indexed

SeedInv == EmptyMeansNew /\ SeenByRunner /\ Seeded /\ Baselined /\ Planned /\ HalvesIndexed

\* A migration that is not in the changelog ran once for each runner that died
\* before it logged it, and once more when a runner is about to.
CountedOf(m) ==
  /\ applied[m] =< 1 + Cardinality(Died(m))
  /\ m \notin changelog /\ (\A r \in Runner : phase[r] = "log" => m \notin doing[r])
       => applied[m] =< Cardinality(Died(m))

Counted == ~overlaps => \A m \in Migration : CountedOf(m)

\* One runner at a time, whose plan is still what is missing.
Alone ==
  ~overlaps =>
    /\ \A q, r \in Running : q = r
    /\ \A r \in Runner : phase[r] \in {"up", "log"} => pending[r] \cap changelog = {}

MigrationInv == MigrationTypeOK /\ SeedInv /\ OldStaysApplied /\ BaselineIndexed /\ MarkedWereApplied
       /\ Alone /\ Counted

-----------------------------------------------------------------------------
(* Lemmas *)


\* An insertMany, whole or cut short, keeps the types.
LEMMA InsertType ==
  ASSUME MigrationTypeOK, NEW r \in Runner, NEW rows \in SUBSET Migration,
         NEW next \in {"baseline", "plan"}, Insert(r, rows, next)
  PROVE  /\ changelog' \subseteq Migration
         /\ phase' \in [Runner -> {"new", "seed", "copy", "baseline", "index", "mark", "plan",
                                   "up", "log", "done"}]
         /\ UNCHANGED <<pending, doing>>
         /\ halves' \in BOOLEAN
         /\ failures' \in 0..MaxFailures
<1>1. CASE /\ changelog' = changelog \cup rows
           /\ Go(r, next)
           /\ UNCHANGED <<failures, halves>>
  BY <1>1 DEF MigrationTypeOK, Go
<1>2. ASSUME NEW some \in SUBSET rows,
             failures < MaxFailures, failures' = failures + 1,
             changelog' = changelog \cup some,
             halves' = (halves \/ (some # {} /\ some # rows)),
             Go(r, "done")
      PROVE  /\ changelog' \subseteq Migration
             /\ phase' \in [Runner -> {"new", "seed", "copy", "baseline", "index", "mark",
                                       "plan", "up", "log", "done"}]
             /\ UNCHANGED <<pending, doing>>
             /\ halves' \in BOOLEAN
             /\ failures' \in 0..MaxFailures
  <2>1. halves' \in BOOLEAN
    BY <1>2
  <2>2. failures' \in 0..MaxFailures
    BY <1>2, MigrationAssumption DEF MigrationTypeOK
  <2>. QED
    BY <1>2, <2>1, <2>2 DEF MigrationTypeOK, Go
<1>. QED
  BY <1>1, <1>2 DEF Insert

\* Every step keeps the types.
LEMMA MigrationTypeStep ==
  ASSUME MigrationTypeOK, [MigrationNext]_migrationVars
  PROVE  MigrationTypeOK'
<1>. USE MigrationAssumption DEF MigrationTypeOK, Untouched, Go
<1>1. CASE UNCHANGED migrationVars
  BY <1>1 DEF migrationVars, runnerVars
<1>2. ASSUME NEW r \in Runner, RunnerStep(r)
      PROVE  MigrationTypeOK'
  <2>1. CASE StartRunner(r)  BY <2>1 DEF StartRunner
  <2>2. CASE SeedCount(r)    BY <2>2 DEF SeedCount
  <2>3. CASE SeedCopy(r)     BY <2>3, InsertType DEF SeedCopy, Migration
  <2>4. CASE BaselineCount(r) BY <2>4 DEF BaselineCount
  <2>5. CASE BaselineIndex(r)
    <3>1. CASE indexed' = TRUE /\ Go(r, "mark") /\ failures' = failures
      BY <2>5, <3>1 DEF BaselineIndex
    <3>2. CASE failures < MaxFailures /\ failures' = failures + 1 /\ indexed' = indexed /\ Go(r, "done")
      BY <2>5, <3>2 DEF BaselineIndex
    <3>. QED BY <2>5, <3>1, <3>2 DEF BaselineIndex
  <2>6. CASE BaselineMark(r) BY <2>6, InsertType DEF BaselineMark, Migration
  <2>7. CASE PlanUp(r)       BY <2>7 DEF PlanUp
  <2>8. ASSUME NEW m \in Migration, RunMigration(r, m)
        PROVE  MigrationTypeOK'
    BY <2>8 DEF RunMigration
  <2>9. CASE LogMigration(r) BY <2>9 DEF LogMigration
  <2>10. CASE EndUp(r)       BY <2>10 DEF EndUp
  <2>11. CASE FailRunner(r)  BY <2>11 DEF FailRunner
  <2>. QED BY <1>2, <2>1, <2>2, <2>3, <2>4, <2>5, <2>6, <2>7, <2>8, <2>9, <2>10, <2>11
           DEF RunnerStep
<1>. QED BY <1>1, <1>2 DEF MigrationNext

\* Every step keeps what the changelog says of the past.
LEMMA SeedStep ==
  ASSUME MigrationTypeOK, MigrationTypeOK', SeedInv, [MigrationNext]_migrationVars
  PROVE  SeedInv'
<1>. USE MigrationAssumption DEF MigrationTypeOK, Untouched, Go, SeedInv, EmptyMeansNew,
         SeenByRunner, Seeded, Baselined, Planned, HalvesIndexed
<1>1. CASE UNCHANGED migrationVars
  BY <1>1 DEF migrationVars, runnerVars
<1>2. ASSUME NEW r \in Runner, RunnerStep(r)
      PROVE  SeedInv'
  <2>1. CASE StartRunner(r)  BY <2>1 DEF StartRunner
  <2>2. CASE SeedCount(r)    BY <2>2 DEF SeedCount
  <2>3. CASE SeedCopy(r)     BY <2>3 DEF SeedCopy, Insert, Migration
  <2>4. CASE BaselineCount(r) BY <2>4 DEF BaselineCount
  <2>5. CASE BaselineIndex(r) BY <2>5 DEF BaselineIndex
  <2>6. CASE BaselineMark(r) BY <2>6 DEF BaselineMark, Insert, Migration
  <2>7. CASE PlanUp(r)       BY <2>7 DEF PlanUp, Migration
  <2>8. ASSUME NEW m \in Migration, RunMigration(r, m)
        PROVE  SeedInv'
    BY <2>8 DEF RunMigration, MayRun
  <2>9. CASE LogMigration(r) BY <2>9 DEF LogMigration
  <2>10. CASE EndUp(r)       BY <2>10 DEF EndUp
  <2>11. CASE FailRunner(r)  BY <2>11 DEF FailRunner, Running
  <2>. QED BY <1>2, <2>1, <2>2, <2>3, <2>4, <2>5, <2>6, <2>7, <2>8, <2>9, <2>10, <2>11
           DEF RunnerStep
<1>. QED BY <1>1, <1>2 DEF MigrationNext

\* Every step keeps what is claimed of the changelog.
LEMMA HoldsStep ==
  ASSUME MigrationTypeOK, MigrationTypeOK', SeedInv, SeedInv',
         OldStaysApplied, BaselineIndexed, MarkedWereApplied, [MigrationNext]_migrationVars
  PROVE  OldStaysApplied' /\ BaselineIndexed' /\ MarkedWereApplied'
<1>. USE MigrationAssumption DEF MigrationTypeOK, Untouched, Go, SeedInv, EmptyMeansNew,
         SeenByRunner, Planned, HalvesIndexed, OldStaysApplied, BaselineIndexed, MarkedWereApplied
<1>1. CASE UNCHANGED migrationVars
  BY <1>1 DEF migrationVars, runnerVars
<1>2. ASSUME NEW r \in Runner, RunnerStep(r)
      PROVE  OldStaysApplied' /\ BaselineIndexed' /\ MarkedWereApplied'
  <2>1. CASE StartRunner(r)  BY <2>1 DEF StartRunner
  <2>2. CASE SeedCount(r)    BY <2>2 DEF SeedCount
  <2>3. CASE SeedCopy(r)     BY <2>3 DEF SeedCopy, Insert, Seeded
  <2>4. CASE BaselineCount(r) BY <2>4 DEF BaselineCount
  <2>5. CASE BaselineIndex(r) BY <2>5 DEF BaselineIndex
  <2>6. CASE BaselineMark(r) BY <2>6 DEF BaselineMark, Insert
  <2>7. CASE PlanUp(r)       BY <2>7 DEF PlanUp
  <2>8. ASSUME NEW m \in Migration, RunMigration(r, m)
        PROVE  OldStaysApplied' /\ BaselineIndexed' /\ MarkedWereApplied'
    BY <2>8 DEF RunMigration, MayRun
  <2>9. CASE LogMigration(r) BY <2>9 DEF LogMigration
  <2>10. CASE EndUp(r)       BY <2>10 DEF EndUp
  <2>11. CASE FailRunner(r)  BY <2>11 DEF FailRunner
  <2>. QED BY <1>2, <2>1, <2>2, <2>3, <2>4, <2>5, <2>6, <2>7, <2>8, <2>9, <2>10, <2>11
           DEF RunnerStep
<1>. QED BY <1>1, <1>2 DEF MigrationNext

\* Every step keeps it that one runner at a time works on its own plan, unless
\* two have overlapped.
LEMMA AloneStep ==
  ASSUME MigrationTypeOK, MigrationTypeOK', SeedInv, Alone, [MigrationNext]_migrationVars
  PROVE  Alone'
<1>. USE DEF MigrationTypeOK, Untouched, Go, SeedInv, SeenByRunner, Alone, Running
<1>1. CASE UNCHANGED migrationVars
  BY <1>1 DEF migrationVars, runnerVars
<1>2. ASSUME NEW r \in Runner, RunnerStep(r)
      PROVE  Alone'
  <2>1. CASE StartRunner(r)  BY <2>1 DEF StartRunner
  <2>2. CASE SeedCount(r)    BY <2>2 DEF SeedCount
  <2>3. CASE SeedCopy(r)     BY <2>3 DEF SeedCopy, Insert
  <2>4. CASE BaselineCount(r) BY <2>4 DEF BaselineCount
  <2>5. CASE BaselineIndex(r) BY <2>5 DEF BaselineIndex
  <2>6. CASE BaselineMark(r) BY <2>6 DEF BaselineMark, Insert
  <2>7. CASE PlanUp(r)       BY <2>7 DEF PlanUp
  <2>8. ASSUME NEW m \in Migration, RunMigration(r, m)
        PROVE  Alone'
    BY <2>8 DEF RunMigration, MayRun
  <2>9. CASE LogMigration(r) BY <2>9 DEF LogMigration
  <2>10. CASE EndUp(r)       BY <2>10 DEF EndUp
  <2>11. CASE FailRunner(r)  BY <2>11 DEF FailRunner
  <2>. QED BY <1>2, <2>1, <2>2, <2>3, <2>4, <2>5, <2>6, <2>7, <2>8, <2>9, <2>10, <2>11
           DEF RunnerStep
<1>. QED BY <1>1, <1>2 DEF MigrationNext

\* The runners that died stay dead, with what they left.
LEMMA DiedGrows ==
  ASSUME MigrationTypeOK, SeedInv, [MigrationNext]_migrationVars, NEW m \in Migration
  PROVE  /\ Died(m) \subseteq Died(m)'
         /\ Cardinality(Died(m)) \in Nat /\ Cardinality(Died(m)') \in Nat
         /\ Cardinality(Died(m)) =< Cardinality(Died(m)')
<1>1. Died(m) \subseteq Died(m)'
  <2>. USE DEF Died, MigrationTypeOK, Go, SeedInv, SeenByRunner
  <2>1. CASE UNCHANGED migrationVars
    BY <2>1 DEF migrationVars, runnerVars
  <2>2. ASSUME NEW r \in Runner, RunnerStep(r)
        PROVE  Died(m) \subseteq Died(m)'
    BY <2>2 DEF RunnerStep, StartRunner, SeedCount, SeedCopy, BaselineCount, BaselineIndex,
       BaselineMark, Insert, PlanUp, RunMigration, LogMigration, EndUp, FailRunner, Running
  <2>. QED BY <2>1, <2>2 DEF MigrationNext
<1>2. IsFiniteSet(Died(m)) /\ IsFiniteSet(Died(m)')
  BY MigrationAssumption, FS_Subset DEF Died
<1>. QED
  BY <1>1, <1>2, FS_Subset, FS_CardinalityType

\* Every step counts each migration that runs.
LEMMA CountStep ==
  ASSUME MigrationTypeOK, MigrationTypeOK', SeedInv, Alone, Counted,
         [MigrationNext]_migrationVars
  PROVE  Counted'
<1>. SUFFICES ASSUME ~overlaps', NEW m \in Migration
              PROVE  CountedOf(m)'
  BY DEF Counted
<1>. USE DEF MigrationTypeOK, Go, Untouched
<1>1. /\ Cardinality(Died(m)) \in Nat /\ Cardinality(Died(m)') \in Nat
      /\ Cardinality(Died(m)) =< Cardinality(Died(m)')
  BY DiedGrows
<1>2. ASSUME ~overlaps, applied'[m] = applied[m], changelog \subseteq changelog',
             \A r \in Runner : phase[r] = "log" /\ m \in doing[r] =>
               m \in changelog' \/ (phase'[r] = "log" /\ m \in doing'[r])
      PROVE  CountedOf(m)'
  BY <1>1, <1>2 DEF Counted, CountedOf
<1>3. CASE UNCHANGED migrationVars
  BY <1>2, <1>3 DEF migrationVars, runnerVars
<1>4. ASSUME NEW r \in Runner, RunnerStep(r)
      PROVE  CountedOf(m)'
  <2>0. ~overlaps
    BY <1>4 DEF RunnerStep, StartRunner, SeedCount, SeedCopy, BaselineCount, BaselineIndex,
       BaselineMark, PlanUp, RunMigration, LogMigration, EndUp, FailRunner
  <2>1. CASE StartRunner(r)  BY <1>2, <2>0, <2>1 DEF StartRunner
  <2>2. CASE SeedCount(r)    BY <1>2, <2>0, <2>2 DEF SeedCount
  <2>3. CASE SeedCopy(r)     BY <1>2, <2>0, <2>3 DEF SeedCopy, Insert
  <2>4. CASE BaselineCount(r) BY <1>2, <2>0, <2>4 DEF BaselineCount
  <2>5. CASE BaselineIndex(r) BY <1>2, <2>0, <2>5 DEF BaselineIndex
  <2>6. CASE BaselineMark(r) BY <1>2, <2>0, <2>6 DEF BaselineMark, Insert
  <2>7. CASE PlanUp(r)       BY <1>2, <2>0, <2>7 DEF PlanUp
  <2>8. ASSUME NEW n \in Migration, RunMigration(r, n)
        PROVE  CountedOf(m)'
    <3>1. phase[r] = "up" /\ n \in pending[r]
      BY <2>8 DEF RunMigration, MayRun
    <3>2. n \notin changelog
      BY <2>0, <3>1 DEF Alone
    <3>3. \A q \in Runner : phase[q] # "log"
      BY <2>0, <3>1 DEF Alone, Running
    <3>4. CASE n = m
      <4>1. applied[m] =< Cardinality(Died(m))
        BY <2>0, <3>2, <3>3, <3>4 DEF Counted, CountedOf
      <4>2. applied'[m] = applied[m] + 1 /\ phase'[r] = "log" /\ m \in doing'[r]
        BY <2>8, <3>4 DEF RunMigration
      <4>. QED BY <1>1, <4>1, <4>2 DEF CountedOf
    <3>5. CASE n # m
      BY <1>2, <2>0, <2>8, <3>3, <3>5 DEF RunMigration
    <3>. QED BY <3>4, <3>5
  <2>9. CASE LogMigration(r) BY <1>2, <2>0, <2>9 DEF LogMigration
  <2>10. CASE EndUp(r)       BY <1>2, <2>0, <2>10 DEF EndUp
  <2>11. CASE FailRunner(r)
    <3>1. CASE phase[r] = "log" /\ m \in doing[r]
      <4>1. Died(m)' = Died(m) \cup {r} /\ r \notin Died(m)
        BY <2>11, <3>1 DEF FailRunner, Died
      <4>2. Cardinality(Died(m)') = Cardinality(Died(m)) + 1
        BY <4>1, FS_AddElement, FS_Subset, MigrationAssumption DEF Died
      <4>3. applied[m] =< 1 + Cardinality(Died(m)) /\ applied' = applied
        BY <2>0, <2>11 DEF FailRunner, Counted, CountedOf
      <4>. QED BY <1>1, <4>2, <4>3 DEF CountedOf
    <3>2. CASE ~(phase[r] = "log" /\ m \in doing[r])
      BY <1>2, <2>0, <2>11, <3>2 DEF FailRunner
    <3>. QED BY <3>1, <3>2
  <2>. QED BY <1>4, <2>1, <2>2, <2>3, <2>4, <2>5, <2>6, <2>7, <2>8, <2>9, <2>10, <2>11
           DEF RunnerStep
<1>. QED BY <1>3, <1>4 DEF MigrationNext

-----------------------------------------------------------------------------
\* The initial states satisfy the invariant.
LEMMA MigrationInvInit == ASSUME MigrationInit PROVE MigrationInv
<1>. USE MigrationAssumption DEF MigrationInit
<1>1. MigrationTypeOK
  <2>1. changelog \subseteq Migration /\ legacy \subseteq Old /\ begun \subseteq Migration
    BY DEF Migration
  <2>2. /\ hasDocs \in BOOLEAN /\ indexed \in BOOLEAN
        /\ halves \in BOOLEAN /\ overlaps \in BOOLEAN
    OBVIOUS
  <2>3. failures \in 0..MaxFailures
    OBVIOUS
  <2>. QED BY <2>1, <2>2, <2>3 DEF MigrationTypeOK
<1>2. SeedInv
  BY DEF SeedInv, EmptyMeansNew, SeenByRunner, Seeded, Baselined, Planned, HalvesIndexed
<1>3. OldStaysApplied /\ BaselineIndexed /\ MarkedWereApplied
  BY DEF OldStaysApplied, BaselineIndexed, MarkedWereApplied, Migration
<1>4. Alone
  BY DEF Alone, Running
<1>5. ASSUME NEW m \in Migration
      PROVE  CountedOf(m)
  <2>1. Died(m) = {}
    BY DEF Died
  <2>. QED BY <2>1, FS_EmptySet DEF CountedOf
<1>. QED
  BY <1>1, <1>2, <1>3, <1>4, <1>5 DEF MigrationInv, Counted

\* Every step keeps the invariant.
LEMMA MigrationInvStep == ASSUME MigrationInv, [MigrationNext]_migrationVars PROVE MigrationInv'
<1>1. MigrationTypeOK'
  BY MigrationTypeStep DEF MigrationInv
<1>2. SeedInv'
  BY <1>1, SeedStep DEF MigrationInv
<1>. QED
  BY <1>1, <1>2, HoldsStep, AloneStep, CountStep DEF MigrationInv

\* What it shows.
LEMMA MigrationInvShows == MigrationInv => MigrationTypeOK /\ MigrationsHold
BY DEF MigrationInv, MigrationsHold, RanOnce, Counted, CountedOf

-----------------------------------------------------------------------------
\* run_migration.js, however many runners at once and wherever they die: what was
\* applied is not applied again, an empty database gets the baseline with its
\* index and no other does, and a migration is repeated only after a death.
THEOREM MigrationsAreSafe == MigrationSpec => [](MigrationTypeOK /\ MigrationsHold)
<1>. QED
  BY MigrationInvInit, MigrationInvStep, MigrationInvShows, PTL DEF MigrationSpec

-----------------------------------------------------------------------------
(* The re-push script: the inductive invariant, in parts. *)

\* A running script is at one of its kinds, with a batch in the order of the _ids, which only a
\* live run saves.
RunInOrder ==
  run # NoRun =>
    /\ run \in Run /\ run.n \in 1..Len(run.args.kinds)
    /\ IsFiniteSet(run.batch) /\ Cardinality(run.batch) =< run.args.concurrency
    /\ run.batch # {} => run.read \in run.batch
    /\ \A i \in run.batch : i =< run.read /\ i > run.from
    /\ run.at = "save" => run.batch # {} /\ run.args.live

\* The cursor is past an _id, or began after it.
Passed(i) == i =< run.from \/ i =< run.read

\* What a live run is past it pushed, skipped, or has in its batch.
RunTrue ==
  run # NoRun /\ run.args.live =>
    \A i \in run.args.filter :
      Passed(i) /\ <<KindOf(run), i>> \in steady =>
        \/ <<KindOf(run), i>> \in landed
        \/ i \in run.carried \cup run.failed
        \/ run.at = "read" /\ i \in run.batch

\* The run goes on from the checkpoint at its path, be it an older one or its own.
Resumed == Resumes(run.args, KindOf(run))
MyPath == StatePathFor(run.args.kinds, KindOf(run))

\* It is past what that checkpoint names, and its batch is after it.
Aligned ==
  run # NoRun /\ run.args.live /\ Resumed =>
    Passed(state[MyPath].last) /\ \A i \in run.batch : i > state[MyPath].last

\* The checkpoint at a path lets a later run push a record: one that follows its last, unless the
\* run whose checkpoint it is has just pushed it.
StateOwes(p, k, i) ==
  /\ state[p] # NoState /\ state[p].kind = k /\ i > state[p].last
  /\ ~(run # NoRun /\ run.args.live /\ KindOf(run) = k /\ MyPath = p /\ Resumed
       /\ run.at = "save" /\ i \in run.batch)

\* A live run that does not go on from a checkpoint is still to push a record.
RunOwes(k, i) ==
  /\ run # NoRun /\ run.args.live /\ KindOf(run) = k /\ ~Resumed
  /\ i > run.read \/ (run.at = "read" /\ i \in run.batch)

One(b) == IF b THEN 1 ELSE 0

\* Every push that can come without a fresh start or a kill is allowed for.
Owing(k, i) == One(StateOwes(Given, k, i)) + One(StateOwes(k, k, i)) + One(RunOwes(k, i))
Budget == \A k \in Kind, i \in Id : pushes[<<k, i>>] + Owing(k, i) =< allowed[<<k, i>>]

RepushInv == RepushTypeOK /\ RunInOrder /\ CheckpointTrue /\ RunTrue /\ Aligned /\ Budget

-----------------------------------------------------------------------------
(* Lemmas on the operators of Repush. *)

\* A set of natural numbers has a smallest member, and Least is that.
LEMMA LeastIs ==
  ASSUME NEW S \in SUBSET Nat, S # {}
  PROVE  Least(S) \in S /\ \A i \in S : Least(S) =< i
<1>1. PICK x \in S : \A y \in S : <<y, x>> \notin OpToRel(<, Nat)
  BY NatLessThanWellFounded, WFMin
<1>2. \A y \in S : ~(y < x)
  BY <1>1 DEF OpToRel
<1>3. \A y \in S : x =< y
  BY <1>2
<1>. QED BY <1>3 DEF Least

\* Greatest is the member that bounds the others.
LEMMA GreatestIs ==
  ASSUME NEW S \in SUBSET Nat, NEW m \in S, \A i \in S : i =< m
  PROVE  Greatest(S) = m
<1>1. Greatest(S) \in S /\ \A i \in S : i =< Greatest(S)
  BY DEF Greatest
<1>2. m =< Greatest(S) /\ Greatest(S) =< m /\ m \in Nat /\ Greatest(S) \in Nat
  BY <1>1
<1>. QED BY <1>2

\* What validate lets through names kinds, a filter and a batch length.
LEMMA ArgsShape ==
  ASSUME NEW args \in Args
  PROVE  /\ args.kinds \in Seq(Kind) /\ Len(args.kinds) \in Nat \ {0}
         /\ args.filter \subseteq Id /\ args.live \in BOOLEAN /\ args.limit \in Nat
         /\ args.filter \in Filters /\ args.concurrency \in Nat \ {0} /\ Id \subseteq Nat
         /\ \A n \in 1..Len(args.kinds) : /\ args.kinds[n] \in Kind
                                          /\ StatePathFor(args.kinds, args.kinds[n]) \in {Given, args.kinds[n]}
<1>1. args \in [kinds : KindLists, filter : Filters, live : BOOLEAN, continues : BOOLEAN,
                limit : Limits, concurrency : Concurrencies]
  BY DEF Args
<1>2. args.kinds \in Seq(Kind) /\ args.kinds # << >>
  BY <1>1, RepushAssumption
<1>3. Len(args.kinds) \in Nat \ {0} /\ \A n \in 1..Len(args.kinds) : args.kinds[n] \in Kind
  BY <1>2
<1>. QED BY <1>1, <1>2, <1>3, RepushAssumption DEF StatePathFor

\* A kind begins with an empty batch, after the checkpoint it resumes.
LEMMA PlanShape ==
  ASSUME state \in [Paths -> Checkpoint \cup {NoState}], NEW args \in Args,
         NEW n \in 1..Len(args.kinds)
  PROVE  LET kind == args.kinds[n]
             was == state[StatePathFor(args.kinds, kind)]
         IN /\ Plan(args, n) \in Run
            /\ Plan(args, n).args = args /\ Plan(args, n).n = n /\ KindOf(Plan(args, n)) = kind
            /\ Plan(args, n).at = "read" /\ Plan(args, n).batch = {} /\ Plan(args, n).failed = {}
            /\ Plan(args, n).read = 0
            /\ Resumes(args, kind) => /\ was \in Checkpoint
                                      /\ Plan(args, n).from = was.last
                                      /\ Plan(args, n).carried = was.failed
            /\ ~Resumes(args, kind) => Plan(args, n).from = 0 /\ Plan(args, n).carried = {}
<1>. DEFINE kind == args.kinds[n]
            was == state[StatePathFor(args.kinds, kind)]
<1>1. StatePathFor(args.kinds, kind) \in Paths
  BY ArgsShape DEF Paths
<1>2. Resumes(args, kind) => was \in Checkpoint /\ was.last \in Nat /\ was.failed \in SUBSET Id
  <2>1. was \in Checkpoint \cup {NoState} /\ (Resumes(args, kind) => was # NoState)
    BY <1>1 DEF Resumes
  <2>. HIDE DEF was
  <2>2. \A c \in Checkpoint : c.last \in Nat /\ c.failed \in SUBSET Id
    BY RepushAssumption DEF Checkpoint
  <2>. QED BY <2>1, <2>2
<1>3. Plan(args, n) = [args |-> args, n |-> n, at |-> "read",
                       from |-> IF Resumes(args, kind) THEN was.last ELSE 0,
                       carried |-> IF Resumes(args, kind) THEN was.failed ELSE {},
                       read |-> 0, batch |-> {}, seen |-> 0, failed |-> {}, reopens |-> 0]
  BY DEF Plan
<1>4. n \in Nat
  BY ArgsShape
<1>. HIDE DEF kind, was
<1>5. Plan(args, n) \in Run
  BY <1>2, <1>3, <1>4 DEF Run
<1>6. Plan(args, n).args = args /\ Plan(args, n).n = n /\ Plan(args, n).at = "read"
      /\ Plan(args, n).batch = {} /\ Plan(args, n).failed = {} /\ Plan(args, n).read = 0
  BY <1>3
<1>7. KindOf(Plan(args, n)) = kind
  BY <1>6 DEF KindOf, kind
<1>. QED BY <1>2, <1>3, <1>5, <1>6, <1>7 DEF kind, was

\* What a running script's fields are.
LEMMA RunShape ==
  ASSUME RunInOrder, run # NoRun
  PROVE  /\ run \in Run /\ run.args \in Args /\ run.n \in 1..Len(run.args.kinds)
         /\ KindOf(run) \in Kind /\ MyPath \in {Given, KindOf(run)} /\ MyPath \in Paths
         /\ run.args.filter \subseteq Id /\ run.args.filter \in Filters /\ Id \subseteq Nat
         /\ run.batch \subseteq Id /\ run.carried \subseteq Id /\ run.failed \subseteq Id
         /\ run.read \in Nat /\ run.from \in Nat /\ run.seen \in Nat /\ run.at \in {"read", "save"}
<1>1. /\ run \in Run /\ run.args \in Args /\ run.n \in 1..Len(run.args.kinds)
      /\ run.batch \subseteq Id /\ run.carried \subseteq Id /\ run.failed \subseteq Id
      /\ run.read \in Nat /\ run.from \in Nat /\ run.seen \in Nat /\ run.at \in {"read", "save"}
  BY DEF RunInOrder, Run
<1>. QED BY <1>1, ArgsShape DEF KindOf, MyPath, Paths

\* The record that is read next is the first one ahead.
LEMMA AheadIs ==
  ASSUME RunInOrder, run # NoRun, Ahead(run) # {}, NEW i, i = Least(Ahead(run))
  PROVE  /\ i \in Id /\ i \in run.args.filter \ run.carried /\ <<KindOf(run), i>> \in records
         /\ i \in Nat /\ i > run.from /\ i > run.read
         /\ \A j \in Ahead(run) : i =< j
<1>1. Ahead(run) \subseteq Id /\ Id \subseteq Nat
  BY RunShape DEF Ahead
<1>2. i \in Ahead(run) /\ \A j \in Ahead(run) : i =< j
  BY <1>1, LeastIs
<1>. QED BY <1>1, <1>2 DEF Ahead

\* What a fresh start or a kill allows keeps its shape.
LEMMA MoreType ==
  ASSUME allowed \in [Record -> Nat], NEW kind, NEW ids
  PROVE  More(kind, ids) \in [Record -> Nat]
BY DEF More

LEMMA RedoType ==
  ASSUME allowed \in [Record -> Nat], NEW args, NEW n, Redo(args, n)
  PROVE  allowed' \in [Record -> Nat]
BY MoreType DEF Redo

-----------------------------------------------------------------------------
(* The steps. *)

\* A kind that begins is in order.
LEMMA PlanInOrder ==
  ASSUME state \in [Paths -> Checkpoint \cup {NoState}], NEW args \in Args,
         NEW n \in 1..Len(args.kinds), run' = Plan(args, n)
  PROVE  RunInOrder'
<1>1. /\ run' \in Run /\ run'.args = args /\ run'.n = n /\ run'.batch = {} /\ run'.at = "read"
  BY PlanShape
<1>2. IsFiniteSet({}) /\ Cardinality({}) = 0
  BY FS_EmptySet
<1>3. 0 =< args.concurrency
  BY ArgsShape
<1>. QED BY <1>1, <1>2, <1>3 DEF RunInOrder, Run, Args

\* Every step keeps the types and the order in which a run reads.
LEMMA RunStep ==
  ASSUME RepushTypeOK, RunInOrder, [RepushNext]_repushVars
  PROVE  RepushTypeOK' /\ RunInOrder'
<1>0. /\ records \subseteq Record /\ steady \subseteq records
      /\ state \in [Paths -> Checkpoint \cup {NoState}]
      /\ landed \subseteq Record
      /\ pushes \in [Record -> Nat] /\ allowed \in [Record -> Nat]
  BY DEF RepushTypeOK
<1>. DEFINE Stores == /\ records' \subseteq Record /\ steady' \subseteq records'
                      /\ state' \in [Paths -> Checkpoint \cup {NoState}]
                      /\ landed' \subseteq Record
                      /\ pushes' \in [Record -> Nat] /\ allowed' \in [Record -> Nat]
<1>1. ASSUME Stores, RunInOrder' PROVE RepushTypeOK' /\ RunInOrder'
  BY <1>1 DEF RepushTypeOK, RunInOrder
<1>2. ASSUME NEW args \in Args, Start(args) PROVE Stores /\ RunInOrder'
  <2>1. 1 \in 1..Len(args.kinds)
    BY ArgsShape
  <2>. QED BY <1>0, <1>2, <2>1, PlanInOrder, RedoType DEF Start
<1>3. CASE ReadNext
  <2>1. PICK i : i = Least(Ahead(run)) /\ run' = [run EXCEPT !.read = i, !.batch = @ \cup {i}, !.reopens = 0]
    BY <1>3 DEF ReadNext
  <2>2. run # NoRun /\ run.at = "read" /\ Cardinality(run.batch) < run.args.concurrency
    BY <1>3 DEF ReadNext, Wants
  <2>3. /\ i \in Id /\ i \in Nat /\ i > run.from /\ i > run.read /\ run \in Run
    BY <1>3, <2>1, <2>2, AheadIs, RunShape DEF ReadNext
  <2>4. IsFiniteSet(run.batch) /\ run.args.concurrency \in Nat
    BY <2>2, RunShape, ArgsShape DEF RunInOrder
  <2>5. IsFiniteSet(run.batch \cup {i}) /\ Cardinality(run.batch \cup {i}) =< run.args.concurrency
    <3>1. Cardinality(run.batch) \in Nat
      BY <2>4, FS_CardinalityType
    <3>2. /\ IsFiniteSet(run.batch \cup {i})
          /\ \/ Cardinality(run.batch \cup {i}) = Cardinality(run.batch)
             \/ Cardinality(run.batch \cup {i}) = Cardinality(run.batch) + 1
      BY <2>4, FS_AddElement
    <3>. QED BY <2>2, <2>4, <3>1, <3>2
  <2>6. /\ run' \in Run /\ run'.args = run.args /\ run'.n = run.n /\ run'.at = "read"
        /\ run'.batch = run.batch \cup {i} /\ run'.read = i /\ run'.from = run.from
    BY <2>1, <2>2, <2>3 DEF Run
  <2>7. \A j \in run.batch \cup {i} : j =< i /\ j > run.from
    <3>1. \A j \in run.batch : j \in Nat /\ j =< run.read /\ j > run.from
      BY <2>2, RunShape DEF RunInOrder
    <3>2. run.read \in Nat
      BY <2>2, RunShape
    <3>. QED BY <2>3, <3>1, <3>2
  <2>8. RunInOrder'
    BY <2>2, <2>5, <2>6, <2>7 DEF RunInOrder
  <2>. QED BY <1>0, <1>1, <1>3, <2>8 DEF ReadNext, ghosts
<1>4. CASE LoseCursor
  <2>1. run # NoRun /\ run \in Run
    BY <1>4, RunShape DEF LoseCursor
  <2>2. CASE run' = NoRun
    BY <1>0, <1>1, <1>4, <2>2 DEF LoseCursor, ghosts, RunInOrder
  <2>3. CASE run' = [run EXCEPT !.reopens = @ + 1]
    <3>1. /\ run' \in Run /\ run'.args = run.args /\ run'.n = run.n /\ run'.at = run.at
          /\ run'.batch = run.batch /\ run'.read = run.read /\ run'.from = run.from
      BY <2>1, <2>3 DEF Run
    <3>. QED BY <1>0, <1>1, <1>4, <2>1, <3>1 DEF LoseCursor, ghosts, RunInOrder
  <2>. QED BY <1>4, <2>2, <2>3 DEF LoseCursor
<1>5. ASSUME NEW ok \in SUBSET Id, PushBatch(ok) PROVE Stores /\ RunInOrder'
  <2>1. /\ run # NoRun /\ run \in Run /\ run.batch \subseteq Id /\ KindOf(run) \in Kind
        /\ run.batch # {} /\ run.args.live
    BY <1>5, RunShape DEF PushBatch, Complete
  <2>2. Cardinality(run.batch) \in Nat
    BY <2>1, FS_CardinalityType DEF RunInOrder
  <2>3. /\ run' \in Run /\ run'.args = run.args /\ run'.n = run.n /\ run'.at = "save"
        /\ run'.batch = run.batch /\ run'.read = run.read /\ run'.from = run.from
    <3>1. run.seen + Cardinality(run.batch) \in Nat /\ run.failed \cup (run.batch \ ok) \subseteq Id
      BY <2>1, <2>2 DEF Run
    <3>2. run' = [run EXCEPT !.at = "save", !.seen = @ + Cardinality(run.batch),
                             !.failed = @ \cup (run.batch \ ok)]
      BY <1>5 DEF PushBatch
    <3>. QED BY <2>1, <3>1, <3>2 DEF Run
  <2>4. RunInOrder'
    BY <2>1, <2>3 DEF RunInOrder
  <2>5. landed' \subseteq Record /\ pushes' \in [Record -> Nat]
    BY <1>0, <1>5, <2>1 DEF PushBatch, Record
  <2>. QED BY <1>0, <1>5, <2>4, <2>5 DEF PushBatch
<1>6. CASE WriteState
  <2>1. /\ run # NoRun /\ run \in Run /\ run.batch \subseteq Id /\ KindOf(run) \in Kind
        /\ run.batch # {} /\ run.args.filter \in Filters /\ MyPath \in Paths
        /\ Failures(run) \subseteq Id
    BY <1>6, RunShape DEF WriteState, Failures, RunInOrder
  <2>2. Greatest(run.batch) \in Id
    BY <2>1, RunShape, GreatestIs DEF RunInOrder
  <2>3. /\ run' \in Run /\ run'.args = run.args /\ run'.n = run.n /\ run'.at = "read"
        /\ run'.batch = {}
    BY <1>6, <2>1 DEF Run, WriteState
  <2>4. IsFiniteSet({}) /\ Cardinality({}) = 0 /\ run.args.concurrency \in Nat
    BY <2>1, FS_EmptySet, ArgsShape, RunShape
  <2>5. RunInOrder'
    BY <2>1, <2>3, <2>4 DEF RunInOrder
  <2>6. state' \in [Paths -> Checkpoint \cup {NoState}]
    BY <1>0, <1>6, <2>1, <2>2 DEF WriteState, Checkpoint, MyPath
  <2>. QED BY <1>0, <1>1, <1>6, <2>5, <2>6 DEF WriteState, ghosts
<1>7. CASE CountBatch
  <2>1. run # NoRun /\ run \in Run /\ run.at = "read"
    BY <1>7, RunShape DEF CountBatch, Complete
  <2>2. Cardinality(run.batch) \in Nat
    BY <2>1, FS_CardinalityType DEF RunInOrder
  <2>3. /\ run' \in Run /\ run'.args = run.args /\ run'.n = run.n /\ run'.at = "read"
        /\ run'.batch = {}
    <3>1. run.seen + Cardinality(run.batch) \in Nat
      BY <2>1, <2>2 DEF Run
    <3>2. run' = [run EXCEPT !.seen = @ + Cardinality(run.batch), !.batch = {}]
      BY <1>7 DEF CountBatch
    <3>. QED BY <2>1, <3>1, <3>2 DEF Run
  <2>4. IsFiniteSet({}) /\ Cardinality({}) = 0 /\ run.args.concurrency \in Nat
    BY <2>1, FS_EmptySet, ArgsShape, RunShape
  <2>5. RunInOrder'
    BY <2>1, <2>3, <2>4 DEF RunInOrder
  <2>. QED BY <1>0, <1>1, <1>7, <2>5 DEF CountBatch, ghosts
<1>8. CASE EndKind
  <2>1. run # NoRun /\ run.args \in Args /\ run.n \in 1..Len(run.args.kinds)
    BY <1>8, RunShape DEF EndKind
  <2>2. CASE run' = NoRun /\ allowed' = allowed
    BY <1>0, <1>1, <1>8, <2>2 DEF EndKind, RunInOrder
  <2>3. CASE run.n < Len(run.args.kinds) /\ run' = Plan(run.args, run.n + 1) /\ Redo(run.args, run.n + 1)
    <3>1. run.n + 1 \in 1..Len(run.args.kinds)
      BY <2>1, <2>3, ArgsShape
    <3>. QED BY <1>0, <1>1, <1>8, <2>1, <2>3, <3>1, PlanInOrder, RedoType DEF EndKind
  <2>. QED BY <1>8, <2>2, <2>3 DEF EndKind
<1>9. ASSUME NEW ok \in SUBSET Id, KillRun(ok) PROVE Stores /\ RunInOrder'
  <2>1. run # NoRun /\ run.batch \subseteq Id /\ KindOf(run) \in Kind
    BY <1>9, RunShape DEF KillRun
  <2>2. run' = NoRun /\ UNCHANGED <<records, state, steady>>
    BY <1>9 DEF KillRun
  <2>3. landed' = landed \cup ({KindOf(run)} \X ok) /\ ok \subseteq Id
    BY <1>9 DEF KillRun
  <2>4. pushes' \in [Record -> Nat]
    BY <1>0, <1>9 DEF KillRun
  <2>5. allowed' = allowed \/ allowed' = More(KindOf(run), run.batch)
    BY <1>9 DEF KillRun
  <2>. QED BY <1>0, <2>1, <2>2, <2>3, <2>4, <2>5, MoreType DEF RunInOrder, Record
<1>10. ASSUME NEW rec \in Record, ChangeRecords(rec) PROVE Stores /\ RunInOrder'
  <2>1. /\ UNCHANGED <<state, run, landed, pushes, allowed>> /\ steady' = steady \ {rec}
        /\ records' = records \ {rec} \/ records' = records \cup {rec}
    BY <1>10 DEF ChangeRecords
  <2>. QED BY <1>0, <2>1 DEF RunInOrder
<1>11. CASE UNCHANGED repushVars
  BY <1>0, <1>1, <1>11 DEF repushVars, RunInOrder
<1>. HIDE DEF Stores
<1>. QED BY <1>1, <1>2, <1>3, <1>4, <1>5, <1>6, <1>7, <1>8, <1>9, <1>10, <1>11 DEF RepushNext

\* Checkpoints stay true while none is written.
LEMMA CheckpointsStay ==
  ASSUME CheckpointTrue, UNCHANGED state, steady' \subseteq steady, landed \subseteq landed'
  PROVE  CheckpointTrue'
BY DEF CheckpointTrue

\* A run stays true while it does not read on, and what it pushed is kept.
LEMMA RunStays ==
  ASSUME RunTrue,
         run' # NoRun =>
           /\ run # NoRun /\ run'.args = run.args /\ run'.n = run.n
           /\ run'.from = run.from /\ run'.read = run.read
           /\ run'.carried = run.carried /\ run'.failed = run.failed
           /\ run'.at = run.at /\ run'.batch = run.batch,
         steady' \subseteq steady, landed \subseteq landed'
  PROVE  RunTrue'
BY DEF RunTrue, Passed, KindOf

\* A kind that begins where its checkpoint ends is past what the checkpoint covers.
LEMMA PlanTrue ==
  ASSUME state \in [Paths -> Checkpoint \cup {NoState}], CheckpointTrue, NEW args \in Args,
         NEW n \in 1..Len(args.kinds), run' = Plan(args, n), UNCHANGED <<state, steady, landed>>
  PROVE  RunTrue' /\ Aligned'
<1>. DEFINE kind == args.kinds[n]
            path == StatePathFor(args.kinds, kind)
<1>0. /\ run'.args = args /\ run'.batch = {} /\ run'.read = 0 /\ KindOf(run)' = kind
      /\ MyPath' = path /\ path \in Paths
  BY PlanShape, ArgsShape DEF MyPath, Paths
<1>4. \A i \in args.filter : i \in Nat /\ ~(i =< 0)
  <2>1. args.filter \subseteq Id
    BY ArgsShape
  <2>2. \A i \in Id : i \in Nat /\ i # 0
    BY RepushAssumption
  <2>. QED BY <2>1, <2>2
<1>1. CASE Resumes(args, kind)
  <2>1. /\ state[path] \in Checkpoint /\ run'.from = state[path].last
        /\ run'.carried = state[path].failed
    BY <1>1, PlanShape
  <2>2. state[path] # NoState /\ state[path].kind = kind /\ state[path].filter = args.filter
    BY <1>1 DEF Resumes
  <2>. HIDE DEF kind, path
  <2>3. RunTrue'
    <3>. SUFFICES ASSUME NEW i \in args.filter, Passed(i)', <<kind, i>> \in steady
                  PROVE  <<kind, i>> \in landed \/ i \in run'.carried
      BY <1>0 DEF RunTrue
    <3>1. i \in Nat /\ ~(i =< 0)
      BY <1>4
    <3>2. i =< state[path].last
      BY <1>0, <2>1, <3>1 DEF Passed
    <3>. QED BY <1>0, <2>1, <2>2, <3>2 DEF CheckpointTrue
  <2>4. Aligned'
    <3>1. state[path].last \in Nat
      BY <2>1, RepushAssumption DEF Checkpoint
    <3>. QED BY <1>0, <2>1, <3>1 DEF Aligned, Passed
  <2>. QED BY <2>3, <2>4
<1>2. CASE ~Resumes(args, kind)
  <2>1. run'.from = 0
    BY <1>2, PlanShape
  <2>2. ~Resumed'
    BY <1>0, <1>2 DEF Resumed, Resumes
  <2>. HIDE DEF kind, path
  <2>3. \A i \in args.filter : ~Passed(i)'
    BY <1>0, <1>4, <2>1 DEF Passed
  <2>. QED BY <1>0, <2>2, <2>3 DEF RunTrue, Aligned
<1>. QED BY <1>1, <1>2

\* Every step keeps checkpoints and runs true.
LEMMA TrueStep ==
  ASSUME RepushTypeOK, RunInOrder, CheckpointTrue, RunTrue, [RepushNext]_repushVars
  PROVE  CheckpointTrue' /\ RunTrue'
<1>0. /\ state \in [Paths -> Checkpoint \cup {NoState}] /\ steady \subseteq records
  BY DEF RepushTypeOK
<1>1. ASSUME NEW args \in Args, NEW n \in 1..Len(args.kinds), run' = Plan(args, n),
             UNCHANGED <<state, steady, landed>>
      PROVE  CheckpointTrue' /\ RunTrue'
  BY <1>0, <1>1, PlanTrue, CheckpointsStay
<1>2. ASSUME NEW args \in Args, Start(args) PROVE CheckpointTrue' /\ RunTrue'
  <2>1. 1 \in 1..Len(args.kinds)
    BY ArgsShape
  <2>. QED BY <1>1, <1>2, <2>1 DEF Start
<1>3. CASE ReadNext
  <2>0. UNCHANGED <<state, steady, landed>>
    BY <1>3 DEF ReadNext, ghosts
  <2>1. PICK i : i = Least(Ahead(run)) /\ run' = [run EXCEPT !.read = i, !.batch = @ \cup {i}, !.reopens = 0]
    BY <1>3 DEF ReadNext
  <2>2. /\ run # NoRun /\ run.at = "read" /\ run \in Run /\ run.from \in Nat /\ run.read \in Nat
        /\ run.args.filter \subseteq Id /\ Id \subseteq Nat
    BY <1>3, RunShape DEF ReadNext, Wants
  <2>3. i \in Nat /\ i > run.from /\ i > run.read /\ \A j \in Ahead(run) : i =< j
    BY <1>3, <2>1, <2>2, AheadIs DEF ReadNext
  <2>4. /\ run'.args = run.args /\ KindOf(run)' = KindOf(run) /\ run'.at = "read"
        /\ run'.batch = run.batch \cup {i} /\ run'.read = i /\ run'.from = run.from
        /\ run'.carried = run.carried /\ run'.failed = run.failed
    BY <2>1, <2>2 DEF Run, KindOf
  <2>5. RunTrue'
    <3>. SUFFICES ASSUME run.args.live, NEW j \in run.args.filter, Passed(j)',
                         <<KindOf(run), j>> \in steady
                  PROVE  \/ <<KindOf(run), j>> \in landed
                         \/ j \in run.carried \cup run.failed
                         \/ j \in run.batch \cup {i}
      BY <2>0, <2>4 DEF RunTrue
    <3>1. CASE Passed(j)
      BY <2>2, <3>1 DEF RunTrue
    <3>2. CASE ~Passed(j)
      <4>1. j \in Nat /\ j > run.from /\ j > run.read /\ j =< i
        <5>1. j \in Nat /\ ~(j =< run.from) /\ ~(j =< run.read)
          BY <2>2, <3>2 DEF Passed
        <5>2. j =< run'.from \/ j =< run'.read
          BY DEF Passed
        <5>. QED BY <2>2, <2>3, <2>4, <5>1, <5>2
      <4>2. j \in run.carried \/ j \in Ahead(run)
        BY <1>0, <4>1 DEF Ahead
      <4>3. j \in Ahead(run) => j = i
        BY <2>3, <4>1
      <4>. QED BY <4>2, <4>3
    <3>. QED BY <3>1, <3>2
  <2>. QED BY <2>0, <2>5, CheckpointsStay
<1>4. CASE LoseCursor
  <2>0. UNCHANGED <<state, steady, landed>> /\ run # NoRun /\ run \in Run
    BY <1>4, RunShape DEF LoseCursor, ghosts
  <2>1. run' = NoRun \/ run' = [run EXCEPT !.reopens = @ + 1]
    BY <1>4 DEF LoseCursor
  <2>. QED BY <2>0, <2>1, CheckpointsStay, RunStays DEF Run
<1>5. ASSUME NEW ok \in SUBSET Id, PushBatch(ok) PROVE CheckpointTrue' /\ RunTrue'
  <2>1. /\ run # NoRun /\ run \in Run /\ run.at = "read" /\ UNCHANGED <<state, steady>>
        /\ landed' = landed \cup ({KindOf(run)} \X ok)
    BY <1>5, RunShape DEF PushBatch, Complete
  <2>2. /\ run'.args = run.args /\ run'.n = run.n /\ run'.read = run.read /\ run'.from = run.from
        /\ run'.carried = run.carried /\ run'.failed = run.failed \cup (run.batch \ ok)
    BY <1>5, <2>1 DEF PushBatch, Run
  <2>3. KindOf(run)' = KindOf(run) /\ \A i : Passed(i)' <=> Passed(i)
    BY <2>2 DEF KindOf, Passed
  <2>4. RunTrue'
    BY <2>1, <2>2, <2>3 DEF RunTrue
  <2>. QED BY <2>1, <2>4, CheckpointsStay
<1>6. CASE WriteState
  <2>1. /\ run # NoRun /\ run \in Run /\ run.at = "save" /\ MyPath \in Paths
        /\ UNCHANGED <<steady, landed>> /\ run.read \in Nat
        /\ run.batch # {} /\ run.batch \subseteq Nat /\ run.args.live
    BY <1>6, RunShape DEF WriteState, ghosts, RunInOrder
  <2>2. Greatest(run.batch) = run.read
    BY <2>1, GreatestIs DEF RunInOrder
  <2>3. /\ run'.args = run.args /\ run'.n = run.n /\ run'.read = run.read /\ run'.from = run.from
        /\ run'.carried = run.carried /\ run'.failed = run.failed
    BY <1>6, <2>1 DEF WriteState, Run
  <2>4. KindOf(run)' = KindOf(run) /\ \A i : Passed(i)' <=> Passed(i)
    BY <2>3 DEF KindOf, Passed
  <2>5. RunTrue'
    BY <2>1, <2>3, <2>4 DEF RunTrue
  <2>6. /\ state'[MyPath] = [kind |-> KindOf(run), filter |-> run.args.filter, last |-> run.read,
                            failed |-> run.carried \cup run.failed]
        /\ \A p \in Paths \ {MyPath} : state'[p] = state[p]
    BY <1>0, <1>6, <2>1, <2>2 DEF WriteState, Failures, MyPath
  <2>7. ASSUME NEW i \in run.args.filter, i =< run.read, <<KindOf(run), i>> \in steady
        PROVE  <<KindOf(run), i>> \in landed \/ i \in run.carried \cup run.failed
    BY <2>1, <2>7 DEF RunTrue, Passed
  <2>8. CheckpointTrue'
    BY <2>1, <2>6, <2>7 DEF CheckpointTrue
  <2>. QED BY <2>5, <2>8
<1>7. CASE CountBatch
  <2>1. run # NoRun /\ run \in Run /\ ~run.args.live /\ UNCHANGED <<state, steady, landed>>
    BY <1>7, RunShape DEF CountBatch, ghosts
  <2>2. run'.args = run.args
    BY <1>7, <2>1 DEF CountBatch, Run
  <2>. QED BY <2>1, <2>2, CheckpointsStay DEF RunTrue
<1>8. CASE EndKind
  <2>1. /\ run # NoRun /\ run.args \in Args /\ run.n \in 1..Len(run.args.kinds)
        /\ UNCHANGED <<state, steady, landed>>
    BY <1>8, RunShape DEF EndKind
  <2>2. CASE run' = NoRun
    BY <2>1, <2>2, CheckpointsStay DEF RunTrue
  <2>3. CASE run.n < Len(run.args.kinds) /\ run' = Plan(run.args, run.n + 1)
    <3>1. run.n + 1 \in 1..Len(run.args.kinds)
      BY <2>1, <2>3, ArgsShape
    <3>. QED BY <1>1, <2>1, <2>3, <3>1
  <2>. QED BY <1>8, <2>2, <2>3 DEF EndKind
<1>9. ASSUME NEW ok \in SUBSET Id, KillRun(ok) PROVE CheckpointTrue' /\ RunTrue'
  <2>1. run' = NoRun /\ UNCHANGED <<state, steady>> /\ landed \subseteq landed'
    BY <1>9 DEF KillRun
  <2>. QED BY <2>1, CheckpointsStay DEF RunTrue
<1>10. ASSUME NEW rec \in Record, ChangeRecords(rec) PROVE CheckpointTrue' /\ RunTrue'
  <2>1. UNCHANGED <<state, run, landed>> /\ steady' \subseteq steady
    BY <1>10 DEF ChangeRecords
  <2>. QED BY <2>1, CheckpointsStay, RunStays
<1>11. CASE UNCHANGED repushVars
  BY <1>11, CheckpointsStay, RunStays DEF repushVars
<1>. QED BY <1>2, <1>3, <1>4, <1>5, <1>6, <1>7, <1>8, <1>9, <1>10, <1>11 DEF RepushNext

\* A run that stays at its kind keeps its path, and its checkpoint while none is written.
LEMMA SameRun ==
  ASSUME run'.args = run.args, run'.n = run.n
  PROVE  /\ KindOf(run)' = KindOf(run) /\ MyPath' = MyPath
         /\ UNCHANGED state => (Resumed' <=> Resumed)
BY DEF KindOf, MyPath, Resumed, Resumes

\* A checkpoint that a run goes on from is one.
LEMMA ResumedShape ==
  ASSUME RepushTypeOK, RunInOrder, run # NoRun, Resumed
  PROVE  /\ state[MyPath] # NoState /\ state[MyPath].last \in Nat
         /\ state[MyPath].kind = KindOf(run) /\ state[MyPath].filter = run.args.filter
<1>1. MyPath \in Paths /\ state[MyPath] # NoState /\ state[MyPath].kind = KindOf(run)
      /\ state[MyPath].filter = run.args.filter
  BY RunShape DEF Resumed, Resumes, MyPath
<1>2. state[MyPath] \in Checkpoint
  BY <1>1 DEF RepushTypeOK
<1>3. state[MyPath].last \in Id /\ Id \subseteq Nat
  BY <1>2, RepushAssumption DEF Checkpoint
<1>. QED BY <1>1, <1>3

\* What WriteState writes, and what becomes of the run.
LEMMA WriteShape ==
  ASSUME RepushTypeOK, RunInOrder, WriteState
  PROVE  /\ run # NoRun /\ run.at = "save" /\ run.args.live /\ MyPath \in Paths
         /\ state'[MyPath] # NoState => state'[MyPath].kind = KindOf(run)
         /\ state'[MyPath] = [kind |-> KindOf(run), filter |-> run.args.filter, last |-> run.read,
                              failed |-> run.carried \cup run.failed]
         /\ \A p \in Paths \ {MyPath} : state'[p] = state[p]
         /\ run'.args = run.args /\ run'.n = run.n /\ run'.read = run.read /\ run'.from = run.from
         /\ run'.at = "read" /\ run'.batch = {}
         /\ UNCHANGED <<pushes, allowed>>
<1>1. /\ run # NoRun /\ run \in Run /\ run.at = "save" /\ MyPath \in Paths
      /\ run.read \in Nat /\ run.batch # {} /\ run.batch \subseteq Nat /\ run.args.live
  BY RunShape DEF WriteState, RunInOrder
<1>2. Greatest(run.batch) = run.read
  BY <1>1, GreatestIs DEF RunInOrder
<1>3. run'.args = run.args /\ run'.n = run.n /\ run'.read = run.read /\ run'.from = run.from
      /\ run'.at = "read" /\ run'.batch = {}
  BY <1>1 DEF WriteState, Run
<1>4. UNCHANGED <<pushes, allowed>>
  BY DEF WriteState, ghosts
<1>. QED BY <1>1, <1>2, <1>3, <1>4 DEF WriteState, RepushTypeOK, Failures, MyPath

\* Every step keeps the run behind its checkpoint.
LEMMA AlignedStep ==
  ASSUME RepushTypeOK, RunInOrder, CheckpointTrue, Aligned, [RepushNext]_repushVars
  PROVE  Aligned'
<1>0. /\ state \in [Paths -> Checkpoint \cup {NoState}]
  BY DEF RepushTypeOK
<1>1. ASSUME NEW args \in Args, NEW n \in 1..Len(args.kinds), run' = Plan(args, n),
             UNCHANGED <<state, steady, landed>>
      PROVE  Aligned'
  BY <1>0, <1>1, PlanTrue
<1>2. ASSUME NEW args \in Args, Start(args) PROVE Aligned'
  <2>1. 1 \in 1..Len(args.kinds)
    BY ArgsShape
  <2>. QED BY <1>1, <1>2, <2>1 DEF Start
<1>3. ASSUME run # NoRun, UNCHANGED state,
             run' # NoRun =>
               /\ run'.args = run.args /\ run'.n = run.n
               /\ run'.from = run.from /\ run'.read = run.read
               /\ run'.batch = run.batch \/ run'.batch = {}
      PROVE  Aligned'
  <2>1. run' # NoRun => MyPath' = MyPath /\ (Resumed' <=> Resumed)
    BY <1>3, SameRun
  <2>. QED BY <1>3, <2>1 DEF Aligned, Passed
<1>4. CASE ReadNext
  <2>1. PICK i : i = Least(Ahead(run)) /\ run' = [run EXCEPT !.read = i, !.batch = @ \cup {i}, !.reopens = 0]
    BY <1>4 DEF ReadNext
  <2>2. /\ run # NoRun /\ run \in Run /\ UNCHANGED state /\ run.from \in Nat /\ run.read \in Nat
    BY <1>4, RunShape DEF ReadNext
  <2>3. i \in Nat /\ i > run.from /\ i > run.read
    BY <1>4, <2>1, <2>2, AheadIs DEF ReadNext
  <2>4. /\ run'.args = run.args /\ run'.n = run.n /\ run'.read = i /\ run'.from = run.from
        /\ run'.batch = run.batch \cup {i}
    BY <2>1, <2>2 DEF Run
  <2>5. MyPath' = MyPath /\ (Resumed' <=> Resumed)
    BY <2>2, <2>4, SameRun
  <2>6. ASSUME run.args.live, Resumed
        PROVE  i > state[MyPath].last /\ state[MyPath].last =< i
               /\ \A j \in run.batch : j > state[MyPath].last
    <3>1. state[MyPath].last \in Nat
      BY <2>2, <2>6, ResumedShape
    <3>. QED BY <2>2, <2>3, <2>6, <3>1 DEF Aligned, Passed
  <2>. QED BY <2>2, <2>4, <2>5, <2>6 DEF Aligned, Passed
<1>5. CASE LoseCursor
  <2>1. run # NoRun /\ run \in Run /\ UNCHANGED state
    BY <1>5, RunShape DEF LoseCursor
  <2>2. run' = NoRun \/ run' = [run EXCEPT !.reopens = @ + 1]
    BY <1>5 DEF LoseCursor
  <2>. QED BY <1>3, <2>1, <2>2 DEF Run
<1>6. ASSUME NEW ok \in SUBSET Id, PushBatch(ok) PROVE Aligned'
  <2>1. run # NoRun /\ run \in Run /\ UNCHANGED state
    BY <1>6, RunShape DEF PushBatch
  <2>. QED BY <1>3, <1>6, <2>1 DEF Run, PushBatch
<1>7. CASE WriteState
  <2>1. MyPath' = MyPath
    BY <1>7, WriteShape, SameRun
  <2>. QED BY <1>7, <2>1, WriteShape, RunShape DEF Aligned, Passed
<1>8. CASE CountBatch
  <2>1. run # NoRun /\ run \in Run /\ UNCHANGED state
    BY <1>8, RunShape DEF CountBatch
  <2>. QED BY <1>3, <1>8, <2>1 DEF Run, CountBatch
<1>9. CASE EndKind
  <2>1. /\ run # NoRun /\ run.args \in Args /\ run.n \in 1..Len(run.args.kinds)
        /\ UNCHANGED <<state, steady, landed>>
    BY <1>9, RunShape DEF EndKind
  <2>2. CASE run' = NoRun
    BY <2>2 DEF Aligned
  <2>3. CASE run.n < Len(run.args.kinds) /\ run' = Plan(run.args, run.n + 1)
    <3>1. run.n + 1 \in 1..Len(run.args.kinds)
      BY <2>1, <2>3, ArgsShape
    <3>. QED BY <1>1, <2>1, <2>3, <3>1
  <2>. QED BY <1>9, <2>2, <2>3 DEF EndKind
<1>10. ASSUME NEW ok \in SUBSET Id, KillRun(ok) PROVE Aligned'
  BY <1>10 DEF KillRun, Aligned
<1>11. ASSUME NEW rec \in Record, ChangeRecords(rec) PROVE Aligned'
  BY <1>3, <1>11 DEF ChangeRecords, Aligned
<1>12. CASE UNCHANGED repushVars
  BY <1>3, <1>12 DEF repushVars, Aligned
<1>. QED BY <1>2, <1>4, <1>5, <1>6, <1>7, <1>8, <1>9, <1>10, <1>11, <1>12 DEF RepushNext

\* Unless the run has just pushed its batch, a checkpoint lets every record after its last be pushed.
LEMMA StateOwesIdle ==
  ASSUME run = NoRun \/ run.at = "read", NEW p, NEW k, NEW i
  PROVE  StateOwes(p, k, i) <=> state[p] # NoState /\ state[p].kind = k /\ i > state[p].last
BY DEF StateOwes

\* A kind that begins pushes what its checkpoint leaves, or is allowed to start over.
LEMMA PlanBudget ==
  ASSUME RepushTypeOK, RepushTypeOK', Budget, NEW k \in Kind, NEW i \in Id,
         run = NoRun \/ run.at = "read",
         NEW args \in Args, NEW n \in 1..Len(args.kinds), run' = Plan(args, n), Redo(args, n),
         UNCHANGED <<state, pushes>>
  PROVE  pushes'[<<k, i>>] + Owing(k, i)' =< allowed'[<<k, i>>]
<1>0. /\ run'.args = args /\ run'.at = "read" /\ KindOf(run)' = args.kinds[n]
      /\ state \in [Paths -> Checkpoint \cup {NoState}]
  BY PlanShape DEF RepushTypeOK
<1>1. /\ <<k, i>> \in Record /\ pushes[<<k, i>>] \in Nat /\ allowed[<<k, i>>] \in Nat
      /\ allowed'[<<k, i>>] \in Nat
      /\ pushes[<<k, i>>] + Owing(k, i) =< allowed[<<k, i>>]
  BY DEF RepushTypeOK, Record, Budget
<1>2. /\ StateOwes(Given, k, i)' <=> StateOwes(Given, k, i)
      /\ StateOwes(k, k, i)' <=> StateOwes(k, k, i)
  BY <1>0, StateOwesIdle DEF StateOwes
<1>3. ASSUME RunOwes(k, i)' PROVE allowed'[<<k, i>>] = allowed[<<k, i>>] + 1
  <2>1. args.live /\ args.kinds[n] = k /\ ~Resumes(args, k)
    BY <1>0, <1>3 DEF RunOwes, Resumed, Resumes
  <2>2. allowed' = More(k, Id)
    BY <2>1 DEF Redo
  <2>. QED BY <1>1, <2>2 DEF More
<1>4. allowed'[<<k, i>>] >= allowed[<<k, i>>]
  BY <1>1 DEF Redo, More
<1>. QED BY <1>1, <1>2, <1>3, <1>4 DEF Owing, One

\* Every step keeps within what is allowed.
LEMMA BudgetStep ==
  ASSUME RepushTypeOK, RepushTypeOK', RunInOrder, Aligned, Budget, [RepushNext]_repushVars
  PROVE  Budget'
<1>. SUFFICES ASSUME NEW k \in Kind, NEW i \in Id
              PROVE  pushes'[<<k, i>>] + Owing(k, i)' =< allowed'[<<k, i>>]
  BY DEF Budget
<1>. DEFINE Goal == pushes'[<<k, i>>] + Owing(k, i)' =< allowed'[<<k, i>>]
<1>0. /\ <<k, i>> \in Record /\ pushes[<<k, i>>] \in Nat /\ allowed[<<k, i>>] \in Nat
      /\ pushes'[<<k, i>>] \in Nat /\ allowed'[<<k, i>>] \in Nat
      /\ pushes[<<k, i>>] + Owing(k, i) =< allowed[<<k, i>>]
      /\ i \in Nat /\ Given # k
  BY RepushAssumption DEF RepushTypeOK, Record, Budget
<1>1. ASSUME StateOwes(Given, k, i)' => StateOwes(Given, k, i),
             StateOwes(k, k, i)' => StateOwes(k, k, i),
             RunOwes(k, i)' => RunOwes(k, i),
             pushes'[<<k, i>>] + allowed[<<k, i>>] =< pushes[<<k, i>>] + allowed'[<<k, i>>]
      PROVE  Goal
  BY <1>0, <1>1 DEF Owing, One
<1>2. ASSUME NEW args \in Args, Start(args) PROVE Goal
  <2>1. 1 \in 1..Len(args.kinds) /\ run = NoRun /\ run' = Plan(args, 1) /\ Redo(args, 1)
        /\ UNCHANGED <<state, pushes>>
    BY <1>2, ArgsShape DEF Start
  <2>. QED BY <2>1, PlanBudget
<1>3. CASE ReadNext
  <2>1. PICK j : j = Least(Ahead(run)) /\ run' = [run EXCEPT !.read = j, !.batch = @ \cup {j}, !.reopens = 0]
    BY <1>3 DEF ReadNext
  <2>2. /\ run # NoRun /\ run \in Run /\ UNCHANGED <<state, pushes, allowed>> /\ run.at = "read"
        /\ run.read \in Nat
    BY <1>3, RunShape DEF ReadNext, ghosts, Wants
  <2>3. j \in Nat /\ j > run.read
    BY <1>3, <2>1, <2>2, AheadIs DEF ReadNext
  <2>4. /\ run'.args = run.args /\ run'.n = run.n /\ run'.read = j /\ run'.at = "read"
        /\ run'.batch = run.batch \cup {j}
    BY <2>1, <2>2 DEF Run
  <2>5. KindOf(run)' = KindOf(run) /\ (Resumed' <=> Resumed)
    BY <2>2, <2>4, SameRun
  <2>6. RunOwes(k, i)' => RunOwes(k, i)
    BY <1>0, <2>2, <2>3, <2>4, <2>5 DEF RunOwes
  <2>7. \A p : StateOwes(p, k, i)' => StateOwes(p, k, i)
    BY <2>2, <2>4, StateOwesIdle DEF StateOwes
  <2>. QED BY <1>0, <1>1, <2>2, <2>6, <2>7
<1>4. ASSUME UNCHANGED <<state, pushes, allowed>>,
             run' # NoRun => /\ run # NoRun /\ run'.args = run.args /\ run'.n = run.n
                             /\ run'.read = run.read /\ run'.at = run.at
                             /\ run'.batch = run.batch,
             run' = NoRun => run = NoRun \/ run.at = "read"
      PROVE  Goal
  <2>1. run' # NoRun => /\ KindOf(run)' = KindOf(run) /\ MyPath' = MyPath
                        /\ (Resumed' <=> Resumed)
    BY <1>4, SameRun
  <2>2. \A p : StateOwes(p, k, i)' => StateOwes(p, k, i)
    BY <1>4, <2>1 DEF StateOwes
  <2>3. RunOwes(k, i)' => RunOwes(k, i)
    BY <1>4, <2>1 DEF RunOwes
  <2>. QED BY <1>0, <1>1, <1>4, <2>2, <2>3
<1>5. CASE LoseCursor
  <2>1. /\ run # NoRun /\ run \in Run /\ run.at = "read" /\ UNCHANGED <<state, pushes, allowed>>
        /\ run' = NoRun \/ run' = [run EXCEPT !.reopens = @ + 1]
    BY <1>5, RunShape DEF LoseCursor, ghosts, Wants
  <2>. QED BY <1>4, <2>1 DEF Run
<1>6. ASSUME NEW ok \in SUBSET Id, PushBatch(ok) PROVE Goal
  <2>1. /\ run # NoRun /\ run \in Run /\ run.at = "read" /\ run.args.live
        /\ UNCHANGED <<state, allowed>> /\ run.batch \subseteq Id
        /\ MyPath \in {Given, KindOf(run)} /\ KindOf(run) \in Kind
    BY <1>6, RunShape DEF PushBatch, Complete
  <2>2. run'.args = run.args /\ run'.n = run.n /\ run'.at = "save" /\ run'.batch = run.batch
        /\ run'.read = run.read
    BY <1>6, <2>1 DEF PushBatch, Run
  <2>3. /\ KindOf(run)' = KindOf(run) /\ MyPath' = MyPath /\ (Resumed' <=> Resumed)
    BY <2>1, <2>2, SameRun
  <2>4. pushes'[<<k, i>>] = IF KindOf(run) = k /\ i \in run.batch THEN pushes[<<k, i>>] + 1
                            ELSE pushes[<<k, i>>]
    BY <1>0, <1>6 DEF PushBatch
  <2>5. \A p : StateOwes(p, k, i)' => StateOwes(p, k, i)
    BY <2>1, StateOwesIdle DEF StateOwes
  <2>6. RunOwes(k, i)' => RunOwes(k, i)
    BY <2>1, <2>2, <2>3 DEF RunOwes
  <2>10. Cardinality(run.batch) \in Nat
    BY <2>1, FS_CardinalityType DEF RunInOrder
  <2>7. CASE ~(KindOf(run) = k /\ i \in run.batch)
    BY <1>0, <1>1, <2>1, <2>4, <2>5, <2>6, <2>7
  <2>8. CASE KindOf(run) = k /\ i \in run.batch /\ Resumed
    <3>1. state[MyPath] # NoState /\ state[MyPath].kind = k /\ i > state[MyPath].last
      BY <2>1, <2>8, ResumedShape DEF Aligned
    <3>2. PICK p \in {Given, k} : p = MyPath
      BY <2>1, <2>8
    <3>3. StateOwes(p, k, i)
      BY <2>1, <3>1, <3>2, StateOwesIdle
    <3>4. ~StateOwes(p, k, i)'
      <4>1. run' # NoRun
        <5>1. run' = [run EXCEPT !.at = "save", !.seen = @ + Cardinality(run.batch),
                                 !.failed = @ \cup (run.batch \ ok)]
          BY <1>6 DEF PushBatch
        <5>2. run.seen + Cardinality(run.batch) \in Nat /\ run.failed \cup (run.batch \ ok) \subseteq Id
          BY <2>1, <2>10 DEF Run
        <5>3. run' \in Run
          BY <2>1, <5>1, <5>2 DEF Run
        <5>. QED BY <5>3, NoneAssumption
      <4>. QED BY <2>1, <2>2, <2>3, <2>8, <3>2, <4>1 DEF StateOwes
    <3>. QED BY <1>0, <2>1, <2>4, <2>5, <2>6, <2>8, <3>3, <3>4 DEF Owing, One
  <2>9. CASE KindOf(run) = k /\ i \in run.batch /\ ~Resumed
    <3>1. RunOwes(k, i)
      BY <2>1, <2>9 DEF RunOwes
    <3>2. ~RunOwes(k, i)'
      <4>1. i =< run.read /\ run.read \in Nat
        BY <2>1, <2>9, RunShape DEF RunInOrder
      <4>. QED BY <1>0, <2>2, <4>1 DEF RunOwes
    <3>. QED BY <1>0, <2>1, <2>4, <2>5, <2>9, <3>1, <3>2 DEF Owing, One
  <2>. QED BY <2>7, <2>8, <2>9
<1>7. CASE WriteState
  <2>1. /\ run # NoRun /\ run.at = "save" /\ run.args.live /\ MyPath \in Paths
        /\ state'[MyPath] = [kind |-> KindOf(run), filter |-> run.args.filter, last |-> run.read,
                             failed |-> run.carried \cup run.failed]
        /\ \A p \in Paths \ {MyPath} : state'[p] = state[p]
        /\ run'.args = run.args /\ run'.n = run.n /\ run'.read = run.read
        /\ run'.at = "read" /\ UNCHANGED <<pushes, allowed>>
    BY <1>7, WriteShape
  <2>2. /\ MyPath \in {Given, KindOf(run)} /\ run.read \in Nat /\ run.from \in Nat
        /\ run.batch # {} /\ \A j \in run.batch : j =< run.read /\ j > run.from /\ j \in Nat
    BY <2>1, RunShape DEF RunInOrder
  <2>3. KindOf(run)' = KindOf(run) /\ MyPath' = MyPath
    BY <2>1, SameRun
  <2>4. PICK q : q = MyPath
    OBVIOUS
  <2>5. ASSUME NEW p \in {Given, k}, p # q PROVE StateOwes(p, k, i)' => StateOwes(p, k, i)
    <3>1. state'[p] = state[p]
      BY <2>1, <2>4, <2>5 DEF Paths
    <3>. QED BY <2>1, <2>4, <2>5, <3>1 DEF StateOwes
  <2>6. StateOwes(q, k, i)' => KindOf(run) = k /\ i > run.read
    BY <2>1, <2>3, <2>4 DEF StateOwes
  <2>7. ~RunOwes(k, i)'
    <3>1. state'[MyPath] # NoState
      <4>1. state'[MyPath] \in Checkpoint
        <5>1. run.read \in Id
          BY <2>1, RunShape DEF RunInOrder
        <5>. QED BY <2>1, <5>1, RunShape DEF Checkpoint
      <4>. QED BY <4>1, NoneAssumption
    <3>2. state'[MyPath].kind = KindOf(run) /\ state'[MyPath].filter = run.args.filter
      BY <2>1
    <3>3. Resumed'
      BY <2>1, <2>3, <3>1, <3>2 DEF Resumed, Resumes, MyPath
    <3>. QED BY <3>3 DEF RunOwes
  <2>8. CASE KindOf(run) = k /\ i > run.read /\ Resumed
    <3>1. state[MyPath] # NoState /\ state[MyPath].last \in Nat /\ state[MyPath].kind = k
      BY <2>1, <2>8, ResumedShape
    <3>2. i > state[MyPath].last /\ i \notin run.batch
      BY <1>0, <2>1, <2>2, <2>8, <3>1 DEF Aligned, Passed
    <3>3. StateOwes(q, k, i)
      BY <2>4, <3>1, <3>2 DEF StateOwes
    <3>. QED BY <1>0, <1>1, <2>1, <2>5, <2>7, <3>3
  <2>9. CASE KindOf(run) = k /\ i > run.read /\ ~Resumed
    <3>1. RunOwes(k, i)
      BY <2>1, <2>9 DEF RunOwes
    <3>. QED BY <1>0, <2>1, <2>2, <2>4, <2>5, <2>7, <2>9, <3>1 DEF Owing, One
  <2>10. CASE ~(KindOf(run) = k /\ i > run.read)
    <3>1. \A p \in {Given, k} : StateOwes(p, k, i)' => StateOwes(p, k, i)
      BY <2>5, <2>6, <2>10
    <3>. QED BY <1>0, <1>1, <2>1, <2>7, <3>1
  <2>. QED BY <2>8, <2>9, <2>10
<1>8. CASE CountBatch
  <2>1. /\ run # NoRun /\ run \in Run /\ ~run.args.live /\ UNCHANGED <<state, pushes, allowed>>
        /\ run.at = "read"
    BY <1>8, RunShape DEF CountBatch, ghosts, Complete
  <2>2. run'.args = run.args /\ run'.at = "read"
    BY <1>8, <2>1 DEF CountBatch, Run
  <2>3. \A p : StateOwes(p, k, i)' => StateOwes(p, k, i)
    BY <2>1, StateOwesIdle DEF StateOwes
  <2>4. ~RunOwes(k, i)'
    BY <2>1, <2>2 DEF RunOwes
  <2>. QED BY <1>0, <1>1, <2>1, <2>3, <2>4
<1>9. CASE EndKind
  <2>1. /\ run # NoRun /\ run.args \in Args /\ run.n \in 1..Len(run.args.kinds)
        /\ run.at = "read" /\ UNCHANGED <<state, pushes>>
    BY <1>9, RunShape DEF EndKind
  <2>2. CASE run' = NoRun /\ allowed' = allowed
    BY <1>4, <2>1, <2>2
  <2>3. CASE run.n < Len(run.args.kinds) /\ run' = Plan(run.args, run.n + 1) /\ Redo(run.args, run.n + 1)
    <3>1. run.n + 1 \in 1..Len(run.args.kinds)
      BY <2>1, <2>3, ArgsShape
    <3>. QED BY <2>1, <2>3, <3>1, PlanBudget
  <2>. QED BY <1>9, <2>2, <2>3 DEF EndKind
<1>10. ASSUME NEW ok \in SUBSET Id, KillRun(ok) PROVE Goal
  <2>0. run # NoRun /\ run' = NoRun /\ UNCHANGED state
    BY <1>10 DEF KillRun
  <2>1. /\ KindOf(run) \in Kind /\ MyPath \in {Given, KindOf(run)} /\ run.at \in {"read", "save"}
        /\ run.at = "save" => run.args.live
    BY <2>0, RunShape DEF RunInOrder
  <2>2. ~RunOwes(k, i)'
    BY <2>0 DEF RunOwes
  <2>3. CASE run.at = "read"
    <3>1. \A p : StateOwes(p, k, i)' => StateOwes(p, k, i)
      BY <2>0, <2>3, StateOwesIdle DEF StateOwes
    <3>2. CASE run.args.live /\ Complete(run)
      <4>1. pushes'[<<k, i>>] = IF KindOf(run) = k /\ i \in run.batch THEN pushes[<<k, i>>] + 1
                                ELSE pushes[<<k, i>>]
        BY <1>0, <1>10, <2>3, <3>2 DEF KillRun
      <4>2. allowed'[<<k, i>>] = IF KindOf(run) = k /\ i \in run.batch THEN allowed[<<k, i>>] + 1
                                 ELSE allowed[<<k, i>>]
        BY <1>0, <1>10, <2>3, <3>2 DEF KillRun, More
      <4>. QED BY <1>0, <1>1, <2>2, <3>1, <4>1, <4>2
    <3>3. CASE ~(run.args.live /\ Complete(run))
      <4>1. pushes'[<<k, i>>] = pushes[<<k, i>>] /\ allowed' = allowed
        BY <1>0, <1>10, <2>3, <3>3 DEF KillRun
      <4>. QED BY <1>0, <1>1, <2>2, <3>1, <4>1
    <3>. QED BY <3>2, <3>3
  <2>4. CASE run.at = "save"
    <3>1. pushes'[<<k, i>>] = pushes[<<k, i>>]
      BY <1>0, <1>10, <2>4 DEF KillRun
    <3>2. allowed'[<<k, i>>] = IF KindOf(run) = k /\ i \in run.batch THEN allowed[<<k, i>>] + 1
                               ELSE allowed[<<k, i>>]
      BY <1>0, <1>10, <2>1, <2>4 DEF KillRun, More
    <3>3. CASE KindOf(run) = k /\ i \in run.batch
      <4>1. PICK q : q = MyPath
        OBVIOUS
      <4>2. \A p : p # q => (StateOwes(p, k, i)' => StateOwes(p, k, i))
        BY <2>0, <4>1 DEF StateOwes
      <4>. QED BY <1>0, <2>1, <2>2, <3>1, <3>2, <3>3, <4>1, <4>2 DEF Owing, One
    <3>4. CASE ~(KindOf(run) = k /\ i \in run.batch)
      <4>1. \A p : StateOwes(p, k, i)' => StateOwes(p, k, i)
        BY <2>0, <3>4 DEF StateOwes
      <4>. QED BY <1>0, <1>1, <2>2, <3>1, <3>2, <3>4, <4>1
    <3>. QED BY <3>3, <3>4
  <2>. QED BY <2>1, <2>3, <2>4
<1>11. ASSUME NEW rec \in Record, ChangeRecords(rec) PROVE Goal
  <2>1. UNCHANGED <<state, run, pushes, allowed>>
    BY <1>11 DEF ChangeRecords
  <2>. QED BY <1>0, <1>4, <2>1
<1>12. CASE UNCHANGED repushVars
  BY <1>4, <1>12 DEF repushVars
<1>. HIDE DEF Goal
<1>. QED BY <1>2, <1>3, <1>5, <1>6, <1>7, <1>8, <1>9, <1>10, <1>11, <1>12 DEF RepushNext, Goal

-----------------------------------------------------------------------------
(* Theorems on the re-push script *)

\* Nothing is pushed, allowed or written down to begin with.
LEMMA RepushInvInit == RepushInit => RepushInv
<1>. SUFFICES ASSUME RepushInit PROVE RepushInv
  OBVIOUS
<1>0. /\ run = NoRun /\ \A p \in Paths : state[p] = NoState
      /\ \A rec \in Record : pushes[rec] = 0 /\ allowed[rec] = 0
  BY DEF RepushInit
<1>1. RepushTypeOK
  BY DEF RepushInit, RepushTypeOK
<1>2. RunInOrder /\ CheckpointTrue /\ RunTrue /\ Aligned
  BY <1>0 DEF RunInOrder, CheckpointTrue, RunTrue, Aligned
<1>3. \A k \in Kind, i \in Id : ~StateOwes(Given, k, i) /\ ~StateOwes(k, k, i) /\ ~RunOwes(k, i)
  BY <1>0 DEF StateOwes, RunOwes, Paths
<1>4. Budget
  BY <1>0, <1>3 DEF Budget, Owing, One, Record
<1>. QED BY <1>1, <1>2, <1>4 DEF RepushInv

\* Every step keeps the invariant.
LEMMA RepushInvStep == ASSUME RepushInv, [RepushNext]_repushVars PROVE RepushInv'
<1>. USE DEF RepushInv
<1>1. RepushTypeOK' /\ RunInOrder'
  BY RunStep
<1>2. CheckpointTrue' /\ RunTrue'
  BY TrueStep
<1>3. Aligned'
  BY AlignedStep
<1>4. Budget'
  BY <1>1, BudgetStep
<1>. QED BY <1>1, <1>2, <1>3, <1>4

\* What it shows.
LEMMA RepushInvShows == ASSUME RepushInv PROVE RepushTypeOK /\ RepushCovers
<1>1. ASSUME NEW rec \in Record PROVE pushes[rec] =< allowed[rec]
  <2>1. PICK k \in Kind, i \in Id : rec = <<k, i>>
    BY DEF Record
  <2>2. pushes[rec] + Owing(k, i) =< allowed[rec] /\ Owing(k, i) \in Nat
    BY <2>1 DEF RepushInv, Budget, Owing, One
  <2>3. pushes[rec] \in Nat /\ allowed[rec] \in Nat
    BY DEF RepushInv, RepushTypeOK
  <2>. QED BY <2>2, <2>3
<1>. QED BY <1>1 DEF RepushInv, RepushCovers, PushedOnce

\* However often the script is killed, loses its cursor, or is run again with other arguments: a
\* checkpoint never claims a record that was there all the time and neither landed nor failed,
\* and a record is pushed again only by a run that starts its kind over or after a kill.
THEOREM RepushIsSafe == RepushSpec => [](RepushTypeOK /\ RepushCovers)
<1>1. RepushInv /\ [RepushNext]_repushVars => RepushInv' BY RepushInvStep
<1>. QED BY RepushInvInit, RepushInvShows, <1>1, PTL DEF RepushSpec

-----------------------------------------------------------------------------
(* Sequences of which some places stay. *)

\* The places up to n number from one to all of them, a later place more.
LEMMA PlacesUpTo ==
  ASSUME NEW N \in Nat, NEW P \in SUBSET (1..N), NEW n \in P
  PROVE  LET upTo(i) == {m \in P : m =< i} IN
         /\ IsFiniteSet(P) /\ Cardinality(P) \in Nat
         /\ Cardinality(upTo(n)) \in 1..Cardinality(P)
         /\ \A l \in P : l < n => Cardinality(upTo(l)) < Cardinality(upTo(n))
<1> DEFINE upTo(i) == {m \in P : m =< i}
<1>1. IsFiniteSet(P) /\ Cardinality(P) \in Nat
  <2>1. IsFiniteSet(1..N) BY FS_Interval
  <2> QED BY <2>1, FS_Subset, FS_CardinalityType
<1>2. \A i : IsFiniteSet(upTo(i)) /\ Cardinality(upTo(i)) \in Nat
             /\ Cardinality(upTo(i)) =< Cardinality(P)
  <2> TAKE i
  <2>1. upTo(i) \in SUBSET P OBVIOUS
  <2> QED BY <1>1, <2>1, FS_Subset, FS_CardinalityType
<1>3. Cardinality(upTo(n)) # 0
  <2>1. n \in upTo(n) OBVIOUS
  <2> QED BY <1>2, <2>1, FS_EmptySet
<1>4. ASSUME NEW l \in P, l < n PROVE Cardinality(upTo(l)) < Cardinality(upTo(n))
  <2>0. l \in Nat /\ n \in Nat OBVIOUS
  <2>1. upTo(l) \in SUBSET upTo(n)
    <3>1. \A i \in P : i =< l => i =< n BY <1>4, <2>0
    <3> QED BY <3>1
  <2>2. n \in upTo(n) /\ n \notin upTo(l) BY <1>4
  <2> HIDE DEF upTo
  <2>3. Cardinality(upTo(l)) =< Cardinality(upTo(n)) BY <1>2, <2>1, FS_Subset
  <2>4. Cardinality(upTo(l)) # Cardinality(upTo(n)) BY <1>2, <2>1, <2>2, FS_Subset
  <2> QED BY <1>2, <2>3, <2>4
<1> HIDE DEF upTo
<1> QED BY <1>1, <1>2, <1>3, <1>4 DEF upTo

\* So the k-th place is one of them, each is the k-th for some k, and they are in order.
LEMMA PlacesInOrder ==
  ASSUME NEW N \in Nat, NEW P \in SUBSET (1..N)
  PROVE  /\ IsFiniteSet(P) /\ Cardinality(P) \in Nat
         /\ \A k \in 1..Cardinality(P) : PlaceOf(P, k) \in P
         /\ \A n \in P : \E k \in 1..Cardinality(P) : PlaceOf(P, k) = n
         /\ \A k, l \in 1..Cardinality(P) : k < l => PlaceOf(P, k) < PlaceOf(P, l)
<1> DEFINE K == 1..Cardinality(P)
           upTo == [n \in P |-> Cardinality({m \in P : m =< n})]
<1>1. IsFiniteSet(P) /\ Cardinality(P) \in Nat
  <2>1. IsFiniteSet(1..N) BY FS_Interval
  <2> QED BY <2>1, FS_Subset, FS_CardinalityType
<1>2. /\ upTo \in [P -> K]
      /\ \A l, n \in P : l < n => upTo[l] < upTo[n]
  <2>1. \A n \in P : upTo[n] \in K BY PlacesUpTo
  <2>2. \A l, n \in P : l < n => upTo[l] < upTo[n] BY PlacesUpTo
  <2>3. upTo = [n \in P |-> upTo[n]] OBVIOUS
  <2> HIDE DEF upTo
  <2> QED BY <2>1, <2>2, <2>3
<1>3. \A k \in K : PlaceOf(P, k) = CHOOSE n \in P : upTo[n] = k BY DEF PlaceOf
<1> HIDE DEF upTo
<1>4. \A l, n \in P : upTo[l] = upTo[n] => l = n
  <2> SUFFICES ASSUME NEW l \in P, NEW n \in P, upTo[l] = upTo[n], l # n PROVE FALSE
    OBVIOUS
  <2>1. l \in Nat /\ n \in Nat /\ upTo[l] \in Nat /\ upTo[n] \in Nat BY <1>1, <1>2
  <2>2. l < n \/ n < l BY <2>1
  <2> QED BY <1>2, <2>1, <2>2
<1>5. \A k \in K : \E n \in P : upTo[n] = k
  <2>1. upTo \in Injection(P, K) BY <1>2, <1>4 DEF Injection, IsInjective
  <2>2. IsFiniteSet(K) /\ Cardinality(K) = Cardinality(P) BY <1>1, FS_Interval
  <2>3. upTo \in Surjection(P, K) BY <1>1, <2>1, <2>2, FS_Injection
  <2> QED BY <2>3 DEF Surjection
<1>6. \A k \in K : PlaceOf(P, k) \in P /\ upTo[PlaceOf(P, k)] = k BY <1>3, <1>5
<1>7. ASSUME NEW n \in P PROVE \E k \in K : PlaceOf(P, k) = n
  <2>1. upTo[n] \in K BY <1>2
  <2> QED BY <1>4, <1>6, <2>1
<1>8. ASSUME NEW k \in K, NEW l \in K, k < l PROVE PlaceOf(P, k) < PlaceOf(P, l)
  <2> PICK i, j : i = PlaceOf(P, k) /\ j = PlaceOf(P, l) OBVIOUS
  <2>1. i \in P /\ j \in P /\ upTo[i] = k /\ upTo[j] = l BY <1>6
  <2>2. i \in Nat /\ j \in Nat /\ k \in Nat /\ l \in Nat BY <1>1, <2>1
  <2>3. ~(j < i) /\ i # j BY <1>2, <1>8, <2>1, <2>2
  <2> QED BY <2>2, <2>3
<1> QED BY <1>1, <1>6, <1>7, <1>8

\* What is picked is a sequence of the entries at those places.
LEMMA PickedIs ==
  ASSUME NEW S, NEW s \in Seq(S), NEW P \in SUBSET (DOMAIN s)
  PROVE  /\ IsFiniteSet(P) /\ Cardinality(P) \in Nat
         /\ Picked(s, P) \in Seq(S) /\ Len(Picked(s, P)) = Cardinality(P)
         /\ DOMAIN Picked(s, P) = 1..Cardinality(P)
         /\ \A k \in 1..Cardinality(P) : /\ PlaceOf(P, k) \in P
                                         /\ Picked(s, P)[k] = s[PlaceOf(P, k)]
         /\ \A n \in P : \E k \in 1..Cardinality(P) : PlaceOf(P, k) = n
         /\ \A k, l \in 1..Cardinality(P) : k < l => PlaceOf(P, k) < PlaceOf(P, l)
         /\ ToSet(Picked(s, P)) = {s[n] : n \in P}
<1>1. Len(s) \in Nat /\ P \in SUBSET (1..Len(s)) OBVIOUS
<1>2. /\ IsFiniteSet(P) /\ Cardinality(P) \in Nat
      /\ \A k \in 1..Cardinality(P) : PlaceOf(P, k) \in P
      /\ \A n \in P : \E k \in 1..Cardinality(P) : PlaceOf(P, k) = n
      /\ \A k, l \in 1..Cardinality(P) : k < l => PlaceOf(P, k) < PlaceOf(P, l)
  BY <1>1, PlacesInOrder
<1>3. /\ DOMAIN Picked(s, P) = 1..Cardinality(P)
      /\ \A k \in 1..Cardinality(P) : Picked(s, P)[k] = s[PlaceOf(P, k)]
  BY DEF Picked
<1>4. Picked(s, P) \in Seq(S) /\ Len(Picked(s, P)) = Cardinality(P)
  <2>1. \A k \in 1..Cardinality(P) : s[PlaceOf(P, k)] \in S BY <1>1, <1>2
  <2>2. Picked(s, P) \in [1..Cardinality(P) -> S] BY <2>1 DEF Picked
  <2> QED BY <1>2, <1>3, <2>2
<1>5. ToSet(Picked(s, P)) = {s[n] : n \in P} BY <1>2, <1>3 DEF ToSet
<1> QED BY <1>2, <1>3, <1>4, <1>5

-----------------------------------------------------------------------------
(* The repair of a project's pins: the inductive invariant. *)

\* No run is between its write and its push: what Mongo lost DEMI lost too.
NothingOwed ==
  ~Repeated(pins) /\ script.at # "push" => ~Repeated(shown) \/ named \/ unsaid

PinInv == PinTypeOK /\ ToSet(pins) = wanted /\ NothingOwed

\* The pins without their repeats are the same organizations, each once.
LEMMA DedupeKeeps ==
  ASSUME NEW s \in Seq(Pin)
  PROVE  /\ DedupePins(s) \in Seq(Pin) /\ ToSet(DedupePins(s)) = ToSet(s)
         /\ ~Repeated(DedupePins(s))
<1> DEFINE first == {n \in DOMAIN s : \A m \in 1..n - 1 : s[m] # s[n]}
<1>1. DedupePins(s) = Picked(s, first) BY DEF DedupePins
<1>2. first \in SUBSET (DOMAIN s) OBVIOUS
<1>3. Picked(s, first) \in Seq(Pin) /\ ToSet(Picked(s, first)) = {s[n] : n \in first}
  <2> HIDE DEF first
  <2> QED BY <1>2, PickedIs
<1>4. ASSUME NEW i \in DOMAIN s PROVE \E n \in first : s[n] = s[i]
  <2> DEFINE same == {n \in DOMAIN s : s[n] = s[i]}
  <2>1. same \subseteq Nat /\ i \in same OBVIOUS
  <2>2. PICK n \in same : \A m \in same : n =< m
    <3> HIDE DEF same
    <3>1. same \in SUBSET Nat /\ same # {} BY <2>1
    <3> QED BY <3>1, LeastIs
  <2>3. n \in DOMAIN s /\ s[n] = s[i] /\ Len(s) \in Nat /\ DOMAIN s = 1..Len(s) BY <2>2
  <2>4. ASSUME NEW m \in 1..n - 1 PROVE s[m] # s[n]
    <3>1. m \in DOMAIN s /\ m < n /\ m \in Nat /\ n \in Nat BY <2>3
    <3>2. m \notin same BY <2>2, <3>1
    <3> QED BY <2>3, <3>1, <3>2
  <2> QED BY <2>3, <2>4
<1>5. {s[n] : n \in first} = ToSet(s) BY <1>4 DEF ToSet
<1>6. ~Repeated(Picked(s, first))
  <2> DEFINE t == Picked(s, first)
             K == Cardinality(first)
  <2>1. /\ IsFiniteSet(first) /\ K \in Nat
        /\ Len(t) = K /\ DOMAIN t = 1..K /\ t \in Seq(Pin)
        /\ \A k \in 1..K : PlaceOf(first, k) \in first /\ t[k] = s[PlaceOf(first, k)]
        /\ \A k, l \in 1..K : k < l => PlaceOf(first, k) < PlaceOf(first, l)
    <3> HIDE DEF first
    <3> QED BY <1>2, PickedIs
  <2>2. ASSUME NEW i \in first, NEW j \in first, i < j PROVE s[i] # s[j]
    <3>1. i \in Nat /\ j \in Nat /\ i >= 1 OBVIOUS
    <3>2. i \in 1..j - 1 BY <2>2, <3>1
    <3> QED BY <3>2
  <2> HIDE DEF t, K, first
  <2>3. ASSUME NEW k \in 1..K, NEW l \in 1..K, t[k] = t[l] PROVE k = l
    <3>1. k \in Nat /\ l \in Nat BY <2>1
    <3>2. ~(k < l) BY <2>1, <2>2, <2>3
    <3>3. ~(l < k) BY <2>1, <2>2, <2>3
    <3> QED BY <3>1, <3>2, <3>3
  <2>4. t \in Bijection(1..K, ToSet(t))
    <3>1. t \in [1..K -> ToSet(t)]
      <4>1. t = [k \in 1..K |-> t[k]] BY <2>1
      <4>2. \A k \in 1..K : t[k] \in ToSet(t) BY <2>1 DEF ToSet
      <4> QED BY <4>1, <4>2
    <3>2. \A x \in ToSet(t) : \E k \in 1..K : t[k] = x BY <2>1 DEF ToSet
    <3> QED BY <2>3, <3>1, <3>2 DEF Bijection, Injection, Surjection, IsInjective
  <2>5. IsFiniteSet(1..K) /\ Cardinality(1..K) = K BY <2>1, FS_Interval
  <2>6. Cardinality(ToSet(t)) = K
    <3>1. ExistsBijection(1..K, ToSet(t)) BY <2>4 DEF ExistsBijection
    <3> QED BY <2>5, <3>1, FS_Bijection
  <2> QED BY <2>1, <2>6 DEF Repeated, t
<1> HIDE DEF first
<1> QED BY <1>1, <1>3, <1>5, <1>6

\* What is left when an entry is pulled has all the others.
LEMMA PulledIs ==
  ASSUME NEW S, NEW s \in Seq(S), NEW e
  PROVE  Pulled(s, e) \in Seq(S) /\ ToSet(Pulled(s, e)) = ToSet(s) \ {e}
<1> DEFINE other == {n \in DOMAIN s : s[n] # e}
<1>1. Pulled(s, e) = Picked(s, other) BY DEF Pulled
<1>2. other \in SUBSET (DOMAIN s) OBVIOUS
<1>3. Picked(s, other) \in Seq(S) /\ ToSet(Picked(s, other)) = {s[n] : n \in other}
  <2> HIDE DEF other
  <2> QED BY <1>2, PickedIs
<1>4. {s[n] : n \in other} = ToSet(s) \ {e} BY DEF ToSet
<1> QED BY <1>1, <1>3, <1>4

\* What is appended is one more.
LEMMA AppendedIs ==
  ASSUME NEW S, NEW s \in Seq(S), NEW e \in S
  PROVE  Append(s, e) \in Seq(S) /\ ToSet(Append(s, e)) = ToSet(s) \cup {e}
<1>1. Append(s, e) \in Seq(S) /\ Len(Append(s, e)) = Len(s) + 1 OBVIOUS
<1>2. /\ DOMAIN Append(s, e) = 1..Len(s) + 1 /\ DOMAIN s = 1..Len(s) /\ Len(s) \in Nat
      /\ \A n \in 1..Len(s) : Append(s, e)[n] = s[n]
      /\ Append(s, e)[Len(s) + 1] = e
  BY <1>1
<1>3. 1..Len(s) + 1 = (1..Len(s)) \cup {Len(s) + 1} BY <1>2
<1> HIDE DEF ToSet
<1>4. \A x \in ToSet(Append(s, e)) : x \in ToSet(s) \cup {e} BY <1>2, <1>3 DEF ToSet
<1>5. \A x \in ToSet(s) : x \in ToSet(Append(s, e)) BY <1>2, <1>3 DEF ToSet
<1>6. e \in ToSet(Append(s, e)) BY <1>2, <1>3 DEF ToSet
<1> QED BY <1>1, <1>4, <1>5, <1>6

\* It holds at first.
LEMMA PinInvInit == ASSUME PinInit PROVE PinInv
<1> USE PinAssumption DEF PinInit
<1>1. pins \in Seq(Pin) OBVIOUS
<1>2. ToSet(pins) \subseteq Pin BY <1>1 DEF ToSet
<1>3. Idle \in [at : {"idle", "write", "push"}, read : Seq(Pin), noDemi : BOOLEAN]
  BY DEF Idle
<1>4. edited \in 0..MaxPinEdits /\ tries \in 0..MaxTries OBVIOUS
<1>5. PinTypeOK BY <1>1, <1>2, <1>3, <1>4 DEF PinTypeOK
<1>6. NothingOwed BY DEF NothingOwed
<1> QED BY <1>5, <1>6 DEF PinInv

\* Every step keeps it.
LEMMA PinInvStep == ASSUME PinInv, [PinNext]_pinVars PROVE PinInv'
<1> USE PinAssumption DEF PinInv
<1>1. /\ pins \in Seq(Pin) /\ shown \in Seq(Pin) /\ wanted \subseteq Pin
      /\ script \in [at : {"idle", "write", "push"}, read : Seq(Pin), noDemi : BOOLEAN]
      /\ unsaid \in BOOLEAN /\ named \in BOOLEAN
      /\ edited \in 0..MaxPinEdits /\ tries \in 0..MaxTries
  BY DEF PinTypeOK
<1>2. ASSUME NEW p \in Pin, AddPin(p) PROVE PinInv'
  <2>1. pins' \in Seq(Pin) /\ ToSet(pins') = wanted' /\ shown' = pins'
    BY <1>1, <1>2, AppendedIs DEF AddPin
  <2>2. PinTypeOK'
    <3>1. edited' \in 0..MaxPinEdits BY <1>1, <1>2 DEF AddPin
    <3>2. wanted' \subseteq Pin BY <1>1, <1>2 DEF AddPin
    <3>3. UNCHANGED <<script, unsaid, named, tries>> BY <1>2 DEF AddPin
    <3> QED BY <1>1, <2>1, <3>1, <3>2, <3>3 DEF PinTypeOK
  <2>3. NothingOwed' BY <2>1 DEF NothingOwed
  <2> QED BY <2>1, <2>2, <2>3
<1>3. ASSUME NEW p \in Pin, DeletePin(p) PROVE PinInv'
  <2>1. pins' \in Seq(Pin) /\ ToSet(pins') = wanted' /\ shown' = pins'
    BY <1>1, <1>3, PulledIs DEF DeletePin
  <2>2. PinTypeOK'
    <3>1. edited' \in 0..MaxPinEdits BY <1>1, <1>3 DEF DeletePin
    <3>2. wanted' \subseteq Pin BY <1>1, <1>3 DEF DeletePin
    <3>3. UNCHANGED <<script, unsaid, named, tries>> BY <1>3 DEF DeletePin
    <3> QED BY <1>1, <2>1, <3>1, <3>2, <3>3 DEF PinTypeOK
  <2>3. NothingOwed' BY <2>1 DEF NothingOwed
  <2> QED BY <2>1, <2>2, <2>3
<1>4. ASSUME NEW noDemi \in BOOLEAN, FindRepeated(noDemi) PROVE PinInv'
  <2>1. UNCHANGED <<pins, wanted, shown, unsaid, named, edited>> BY <1>4 DEF FindRepeated
  <2>2. /\ script' \in [at : {"idle", "write", "push"}, read : Seq(Pin), noDemi : BOOLEAN]
        /\ tries' \in 0..MaxTries
    BY <1>1, <1>4 DEF FindRepeated, Idle
  <2>3. script.at = "idle" BY <1>4 DEF FindRepeated
  <2>4. NothingOwed' BY <2>1, <2>3 DEF NothingOwed, Repeated
  <2>5. PinTypeOK' BY <1>1, <2>1, <2>2 DEF PinTypeOK
  <2> QED BY <2>1, <2>4, <2>5
<1>5. ASSUME WriteDeduped PROVE PinInv'
  <2>1. UNCHANGED <<wanted, shown, edited, tries>> /\ script.at = "write"
    BY <1>5 DEF WriteDeduped
  <2>2. CASE AsRead
    <3>1. /\ pins' = DedupePins(pins) /\ named' = named
          /\ script' = IF script.noDemi THEN Idle ELSE [script EXCEPT !.at = "push"]
          /\ unsaid' = (unsaid \/ script.noDemi)
      BY <1>5, <2>2 DEF WriteDeduped, AsRead
    <3>2. pins' \in Seq(Pin) /\ ToSet(pins') = wanted'
      BY <1>1, <2>1, <3>1, DedupeKeeps
    <3>3. /\ script' \in [at : {"idle", "write", "push"}, read : Seq(Pin), noDemi : BOOLEAN]
          /\ script.noDemi \/ script'.at = "push"
      BY <1>1, <3>1 DEF Idle
    <3>4. unsaid' \in BOOLEAN /\ (script.noDemi => unsaid') BY <1>1, <3>1
    <3>5. NothingOwed' BY <3>3, <3>4 DEF NothingOwed
    <3>6. PinTypeOK' BY <1>1, <2>1, <3>1, <3>2, <3>3, <3>4 DEF PinTypeOK
    <3> QED BY <3>2, <3>5, <3>6
  <2>3. CASE ~AsRead
    <3>1. named' = TRUE /\ script' = Idle /\ UNCHANGED <<pins, unsaid>>
      BY <1>5, <2>3 DEF WriteDeduped
    <3>2. NothingOwed' BY <3>1 DEF NothingOwed
    <3>3. Idle \in [at : {"idle", "write", "push"}, read : Seq(Pin), noDemi : BOOLEAN]
      BY DEF Idle
    <3>4. PinTypeOK' BY <1>1, <2>1, <3>1, <3>3 DEF PinTypeOK
    <3> QED BY <2>1, <3>1, <3>2, <3>4
  <2> QED BY <2>2, <2>3
<1>6. ASSUME DieInRepair PROVE PinInv'
  <2>1. script' = Idle /\ unsaid' = TRUE /\ UNCHANGED <<pins, wanted, shown, named, edited, tries>>
    BY <1>6 DEF DieInRepair
  <2>2. NothingOwed' BY <2>1 DEF NothingOwed
  <2>3. Idle \in [at : {"idle", "write", "push"}, read : Seq(Pin), noDemi : BOOLEAN]
    BY DEF Idle
  <2>4. PinTypeOK' BY <1>1, <2>1, <2>3 DEF PinTypeOK
  <2> QED BY <2>1, <2>2, <2>4
<1>7. ASSUME NEW ok \in BOOLEAN, PushProject(ok) PROVE PinInv'
  <2>1. script' = Idle /\ UNCHANGED <<pins, wanted, unsaid, edited, tries>>
    BY <1>7 DEF PushProject
  <2>2. shown' = (IF ok THEN pins ELSE shown) /\ named' = (named \/ ~ok)
    BY <1>7 DEF PushProject
  <2>3. shown' \in Seq(Pin) /\ named' \in BOOLEAN BY <1>1, <2>2
  <2>4. Idle \in [at : {"idle", "write", "push"}, read : Seq(Pin), noDemi : BOOLEAN]
    BY DEF Idle
  <2>5. PinTypeOK' BY <1>1, <2>1, <2>3, <2>4 DEF PinTypeOK
  <2>6. NothingOwed'
    <3>1. CASE ok BY <2>1, <2>2, <3>1 DEF NothingOwed
    <3>2. CASE ~ok
      <4>1. named' BY <2>2, <3>2
      <4> QED BY <4>1 DEF NothingOwed
    <3> QED BY <3>1, <3>2
  <2> QED BY <2>1, <2>5, <2>6
<1>8. CASE UNCHANGED pinVars
  <2>1. UNCHANGED <<pins, wanted, shown, script, unsaid, named, edited, tries>>
    BY <1>8 DEF pinVars
  <2>2. PinTypeOK' BY <1>1, <2>1 DEF PinTypeOK
  <2>3. NothingOwed' BY <2>1 DEF NothingOwed, Repeated
  <2> QED BY <2>1, <2>2, <2>3
<1> HIDE DEF PinInv
<1> QED BY <1>2, <1>3, <1>4, <1>5, <1>6, <1>7, <1>8 DEF PinNext

\* The repair is safe.
LEMMA PinInvShows == ASSUME PinInv PROVE PinTypeOK /\ PinsRepaired
<1>1. script = Idle => script.at # "push" BY DEF Idle
<1> QED BY <1>1 DEF PinInv, NothingOwed, PinsRepaired

\* Of any project, any organizations and any runs of dedupe-project-pins.js, one
\* after the other, killed or told not to push: no pin that staff made is lost
\* and none that they removed comes back, and DEMI keeps no repeat that Mongo
\* has lost without a run having said so.
THEOREM PinsAreRepaired == PinSpec => [](PinTypeOK /\ PinsRepaired)
<1>1. PinInv /\ [PinNext]_pinVars => PinInv' BY PinInvStep
<1> QED BY <1>1, PinInvInit, PinInvShows, PTL DEF PinSpec

-----------------------------------------------------------------------------
(* The configuration mirror: the inductive invariant. *)

\* No push, and not what DEMI holds, is newer than the newest stamp.
StampsGiven == demi.stamp =< stamp

\* Some pod knows what DEMI holds, or knows that it knows nothing; and if a push
\* of its is on the way, DEMI will take it.
OneKnows ==
  \E q \in Pod :
    /\ lastPushed[q] \in {demi.body, Nothing}
    /\ inFlight[q] = NoPush \/ inFlight[q].stamp > demi.stamp

ConfigInv ==
  /\ ConfigTypeOK
  /\ StampsGiven
  /\ \A q \in Pod : inFlight[q].stamp =< stamp
  /\ unsure \/ OneKnows

\* What a push does to DEMI, and what DEMI would do with the others.
LEMMA TakesIs ==
  ASSUME ConfigInv, NEW p \in Pod
  PROVE  /\ Takes(inFlight[p]) \in [body : Served, stamp : Nat]
         /\ Takes(inFlight[p]).stamp =< stamp
         /\ inFlight[p].stamp > demi.stamp => Takes(inFlight[p]) = inFlight[p]
         /\ ~(inFlight[p].stamp > demi.stamp) => Takes(inFlight[p]) = demi
<1>1. inFlight[p] \in [body : Served, stamp : Nat] /\ demi \in [body : Served, stamp : Nat]
  BY DEF ConfigInv, ConfigTypeOK
<1>2. inFlight[p].stamp =< stamp /\ demi.stamp =< stamp BY DEF ConfigInv, StampsGiven
<1> QED BY <1>1, <1>2 DEF Takes

\* Every step keeps the types.
LEMMA ConfigTypeStep == ASSUME ConfigInv, [ConfigNext]_configVars PROVE ConfigTypeOK'
<1>1. ConfigTypeOK BY DEF ConfigInv
<1> USE ValueAssumption, BoundAssumption DEF ConfigTypeOK
<1>2. ASSUME NEW value \in Value, Edit(value) PROVE ConfigTypeOK' BY <1>1, <1>2 DEF Edit
<1>3. ASSUME NEW p \in Pod, Find(p) PROVE ConfigTypeOK' BY <1>1, <1>3 DEF Find
<1>4. ASSUME NEW p \in Pod, NEW value \in Value \cup {Nothing}, Serve(p, value)
      PROVE ConfigTypeOK'
  <2>1. UNCHANGED <<config, lastPushed, backedOff, demi, unsure, edits, troubles>>
    BY <1>4 DEF Serve
  <2>2. reads' \in [Pod -> SUBSET (Value \cup {Nothing})] BY <1>1, <1>4 DEF Serve
  <2>3. Payload(value) \in Served BY DEF Payload, Served
  <2>4. stamp' \in Nat /\ inFlight' \in [Pod -> [body : Served, stamp : Nat]]
    BY <1>1, <1>4, <2>3 DEF Serve
  <2> QED BY <1>1, <2>1, <2>2, <2>4
<1>5. ASSUME NEW p \in Pod, Land(p) PROVE ConfigTypeOK'
  <2>1. demi' \in [body : Served, stamp : Nat] BY <1>5, TakesIs DEF Land
  <2>2. /\ lastPushed' \in [Pod -> Served]
        /\ inFlight' \in [Pod -> [body : Served, stamp : Nat]]
        /\ UNCHANGED <<config, reads, backedOff, stamp, unsure, edits, troubles>>
    BY <1>1, <1>5 DEF Land, Told, NoPush, Served
  <2> QED BY <1>1, <2>1, <2>2
<1>6. ASSUME NEW p \in Pod, NEW taken \in BOOLEAN, Fail(p, taken) PROVE ConfigTypeOK'
  <2>1. demi' \in [body : Served, stamp : Nat]
    <3>1. demi' \in {demi, Takes(inFlight[p])} BY <1>6 DEF Fail
    <3> QED BY <1>1, <3>1, TakesIs
  <2>2. unsure' \in BOOLEAN
    <3>1. unsure' = (unsure \/ taken) BY <1>6 DEF Fail
    <3> QED BY <1>1, <3>1
  <2>3. /\ lastPushed' \in [Pod -> Served]
        /\ inFlight' \in [Pod -> [body : Served, stamp : Nat]]
        /\ backedOff' \in [Pod -> BOOLEAN] /\ troubles' \in 0..MaxTroubles
        /\ UNCHANGED <<config, reads, stamp, edits>>
    BY <1>1, <1>6 DEF Fail, Told, NoPush, Served
  <2> QED BY <1>1, <2>1, <2>2, <2>3
<1>7. ASSUME NEW p \in Pod, Resume(p) PROVE ConfigTypeOK' BY <1>1, <1>7 DEF Resume
<1>8. ASSUME NEW p \in Pod, Replace(p) PROVE ConfigTypeOK'
  <2>1. demi' \in [body : Served, stamp : Nat]
    <3>1. demi' \in {demi, Takes(inFlight[p])} BY <1>8 DEF Replace
    <3> QED BY <1>1, <3>1, TakesIs
  <2>2. /\ lastPushed' \in [Pod -> Served]
        /\ inFlight' \in [Pod -> [body : Served, stamp : Nat]]
        /\ backedOff' \in [Pod -> BOOLEAN] /\ troubles' \in 0..MaxTroubles
        /\ reads' \in [Pod -> SUBSET (Value \cup {Nothing})]
        /\ UNCHANGED <<config, stamp, unsure, edits>>
    BY <1>1, <1>8 DEF Replace, NoPush, Served
  <2> QED BY <1>1, <2>1, <2>2
<1>9. CASE UNCHANGED configVars BY <1>1, <1>9 DEF configVars
<1> HIDE DEF ConfigTypeOK
<1> QED BY <1>2, <1>3, <1>4, <1>5, <1>6, <1>7, <1>8, <1>9 DEF ConfigNext, SettlePush

\* And what is known.
LEMMA ConfigInvStep == ASSUME ConfigInv, [ConfigNext]_configVars PROVE ConfigInv'
<1>1. ConfigTypeOK' BY ConfigTypeStep
<1>2. /\ lastPushed \in [Pod -> Served] /\ inFlight \in [Pod -> [body : Served, stamp : Nat]]
      /\ demi \in [body : Served, stamp : Nat] /\ stamp \in Nat /\ unsure \in BOOLEAN
      /\ demi.stamp =< stamp /\ \A q \in Pod : inFlight[q].stamp =< stamp
      /\ unsure \/ OneKnows
  BY DEF ConfigInv, ConfigTypeOK, StampsGiven
<1> DEFINE Goal == /\ demi'.stamp =< stamp' /\ \A q \in Pod : inFlight'[q].stamp =< stamp'
                   /\ unsure' \/ OneKnows'
<1>3. ASSUME UNCHANGED <<lastPushed, inFlight, demi, stamp, unsure>> PROVE Goal
  BY <1>2, <1>3 DEF OneKnows
<1>4. ASSUME NEW p \in Pod, NEW value \in Value \cup {Nothing}, Serve(p, value) PROVE Goal
  <2>1. UNCHANGED <<lastPushed, demi, unsure>> BY <1>4 DEF Serve
  <2>2. CASE UNCHANGED <<stamp, inFlight>> BY <1>3, <2>1, <2>2
  <2>3. CASE /\ stamp' = stamp + 1
             /\ inFlight' = [inFlight EXCEPT ![p] = [body |-> Payload(value), stamp |-> stamp']]
    <3>1. inFlight'[p].stamp = stamp' /\ \A q \in Pod \ {p} : inFlight'[q] = inFlight[q]
      BY <1>2, <2>3
    <3>2. demi'.stamp =< stamp' /\ \A q \in Pod : inFlight'[q].stamp =< stamp'
      <4>1. stamp' = stamp + 1 BY <2>3
      <4>2. demi'.stamp =< stamp' BY <1>2, <2>1, <4>1
      <4>3. ASSUME NEW q \in Pod \ {p} PROVE inFlight'[q].stamp =< stamp'
        <5>1. inFlight[q].stamp \in Nat /\ inFlight[q].stamp =< stamp BY <1>2
        <5> QED BY <1>2, <3>1, <4>1, <5>1
      <4> QED BY <1>2, <3>1, <4>1, <4>2, <4>3
    <3>3. inFlight'[p].stamp > demi'.stamp BY <1>2, <2>1, <2>3, <3>1
    <3>4. OneKnows => OneKnows' BY <2>1, <3>1, <3>3 DEF OneKnows
    <3> QED BY <1>2, <2>1, <3>2, <3>4
  <2> QED BY <1>4, <2>2, <2>3 DEF Serve
<1>5. ASSUME NEW p \in Pod, inFlight' = [inFlight EXCEPT ![p] = NoPush], stamp' = stamp,
             demi' \in {demi, Takes(inFlight[p])}
      PROVE /\ demi'.stamp =< stamp' /\ \A q \in Pod : inFlight'[q].stamp =< stamp'
            /\ inFlight'[p] = NoPush /\ \A q \in Pod \ {p} : inFlight'[q] = inFlight[q]
  <2>1. inFlight'[p] = NoPush /\ \A q \in Pod \ {p} : inFlight'[q] = inFlight[q]
    BY <1>2, <1>5
  <2>2. inFlight'[p].stamp =< stamp' BY <1>2, <1>5, <2>1 DEF NoPush
  <2>3. demi'.stamp =< stamp' BY <1>2, <1>5, TakesIs
  <2> QED BY <1>2, <1>5, <2>1, <2>2, <2>3
<1>6. ASSUME NEW p \in Pod, Land(p) PROVE Goal
  <2>1. /\ inFlight[p] # NoPush /\ demi' = Takes(inFlight[p])
        /\ lastPushed' = [lastPushed EXCEPT ![p] = inFlight[p].body]
        /\ inFlight' = [inFlight EXCEPT ![p] = NoPush] /\ stamp' = stamp /\ unsure' = unsure
    BY <1>6 DEF Land, Told
  <2>2. /\ demi'.stamp =< stamp' /\ \A q \in Pod : inFlight'[q].stamp =< stamp'
        /\ inFlight'[p] = NoPush /\ \A q \in Pod \ {p} : inFlight'[q] = inFlight[q]
    BY <1>5, <2>1
  <2>3. /\ lastPushed'[p] = inFlight[p].body
        /\ \A q \in Pod \ {p} : lastPushed'[q] = lastPushed[q]
    BY <1>2, <2>1
  <2>4. CASE inFlight[p].stamp > demi.stamp
    <3>1. demi' = inFlight[p] BY <2>1, <2>4, TakesIs
    <3>2. OneKnows' BY <2>2, <2>3, <3>1 DEF OneKnows
    <3> QED BY <2>2, <3>2
  <2>5. CASE ~(inFlight[p].stamp > demi.stamp)
    <3>1. demi' = demi BY <2>1, <2>5, TakesIs
    <3>2. OneKnows => OneKnows'
      BY <2>1, <2>2, <2>3, <2>5, <3>1 DEF OneKnows
    <3> QED BY <1>2, <2>1, <2>2, <3>2
  <2> QED BY <2>4, <2>5
<1>7. ASSUME NEW p \in Pod, NEW taken \in BOOLEAN, Fail(p, taken) PROVE Goal
  <2>1. /\ demi' \in {demi, Takes(inFlight[p])} /\ (~taken => demi' = demi)
        /\ lastPushed' = lastPushed /\ inFlight' = [inFlight EXCEPT ![p] = NoPush]
        /\ stamp' = stamp /\ unsure' = (unsure \/ taken)
    BY <1>7 DEF Fail, Told
  <2>2. /\ demi'.stamp =< stamp' /\ \A q \in Pod : inFlight'[q].stamp =< stamp'
        /\ inFlight'[p] = NoPush /\ \A q \in Pod \ {p} : inFlight'[q] = inFlight[q]
    BY <1>5, <2>1
  <2>3. CASE taken
    <3>1. unsure' BY <2>1, <2>3
    <3> QED BY <2>2, <3>1
  <2>4. CASE ~taken
    <3>1. OneKnows => OneKnows' BY <2>1, <2>2, <2>4 DEF OneKnows
    <3>2. unsure => unsure' BY <2>1
    <3> QED BY <1>2, <2>2, <3>1, <3>2
  <2> QED BY <2>3, <2>4
<1>8. ASSUME NEW p \in Pod, Replace(p) PROVE Goal
  <2>1. /\ demi' \in {demi, Takes(inFlight[p])} /\ inFlight' = [inFlight EXCEPT ![p] = NoPush]
        /\ lastPushed' = [lastPushed EXCEPT ![p] = Nothing] /\ stamp' = stamp
    BY <1>8 DEF Replace
  <2>2. /\ demi'.stamp =< stamp' /\ \A q \in Pod : inFlight'[q].stamp =< stamp'
        /\ inFlight'[p] = NoPush /\ \A q \in Pod \ {p} : inFlight'[q] = inFlight[q]
    BY <1>5, <2>1
  <2>3. lastPushed'[p] = Nothing BY <1>2, <2>1
  <2>4. OneKnows' BY <2>2, <2>3 DEF OneKnows
  <2> QED BY <2>2, <2>4
<1>9. ASSUME NEW value \in Value, Edit(value) PROVE Goal BY <1>3, <1>9 DEF Edit
<1>10. ASSUME NEW p \in Pod, Find(p) \/ Resume(p) PROVE Goal BY <1>3, <1>10 DEF Find, Resume
<1>11. ASSUME UNCHANGED configVars PROVE Goal
  <2>1. UNCHANGED <<lastPushed, inFlight, demi, stamp, unsure>> BY <1>11 DEF configVars
  <2> QED BY <1>3, <2>1
<1>12. Goal
  <2> HIDE DEF Goal
  <2> QED BY <1>4, <1>6, <1>7, <1>8, <1>9, <1>10, <1>11 DEF ConfigNext, SettlePush
<1> QED BY <1>1, <1>12 DEF ConfigInv, StampsGiven, OneKnows

\* At first no pod knows anything.
LEMMA ConfigInvInit == ASSUME ConfigInit PROVE ConfigInv
<1> USE BoundAssumption DEF ConfigInit
<1>1. ConfigTypeOK
  <2>1. NoPush \in [body : Served, stamp : Nat] BY DEF NoPush, Served
  <2>2. Nothing \in Served BY DEF Served
  <2>3. edits \in 0..MaxEdits /\ troubles \in 0..MaxTroubles /\ stamp \in Nat OBVIOUS
  <2>4. /\ reads \in [Pod -> SUBSET (Value \cup {Nothing})] /\ lastPushed \in [Pod -> Served]
        /\ inFlight \in [Pod -> [body : Served, stamp : Nat]] /\ backedOff \in [Pod -> BOOLEAN]
    BY <2>1, <2>2
  <2> QED BY <2>1, <2>3, <2>4 DEF ConfigTypeOK
<1>2. demi.stamp =< stamp /\ \A q \in Pod : inFlight[q].stamp =< stamp BY DEF NoPush
<1>3. OneKnows BY PodAssumption DEF OneKnows
<1> QED BY <1>1, <1>2, <1>3 DEF ConfigInv, StampsGiven

\* A pod that knows cannot be wrong.
LEMMA ConfigInvShows == ASSUME ConfigInv PROVE ConfigTypeOK /\ PodsKnow
<1>1. ConfigTypeOK /\ (unsure \/ OneKnows) BY DEF ConfigInv
<1>2. ASSUME \A p \in Pod : lastPushed[p] = Payload(config), config # Nothing, OneKnows
      PROVE demi.body = Payload(config)
  <2>1. Payload(config) # Nothing
    <3>1. config \in Value BY <1>1, <1>2 DEF ConfigTypeOK
    <3> QED BY <3>1, ValueAssumption DEF Payload
  <2> QED BY <1>2, <2>1 DEF OneKnows
<1> QED BY <1>1, <1>2 DEF PodsKnow, Mirrored

\* Of any pods, configurations, hand edits, failed pushes and replaced pods:
\* when no pod would push the configuration again, DEMI holds it, or a push
\* was told that it did not land when it had.
THEOREM PodsAreNotMistaken == ConfigSpec => [](ConfigTypeOK /\ PodsKnow)
<1>1. ConfigInv /\ [ConfigNext]_configVars => ConfigInv' BY ConfigInvStep
<1> QED BY <1>1, ConfigInvInit, ConfigInvShows, PTL DEF ConfigSpec

-----------------------------------------------------------------------------
(* The backlog: a row waits once, and keeps its turn. *)

\* Pulling an entry brings no other forward past one that stays.
LEMMA PulledKeepsOrder ==
  ASSUME NEW S, NEW s \in Seq(S), NEW e, NEW r
  PROVE  Before(Pulled(s, e), r) \subseteq Before(s, r)
<1> DEFINE other == {n \in DOMAIN s : s[n] # e}
           t == Pulled(s, e)
           K == Cardinality(other)
<1>1. other \in SUBSET (DOMAIN s) OBVIOUS
<1>2. /\ K \in Nat /\ t = Picked(s, other) /\ DOMAIN t = 1..K
      /\ \A k \in 1..K : PlaceOf(other, k) \in DOMAIN s /\ t[k] = s[PlaceOf(other, k)]
      /\ \A k, l \in 1..K : k < l => PlaceOf(other, k) < PlaceOf(other, l)
  <2>1. t = Picked(s, other) BY DEF Pulled
  <2> HIDE DEF other
  <2> QED BY <1>1, <2>1, PickedIs
<1> HIDE DEF other, t, K
<1>3. ASSUME NEW k \in DOMAIN t, NEW l \in DOMAIN t, k < l, t[l] = r
      PROVE  t[k] \in Before(s, r)
  <2> PICK i, j : i = PlaceOf(other, k) /\ j = PlaceOf(other, l) OBVIOUS
  <2>1. i \in DOMAIN s /\ j \in DOMAIN s /\ i < j /\ t[k] = s[i] /\ s[j] = r
    BY <1>2, <1>3
  <2> QED BY <2>1 DEF Before
<1>4. Before(t, r) \subseteq Before(s, r) BY <1>3 DEF Before
<1> QED BY <1>4 DEF t

\* Nor does appending one that is not there; what is appended has all the others before it.
LEMMA AppendKeepsOrder ==
  ASSUME NEW S, NEW s \in Seq(S), NEW e \in S, e \notin ToSet(s), NEW r
  PROVE  /\ r # e => Before(Append(s, e), r) \subseteq Before(s, r)
         /\ Before(Append(s, e), e) = ToSet(Append(s, e)) \ {e}
<1> PICK t : t = Append(s, e) OBVIOUS
<1>1. /\ DOMAIN t = 1..Len(s) + 1 /\ DOMAIN s = 1..Len(s) /\ Len(s) \in Nat
      /\ \A n \in 1..Len(s) : t[n] = s[n] /\ t[Len(s) + 1] = e
      /\ t[Len(s) + 1] = e
  OBVIOUS
<1>2. \A n \in DOMAIN t : n \in Nat /\ (n \in DOMAIN s \/ n = Len(s) + 1) BY <1>1
<1>3. ASSUME r # e, NEW m \in DOMAIN t, NEW n \in DOMAIN t, m < n, t[n] = r
      PROVE  t[m] \in Before(s, r)
  <2>1. n \in DOMAIN s BY <1>1, <1>2, <1>3
  <2>2. m \in DOMAIN s /\ n \in DOMAIN s /\ t[m] = s[m] /\ s[n] = r BY <1>1, <1>2, <1>3, <2>1
  <2> QED BY <1>3, <2>2 DEF Before
<1>4. r # e => Before(t, r) \subseteq Before(s, r) BY <1>3 DEF Before
<1>5. \A n \in DOMAIN s : s[n] # e BY DEF ToSet
<1>6. ASSUME NEW m \in DOMAIN t, NEW n \in DOMAIN t, m < n, t[n] = e
      PROVE  t[m] \in ToSet(t) \ {e}
  <2>1. n = Len(s) + 1 BY <1>1, <1>2, <1>5, <1>6
  <2>2. m \in DOMAIN s /\ t[m] = s[m] BY <1>1, <1>2, <1>6, <2>1
  <2> QED BY <1>5, <2>2 DEF ToSet
<1>7. ASSUME NEW x \in ToSet(t), x # e PROVE x \in Before(t, e)
  <2>1. PICK m \in DOMAIN t : t[m] = x BY <1>7 DEF ToSet
  <2>2. m \in DOMAIN s /\ m < Len(s) + 1 /\ Len(s) + 1 \in DOMAIN t BY <1>1, <1>2, <1>7, <2>1
  <2> QED BY <1>1, <2>1, <2>2 DEF Before
<1>8. Before(t, e) = ToSet(t) \ {e}
  <2>1. \A x \in Before(t, e) : x \in ToSet(t) \ {e} BY <1>6 DEF Before
  <2>2. \A x \in ToSet(t) \ {e} : x \in Before(t, e) BY <1>7
  <2> QED BY <2>1, <2>2
<1> QED BY <1>4, <1>8

\* A queue of rows, each once.
Line(q) == q \in Seq(Owed) /\ IsInjective(q)

\* It stays one when a row leaves it, and when the row is put behind the others.
LEMMA LineKept ==
  ASSUME NEW q, Line(q), NEW e \in Owed
  PROVE  /\ Line(Pulled(q, e)) /\ e \notin ToSet(Pulled(q, e))
         /\ Line(Append(Pulled(q, e), e))
<1> DEFINE other == {n \in DOMAIN q : q[n] # e}
           t == Pulled(q, e)
           K == Cardinality(other)
<1>1. q \in Seq(Owed) /\ IsInjective(q) /\ other \in SUBSET (DOMAIN q) BY DEF Line
<1>2. /\ K \in Nat /\ t = Picked(q, other) /\ DOMAIN t = 1..K /\ Len(t) = K
      /\ \A k \in 1..K : PlaceOf(other, k) \in DOMAIN q /\ t[k] = q[PlaceOf(other, k)]
      /\ \A k, l \in 1..K : k < l => PlaceOf(other, k) < PlaceOf(other, l)
  <2>1. t = Picked(q, other) BY DEF Pulled
  <2> HIDE DEF other
  <2> QED BY <1>1, <2>1, PickedIs
<1>3. t \in Seq(Owed) /\ e \notin ToSet(t) BY <1>1, PulledIs
<1> HIDE DEF other, t, K
<1>4. ASSUME NEW k \in DOMAIN t, NEW l \in DOMAIN t, t[k] = t[l] PROVE k = l
  <2> PICK i, j : i = PlaceOf(other, k) /\ j = PlaceOf(other, l) OBVIOUS
  <2>1. i = j /\ i \in Nat BY <1>1, <1>2, <1>4 DEF IsInjective
  <2>2. k \in 1..K /\ l \in 1..K /\ k \in Nat /\ l \in Nat BY <1>2
  <2>3. ~(i < i) BY <2>1
  <2>4. k < l => i < j BY <1>2, <2>2
  <2>5. l < k => j < i BY <1>2, <2>2
  <2> QED BY <2>1, <2>2, <2>3, <2>4, <2>5
<1>5. Line(t) BY <1>3, <1>4 DEF Line, IsInjective
<1> PICK u : u = Append(t, e) OBVIOUS
<1>6. /\ u \in Seq(Owed) /\ DOMAIN u = 1..K + 1 /\ K \in Nat
      /\ \A n \in 1..K : u[n] = t[n]
      /\ u[K + 1] = e
  BY <1>2, <1>3
<1>7. \A n \in 1..K : t[n] # e BY <1>2, <1>3 DEF ToSet
<1>8. ASSUME NEW k \in DOMAIN u, NEW l \in DOMAIN u, u[k] = u[l] PROVE k = l
  <2>1. (k \in 1..K \/ k = K + 1) /\ (l \in 1..K \/ l = K + 1) BY <1>6
  <2>2. CASE k \in 1..K /\ l \in 1..K BY <1>2, <1>4, <1>6, <1>8, <2>2
  <2>3. CASE k = K + 1 /\ l \in 1..K BY <1>6, <1>7, <1>8, <2>3
  <2>4. CASE k \in 1..K /\ l = K + 1 BY <1>6, <1>7, <1>8, <2>4
  <2>5. CASE k = K + 1 /\ l = K + 1 BY <2>5
  <2> QED BY <2>1, <2>2, <2>3, <2>4, <2>5
<1>9. Line(u) BY <1>6, <1>8 DEF Line, IsInjective
<1> QED BY <1>3, <1>5, <1>9 DEF t

\* What a step does to the queue: nothing, or a row leaves, or goes behind all others.
LEMMA QueueStep ==
  ASSUME BacklogTypeOK, [BacklogNext]_backlogVars
  PROVE  \/ queue' = queue
         \/ \E r \in Owed : queue' = Without(r)
         \/ \E r \in Owed : queue' = Append(Without(r), r)
<1>1. ASSUME NEW s \in Sweep, batch[s] # <<>> PROVE Next1(s) \in Owed
  BY <1>1 DEF BacklogTypeOK, Next1
<1>2. ASSUME NEW r \in Owed, FlagRow(r) PROVE queue' = Append(Without(r), r)
  BY <1>2 DEF FlagRow, Reflagged
<1>3. ASSUME NEW r \in Owed, Age(r) PROVE queue' = queue BY <1>3 DEF Age
<1>4. ASSUME NEW s \in Sweep, LandRow(s) PROVE queue' = queue \/ queue' = Without(Next1(s))
  BY <1>4 DEF LandRow
<1>5. ASSUME NEW s \in Sweep, RefuseRow(s)
      PROVE  queue' = Append(Without(Next1(s)), Next1(s))
  BY <1>5 DEF RefuseRow, Reflagged
<1>6. ASSUME NEW s \in Sweep, LandRow(s) \/ RefuseRow(s) PROVE Next1(s) \in Owed
  BY <1>1, <1>6 DEF LandRow, RefuseRow
<1>7. ASSUME NEW s \in Sweep, FindOldest(s) \/ LoseOutcome(s) \/ DieInSweep(s)
      PROVE  queue' = queue
  BY <1>7 DEF FindOldest, LoseOutcome, DieInSweep
<1>8. CASE UNCHANGED backlogVars BY <1>8 DEF backlogVars
<1> QED BY <1>2, <1>3, <1>4, <1>5, <1>6, <1>7, <1>8 DEF BacklogNext, Retry

\* Every step keeps the types, a row waiting once among them.
LEMMA BacklogTypeStep ==
  ASSUME BacklogTypeOK, [BacklogNext]_backlogVars
  PROVE  BacklogTypeOK'
<1>1. /\ Line(queue) /\ fresh \subseteq Owed /\ batch \in [Sweep -> Seq(Owed)]
      /\ \A s \in Sweep : Len(batch[s]) =< Limit[s]
      /\ writes \in 0..MaxWrites /\ lapses \in 0..MaxLapses
  BY DEF BacklogTypeOK, Line
<1>2. Line(queue') BY <1>1, QueueStep, LineKept DEF Without
<1>3. ASSUME NEW s \in Sweep, batch[s] # <<>>
      PROVE  /\ Next1(s) \in Owed /\ Tail(batch[s]) \in Seq(Owed)
             /\ Len(Tail(batch[s])) =< Limit[s]
  <2>1. batch[s] \in Seq(Owed) /\ Len(batch[s]) =< Limit[s] /\ Limit[s] \in Nat
    BY <1>1, BacklogAssumption
  <2>2. Head(batch[s]) \in Owed /\ Tail(batch[s]) \in Seq(Owed)
        /\ Len(Tail(batch[s])) = Len(batch[s]) - 1 /\ Len(batch[s]) \in Nat
    BY <1>3, <2>1, HeadTailProperties
  <2> QED BY <2>1, <2>2 DEF Next1
<1> DEFINE Batches == batch' \in [Sweep -> Seq(Owed)] /\ \A s \in Sweep : Len(batch'[s]) =< Limit[s]
           Rest == /\ fresh' \subseteq Owed
                   /\ writes' \in 0..MaxWrites /\ lapses' \in 0..MaxLapses
<1>4. ASSUME NEW s \in Sweep, batch[s] # <<>>, Done(s) PROVE Batches
  BY <1>1, <1>3, <1>4 DEF Done
<1>5. ASSUME NEW s \in Sweep, NEW b \in Seq(Owed), Len(b) =< Limit[s],
             batch' = [batch EXCEPT ![s] = b]
      PROVE  Batches
  BY <1>1, <1>5
<1>6. ASSUME UNCHANGED batch PROVE Batches BY <1>1, <1>6
<1>7. Batches
  <2>1. ASSUME NEW s \in Sweep, FindOldest(s) PROVE Batches
    <3> DEFINE L == {Limit[s], Len(queue)}
    <3>0. queue \in Seq(Owed) /\ Len(queue) \in Nat /\ Limit[s] \in Nat
      BY <1>1, BacklogAssumption DEF Line
    <3>1. /\ queue \in Seq(Owed) /\ Len(queue) \in Nat /\ Limit[s] \in Nat
          /\ batch' = [batch EXCEPT ![s] = SubSeq(queue, 1, Min(L))]
      BY <2>1, <3>0 DEF FindOldest
    <3>2. Min(L) \in L /\ \A x \in L : Min(L) =< x
      <4>1. \E x \in L : \A y \in L : x =< y
        <5>1. CASE Limit[s] =< Len(queue) BY <3>1, <5>1
        <5>2. CASE Len(queue) =< Limit[s] BY <3>1, <5>2
        <5> QED BY <3>1, <5>1, <5>2
      <4> HIDE DEF L
      <4> QED BY <4>1 DEF Min
    <3>3. Min(L) \in Nat /\ Min(L) =< Len(queue) /\ Min(L) =< Limit[s] BY <3>1, <3>2
    <3> HIDE DEF L
    <3>4. \A i \in 1..Min(L) : queue[i] \in Owed BY <3>1, <3>3
    <3>5. /\ SubSeq(queue, 1, Min(L)) \in Seq(Owed)
          /\ Len(SubSeq(queue, 1, Min(L))) = IF 1 <= Min(L) THEN Min(L) - 1 + 1 ELSE 0
      BY <3>3, <3>4, SubSeqProperties
    <3>6. Len(SubSeq(queue, 1, Min(L))) =< Limit[s] BY <3>1, <3>3, <3>5
    <3> QED BY <1>5, <3>1, <3>5, <3>6
  <2>2. ASSUME NEW s \in Sweep, LandRow(s) \/ RefuseRow(s) \/ LoseOutcome(s) PROVE Batches
    BY <1>4, <2>2 DEF LandRow, RefuseRow, LoseOutcome
  <2>3. ASSUME NEW s \in Sweep, DieInSweep(s) PROVE Batches
    <3>1. <<>> \in Seq(Owed) /\ Len(<<>>) =< Limit[s] BY BacklogAssumption
    <3>2. batch' = [batch EXCEPT ![s] = <<>>] BY <2>3 DEF DieInSweep
    <3> QED BY <1>5, <3>1, <3>2
  <2>4. ASSUME NEW r \in Owed, FlagRow(r) \/ Age(r) PROVE Batches
    BY <1>6, <2>4 DEF FlagRow, Age
  <2>5. ASSUME UNCHANGED backlogVars PROVE Batches
    <3>1. UNCHANGED batch BY <2>5 DEF backlogVars
    <3> QED BY <1>6, <3>1
  <2> HIDE DEF Batches
  <2> QED BY <2>1, <2>2, <2>3, <2>4, <2>5 DEF BacklogNext, Retry
<1>8. Rest
  <2> USE BacklogAssumption
  <2>1. ASSUME NEW s \in Sweep, FindOldest(s) \/ LandRow(s) \/ LoseOutcome(s) \/ DieInSweep(s)
        PROVE  Rest
    BY <1>1, <2>1 DEF FindOldest, LandRow, LoseOutcome, DieInSweep
  <2>2. ASSUME NEW s \in Sweep, RefuseRow(s) PROVE Rest
    BY <1>1, <1>3, <2>2 DEF RefuseRow
  <2>3. ASSUME NEW r \in Owed, FlagRow(r) \/ Age(r) PROVE Rest
    BY <1>1, <2>3 DEF FlagRow, Age
  <2>4. ASSUME UNCHANGED backlogVars PROVE Rest BY <1>1, <2>4 DEF backlogVars
  <2> HIDE DEF Rest
  <2> QED BY <2>1, <2>2, <2>3, <2>4 DEF BacklogNext, Retry
<1> QED BY <1>2, <1>7, <1>8 DEF BacklogTypeOK, Line

\* It holds at first.
LEMMA BacklogTypeInit == ASSUME BacklogInit PROVE BacklogTypeOK
<1>1. PICK owed \in SUBSET Owed : queue \in SetToSeqs(owed) BY DEF BacklogInit
<1>2. Cardinality(owed) \in Nat
  <2>1. IsFiniteSet(owed) BY BacklogAssumption, FS_Subset
  <2> QED BY <2>1, FS_CardinalityType
<1>3. /\ queue \in [1..Cardinality(owed) -> owed]
      /\ \A i, j \in 1..Cardinality(owed) : i # j => queue[i] # queue[j]
  BY <1>1 DEF SetToSeqs
<1>4. queue \in Seq(Owed) /\ IsInjective(queue)
  <2>1. queue \in [1..Cardinality(owed) -> Owed] BY <1>3
  <2>2. queue \in Seq(Owed) BY <1>2, <2>1
  <2> QED BY <1>3, <2>2 DEF IsInjective
<1>5. /\ fresh = {} /\ batch = [s \in Sweep |-> <<>>] /\ writes = 0 /\ lapses = 0
  BY DEF BacklogInit
<1>6. batch \in [Sweep -> Seq(Owed)] /\ \A s \in Sweep : Len(batch[s]) =< Limit[s]
  <2>1. \A s \in Sweep : batch[s] = <<>> /\ Limit[s] \in Nat BY <1>5, BacklogAssumption
  <2>2. <<>> \in Seq(Owed) /\ Len(<<>>) = 0 OBVIOUS
  <2> QED BY <1>5, <2>1, <2>2
<1> QED BY <1>4, <1>5, <1>6, BacklogAssumption DEF BacklogTypeOK

\* Nobody who waits is overtaken.
LEMMA TurnsStep ==
  ASSUME BacklogTypeOK, [BacklogNext]_backlogVars, NEW r \in Waiting \cap Waiting'
  PROVE  Before(queue', r) \subseteq Before(queue, r) \/ Before(queue', r) = Waiting' \ {r}
<1>1. queue \in Seq(Owed) /\ Line(queue) BY DEF BacklogTypeOK, Line
<1>2. CASE queue' = queue BY <1>2
<1>3. ASSUME NEW e \in Owed, queue' = Without(e)
      PROVE  Before(queue', r) \subseteq Before(queue, r)
  BY <1>1, <1>3, PulledKeepsOrder DEF Without
<1>4. ASSUME NEW e \in Owed, queue' = Append(Without(e), e)
      PROVE  Before(queue', r) \subseteq Before(queue, r) \/ Before(queue', r) = Waiting' \ {r}
  <2> DEFINE left == Pulled(queue, e)
  <2>1. left \in Seq(Owed) /\ e \notin ToSet(left) BY <1>1, LineKept DEF Line
  <2>2. queue' = Append(left, e) BY <1>4 DEF Without
  <2>3. Before(left, r) \subseteq Before(queue, r) BY <1>1, PulledKeepsOrder
  <2> HIDE DEF left
  <2>4. CASE r = e BY <2>1, <2>2, <2>4, AppendKeepsOrder DEF Waiting
  <2>5. CASE r # e
    <3>1. Before(queue', r) \subseteq Before(left, r) BY <2>1, <2>2, <2>5, AppendKeepsOrder
    <3> QED BY <2>3, <3>1
  <2> QED BY <2>4, <2>5
<1> QED BY <1>2, <1>3, <1>4, QueueStep

\* Of any rows, sweeps, limits and refusals: a row waits once, a sweep takes no
\* more than its limit, and the rows before a waiting row only get fewer until it
\* fails anew, so that those DEMI always refuses cannot keep it waiting from the front.
THEOREM TurnsAreKept == BacklogSpec => []BacklogTypeOK /\ TurnsKept
<1> DEFINE InTurn == \A r \in Waiting \cap Waiting' :
                       \/ Before(queue', r) \subseteq Before(queue, r)
                       \/ Before(queue', r) = Waiting' \ {r}
<1>1. BacklogTypeOK /\ [BacklogNext]_backlogVars => [InTurn]_backlogVars
  BY TurnsStep
<1>2. BacklogTypeOK /\ [BacklogNext]_backlogVars => BacklogTypeOK' BY BacklogTypeStep
<1> QED BY <1>1, <1>2, BacklogTypeInit, PTL DEF BacklogSpec, TurnsKept

-----------------------------------------------------------------------------
(* Everything outside a request, in one specification. *)

\* What each part starts with and does in MCBackground is what it starts with
\* and does by itself.
LEMMA PartsInit ==
  BackInit => /\ PodInit /\ ConfigInit /\ BacklogInit
              /\ RepushInit /\ MigrationInit /\ PinInit
BY DEF BackInit

\* And every step of it is one of a part, or none.
LEMMA PartsStep ==
  ASSUME [BackNext]_backVars
  PROVE  /\ [PodNext]_podVars /\ [ConfigNext]_configVars /\ [BacklogNext]_backlogVars
         /\ [RepushNext]_repushVars /\ [MigrationNext]_migrationVars /\ [PinNext]_pinVars
<1>1. CASE UNCHANGED backVars BY <1>1 DEF backVars
<1>2. CASE PodPart BY <1>2 DEF PodPart
<1>3. CASE ConfigPart BY <1>3 DEF ConfigPart
<1>4. CASE BacklogPart BY <1>4 DEF BacklogPart
<1>5. CASE RepushPart BY <1>5 DEF RepushPart
<1>6. CASE MigrationPart BY <1>6 DEF MigrationPart
<1>7. CASE PinPart BY <1>7 DEF PinPart
<1> QED BY <1>1, <1>2, <1>3, <1>4, <1>5, <1>6, <1>7 DEF BackNext

\* Of any constants, the scripts that are run by hand keep what they promise
\* beside everything else that happens outside a request: the re-push script's
\* checkpoints are true and dedupe-project-pins.js undoes nothing.
THEOREM ScriptsAlwaysHold == BackSpec => []ScriptsHold
<1>1. BackInit => RepushInv /\ PinInv BY PartsInit, RepushInvInit, PinInvInit
<1>2. RepushInv /\ PinInv /\ [BackNext]_backVars => RepushInv' /\ PinInv'
  BY PartsStep, RepushInvStep, PinInvStep
<1>3. RepushInv /\ PinInv => ScriptsHold
  BY RepushInvShows, PinInvShows DEF ScriptsHold
<1> QED BY <1>1, <1>2, <1>3, PTL DEF BackSpec

\* And so do the rows that pods buffer, the migrations, what pods know of the
\* configuration, and the turns of the rows that wait for a sweep.
THEOREM BackgroundHolds ==
  BackSpec => [](RowsAccounted /\ MigrationsHold /\ PodsKnow) /\ TurnsKept
<1> DEFINE Inv == PodInv /\ MigrationInv /\ ConfigInv /\ BacklogTypeOK
           InTurn == \A r \in Waiting \cap Waiting' :
                       \/ Before(queue', r) \subseteq Before(queue, r)
                       \/ Before(queue', r) = Waiting' \ {r}
<1>1. BackInit => Inv
  BY PartsInit, PodInvInit, MigrationInvInit, ConfigInvInit, BacklogTypeInit
<1>2. Inv /\ [BackNext]_backVars => Inv'
  BY PartsStep, PodInvStep, MigrationInvStep, ConfigInvStep, BacklogTypeStep
<1>3. Inv => RowsAccounted /\ MigrationsHold /\ PodsKnow
  BY PodInvShows, MigrationInvShows, ConfigInvShows
<1>4. Inv /\ [BackNext]_backVars => [InTurn]_backlogVars
  BY PartsStep, TurnsStep
<1> QED BY <1>1, <1>2, <1>3, <1>4, PTL DEF BackSpec, TurnsKept
=============================================================================
