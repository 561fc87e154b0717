---------------------------- MODULE PodLifecycle ----------------------------
(***************************************************************************)
(* One pod, from its start to its exit, and the analytics rows it buffers. *)
(* Nobody awaits a row: it waits in a buffer for a timer, for a full       *)
(* buffer, or for the flush that SIGTERM asks for.                         *)
(***************************************************************************)
EXTENDS Naturals, FiniteSets

CONSTANTS EventRow, AuditRow, \* rows a request may buffer
          MaxRows,            \* MAX_ROWS: a buffer this long is flushed at once
          MaxAttempts         \* MAX_RETRIES of the first connection

ASSUME RowAssumption == EventRow \cap AuditRow = {} /\ MaxRows \in Nat \ {0} /\ MaxAttempts \in Nat \ {0}

VARIABLES boot,    \* how far the start has come
          attempt, \* of connecting to Mongo
          jobs,    \* Agenda
          stop,    \* shutdown, which SIGTERM starts
          exit,    \* how the process ended
          serving, \* the rows that requests under way are about to buffer
          buffer, timer,
          sent,    \* the batches given to the push client
          late     \* for the properties: rows buffered after shutdown's flush

podVars == <<boot, attempt, jobs, stop, exit, serving, buffer, timer, sent, late>>
rowVars == <<buffer, timer, sent, late>>

Row == EventRow \cup AuditRow
BufferName == {"events", "audit"}
RowsOf(b) == IF b = "events" THEN EventRow ELSE AuditRow

\* What became of a batch; "named" is a line that shutdown wrote about it.
Fate == {"flying", "landed", "failed", "named"}

Alive == exit = "no"
Begun == serving \cup (UNION {buffer[b] : b \in BufferName}) \cup (UNION {s.rows : s \in sent})

-----------------------------------------------------------------------------
\* loadModels: the last failed attempt ends the process.
Connect ==
  /\ Alive /\ boot = "connecting"
  /\ \/ boot' = "connected" /\ UNCHANGED <<attempt, exit>>
     \/ attempt < MaxAttempts /\ attempt' = attempt + 1 /\ UNCHANGED <<boot, exit>>
     \/ attempt = MaxAttempts /\ exit' = "exhausted" /\ UNCHANGED <<boot, attempt>>
  /\ UNCHANGED <<jobs, stop, serving, rowVars>>

\* startJobQueue listens to SIGTERM, then starts; an error is logged, no more.
StartJobQueue ==
  /\ Alive /\ boot = "connected"
  /\ boot' = "queued"
  /\ jobs' \in {"running", "off"}
  /\ UNCHANGED <<attempt, stop, exit, serving, rowVars>>

\* The sweep is detached; the server listens whatever SIGTERM has done.
Listen ==
  /\ Alive /\ boot = "queued"
  /\ boot' = "listening"
  /\ UNCHANGED <<attempt, jobs, stop, exit, serving, rowVars>>

\* A request that will buffer the row r comes in, until the server is closed.
Accept(r) ==
  /\ Alive /\ boot = "listening" /\ stop # "closing"
  /\ r \notin Begun
  /\ serving' = serving \cup {r}
  /\ UNCHANGED <<boot, attempt, jobs, stop, exit, rowVars>>

-----------------------------------------------------------------------------
Batch(b, rows) == [of |-> b, rows |-> rows, fate |-> "flying"]

\* Mutant of Taken: the rows stay in the buffer until the push is settled.
TakenLater(names) == buffer

\* The buffers once some are flushed: a flush empties them before it awaits.
Taken(names) == [b \in BufferName |-> IF b \in names THEN {} ELSE buffer[b]]

\* flush of some buffers; an empty one sends nothing.
Flush(names, rows) ==
  {Batch(b, rows[b]) : b \in {n \in names : rows[n] # {}}}

\* enqueue, by a request that then ends.
Enqueue(b, r) ==
  LET full == Cardinality(buffer[b] \cup {r}) >= MaxRows
      more == [buffer EXCEPT ![b] = @ \cup {r}]
  IN /\ Alive /\ r \in serving \cap RowsOf(b)
     /\ serving' = serving \ {r}
     /\ late' = IF stop = "no" THEN late ELSE late \cup {r}
     /\ IF full THEN /\ buffer' = Taken({b})
                     /\ sent' = sent \cup Flush({b}, more)
                     /\ timer' = timer
                ELSE buffer' = more /\ sent' = sent /\ timer' = TRUE
     /\ UNCHANGED <<boot, attempt, jobs, stop, exit>>

\* scheduleFlush's timer: both buffers go.
Fire ==
  /\ Alive /\ timer
  /\ timer' = FALSE
  /\ buffer' = Taken(BufferName)
  /\ sent' = sent \cup Flush(BufferName, buffer)
  /\ UNCHANGED <<boot, attempt, jobs, stop, exit, serving, late>>

\* The push client answers whether a batch landed.
SettleBatch(s, fate) ==
  /\ Alive /\ s \in sent /\ s.fate = "flying"
  /\ sent' = (sent \ {s}) \cup {[s EXCEPT !.fate = fate]}
  /\ UNCHANGED <<boot, attempt, jobs, stop, exit, serving, buffer, timer, late>>

-----------------------------------------------------------------------------
\* SIGTERM, once.  Agenda's listener runs with this one if it was there.
Term ==
  /\ Alive /\ stop = "no"
  /\ stop' = "draining"
  /\ jobs' = IF jobs = "running" THEN "stopping" ELSE jobs
  /\ buffer' = Taken(BufferName)
  /\ sent' = sent \cup Flush(BufferName, buffer)
  /\ UNCHANGED <<boot, attempt, exit, serving, timer, late>>

\* The drain ends when its batches are settled, or after ANALYTICS_DRAIN_MS,
\* which no step marks.  Without a server there is nothing more to do.
EndDrain ==
  /\ Alive /\ stop = "draining"
  /\ stop' = IF boot = "listening" THEN "closing" ELSE "over"
  /\ UNCHANGED <<boot, attempt, jobs, exit, serving, rowVars>>

\* Agenda gives its jobs back.
JobsStopped ==
  /\ Alive /\ jobs = "stopping"
  /\ jobs' = "off"
  /\ UNCHANGED <<boot, attempt, stop, exit, serving, rowVars>>

\* logUnsent names every push that is not settled.
LogUnsent(batches) ==
  {IF s.fate = "flying" THEN [s EXCEPT !.fate = "named"] ELSE s : s \in batches}

\* The server's last connection is closed.
Exit ==
  /\ Alive /\ stop = "closing" /\ serving = {}
  /\ sent' = LogUnsent(sent)
  /\ exit' = "clean"
  /\ UNCHANGED <<boot, attempt, jobs, stop, serving, buffer, timer, late>>

\* The grace period is over, or the node is gone.
Kill ==
  /\ Alive
  /\ exit' = "killed"
  /\ UNCHANGED <<boot, attempt, jobs, stop, serving, rowVars>>

-----------------------------------------------------------------------------
PodInit ==
  /\ boot = "connecting" /\ attempt = 1
  /\ jobs = "off" /\ stop = "no" /\ exit = "no"
  /\ serving = {}
  /\ buffer = [b \in BufferName |-> {}] /\ timer = FALSE
  /\ sent = {} /\ late = {}

PodNext ==
  \/ Connect \/ StartJobQueue \/ Listen
  \/ \E r \in Row : Accept(r) \/ \E b \in BufferName : Enqueue(b, r)
  \/ Fire
  \/ \E s \in sent : SettleBatch(s, "landed") \/ SettleBatch(s, "failed")
  \/ Term \/ EndDrain \/ JobsStopped \/ Exit \/ Kill

PodSpec == PodInit /\ [][PodNext]_podVars

-----------------------------------------------------------------------------
PodTypeOK ==
  /\ boot \in {"connecting", "connected", "queued", "listening"}
  /\ attempt \in 1..MaxAttempts
  /\ jobs \in {"off", "running", "stopping"}
  /\ stop \in {"no", "draining", "closing", "over"}
  /\ exit \in {"no", "exhausted", "clean", "killed"}
  /\ serving \subseteq Row /\ late \subseteq Row
  /\ buffer \in [BufferName -> SUBSET Row]
  /\ timer \in BOOLEAN
  /\ sent \subseteq [of : BufferName, rows : SUBSET Row, fate : Fate]

Buffered == buffer["events"] \cup buffer["audit"]

\* No row is in two batches, or in a batch and still in a buffer.
SentOnce ==
  /\ \A s, t \in sent : s # t => s.rows \cap t.rows = {}
  /\ \A s \in sent : s.rows \cap Buffered = {} /\ s.rows \cap serving = {}

\* A batch is never empty nor longer than the ingest API takes.
BatchesFit == \A s \in sent : s.rows # {} /\ Cardinality(s.rows) =< MaxRows

\* What waits in a buffer has a timer to wait for.
NoneForgotten == Alive /\ Buffered # {} => timer

\* A pod that exits by itself has said what became of every row it sent, and the
\* rows it takes along unsaid were buffered after the flush that SIGTERM asked for.
NothingUnsaid ==
  exit = "clean" =>
    /\ \A s \in sent : s.fate # "flying"
    /\ Buffered \subseteq late

\* Analytics rows are sent once, in batches that fit, and go missing unsaid
\* only when they came after SIGTERM.
RowsAccounted == SentOnce /\ BatchesFit /\ NoneForgotten /\ NothingUnsaid
=============================================================================
