------------------------------ MODULE MatViews ------------------------------
(***************************************************************************)
(* The materialized report views: jobs that take a named lock in Mongo,    *)
(* refresh their views one after another and give the lock back.  A        *)
(* counting view adds what the audit trail gained since its own newest     *)
(* row; a window view sets each key's count over the last days.            *)
(*                                                                         *)
(* The lock is a row that a job finds free or stale; giving it back does   *)
(* not ask whose it is.                                                    *)
(***************************************************************************)
EXTENDS Integers, Sequences, FiniteSets, FiniteSetsExt

CONSTANTS Job,      \* runs of the worker
          LockId,   \* mat_view_hot, mat_view_cold, mat_view_all
          LockOf,   \* the lock each job's subset takes
          Plan,     \* the views the jobs refresh, in order
          Audit,    \* rows of the audit trail
          Key,      \* what the views group by: a user, a search term
          KeyOf,    \* the key of each audit row
          Stale,    \* STALE_MS
          MaxRun,   \* longest a job works on its views
          Days,     \* the window of a window view
          SaveDelay, \* longest an audit row takes to get into Mongo
          MaxNow,   \* bound of the clock
          Fault     \* the faults the environment may cause

Views == {Plan[i] : i \in 1..Len(Plan)}
Counting == {"topSearchTerms", "changesPerformedByNonPublicUsers", "topUserVisitsAllTime"}
Windowed == {"changesPerformedOverLast14Days", "topUserVisitsLast14"}

ASSUME PlanAssumption == Plan \in Seq(Counting \cup Windowed) /\ Plan # << >>
ASSUME AuditAssumption == IsFiniteSet(Audit)
ASSUME MapAssumption == LockOf \in [Job -> LockId] /\ KeyOf \in [Audit -> Key]
ASSUME TimeAssumption == {Stale, MaxRun, Days, SaveDelay, MaxNow} \subseteq Nat
\* What the lock relies on: STALE_MS outlasts a job.
ASSUME RunAssumption == MaxRun < Stale
ASSUME FaultAssumption ==
  Fault \subseteq {"view",     \* a view's update throws
                  "release",  \* giving the lock back fails
                  "crash"}    \* a job is killed

VARIABLES
  now,       \* real time
  stamp,     \* when each audit row was made, or -1
  storedAt,  \* when it got into Mongo, or -1
  lock,      \* _system_locks
  table,     \* the rows of each view
  pc,        \* where each job stands
  view,      \* the view it is at
  started,   \* when it took its lock
  mark,      \* the watermark it read: -1 for an empty view
  rows,      \* what its aggregate returned
  torn,      \* views a killed job left half written
  leaked     \* locks a job died with or could not give back

jobVars == <<pc, view, started, mark, rows>>
ghosts == <<torn, leaked>>
vars == <<now, stamp, storedAt, lock, table, jobVars, ghosts>>

-----------------------------------------------------------------------------
Time == 0..MaxNow
Row == [there: BOOLEAN, count: Nat, latest: Time]
NoRow == [there |-> FALSE, count |-> 0, latest |-> 0]
Empty == [k \in Key |-> NoRow]

\* One type invariant: every variable keeps its shape.
TypeOK ==
  /\ now \in Time
  /\ stamp \in [Audit -> Time \cup {-1}] /\ storedAt \in [Audit -> Time \cup {-1}]
  /\ lock \in [LockId -> [running: BOOLEAN, startedAt: Time]]
  /\ table \in [Views -> [Key -> Row]]
  /\ pc \in [Job -> {"idle", "last", "read", "write", "stagger", "done", "killed"}]
  /\ view \in [Job -> 1..Len(Plan)]
  /\ started \in [Job -> Time]
  /\ mark \in [Job -> Time \cup {-1}]
  /\ rows \in [Job -> [Key -> Row]]
  /\ torn \subseteq Views /\ leaked \subseteq LockId

Init ==
  /\ now = 0
  /\ stamp = [a \in Audit |-> -1] /\ storedAt = [a \in Audit |-> -1]
  /\ lock = [l \in LockId |-> [running |-> FALSE, startedAt |-> 0]]
  /\ table = [v \in Views |-> Empty]
  /\ pc = [j \in Job |-> "idle"]
  /\ view = [j \in Job |-> 1]
  /\ started = [j \in Job |-> 0]
  /\ mark = [j \in Job |-> -1]
  /\ rows = [j \in Job |-> Empty]
  /\ torn = {} /\ leaked = {}

Holds(j) == pc[j] \in {"last", "read", "write", "stagger"}

-----------------------------------------------------------------------------
(* Time and the audit trail *)

\* The clock; a job is through with its views in MaxRun.
Tick ==
  /\ now < MaxNow
  /\ \A j \in Job : Holds(j) => now < started[j] + MaxRun
  /\ now' = now + 1
  /\ UNCHANGED <<stamp, storedAt, lock, table, jobVars, ghosts>>

\* recordAction stamps an audit row; its save gets to Mongo then or later.
RecordAction(a) ==
  /\ stamp[a] = -1
  /\ stamp' = [stamp EXCEPT ![a] = now]
  /\ UNCHANGED <<now, storedAt, lock, table, jobVars, ghosts>>

StoreAudit(a) ==
  /\ stamp[a] # -1 /\ storedAt[a] = -1 /\ now <= stamp[a] + SaveDelay
  /\ storedAt' = [storedAt EXCEPT ![a] = now]
  /\ UNCHANGED <<now, stamp, lock, table, jobVars, ghosts>>

-----------------------------------------------------------------------------
(* The lock *)

IsStale(l) == lock[l].startedAt <= now - Stale
\* Mutant of Free: a lock is taken whatever its row says.
FreeAlways(l) == TRUE

Free(l) == ~lock[l].running \/ IsStale(l)

Take(j) == lock' = [lock EXCEPT ![LockOf[j]] = [running |-> TRUE, startedAt |-> now]]

\* acquireLock: one atomic update takes the lock when it is free or stale ...
Acquire(j) ==
  /\ pc[j] = "idle" /\ Free(LockOf[j])
  /\ Take(j)
  /\ pc' = [pc EXCEPT ![j] = "last"]
  /\ started' = [started EXCEPT ![j] = now]
  /\ leaked' = leaked \ {LockOf[j]}
  /\ UNCHANGED <<now, stamp, storedAt, table, view, mark, rows, torn>>

\* ... and a job that finds it held is over.
Skip(j) ==
  /\ pc[j] = "idle" /\ ~Free(LockOf[j])
  /\ pc' = [pc EXCEPT ![j] = "done"]
  /\ UNCHANGED <<now, stamp, storedAt, lock, table, view, started, mark, rows, ghosts>>

\* What the status endpoint says of a lock.
GetLockInfo(l) ==
  LET stale == lock[l].running /\ IsStale(l)
  IN [running |-> lock[l].running /\ ~stale, stale |-> stale]

-----------------------------------------------------------------------------
(* A view's update, in the three round trips it takes *)

ViewOf(j) == Plan[view[j]]

\* The newest row of a view, or -1 if it has none.
Newest(v) == LET there == {k \in Key : table[v][k].there}
             IN IF there = {} THEN -1 ELSE Max({table[v][k].latest : k \in there})

\* Mutant of Matched: the watermark's own rows are matched again.
MatchedAgain(v, k, after) ==
  {a \in Audit : /\ storedAt[a] # -1 /\ KeyOf[a] = k
                 /\ IF v \in Counting THEN stamp[a] >= after ELSE stamp[a] >= now - Days}

\* The audit rows of a key that the aggregate matches.
Matched(v, k, after) ==
  {a \in Audit : /\ storedAt[a] # -1 /\ KeyOf[a] = k
                 /\ IF v \in Counting THEN stamp[a] > after ELSE stamp[a] >= now - Days}

\* Mutant of GetLast: the watermark is the time of the run.
GetLastNow(j) ==
  /\ pc[j] = "last"
  /\ mark' = [mark EXCEPT ![j] = IF Newest(ViewOf(j)) = -1 THEN -1 ELSE now]
  /\ pc' = [pc EXCEPT ![j] = "read"]
  /\ UNCHANGED <<now, stamp, storedAt, lock, table, view, started, rows, ghosts>>

\* get_last of a counting view, the search for any row of a window view.
GetLast(j) ==
  /\ pc[j] = "last"
  /\ mark' = [mark EXCEPT ![j] = Newest(ViewOf(j))]
  /\ pc' = [pc EXCEPT ![j] = "read"]
  /\ UNCHANGED <<now, stamp, storedAt, lock, table, view, started, rows, ghosts>>

\* The aggregate: per key, how many audit rows match and the newest of them.
Aggregate(v, after) ==
  [k \in Key |-> LET found == Matched(v, k, after)
                 IN IF found = {} THEN NoRow
                    ELSE [there |-> TRUE, count |-> Cardinality(found),
                          latest |-> Max({stamp[a] : a \in found})]]

ReadAudits(j) ==
  /\ pc[j] = "read"
  /\ rows' = [rows EXCEPT ![j] = Aggregate(ViewOf(j), mark[j])]
  /\ pc' = [pc EXCEPT ![j] = "write"]
  /\ UNCHANGED <<now, stamp, storedAt, lock, table, view, started, mark, ghosts>>

\* One upsert of a counting view.  Two of the three views refuse a row they already have.
AddTo(v, old, row) ==
  IF v # "topUserVisitsAllTime" /\ old.there /\ old.latest = row.latest THEN old
  ELSE [there |-> TRUE, count |-> old.count + row.count, latest |-> row.latest]

\* One upsert of a window view.
SetTo(old, row) == [there |-> TRUE, count |-> row.count, latest |-> row.latest]

\* The bulk write of the keys the aggregate returned; $out replaces an empty view whole.
Written(j, keys) ==
  LET v == ViewOf(j)
  IN IF mark[j] = -1 THEN rows[j]
     ELSE [k \in Key |->
            IF k \notin keys \/ ~rows[j][k].there THEN table[v][k]
            ELSE IF v \in Counting THEN AddTo(v, table[v][k], rows[j][k])
            ELSE SetTo(table[v][k], rows[j][k])]

WriteView(j) ==
  /\ pc[j] = "write"
  /\ table' = [table EXCEPT ![ViewOf(j)] = Written(j, Key)]
  /\ pc' = [pc EXCEPT ![j] = "stagger"]
  /\ rows' = [rows EXCEPT ![j] = Empty]
  /\ mark' = [mark EXCEPT ![j] = -1]
  /\ UNCHANGED <<now, stamp, storedAt, lock, view, started, ghosts>>

\* Mutant of FailView: the view's error ends the job.
FailJob(j) ==
  /\ "view" \in Fault
  /\ pc[j] \in {"last", "read", "write"}
  /\ pc' = [pc EXCEPT ![j] = "done"]
  /\ rows' = [rows EXCEPT ![j] = Empty]
  /\ mark' = [mark EXCEPT ![j] = -1]
  /\ UNCHANGED <<now, stamp, storedAt, lock, table, view, started, ghosts>>

\* runView isolates a view that throws.
FailView(j) ==
  /\ "view" \in Fault
  /\ pc[j] \in {"last", "read", "write"}
  /\ pc' = [pc EXCEPT ![j] = "stagger"]
  /\ rows' = [rows EXCEPT ![j] = Empty]
  /\ mark' = [mark EXCEPT ![j] = -1]
  /\ UNCHANGED <<now, stamp, storedAt, lock, table, view, started, ghosts>>

\* After a pause, the next view.
NextView(j) ==
  /\ pc[j] = "stagger" /\ view[j] < Len(Plan)
  /\ view' = [view EXCEPT ![j] = @ + 1]
  /\ pc' = [pc EXCEPT ![j] = "last"]
  /\ UNCHANGED <<now, stamp, storedAt, lock, table, started, mark, rows, ghosts>>

\* releaseLock after the last view: whoever holds the row by now, it reads free.
Release(j) ==
  /\ pc[j] = "stagger" /\ view[j] = Len(Plan)
  /\ \/ /\ lock' = [lock EXCEPT ![LockOf[j]].running = FALSE]
        /\ UNCHANGED leaked
     \/ /\ "release" \in Fault
        /\ leaked' = leaked \cup {LockOf[j]}
        /\ UNCHANGED lock
  /\ pc' = [pc EXCEPT ![j] = "done"]
  /\ UNCHANGED <<now, stamp, storedAt, table, view, started, mark, rows, torn>>

\* A job is killed; a bulk write it was at may be half done, $out is not.
Kill(j) ==
  /\ "crash" \in Fault
  /\ Holds(j)
  /\ \/ UNCHANGED <<table, torn>>
     \/ /\ pc[j] = "write" /\ mark[j] # -1
        /\ \E keys \in SUBSET Key : table' = [table EXCEPT ![ViewOf(j)] = Written(j, keys)]
        /\ torn' = torn \cup {ViewOf(j)}
  /\ leaked' = leaked \cup {LockOf[j]}
  /\ pc' = [pc EXCEPT ![j] = "killed"]
  /\ rows' = [rows EXCEPT ![j] = Empty]
  /\ mark' = [mark EXCEPT ![j] = -1]
  /\ UNCHANGED <<now, stamp, storedAt, lock, view, started>>

-----------------------------------------------------------------------------
RunViews(j) ==
  \/ Acquire(j) \/ Skip(j) \/ GetLast(j) \/ ReadAudits(j) \/ WriteView(j)
  \/ FailView(j) \/ NextView(j) \/ Release(j)

Next ==
  \/ Tick
  \/ \E a \in Audit : RecordAction(a) \/ StoreAudit(a)
  \/ \E j \in Job : RunViews(j) \/ Kill(j)

Spec == Init /\ [][Next]_vars

-----------------------------------------------------------------------------
(* Properties *)

CountingViews == Views \cap Counting
Stored(k) == {a \in Audit : storedAt[a] # -1 /\ KeyOf[a] = k}

\* Two jobs never work under one lock, even when one takes over from a job that died.
OneJobPerLock ==
  \A i, j \in Job : Holds(i) /\ Holds(j) /\ LockOf[i] = LockOf[j] => i = j

\* A working job shows as running; a lock that reads running without one was leaked.
StatusIsTrue ==
  /\ \A j \in Job : Holds(j) => GetLockInfo(LockOf[j]).running
  /\ \A l \in LockId : lock[l].running /\ l \notin leaked =>
       \E j \in Job : LockOf[j] = l /\ Holds(j)

\* No audit row is counted twice, across retries, take-overs and half-written views.
NoneCountedTwice ==
  \A v \in CountingViews, k \in Key : table[v][k].count <= Cardinality(Stored(k))

\* Rows made and stored in one tick that no other row shares.
Plain(k) == {a \in Stored(k) : /\ storedAt[a] = stamp[a]
                              /\ \A b \in Audit \ {a} : stamp[b] # stamp[a]}

\* The one watermark of a view passes no key by: below it every row is counted that was not
\* stored late or in another's millisecond, unless a killed job half wrote the view.
CountedBelowMark ==
  \A v \in CountingViews \ torn, k \in Key :
    table[v][k].count >= Cardinality({a \in Plain(k) : stamp[a] < Newest(v)})

\* A window view that was just written shows nobody without an audit row in the window.
WindowIsKept ==
  [][\A j \in Job : WriteView(j) /\ ViewOf(j) \in Windowed =>
       \A k \in Key : table'[ViewOf(j)][k].there => Matched(ViewOf(j), k, -1) # {}]_vars
=============================================================================
