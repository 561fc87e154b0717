--------------------------- MODULE MatViewsProofs ---------------------------
(***************************************************************************)
(* Proofs, for any jobs, locks, views and faults: that the lock keeps jobs *)
(* apart and the status endpoint shows who works, as long as no job        *)
(* outlasts STALE_MS; and that jobs of one subset count no audit row       *)
(* twice, and below a view's newest row every plain one once.              *)
(***************************************************************************)
EXTENDS MatViews, FiniteSetTheorems, WellFoundedInduction, TLAPS

-----------------------------------------------------------------------------
(* The inductive invariant. *)

\* The part of the type invariant that the lock is about.
LockTypes ==
  /\ now \in Nat
  /\ lock \in [LockId -> [running: BOOLEAN, startedAt: Nat]]
  /\ pc = [j \in Job |-> pc[j]]
  /\ started \in [Job -> Nat]

\* The lock's row is that of the job at work under it, which is not late.
HolderIsOnRecord ==
  \A j \in Job : Holds(j) =>
    /\ lock[LockOf[j]].running
    /\ lock[LockOf[j]].startedAt = started[j]
    /\ now <= started[j] + MaxRun

\* A lock that reads running was leaked, or a job works under it.
RunningIsHeldOrLeaked ==
  \A l \in LockId : lock[l].running /\ l \notin leaked => \E j \in Job : LockOf[j] = l /\ Holds(j)

Inv == LockTypes /\ HolderIsOnRecord /\ OneJobPerLock /\ RunningIsHeldOrLeaked

-----------------------------------------------------------------------------
(* Lemmas *)

\* A step of a working job that leaves it at work, or of nobody, leaves the lock in order.
LEMMA WorkKeepsLock ==
  ASSUME Inv, UNCHANGED <<now, lock, started>>, leaked \subseteq leaked',
         pc' = [j \in Job |-> pc'[j]], \A j \in Job : Holds(j)' <=> Holds(j)
  PROVE  Inv'
BY DEF Inv, LockTypes, HolderIsOnRecord, OneJobPerLock, RunningIsHeldOrLeaked

\* Taking the lock: nobody else works under it, for a worker's row is running and not stale.
LEMMA AcquireKeepsLock ==
  ASSUME Inv, NEW j \in Job, Acquire(j)
  PROVE  Inv'
<1>. DEFINE l == LockOf[j]
<1>0. /\ LockOf \in [Job -> LockId] /\ MaxRun \in Nat /\ Stale \in Nat /\ MaxRun < Stale
      /\ l \in LockId
  BY MapAssumption, TimeAssumption, RunAssumption
<1>1. /\ Free(l) /\ lock' = [lock EXCEPT ![l] = [running |-> TRUE, startedAt |-> now]]
      /\ pc' = [pc EXCEPT ![j] = "last"] /\ started' = [started EXCEPT ![j] = now]
      /\ leaked' = leaked \ {l} /\ now' = now /\ pc[j] = "idle"
  BY DEF Acquire, Take
<1>2. ASSUME NEW i \in Job, Holds(i) PROVE LockOf[i] # l
  <2>1. /\ lock[LockOf[i]].running /\ lock[LockOf[i]].startedAt = started[i]
        /\ now <= started[i] + MaxRun /\ started[i] \in Nat /\ now \in Nat
    BY <1>2 DEF Inv, HolderIsOnRecord, LockTypes
  <2>2. ~(started[i] <= now - Stale)
    BY <1>0, <2>1
  <2>. QED BY <1>1, <2>1, <2>2 DEF Free, IsStale
<1>3. Holds(j)' /\ ~Holds(j) /\ \A i \in Job \ {j} : Holds(i)' <=> Holds(i)
  BY <1>1 DEF Inv, LockTypes, Holds
<1>4. LockTypes'
  BY <1>0, <1>1 DEF Inv, LockTypes
<1>5. HolderIsOnRecord'
  <2>1. ASSUME NEW i \in Job, Holds(i)', i # j
        PROVE  /\ lock'[LockOf[i]].running /\ lock'[LockOf[i]].startedAt = started'[i]
               /\ now' <= started'[i] + MaxRun
    BY <1>0, <1>1, <1>2, <1>3, <2>1 DEF Inv, HolderIsOnRecord, LockTypes
  <2>2. /\ lock'[l].running /\ lock'[l].startedAt = started'[j] /\ now' <= started'[j] + MaxRun
    BY <1>0, <1>1 DEF Inv, LockTypes
  <2>. QED BY <2>1, <2>2 DEF HolderIsOnRecord
<1>6. OneJobPerLock'
  BY <1>2, <1>3 DEF Inv, OneJobPerLock
<1>7. RunningIsHeldOrLeaked'
  <2>1. ASSUME NEW m \in LockId, lock'[m].running, m \notin leaked'
        PROVE  \E i \in Job : LockOf[i] = m /\ Holds(i)'
    <3>1. CASE m = l
      BY <1>3, <3>1
    <3>2. CASE m # l
      <4>1. PICK i \in Job : LockOf[i] = m /\ Holds(i)
        BY <1>0, <1>1, <2>1, <3>2 DEF Inv, LockTypes, RunningIsHeldOrLeaked
      <4>2. i # j
        BY <1>3, <4>1
      <4>. QED BY <1>3, <4>1, <4>2
    <3>. QED BY <3>1, <3>2
  <2>. QED BY <2>1 DEF RunningIsHeldOrLeaked
<1>. QED BY <1>4, <1>5, <1>6, <1>7 DEF Inv

\* Ending a job, by giving the lock back or by leaking it.
LEMMA EndKeepsLock ==
  ASSUME Inv, NEW j \in Job, Holds(j), UNCHANGED <<now, started>>,
         NEW end \in {"done", "killed"}, pc' = [pc EXCEPT ![j] = end],
         \/ lock' = [lock EXCEPT ![LockOf[j]].running = FALSE] /\ UNCHANGED leaked
         \/ leaked' = leaked \cup {LockOf[j]} /\ UNCHANGED lock
  PROVE  Inv'
<1>. DEFINE l == LockOf[j]
<1>0. LockOf \in [Job -> LockId] /\ l \in LockId
  BY MapAssumption
<1>1. ~Holds(j)' /\ \A i \in Job \ {j} : Holds(i)' <=> Holds(i)
  BY DEF Inv, LockTypes, Holds
<1>2. \A i \in Job \ {j} : Holds(i) => LockOf[i] # l
  BY DEF Inv, OneJobPerLock
<1>3. /\ \A m \in LockId \ {l} : lock'[m] = lock[m]
      /\ lock' \in [LockId -> [running: BOOLEAN, startedAt: Nat]]
      /\ lock'[l].running => l \in leaked'
      /\ leaked \subseteq leaked'
  <2>1. CASE lock' = [lock EXCEPT ![l].running = FALSE] /\ UNCHANGED leaked
    <3>1. lock \in [LockId -> [running: BOOLEAN, startedAt: Nat]]
      BY DEF Inv, LockTypes
    <3>2. lock' \in [LockId -> [running: BOOLEAN, startedAt: Nat]]
      BY <1>0, <2>1, <3>1
    <3>3. \A m \in LockId \ {l} : lock'[m] = lock[m]
      BY <1>0, <2>1, <3>1
    <3>4. ~lock'[l].running
      BY <1>0, <2>1, <3>1
    <3>. QED BY <2>1, <3>2, <3>3, <3>4
  <2>2. CASE leaked' = leaked \cup {l} /\ UNCHANGED lock
    BY <2>2 DEF Inv, LockTypes
  <2>. QED BY <2>1, <2>2
<1>4. LockTypes'
  BY <1>3 DEF Inv, LockTypes
<1>5. HolderIsOnRecord'
  BY <1>0, <1>1, <1>2, <1>3 DEF Inv, HolderIsOnRecord
<1>6. OneJobPerLock'
  BY <1>1 DEF Inv, OneJobPerLock
<1>7. RunningIsHeldOrLeaked'
  <2>1. ASSUME NEW m \in LockId, lock'[m].running, m \notin leaked'
        PROVE  \E i \in Job : LockOf[i] = m /\ Holds(i)'
    <3>1. m # l /\ lock[m].running /\ m \notin leaked
      BY <1>3, <2>1
    <3>2. PICK i \in Job : LockOf[i] = m /\ Holds(i)
      BY <3>1 DEF Inv, RunningIsHeldOrLeaked
    <3>. QED BY <1>1, <3>1, <3>2
  <2>. QED BY <2>1 DEF RunningIsHeldOrLeaked
<1>. QED BY <1>4, <1>5, <1>6, <1>7 DEF Inv

-----------------------------------------------------------------------------
(* The invariant is inductive. *)

\* The initial state satisfies it.
LEMMA InitInv == Init => Inv
BY DEF Init, Inv, LockTypes, HolderIsOnRecord, OneJobPerLock, RunningIsHeldOrLeaked, Holds

\* Every step keeps it.
LEMMA InvStep == Inv /\ [Next]_vars => Inv'
<1>. SUFFICES ASSUME Inv, [Next]_vars PROVE Inv'
  OBVIOUS
<1>0. LockTypes
  BY DEF Inv
<1>1. CASE Tick
  <2>1. /\ now' = now + 1 /\ UNCHANGED <<lock, started, pc, leaked>>
        /\ \A j \in Job : Holds(j) => now < started[j] + MaxRun
    BY <1>1 DEF Tick, jobVars, ghosts
  <2>2. \A j \in Job : Holds(j)' <=> Holds(j)
    BY <2>1 DEF Holds
  <2>3. HolderIsOnRecord'
    <3>1. ASSUME NEW j \in Job, Holds(j) PROVE now + 1 <= started[j] + MaxRun
      <4>1. now \in Nat /\ started[j] \in Nat /\ MaxRun \in Nat /\ now < started[j] + MaxRun
        BY <1>0, <2>1, <3>1, TimeAssumption DEF LockTypes
      <4>. QED BY <4>1
    <3>. QED BY <2>1, <2>2, <3>1 DEF Inv, HolderIsOnRecord
  <2>4. LockTypes' /\ OneJobPerLock' /\ RunningIsHeldOrLeaked'
    BY <2>1, <2>2 DEF Inv, LockTypes, OneJobPerLock, RunningIsHeldOrLeaked
  <2>. QED BY <2>3, <2>4 DEF Inv
<1>2. ASSUME NEW a \in Audit, RecordAction(a) \/ StoreAudit(a) PROVE Inv'
  <2>1. UNCHANGED <<now, lock, started, pc, leaked>>
    BY <1>2 DEF RecordAction, StoreAudit, jobVars, ghosts
  <2>. QED BY <1>0, <2>1, WorkKeepsLock DEF Holds, LockTypes
<1>3. ASSUME NEW j \in Job, Acquire(j) PROVE Inv'
  BY <1>3, AcquireKeepsLock
<1>4. ASSUME NEW j \in Job, Skip(j) PROVE Inv'
  <2>1. /\ UNCHANGED <<now, lock, started, leaked>> /\ pc[j] = "idle"
        /\ pc' = [pc EXCEPT ![j] = "done"]
    BY <1>4 DEF Skip, ghosts
  <2>2. \A i \in Job : Holds(i)' <=> Holds(i)
    BY <1>0, <2>1 DEF Holds, LockTypes
  <2>. QED BY <1>0, <2>1, <2>2, WorkKeepsLock DEF LockTypes
<1>5. ASSUME NEW j \in Job,
             GetLast(j) \/ ReadAudits(j) \/ WriteView(j) \/ FailView(j) \/ NextView(j)
      PROVE  Inv'
  <2>1. /\ UNCHANGED <<now, lock, started, leaked>> /\ Holds(j)
        /\ \E at \in {"last", "read", "write", "stagger"} : pc' = [pc EXCEPT ![j] = at]
    BY <1>5 DEF GetLast, ReadAudits, WriteView, FailView, NextView, ghosts, Holds
  <2>2. \A i \in Job : Holds(i)' <=> Holds(i)
    BY <1>0, <2>1 DEF Holds, LockTypes
  <2>. QED BY <1>0, <2>1, <2>2, WorkKeepsLock DEF LockTypes
<1>6. ASSUME NEW j \in Job, Release(j) PROVE Inv'
  BY <1>6, EndKeepsLock DEF Release, Holds
<1>7. ASSUME NEW j \in Job, Kill(j) PROVE Inv'
  BY <1>7, EndKeepsLock DEF Kill
<1>8. CASE UNCHANGED vars
  <2>1. UNCHANGED <<now, lock, started, pc, leaked>>
    BY <1>8 DEF vars, jobVars, ghosts
  <2>. QED BY <1>0, <2>1, WorkKeepsLock DEF Holds, LockTypes
<1>. QED BY <1>1, <1>2, <1>3, <1>4, <1>5, <1>6, <1>7, <1>8 DEF Next, RunViews

\* It holds in every state the jobs can reach.
LEMMA Invariance == Spec => []Inv
BY InitInv, InvStep, PTL DEF Spec

-----------------------------------------------------------------------------
(* Theorems *)

\* Two jobs never work under one lock, take-overs from dead jobs included.
THEOREM JobsApart == Spec => []OneJobPerLock
<1>1. Inv => OneJobPerLock
  BY DEF Inv
<1>. QED BY Invariance, <1>1, PTL

\* The status endpoint shows every working job, and no other but a leaked lock's.
THEOREM StatusCorrect == Spec => []StatusIsTrue
<1>1. Inv => StatusIsTrue
  <2>. SUFFICES ASSUME Inv PROVE StatusIsTrue
    OBVIOUS
  <2>1. ASSUME NEW j \in Job, Holds(j) PROVE GetLockInfo(LockOf[j]).running
    <3>1. /\ lock[LockOf[j]].running /\ lock[LockOf[j]].startedAt = started[j]
          /\ now <= started[j] + MaxRun /\ started[j] \in Nat /\ now \in Nat
          /\ MaxRun \in Nat /\ Stale \in Nat /\ MaxRun < Stale
      BY <2>1, TimeAssumption, RunAssumption DEF Inv, HolderIsOnRecord, LockTypes
    <3>2. ~IsStale(LockOf[j])
      BY <3>1 DEF IsStale
    <3>. QED BY <3>1, <3>2 DEF GetLockInfo
  <2>. QED BY <2>1 DEF StatusIsTrue, Inv, RunningIsHeldOrLeaked
<1>. QED BY Invariance, <1>1, PTL

-----------------------------------------------------------------------------
(* Types: a view's newest row is the greatest of finitely many times. *)

\* A set of times that is not empty has a greatest one, which Max returns.
LEMMA MaxOfTimes ==
  ASSUME NEW S \in SUBSET Time, S # {}
  PROVE  Max(S) \in S /\ \A t \in S : t <= Max(S)
<1>. DEFINE Above(t) == {u \in S : u > t}
            Aboves == {Above(t) : t \in S}
<1>1. IsFiniteSet(S) /\ S \subseteq Int
  <2>1. MaxNow \in Int /\ 0 \in Int
    BY TimeAssumption
  <2>2. IsFiniteSet(0..MaxNow)
    BY <2>1, FS_Interval
  <2>3. S \in SUBSET (0..MaxNow)
    BY DEF Time
  <2>4. IsFiniteSet(S)
    BY <2>2, <2>3, FS_Subset
  <2>. QED BY <2>1, <2>3, <2>4
<1>2. Aboves \subseteq FiniteSubsetsOf(S) /\ Aboves # {}
  <2>1. ASSUME NEW t \in S PROVE Above(t) \in FiniteSubsetsOf(S)
    <3>1. Above(t) \in SUBSET S
      OBVIOUS
    <3>. HIDE DEF Above
    <3>. QED BY <1>1, <3>1, FS_Subset DEF FiniteSubsetsOf
  <2>. QED BY <2>1
<1>3. PICK U \in Aboves : \A V \in Aboves : <<V, U>> \notin StrictSubsetOrdering(S)
  <2>. HIDE DEF Aboves
  <2>. QED BY <1>2, FS_StrictSubsetOrderingWellFounded, WFMin
<1>4. PICK t \in S : U = Above(t)
  OBVIOUS
<1>5. U = {}
  <2>. SUFFICES ASSUME NEW u \in U PROVE FALSE
    OBVIOUS
  <2>1. u \in S /\ u > t /\ Above(u) \in Aboves
    BY <1>4
  <2>2. Above(u) \subseteq U /\ u \notin Above(u)
    <3>1. t \in Int /\ u \in Int
      BY <1>1, <2>1
    <3>2. \A w \in S : w \in Int /\ (w > u => w > t)
      BY <1>1, <2>1, <3>1
    <3>3. ~(u > u)
      BY <3>1
    <3>4. Above(u) \subseteq Above(t)
      BY <3>2
    <3>5. u \notin Above(u)
      BY <3>3
    <3>. QED BY <1>4, <3>4, <3>5
  <2>3. <<Above(u), U>> \in StrictSubsetOrdering(S)
    <3>1. Above(u) \in SUBSET S /\ U \in SUBSET S /\ Above(u) # U
      BY <1>4, <2>2
    <3>. HIDE DEF Above
    <3>. QED BY <2>2, <3>1 DEF StrictSubsetOrdering
  <2>. QED BY <1>3, <2>1, <2>3
<1>6. \A u \in S : t >= u
  BY <1>1, <1>4, <1>5
<1>. QED BY <1>1, <1>6 DEF Max

\* The view a job is at is one of the plan's.
LEMMA ViewType ==
  ASSUME TypeOK, NEW j \in Job
  PROVE  ViewOf(j) \in Views
BY DEF TypeOK, ViewOf, Views

\* The newest row of a view is a time, and no key's latest is later.
LEMMA NewestBounds ==
  ASSUME TypeOK, NEW v \in Views
  PROVE  /\ Newest(v) \in Time \cup {-1}
         /\ \A k \in Key : table[v][k].there => table[v][k].latest <= Newest(v)
         /\ Newest(v) = -1 => \A k \in Key : ~table[v][k].there
         /\ Newest(v) # -1 => \E k \in Key : table[v][k].there /\ table[v][k].latest = Newest(v)
<1>. DEFINE there == {k \in Key : table[v][k].there}
            times == {table[v][k].latest : k \in there}
<1>1. \A k \in Key : table[v][k] \in Row
  BY DEF TypeOK
<1>2. CASE there = {}
  BY <1>2 DEF Newest
<1>3. CASE there # {}
  <2>1. times \in SUBSET Time /\ times # {}
    BY <1>1, <1>3 DEF Row
  <2>2. Max(times) \in times /\ \A t \in times : t <= Max(times)
    <3>. HIDE DEF times
    <3>. QED BY <2>1, MaxOfTimes
  <2>3. Newest(v) = Max(times)
    BY <1>3 DEF Newest
  <2>4. Newest(v) # -1
    BY <2>1, <2>2, <2>3, TimeAssumption DEF Time
  <2>. QED BY <2>1, <2>2, <2>3, <2>4
<1>. QED BY <1>2, <1>3

\* An audit row gets into Mongo after it was made.
Stamped == \A a \in Audit : storedAt[a] # -1 => stamp[a] # -1

\* What the aggregate returns of a key: nothing, or how many audit rows it matched and the newest
\* of their times.
LEMMA AggregateRow ==
  ASSUME TypeOK, Stamped, NEW v \in Views, NEW after \in Time \cup {-1}, NEW k \in Key
  PROVE  LET row == Aggregate(v, after)[k]
         IN /\ row \in Row
            /\ ~row.there => row.count = 0
            /\ row.there => /\ row.count = Cardinality(Matched(v, k, after))
                            /\ \E a \in Matched(v, k, after) : row.latest = stamp[a]
                            /\ \A a \in Matched(v, k, after) : stamp[a] <= row.latest
<1>. DEFINE found == Matched(v, k, after)
            times == {stamp[a] : a \in found}
<1>1. found \subseteq Audit /\ \A a \in found : storedAt[a] # -1
  BY DEF Matched
<1>2. CASE found = {}
  <2>1. Aggregate(v, after)[k] = NoRow
    BY <1>2 DEF Aggregate
  <2>2. 0 \in Time
    BY TimeAssumption DEF Time
  <2>. QED BY <2>1, <2>2 DEF NoRow, Row
<1>3. CASE found # {}
  <2>1. times \in SUBSET Time /\ times # {}
    BY <1>1, <1>3 DEF TypeOK, Stamped
  <2>2. Max(times) \in times /\ \A t \in times : t <= Max(times)
    <3>. HIDE DEF times
    <3>. QED BY <2>1, MaxOfTimes
  <2>3. Cardinality(found) \in Nat
    BY <1>1, AuditAssumption, FS_Subset, FS_CardinalityType
  <2>4. Aggregate(v, after)[k]
          = [there |-> TRUE, count |-> Cardinality(found), latest |-> Max(times)]
    BY <1>3 DEF Aggregate
  <2>5. \E a \in found : Max(times) = stamp[a]
    <3>. HIDE DEF found
    <3>. QED BY <2>2
  <2>6. \A a \in found : stamp[a] <= Max(times)
    <3>. HIDE DEF found
    <3>. QED BY <2>2
  <2>7. Max(times) \in Time
    BY <2>1, <2>2
  <2>8. Aggregate(v, after)[k] \in Row
    <3>. HIDE DEF found, times
    <3>. QED BY <2>3, <2>4, <2>7 DEF Row
  <2>. HIDE DEF times
  <2>. QED BY <2>4, <2>5, <2>6, <2>8
<1>. QED BY <1>2, <1>3

\* What a job writes of a view are rows.
LEMMA WrittenType ==
  ASSUME TypeOK, NEW j \in Job, NEW keys \in SUBSET Key
  PROVE  Written(j, keys) \in [Key -> Row]
<1>1. ViewOf(j) \in Views
  BY ViewType
<1>2. \A k \in Key : table[ViewOf(j)][k] \in Row /\ rows[j][k] \in Row
  BY <1>1 DEF TypeOK
<1>3. \A k \in Key : AddTo(ViewOf(j), table[ViewOf(j)][k], rows[j][k]) \in Row
  BY <1>2 DEF AddTo, Row
<1>4. \A k \in Key : SetTo(table[ViewOf(j)][k], rows[j][k]) \in Row
  BY <1>2 DEF SetTo, Row
<1>5. rows[j] \in [Key -> Row]
  BY DEF TypeOK
<1>. QED BY <1>2, <1>3, <1>4, <1>5 DEF Written

\* Every step keeps the shapes.
LEMMA TypeStep == TypeOK /\ Stamped /\ [Next]_vars => TypeOK' /\ Stamped'
<1>. SUFFICES ASSUME TypeOK, Stamped, [Next]_vars PROVE TypeOK' /\ Stamped'
  OBVIOUS
<1>0. /\ Empty \in [Key -> Row] /\ LockOf \in [Job -> LockId] /\ Len(Plan) \in Nat
      /\ now \in Time /\ now + 1 \in Int /\ now # -1
  BY TimeAssumption, MapAssumption, PlanAssumption DEF Empty, NoRow, Row, Time, TypeOK
<1>1. CASE Tick
  <2>1. now' \in Time
    BY <1>0, <1>1, TimeAssumption DEF Tick, Time
  <2>. QED BY <2>1, <1>1 DEF Tick, TypeOK, Stamped, jobVars, ghosts
<1>2. ASSUME NEW a \in Audit, RecordAction(a) \/ StoreAudit(a) PROVE TypeOK' /\ Stamped'
  BY <1>0, <1>2 DEF RecordAction, StoreAudit, TypeOK, Stamped, jobVars, ghosts
<1>3. ASSUME NEW j \in Job, Acquire(j) \/ Skip(j) \/ Release(j) PROVE TypeOK' /\ Stamped'
  <2>1. LockOf[j] \in LockId
    BY <1>0
  <2>2. CASE Acquire(j)
    <3>1. lock' \in [LockId -> [running: BOOLEAN, startedAt: Time]]
      BY <1>0, <2>1, <2>2 DEF Acquire, Take, TypeOK
    <3>. QED BY <1>0, <2>2, <3>1 DEF Acquire, TypeOK, Stamped
  <2>3. CASE Skip(j)
    BY <2>3 DEF Skip, TypeOK, Stamped, ghosts
  <2>4. CASE Release(j)
    <3>1. lock \in [LockId -> [running: BOOLEAN, startedAt: Time]] /\ leaked \subseteq LockId
      BY DEF TypeOK
    <3>2. lock' \in [LockId -> [running: BOOLEAN, startedAt: Time]] /\ leaked' \subseteq LockId
      BY <2>1, <2>4, <3>1 DEF Release
    <3>. QED BY <2>4, <3>2 DEF Release, TypeOK, Stamped
  <2>. QED BY <1>3, <2>2, <2>3, <2>4
<1>4. ASSUME NEW j \in Job, GetLast(j) PROVE TypeOK' /\ Stamped'
  <2>1. Newest(ViewOf(j)) \in Time \cup {-1}
    BY ViewType, NewestBounds
  <2>. QED BY <1>4, <2>1 DEF GetLast, TypeOK, Stamped, ghosts
<1>5. ASSUME NEW j \in Job, ReadAudits(j) PROVE TypeOK' /\ Stamped'
  <2>1. ViewOf(j) \in Views /\ mark[j] \in Time \cup {-1}
    BY ViewType DEF TypeOK
  <2>2. Aggregate(ViewOf(j), mark[j]) \in [Key -> Row]
    <3>1. \A k \in Key : Aggregate(ViewOf(j), mark[j])[k] \in Row
      BY <2>1, AggregateRow
    <3>2. Aggregate(ViewOf(j), mark[j])
            = [k \in Key |-> Aggregate(ViewOf(j), mark[j])[k]]
      BY DEF Aggregate
    <3>. QED BY <3>1, <3>2
  <2>. QED BY <1>5, <2>2 DEF ReadAudits, TypeOK, Stamped, ghosts
<1>6. ASSUME NEW j \in Job, WriteView(j) PROVE TypeOK' /\ Stamped'
  <2>1. ViewOf(j) \in Views /\ Written(j, Key) \in [Key -> Row]
    BY ViewType, WrittenType
  <2>. QED BY <1>0, <1>6, <2>1 DEF WriteView, TypeOK, Stamped, ghosts
<1>7. ASSUME NEW j \in Job, FailView(j) \/ NextView(j) PROVE TypeOK' /\ Stamped'
  <2>1. view[j] \in 1..Len(Plan)
    BY DEF TypeOK
  <2>2. CASE FailView(j)
    BY <1>0, <2>2 DEF FailView, TypeOK, Stamped, ghosts
  <2>3. CASE NextView(j)
    <3>1. view[j] + 1 \in 1..Len(Plan)
      BY <1>0, <2>1, <2>3 DEF NextView
    <3>. QED BY <2>3, <3>1 DEF NextView, TypeOK, Stamped, ghosts
  <2>. QED BY <1>7, <2>2, <2>3
<1>8. ASSUME NEW j \in Job, Kill(j) PROVE TypeOK' /\ Stamped'
  <2>1. /\ ViewOf(j) \in Views /\ LockOf[j] \in LockId
        /\ \A keys \in SUBSET Key : Written(j, keys) \in [Key -> Row]
    BY <1>0, ViewType, WrittenType
  <2>2. table' \in [Views -> [Key -> Row]] /\ torn' \subseteq Views
    BY <1>8, <2>1 DEF Kill, TypeOK
  <2>. QED BY <1>0, <1>8, <2>1, <2>2 DEF Kill, TypeOK, Stamped
<1>9. CASE UNCHANGED vars
  BY <1>9 DEF vars, jobVars, ghosts, TypeOK, Stamped
<1>. QED BY <1>1, <1>2, <1>3, <1>4, <1>5, <1>6, <1>7, <1>8, <1>9 DEF Next, RunViews

\* The initial shapes.
LEMMA TypeInit == Init => TypeOK /\ Stamped
<1>1. 0 \in Time /\ 1 \in 1..Len(Plan)
  BY TimeAssumption, PlanAssumption DEF Time
<1>2. Empty \in [Key -> Row]
  BY <1>1 DEF Empty, NoRow, Row
<1>. QED BY <1>1, <1>2 DEF Init, TypeOK, Stamped

\* Every variable keeps its shape, for any jobs, views, audit rows and faults.
THEOREM TypeCorrect == Spec => []TypeOK
<1>1. Spec => [](TypeOK /\ Stamped)
  BY TypeInit, TypeStep, PTL DEF Spec
<1>. QED BY <1>1, PTL

-----------------------------------------------------------------------------
(* Counting: a row's count is covered by the audit rows up to its latest. *)

\* The jobs are runs of one subset, and take one lock.
OneSubset == \A i, j \in Job : LockOf[i] = LockOf[j]

\* The audit rows in Mongo of a key that are later than one time and not later than another.
Upto(k, after, latest) == {a \in Stored(k) : after < stamp[a] /\ stamp[a] <= latest}

\* A row counts at most the audit rows of its key after a time and up to its own latest.
Covered(row, k, after) ==
  /\ row.there => row.count <= Cardinality(Upto(k, after, row.latest))
  /\ ~row.there => row.count = 0

\* The views count what they cover; a job adds to a view what is past its newest row, which
\* nobody moves while the job is at it.
AtCounting(j, at) == pc[j] \in at /\ ViewOf(j) \in Counting
CountInv ==
  /\ \A v \in CountingViews, k \in Key : Covered(table[v][k], k, -1)
  /\ \A j \in Job : AtCounting(j, {"read", "write"}) => mark[j] = Newest(ViewOf(j))
  /\ \A j \in Job, k \in Key : AtCounting(j, {"write"}) =>
       /\ rows[j][k].there => mark[j] < rows[j][k].latest
       /\ Covered(rows[j][k], k, mark[j])

\* A set of audit rows is finite, and a part of it has no more of them.
LEMMA AuditCount ==
  ASSUME NEW S \in SUBSET Audit, NEW T \in SUBSET S
  PROVE  /\ IsFiniteSet(S) /\ IsFiniteSet(T)
         /\ Cardinality(S) \in Nat /\ Cardinality(T) \in Nat /\ Cardinality(T) <= Cardinality(S)
<1>1. IsFiniteSet(S)
  BY AuditAssumption, FS_Subset
<1>. QED BY <1>1, FS_Subset, FS_CardinalityType

\* An audit row that is in Mongo stays there as it is.
LEMMA StoredStays ==
  ASSUME TypeOK, Stamped, NEW a \in Audit, RecordAction(a) \/ StoreAudit(a)
  PROVE  \A b \in Audit : storedAt[b] # -1 =>
           storedAt'[b] = storedAt[b] /\ storedAt'[b] # -1 /\ stamp'[b] = stamp[b]
<1>1. now # -1
  BY TimeAssumption DEF TypeOK, Time
<1>. QED BY <1>1 DEF RecordAction, StoreAudit, TypeOK, Stamped

\* More audit rows in Mongo cover no less.
LEMMA UptoGrows ==
  ASSUME \A a \in Audit : storedAt[a] # -1 => storedAt'[a] # -1 /\ stamp'[a] = stamp[a],
         NEW row \in Row, NEW k, NEW after, Covered(row, k, after)
  PROVE  Covered(row, k, after)'
<1>1. /\ Upto(k, after, row.latest) \subseteq Upto(k, after, row.latest)'
      /\ Upto(k, after, row.latest)' \subseteq Audit
  BY DEF Upto, Stored
<1>2. /\ Cardinality(Upto(k, after, row.latest)) \in Nat
      /\ Cardinality(Upto(k, after, row.latest)') \in Nat
      /\ Cardinality(Upto(k, after, row.latest)) <= Cardinality(Upto(k, after, row.latest)')
  BY <1>1, AuditCount
<1>3. row.count \in Nat
  BY DEF Row
<1>. QED BY <1>2, <1>3 DEF Covered

\* A step that leaves the views and the audit trail alone, and brings no job to a new point of
\* an update, keeps the counts.
LEMMA WorkKeepsCounts ==
  ASSUME CountInv, UNCHANGED <<stamp, storedAt, table>>,
         \A j \in Job : pc'[j] \in {"read", "write"} =>
           pc'[j] = pc[j] /\ view'[j] = view[j] /\ mark'[j] = mark[j] /\ rows'[j] = rows[j]
  PROVE  CountInv'
<1>1. \A v \in CountingViews, k \in Key : Covered(table[v][k], k, -1)'
  BY DEF CountInv, Covered, Upto, Stored
<1>2. ASSUME NEW j \in Job, AtCounting(j, {"read", "write"})' PROVE mark'[j] = Newest(ViewOf(j))'
  <2>1. mark'[j] = mark[j] /\ ViewOf(j)' = ViewOf(j) /\ AtCounting(j, {"read", "write"})
    BY <1>2 DEF AtCounting, ViewOf
  <2>2. Newest(ViewOf(j))' = Newest(ViewOf(j))
    BY <2>1 DEF Newest
  <2>. QED BY <2>1, <2>2 DEF CountInv
<1>3. ASSUME NEW j \in Job, NEW k \in Key, AtCounting(j, {"write"})'
      PROVE  /\ rows'[j][k].there => mark'[j] < rows'[j][k].latest
             /\ Covered(rows[j][k], k, mark[j])'
  BY <1>3 DEF CountInv, AtCounting, ViewOf, Covered, Upto, Stored
<1>. QED BY <1>1, <1>2, <1>3 DEF CountInv

\* What the aggregate returns is covered past the mark it was read from.
LEMMA AggregateCovered ==
  ASSUME TypeOK, Stamped, NEW v \in CountingViews, NEW after \in Time \cup {-1}, NEW k \in Key
  PROVE  LET row == Aggregate(v, after)[k]
         IN Covered(row, k, after) /\ (row.there => after < row.latest)
<1>. DEFINE row == Aggregate(v, after)[k]
            found == Matched(v, k, after)
<1>1. /\ row \in Row /\ (~row.there => row.count = 0)
      /\ row.there => /\ row.count = Cardinality(found)
                      /\ \E a \in found : row.latest = stamp[a]
                      /\ \A a \in found : stamp[a] <= row.latest
  BY AggregateRow DEF CountingViews
<1>2. \A a \in found : a \in Stored(k) /\ after < stamp[a]
  <2>1. \A a \in Audit : stamp[a] \in Int
    BY TimeAssumption DEF TypeOK, Time
  <2>2. after \in Int
    BY TimeAssumption DEF Time
  <2>. QED BY <2>1, <2>2 DEF Matched, Stored, CountingViews
<1>. HIDE DEF row, found
<1>3. ASSUME row.there PROVE row.count <= Cardinality(Upto(k, after, row.latest))
  <2>1. found \subseteq Upto(k, after, row.latest)
    BY <1>1, <1>2, <1>3 DEF Upto
  <2>2. Upto(k, after, row.latest) \subseteq Audit
    BY DEF Upto, Stored
  <2>. QED BY <1>1, <1>3, <2>1, <2>2, AuditCount
<1>4. Covered(row, k, after) /\ (row.there => after < row.latest)
  BY <1>1, <1>2, <1>3 DEF Covered
<1>. QED BY <1>4 DEF row

\* Two rows that cover one stretch of the audit trail each, one before the other, add up.
LEMMA CoveredAddUp ==
  ASSUME TypeOK, NEW k \in Key, NEW old \in Row, NEW row \in Row, NEW at \in Time \cup {-1},
         Covered(old, k, -1), Covered(row, k, at), row.there, at < row.latest,
         old.there => old.latest <= at
  PROVE  old.count + row.count <= Cardinality(Upto(k, -1, row.latest))
<1>. DEFINE all == Upto(k, -1, row.latest)
            past == Upto(k, at, row.latest)
            before == Upto(k, -1, old.latest)
<1>0. /\ \A a \in Audit : stamp[a] \in Int
      /\ at \in Int /\ -1 <= at /\ old.latest \in Int /\ row.latest \in Int
      /\ old.count \in Nat /\ row.count \in Nat
  BY TimeAssumption DEF TypeOK, Time, Row
<1>1. all \subseteq Audit /\ past \subseteq all
  BY <1>0 DEF Upto, Stored
<1>2. row.count <= Cardinality(past)
  BY DEF Covered
<1>3. Cardinality(past) \in Nat /\ Cardinality(all) \in Nat /\ Cardinality(past) <= Cardinality(all)
  <2>. HIDE DEF all, past
  <2>. QED BY <1>1, AuditCount
<1>4. CASE ~old.there
  BY <1>0, <1>2, <1>3, <1>4 DEF Covered
<1>5. CASE old.there
  <2>1. before \subseteq all
    <3>1. \A a \in Audit : stamp[a] <= old.latest => stamp[a] <= row.latest
      BY <1>0, <1>5
    <3>. QED BY <3>1 DEF Upto, Stored
  <2>2. past \cap before = {}
    <3>1. \A a \in Audit : stamp[a] <= old.latest => ~(at < stamp[a])
      BY <1>0, <1>5
    <3>. QED BY <3>1 DEF Upto, Stored
  <2>3. old.count <= Cardinality(before)
    BY <1>5 DEF Covered
  <2>4. old.count + row.count <= Cardinality(all)
    <3>. HIDE DEF all, past, before
    <3>1. IsFiniteSet(past) /\ IsFiniteSet(before) /\ Cardinality(before) \in Nat
      BY <1>1, <2>1, AuditCount
    <3>2. Cardinality(past \cup before) = Cardinality(past) + Cardinality(before)
      BY <1>3, <2>2, <3>1, FS_Union, FS_EmptySet
    <3>3. Cardinality(past \cup before) <= Cardinality(all)
      BY <1>1, <2>1, AuditCount
    <3>. QED BY <1>0, <1>2, <1>3, <2>3, <3>1, <3>2, <3>3
  <2>. QED BY <2>4
<1>. QED BY <1>4, <1>5

\* What a job writes of a counting view, whole or in part, is covered.
LEMMA WrittenCovered ==
  ASSUME TypeOK, CountInv, NEW j \in Job, AtCounting(j, {"write"}),
         NEW keys \in SUBSET Key, NEW k \in Key
  PROVE  Covered(Written(j, keys)[k], k, -1)
<1>. DEFINE v == ViewOf(j)
            old == table[v][k]
            row == rows[j][k]
<1>1. v \in Views /\ v \in Counting /\ v \in CountingViews
  BY ViewType DEF AtCounting, CountingViews
<1>2. /\ old \in Row /\ row \in Row /\ mark[j] \in Time \cup {-1}
      /\ rows[j] \in [Key -> Row]
  BY <1>1 DEF TypeOK
<1>3. /\ Covered(old, k, -1) /\ Covered(row, k, mark[j])
      /\ row.there => mark[j] < row.latest
      /\ mark[j] = Newest(v)
  BY <1>1 DEF CountInv, AtCounting
<1>4. old.there => old.latest <= mark[j]
  BY <1>1, <1>3, NewestBounds
<1>5. CASE mark[j] = -1
  BY <1>3, <1>5 DEF Written
<1>6. CASE mark[j] # -1
  <2>1. Written(j, keys)[k] = old \/ (row.there /\ Written(j, keys)[k] = AddTo(v, old, row))
    BY <1>1, <1>6 DEF Written
  <2>2. ASSUME row.there PROVE Covered(AddTo(v, old, row), k, -1)
    <3>1. old.count + row.count <= Cardinality(Upto(k, -1, row.latest))
      <4>. HIDE DEF v, old, row
      <4>. QED BY <1>2, <1>3, <1>4, <2>2, CoveredAddUp
    <3>. HIDE DEF v, old, row
    <3>. QED BY <1>3, <3>1 DEF AddTo, Covered
  <2>. QED BY <1>3, <2>1, <2>2
<1>. QED BY <1>5, <1>6

\* Only the job that writes a view is at any point of its update.
LEMMA AloneAtView ==
  ASSUME OneSubset, OneJobPerLock, NEW i \in Job, NEW j \in Job, Holds(i), Holds(j)
  PROVE  i = j
BY DEF OneSubset, OneJobPerLock

\* A job that writes a view, whole or in part, and leaves it keeps the counts.
LEMMA WriteKeepsCounts ==
  ASSUME OneSubset, OneJobPerLock, TypeOK, CountInv, NEW j \in Job, pc[j] = "write",
         UNCHANGED <<stamp, storedAt>>, NEW keys \in SUBSET Key,
         table' = [table EXCEPT ![ViewOf(j)] = Written(j, keys)],
         NEW at \in {"stagger", "killed"}, pc' = [pc EXCEPT ![j] = at]
  PROVE  CountInv'
<1>1. ASSUME NEW v \in CountingViews, NEW k \in Key PROVE Covered(table[v][k], k, -1)'
  <2>1. CASE v = ViewOf(j)
    <3>1. Covered(Written(j, keys)[k], k, -1)
      BY <2>1, WrittenCovered DEF AtCounting, CountingViews
    <3>2. table'[v][k] = Written(j, keys)[k]
      BY <2>1 DEF TypeOK, CountingViews
    <3>. QED BY <3>1, <3>2 DEF Covered, Upto, Stored
  <2>2. CASE v # ViewOf(j)
    <3>1. table'[v][k] = table[v][k]
      BY <2>2 DEF TypeOK, CountingViews
    <3>. QED BY <3>1 DEF CountInv, Covered, Upto, Stored
  <2>. QED BY <2>1, <2>2
<1>2. \A i \in Job : pc'[i] \notin {"read", "write"}
  <2>1. ASSUME NEW i \in Job, i # j PROVE pc[i] \notin {"read", "write"}
    BY <2>1, AloneAtView DEF Holds
  <2>. QED BY <2>1 DEF TypeOK
<1>. QED BY <1>1, <1>2 DEF CountInv, AtCounting

\* Every step keeps the counts.
LEMMA CountStep ==
  ASSUME OneSubset, OneJobPerLock, TypeOK, Stamped, CountInv, [Next]_vars
  PROVE  CountInv'
<1>1. ASSUME \/ Tick
             \/ \E j \in Job : Acquire(j) \/ Skip(j) \/ FailView(j) \/ NextView(j) \/ Release(j)
             \/ UNCHANGED vars
      PROVE  CountInv'
  <2>1. /\ UNCHANGED <<stamp, storedAt, table>>
        /\ \A j \in Job : pc'[j] \in {"read", "write"} =>
             pc'[j] = pc[j] /\ view'[j] = view[j] /\ mark'[j] = mark[j] /\ rows'[j] = rows[j]
    BY <1>1 DEF Tick, Acquire, Skip, FailView, NextView, Release, vars, jobVars, ghosts, TypeOK
  <2>. QED BY <2>1, WorkKeepsCounts
<1>2. ASSUME NEW a \in Audit, RecordAction(a) \/ StoreAudit(a) PROVE CountInv'
  <2>1. /\ \A b \in Audit : storedAt[b] # -1 => storedAt'[b] # -1 /\ stamp'[b] = stamp[b]
        /\ UNCHANGED <<table, pc, view, mark, rows>>
    BY <1>2, StoredStays DEF RecordAction, StoreAudit, jobVars
  <2>2. ASSUME NEW v \in CountingViews, NEW k \in Key PROVE Covered(table[v][k], k, -1)'
    <3>1. PICK row \in Row : row = table[v][k] /\ Covered(row, k, -1)
      BY DEF TypeOK, CountInv, CountingViews
    <3>2. Covered(row, k, -1)'
      BY <2>1, <3>1, UptoGrows
    <3>. QED BY <2>1, <3>1, <3>2 DEF Covered, Upto, Stored
  <2>3. ASSUME NEW j \in Job, AtCounting(j, {"read", "write"})' PROVE mark'[j] = Newest(ViewOf(j))'
    BY <2>1, <2>3 DEF CountInv, AtCounting, ViewOf, Newest
  <2>4. ASSUME NEW j \in Job, NEW k \in Key, AtCounting(j, {"write"})'
        PROVE  /\ rows'[j][k].there => mark'[j] < rows'[j][k].latest
               /\ Covered(rows[j][k], k, mark[j])'
    <3>1. PICK row \in Row, at \in Time \cup {-1} :
            /\ row = rows[j][k] /\ at = mark[j] /\ Covered(row, k, at)
            /\ row.there => at < row.latest
      BY <2>1, <2>4 DEF TypeOK, CountInv, AtCounting, ViewOf
    <3>2. Covered(row, k, at)'
      BY <2>1, <3>1, UptoGrows
    <3>. QED BY <2>1, <3>1, <3>2 DEF Covered, Upto, Stored
  <2>. QED BY <2>2, <2>3, <2>4 DEF CountInv
<1>3. ASSUME NEW j \in Job, GetLast(j) PROVE CountInv'
  <2>1. /\ UNCHANGED <<stamp, storedAt, table, view, rows>>
        /\ pc' = [pc EXCEPT ![j] = "read"] /\ mark' = [mark EXCEPT ![j] = Newest(ViewOf(j))]
    BY <1>3 DEF GetLast
  <2>2. \A v \in CountingViews, k \in Key : Covered(table[v][k], k, -1)'
    BY <2>1 DEF CountInv, Covered, Upto, Stored
  <2>3. ASSUME NEW i \in Job, AtCounting(i, {"read", "write"})' PROVE mark'[i] = Newest(ViewOf(i))'
    <3>1. Newest(ViewOf(i))' = Newest(ViewOf(i))
      BY <2>1 DEF Newest, ViewOf
    <3>2. mark'[i] = Newest(ViewOf(i))
      BY <2>1, <2>3 DEF CountInv, AtCounting, ViewOf, TypeOK
    <3>. QED BY <3>1, <3>2
  <2>4. ASSUME NEW i \in Job, NEW k \in Key, AtCounting(i, {"write"})'
        PROVE  /\ rows'[i][k].there => mark'[i] < rows'[i][k].latest
               /\ Covered(rows[i][k], k, mark[i])'
    <3>1. i # j /\ AtCounting(i, {"write"}) /\ mark'[i] = mark[i]
      BY <2>1, <2>4 DEF AtCounting, ViewOf, TypeOK
    <3>. QED BY <2>1, <3>1 DEF CountInv, Covered, Upto, Stored
  <2>. QED BY <2>2, <2>3, <2>4 DEF CountInv
<1>4. ASSUME NEW j \in Job, ReadAudits(j) PROVE CountInv'
  <2>1. /\ UNCHANGED <<stamp, storedAt, table, view, mark>> /\ pc[j] = "read"
        /\ pc' = [pc EXCEPT ![j] = "write"]
        /\ rows' = [rows EXCEPT ![j] = Aggregate(ViewOf(j), mark[j])]
    BY <1>4 DEF ReadAudits
  <2>2. \A v \in CountingViews, k \in Key : Covered(table[v][k], k, -1)'
    BY <2>1 DEF CountInv, Covered, Upto, Stored
  <2>3. ASSUME NEW i \in Job, AtCounting(i, {"read", "write"})' PROVE mark'[i] = Newest(ViewOf(i))'
    <3>1. mark'[i] = mark[i] /\ ViewOf(i)' = ViewOf(i) /\ AtCounting(i, {"read", "write"})
      BY <2>1, <2>3 DEF AtCounting, ViewOf, TypeOK
    <3>2. Newest(ViewOf(i))' = Newest(ViewOf(i))
      BY <2>1, <3>1 DEF Newest
    <3>. QED BY <3>1, <3>2 DEF CountInv
  <2>4. ASSUME NEW i \in Job, NEW k \in Key, AtCounting(i, {"write"})'
        PROVE  /\ rows'[i][k].there => mark'[i] < rows'[i][k].latest
               /\ Covered(rows[i][k], k, mark[i])'
    <3>1. ViewOf(i)' = ViewOf(i) /\ ViewOf(i) \in CountingViews /\ mark[i] \in Time \cup {-1}
      BY <2>1, <2>4, ViewType DEF AtCounting, ViewOf, CountingViews, TypeOK
    <3>2. CASE i = j
      <4>1. rows'[i][k] = Aggregate(ViewOf(i), mark[i])[k]
        BY <2>1, <3>2 DEF TypeOK
      <4>2. /\ rows'[i][k].there => mark[i] < rows'[i][k].latest
            /\ Covered(rows'[i][k], k, mark[i])
        BY <3>1, <4>1, AggregateCovered
      <4>. QED BY <2>1, <4>2 DEF Covered, Upto, Stored
    <3>3. CASE i # j
      <4>1. AtCounting(i, {"write"}) /\ rows'[i] = rows[i]
        BY <2>1, <2>4, <3>1, <3>3 DEF AtCounting, TypeOK
      <4>. QED BY <2>1, <4>1 DEF CountInv, Covered, Upto, Stored
    <3>. QED BY <3>2, <3>3
  <2>. QED BY <2>2, <2>3, <2>4 DEF CountInv
<1>5. ASSUME NEW j \in Job, WriteView(j) PROVE CountInv'
  BY <1>5, WriteKeepsCounts DEF WriteView
<1>6. ASSUME NEW j \in Job, Kill(j) PROVE CountInv'
  <2>1. CASE UNCHANGED table
    <3>1. \A i \in Job : pc'[i] \in {"read", "write"} =>
             pc'[i] = pc[i] /\ view'[i] = view[i] /\ mark'[i] = mark[i] /\ rows'[i] = rows[i]
      BY <1>6 DEF Kill, TypeOK
    <3>. QED BY <1>6, <2>1, <3>1, WorkKeepsCounts DEF Kill
  <2>2. ASSUME NEW keys \in SUBSET Key, pc[j] = "write",
               table' = [table EXCEPT ![ViewOf(j)] = Written(j, keys)]
        PROVE  CountInv'
    BY <1>6, <2>2, WriteKeepsCounts DEF Kill
  <2>. QED BY <1>6, <2>1, <2>2 DEF Kill
<1>. QED BY <1>1, <1>2, <1>3, <1>4, <1>5, <1>6 DEF Next, RunViews

\* At first no view has a row, and no job is at one.
LEMMA CountInit == Init => CountInv
<1>. SUFFICES ASSUME Init PROVE CountInv
  OBVIOUS
<1>1. \A k \in Key : Covered(NoRow, k, -1)
  BY DEF Covered, NoRow
<1>. QED BY <1>1 DEF Init, CountInv, CountingViews, AtCounting, Empty

\* Jobs of one subset, refreshing after one another, count no audit row twice: not after a job
\* that died in the middle of a bulk write, and not for a row that reached Mongo late.
THEOREM CountedOnce ==
  ASSUME OneSubset
  PROVE  Spec => []NoneCountedTwice
<1>. DEFINE All == Inv /\ TypeOK /\ Stamped /\ CountInv
<1>2. All /\ [Next]_vars => All'
  <2>1. Inv => OneJobPerLock
    BY DEF Inv
  <2>. QED BY <2>1, InvStep, TypeStep, CountStep
<1>3. All => NoneCountedTwice
  <2>. SUFFICES ASSUME All, NEW v \in CountingViews, NEW k \in Key
                PROVE  table[v][k].count <= Cardinality(Stored(k))
    BY DEF NoneCountedTwice
  <2>. DEFINE row == table[v][k]
  <2>1. Covered(row, k, -1) /\ row \in Row
    BY DEF CountInv, TypeOK, CountingViews
  <2>2. Stored(k) \subseteq Audit /\ Upto(k, -1, row.latest) \subseteq Stored(k)
    BY DEF Stored, Upto
  <2>. HIDE DEF row
  <2>3. /\ Cardinality(Upto(k, -1, row.latest)) <= Cardinality(Stored(k))
        /\ Cardinality(Upto(k, -1, row.latest)) \in Nat /\ Cardinality(Stored(k)) \in Nat
    BY <2>2, AuditCount
  <2>4. row.count \in Nat /\ row.count <= Cardinality(Stored(k))
    BY <2>1, <2>3 DEF Covered, Row
  <2>. QED BY <2>4 DEF row
<1>. QED BY <1>2, <1>3, InitInv, TypeInit, CountInit, PTL DEF Spec

-----------------------------------------------------------------------------
(* Counting enough: below the watermark of a view every plain audit row is counted. *)

\* The plain audit rows of a key that are later than one time and not later than another.
PlainUpto(k, after, latest) == {a \in Plain(k) : after < stamp[a] /\ stamp[a] <= latest}

\* Rows, one per key, whose times are those of audit rows in Mongo.
OnRecord(all) ==
  \A k \in Key : all[k].there =>
    \E a \in Audit : storedAt[a] # -1 /\ stamp[a] = all[k].latest

\* Rows that count, from a time on, every plain audit row up to the newest of them.
Complete(all, after) ==
  \A k, m \in Key : all[m].there =>
    Cardinality(PlainUpto(k, after, all[m].latest)) <= all[k].count

BelowInv ==
  /\ \A a \in Audit : stamp[a] <= now
  /\ \A v \in CountingViews : OnRecord(table[v]) /\ (v \notin torn => Complete(table[v], -1))
  /\ \A j \in Job : AtCounting(j, {"write"}) => OnRecord(rows[j]) /\ Complete(rows[j], mark[j])

\* Some audit rows are not more than others they are among.
LEMMA PlainCount ==
  ASSUME NEW k, NEW after, NEW latest
  PROVE  /\ PlainUpto(k, after, latest) \in SUBSET Audit
         /\ IsFiniteSet(PlainUpto(k, after, latest))
         /\ Cardinality(PlainUpto(k, after, latest)) \in Nat
<1>1. PlainUpto(k, after, latest) \in SUBSET Audit
  BY DEF PlainUpto, Plain, Stored
<1>. QED BY <1>1, AuditCount

\* An audit row that is made, or gets into Mongo, does not come below a time that is taken: made
\* and stored later it is later, and in the same millisecond it is not plain.
LEMMA AuditKeepsComplete ==
  ASSUME TypeOK, Stamped, \A b \in Audit : stamp[b] <= now, NEW a \in Audit,
         RecordAction(a) \/ StoreAudit(a),
         NEW all \in [Key -> Row], NEW after, OnRecord(all), Complete(all, after)
  PROVE  OnRecord(all)' /\ Complete(all, after)'
<1>0. /\ \A b \in Audit : stamp[b] \in Int
      /\ now \in Int /\ now # -1
  BY TimeAssumption DEF TypeOK, Time
<1>1. \A b \in Audit : storedAt[b] # -1 =>
        storedAt'[b] = storedAt[b] /\ storedAt'[b] # -1 /\ stamp'[b] = stamp[b]
  BY StoredStays
<1>2. OnRecord(all)'
  BY <1>1 DEF OnRecord
<1>3. ASSUME NEW k \in Key, NEW m \in Key, all[m].there
      PROVE  Cardinality(PlainUpto(k, after, all[m].latest)') <= all[k].count
  <2>1. PICK c \in Audit : storedAt[c] # -1 /\ stamp[c] = all[m].latest
    BY <1>3 DEF OnRecord
  <2>2. ASSUME NEW b \in PlainUpto(k, after, all[m].latest)'
        PROVE  b \in PlainUpto(k, after, all[m].latest)
    <3>1. /\ b \in Audit /\ storedAt'[b] # -1 /\ KeyOf[b] = k /\ storedAt'[b] = stamp'[b]
          /\ \A d \in Audit \ {b} : stamp'[d] # stamp'[b]
          /\ after < stamp'[b] /\ stamp'[b] <= all[m].latest
      BY <2>2 DEF PlainUpto, Plain, Stored
    <3>2. storedAt[b] # -1
      <4>. SUFFICES ASSUME storedAt[b] = -1 PROVE FALSE
        OBVIOUS
      <4>1. stamp'[b] = now /\ b # c
        <5>1. CASE RecordAction(a)
          BY <2>1, <3>1, <5>1 DEF RecordAction
        <5>2. CASE StoreAudit(a)
          BY <2>1, <3>1, <5>2 DEF StoreAudit, TypeOK
        <5>. QED BY <5>1, <5>2
      <4>2. stamp'[c] = stamp[c] /\ stamp[c] <= now /\ stamp'[c] # now
        BY <1>1, <2>1, <3>1, <4>1
      <4>. QED BY <1>0, <2>1, <3>1, <4>1, <4>2
    <3>3. stamp'[b] = stamp[b] /\ storedAt'[b] = storedAt[b]
      BY <1>1, <3>1, <3>2
    <3>4. \A d \in Audit \ {b} : stamp[d] # stamp[b]
      <4>1. \A d \in Audit : stamp[d] # -1 => stamp'[d] = stamp[d]
        BY DEF RecordAction, StoreAudit, TypeOK
      <4>2. stamp[b] # -1
        BY <3>1, <3>2 DEF Stamped
      <4>. QED BY <3>1, <3>3, <4>1, <4>2
    <3>. QED BY <3>1, <3>2, <3>3, <3>4 DEF PlainUpto, Plain, Stored
  <2>3. PlainUpto(k, after, all[m].latest)' \subseteq PlainUpto(k, after, all[m].latest)
    BY <2>2
  <2>4. PlainUpto(k, after, all[m].latest) \in SUBSET Audit
    BY PlainCount
  <2>5. /\ Cardinality(PlainUpto(k, after, all[m].latest)') \in Nat
        /\ Cardinality(PlainUpto(k, after, all[m].latest)) \in Nat
        /\ Cardinality(PlainUpto(k, after, all[m].latest)')
             <= Cardinality(PlainUpto(k, after, all[m].latest))
    BY <2>3, <2>4, AuditCount
  <2>6. Cardinality(PlainUpto(k, after, all[m].latest)) <= all[k].count /\ all[k].count \in Nat
    BY <1>3 DEF Complete, Row
  <2>. QED BY <2>5, <2>6
<1>. QED BY <1>2, <1>3 DEF Complete

\* What the aggregate returns is on record, and complete past the mark it was read from.
LEMMA AggregateComplete ==
  ASSUME TypeOK, Stamped, NEW v \in CountingViews, NEW after \in Time \cup {-1}
  PROVE  OnRecord(Aggregate(v, after)) /\ Complete(Aggregate(v, after), after)
<1>. DEFINE row(k) == Aggregate(v, after)[k]
<1>1. \A k \in Key :
        /\ row(k) \in Row /\ (~row(k).there => row(k).count = 0)
        /\ row(k).there => /\ row(k).count = Cardinality(Matched(v, k, after))
                           /\ \E a \in Matched(v, k, after) : row(k).latest = stamp[a]
  BY AggregateRow DEF CountingViews
<1>2. \A k \in Key : ~row(k).there => Matched(v, k, after) = {}
  BY DEF Aggregate
<1>3. OnRecord(Aggregate(v, after))
  BY <1>1 DEF OnRecord, Matched
<1>4. ASSUME NEW k \in Key, NEW latest
      PROVE  Cardinality(PlainUpto(k, after, latest)) <= row(k).count
  <2>1. PlainUpto(k, after, latest) \subseteq Matched(v, k, after)
    BY DEF PlainUpto, Plain, Stored, Matched, CountingViews
  <2>2. Matched(v, k, after) \in SUBSET Audit
    BY DEF Matched
  <2>3. Cardinality(PlainUpto(k, after, latest)) <= Cardinality(Matched(v, k, after))
    BY <2>1, <2>2, AuditCount
  <2>4. row(k).count = Cardinality(Matched(v, k, after))
    BY <1>1, <1>2, FS_EmptySet
  <2>. QED BY <2>3, <2>4
<1>. QED BY <1>3, <1>4 DEF Complete

\* What a job writes of a counting view, whole or in part, is on record.
LEMMA WrittenOnRecord ==
  ASSUME TypeOK, BelowInv, NEW j \in Job, AtCounting(j, {"write"}), NEW keys \in SUBSET Key
  PROVE  OnRecord(Written(j, keys))
<1>1. /\ ViewOf(j) \in CountingViews /\ rows[j] \in [Key -> Row]
      /\ OnRecord(table[ViewOf(j)]) /\ OnRecord(rows[j])
  BY ViewType DEF AtCounting, CountingViews, BelowInv, TypeOK
<1>2. CASE mark[j] = -1
  BY <1>1, <1>2 DEF Written
<1>3. CASE mark[j] # -1
  <2>. SUFFICES ASSUME NEW k \in Key, Written(j, keys)[k].there
                PROVE  \E a \in Audit : storedAt[a] # -1 /\ stamp[a] = Written(j, keys)[k].latest
    BY DEF OnRecord
  <2>. DEFINE old == table[ViewOf(j)][k]
              row == rows[j][k]
  <2>1. Written(j, keys)[k] = old \/ (row.there /\ Written(j, keys)[k] = AddTo(ViewOf(j), old, row))
    BY <1>1, <1>3 DEF Written, CountingViews
  <2>2. AddTo(ViewOf(j), old, row) = old \/ AddTo(ViewOf(j), old, row).latest = row.latest
    BY DEF AddTo
  <2>3. /\ old.there => \E a \in Audit : storedAt[a] # -1 /\ stamp[a] = old.latest
        /\ row.there => \E a \in Audit : storedAt[a] # -1 /\ stamp[a] = row.latest
    BY <1>1 DEF OnRecord
  <2>. HIDE DEF old, row
  <2>. QED BY <2>1, <2>2, <2>3
<1>. QED BY <1>2, <1>3

\* A whole write adds what is past the view's newest row to what the view counts up to it.
LEMMA WrittenComplete ==
  ASSUME TypeOK, CountInv, BelowInv, NEW j \in Job, AtCounting(j, {"write"}),
         ViewOf(j) \notin torn
  PROVE  Complete(Written(j, Key), -1)
<1>. DEFINE v == ViewOf(j)
            old(k) == table[v][k]
            row(k) == rows[j][k]
            new(k) == Written(j, Key)[k]
<1>1. /\ v \in Views /\ v \in Counting /\ v \in CountingViews
      /\ rows[j] \in [Key -> Row] /\ mark[j] \in Time \cup {-1}
      /\ \A k \in Key : old(k) \in Row /\ row(k) \in Row
  BY ViewType DEF AtCounting, CountingViews, TypeOK
<1>2. /\ Complete(table[v], -1) /\ Complete(rows[j], mark[j]) /\ mark[j] = Newest(v)
      /\ \A k \in Key : /\ row(k).there => mark[j] < row(k).latest
                        /\ ~row(k).there => row(k).count = 0
  BY <1>1 DEF BelowInv, CountInv, AtCounting, Covered
<1>3. CASE mark[j] = -1
  BY <1>1, <1>2, <1>3 DEF Written
<1>4. CASE mark[j] # -1
  <2>1. /\ \A k \in Key : old(k).there => old(k).latest <= mark[j]
        /\ \E k \in Key : old(k).there /\ old(k).latest = mark[j]
    BY <1>1, <1>2, <1>4, NewestBounds
  <2>2. ASSUME NEW k \in Key
        PROVE  /\ new(k).count = old(k).count + row(k).count
               /\ new(k) = old(k) \/ (row(k).there /\ new(k).latest = row(k).latest)
    <3>1. CASE ~row(k).there
      <4>1. new(k) = old(k)
        BY <1>4, <3>1 DEF Written
      <4>2. old(k).count \in Nat
        BY <1>1 DEF Row
      <4>. QED BY <1>2, <3>1, <4>1, <4>2
    <3>2. CASE row(k).there
      <4>1. ~(old(k).there /\ old(k).latest = row(k).latest)
        <5>1. old(k).latest \in Int /\ row(k).latest \in Int /\ mark[j] \in Int
          BY <1>1, TimeAssumption DEF Row, Time
        <5>. QED BY <1>2, <2>1, <3>2, <5>1
      <4>2. new(k) = AddTo(v, old(k), row(k))
        BY <1>1, <1>4, <3>2 DEF Written
      <4>. QED BY <3>2, <4>1, <4>2 DEF AddTo
    <3>. QED BY <3>1, <3>2
  <2>3. ASSUME NEW k \in Key, NEW m \in Key, new(m).there
        PROVE  Cardinality(PlainUpto(k, -1, new(m).latest)) <= new(k).count
    <3>1. old(k).count \in Nat /\ row(k).count \in Nat
      BY <1>1 DEF Row
    <3>2. CASE new(m) = old(m)
      <4>1. Cardinality(PlainUpto(k, -1, old(m).latest)) <= old(k).count
        BY <1>2, <2>3, <3>2 DEF Complete
      <4>2. Cardinality(PlainUpto(k, -1, old(m).latest)) \in Nat
        BY PlainCount
      <4>3. new(k).count = old(k).count + row(k).count
        BY <2>2
      <4>. HIDE DEF old, row, new
      <4>. QED BY <3>1, <3>2, <4>1, <4>2, <4>3
    <3>3. CASE row(m).there /\ new(m).latest = row(m).latest
      <4>. DEFINE before == PlainUpto(k, -1, mark[j])
                  past == PlainUpto(k, mark[j], row(m).latest)
                  whole == PlainUpto(k, -1, row(m).latest)
      <4>1. Cardinality(before) <= old(k).count
        BY <1>2, <2>1 DEF Complete
      <4>2. Cardinality(past) <= row(k).count
        BY <1>2, <3>3 DEF Complete
      <4>3. whole \subseteq before \cup past
        <5>1. \A a \in Audit : stamp[a] \in Int
          BY TimeAssumption DEF TypeOK, Time
        <5>2. mark[j] \in Int
          BY <1>1, TimeAssumption DEF Time
        <5>. QED BY <5>1, <5>2 DEF PlainUpto, Plain, Stored
      <4>4. Cardinality(whole) <= old(k).count + row(k).count
        <5>1. /\ IsFiniteSet(before) /\ IsFiniteSet(past) /\ IsFiniteSet(whole)
              /\ before \in SUBSET Audit /\ past \in SUBSET Audit
              /\ Cardinality(before) \in Nat /\ Cardinality(past) \in Nat
              /\ Cardinality(whole) \in Nat
          BY PlainCount
        <5>. HIDE DEF before, past, whole, old, row
        <5>2. Cardinality(before \cap past) \in Nat
          BY <5>1, FS_Intersection, FS_CardinalityType
        <5>3. /\ Cardinality(before \cup past) \in Nat
              /\ Cardinality(before \cup past)
                   = Cardinality(before) + Cardinality(past) - Cardinality(before \cap past)
          BY <5>1, FS_Union, FS_CardinalityType
        <5>4. Cardinality(whole) <= Cardinality(before \cup past)
          BY <4>3, <5>1, FS_Union, FS_Subset
        <5>. QED BY <3>1, <4>1, <4>2, <5>1, <5>2, <5>3, <5>4
      <4>. QED BY <2>2, <3>3, <4>4
    <3>. QED BY <2>2, <3>2, <3>3
  <2>. QED BY <2>3 DEF Complete
<1>. QED BY <1>3, <1>4

\* A step that leaves the views and the audit trail alone, makes no torn view whole and brings no
\* job to a write keeps what is counted.
LEMMA WorkKeepsBelow ==
  ASSUME BelowInv, UNCHANGED <<stamp, storedAt, table>>, torn \subseteq torn',
         \A a \in Audit : stamp[a] <= now',
         \A j \in Job : pc'[j] = "write" =>
           pc[j] = "write" /\ view'[j] = view[j] /\ mark'[j] = mark[j] /\ rows'[j] = rows[j]
  PROVE  BelowInv'
<1>1. \A v \in CountingViews : OnRecord(table[v])' /\ (v \notin torn' => Complete(table[v], -1)')
  BY DEF BelowInv, OnRecord, Complete, PlainUpto, Plain, Stored
<1>2. ASSUME NEW j \in Job, AtCounting(j, {"write"})'
      PROVE  OnRecord(rows[j])' /\ Complete(rows[j], mark[j])'
  <2>1. AtCounting(j, {"write"}) /\ rows'[j] = rows[j] /\ mark'[j] = mark[j]
    BY <1>2 DEF AtCounting, ViewOf
  <2>. QED BY <2>1 DEF BelowInv, OnRecord, Complete, PlainUpto, Plain, Stored
<1>. QED BY <1>1, <1>2 DEF BelowInv

\* A job that leaves a view it wrote, in whole or as a torn one, keeps what is counted.
LEMMA WriteKeepsBelow ==
  ASSUME OneSubset, OneJobPerLock, TypeOK, CountInv, BelowInv, NEW j \in Job, pc[j] = "write",
         UNCHANGED <<now, stamp, storedAt>>, NEW keys \in SUBSET Key,
         table' = [table EXCEPT ![ViewOf(j)] = Written(j, keys)],
         torn \subseteq torn', keys = Key \/ ViewOf(j) \in torn',
         NEW at \in {"stagger", "killed"}, pc' = [pc EXCEPT ![j] = at]
  PROVE  BelowInv'
<1>1. ASSUME NEW v \in CountingViews
      PROVE  OnRecord(table[v])' /\ (v \notin torn' => Complete(table[v], -1)')
  <2>1. CASE v = ViewOf(j)
    <3>1. /\ OnRecord(Written(j, keys))
          /\ v \notin torn' => Complete(Written(j, keys), -1)
      BY <2>1, WrittenOnRecord, WrittenComplete DEF AtCounting, CountingViews
    <3>2. table'[v] = Written(j, keys)
      BY <2>1 DEF TypeOK, CountingViews
    <3>. QED BY <3>1, <3>2 DEF OnRecord, Complete, PlainUpto, Plain, Stored
  <2>2. CASE v # ViewOf(j)
    <3>1. table'[v] = table[v]
      BY <2>2 DEF TypeOK, CountingViews
    <3>. QED BY <3>1 DEF BelowInv, OnRecord, Complete, PlainUpto, Plain, Stored
  <2>. QED BY <2>1, <2>2
<1>2. \A i \in Job : pc'[i] # "write"
  <2>1. ASSUME NEW i \in Job, i # j PROVE pc[i] # "write"
    BY <2>1, AloneAtView DEF Holds
  <2>. QED BY <2>1 DEF TypeOK
<1>. QED BY <1>1, <1>2 DEF BelowInv, AtCounting

\* Every step keeps what is counted.
LEMMA BelowStep ==
  ASSUME OneSubset, OneJobPerLock, TypeOK, Stamped, CountInv, BelowInv, [Next]_vars
  PROVE  BelowInv'
<1>1. ASSUME \/ Tick
             \/ \E j \in Job : \/ Acquire(j) \/ Skip(j) \/ GetLast(j) \/ FailView(j)
                               \/ NextView(j) \/ Release(j)
             \/ UNCHANGED vars
      PROVE  BelowInv'
  <2>1. /\ UNCHANGED <<stamp, storedAt, table, torn>> /\ (now' = now \/ now' = now + 1)
        /\ \A j \in Job : pc'[j] = "write" =>
             pc[j] = "write" /\ view'[j] = view[j] /\ mark'[j] = mark[j] /\ rows'[j] = rows[j]
    BY <1>1 DEF Tick, Acquire, Skip, GetLast, FailView, NextView, Release, vars, jobVars, ghosts,
                TypeOK
  <2>2. \A a \in Audit : stamp[a] <= now'
    <3>1. /\ now \in Int /\ \A a \in Audit : stamp[a] \in Int /\ stamp[a] <= now
      BY TimeAssumption DEF TypeOK, Time, BelowInv
    <3>. QED BY <2>1, <3>1
  <2>. QED BY <2>1, <2>2, WorkKeepsBelow
<1>2. ASSUME NEW a \in Audit, RecordAction(a) \/ StoreAudit(a) PROVE BelowInv'
  <2>1. UNCHANGED <<now, table, torn, pc, view, mark, rows>>
    BY <1>2 DEF RecordAction, StoreAudit, jobVars, ghosts
  <2>2. \A b \in Audit : stamp'[b] <= now'
    <3>1. now <= now
      BY TimeAssumption DEF TypeOK, Time
    <3>. QED BY <1>2, <2>1, <3>1 DEF RecordAction, StoreAudit, BelowInv, TypeOK
  <2>3. ASSUME NEW v \in CountingViews
        PROVE  OnRecord(table[v])' /\ (v \notin torn' => Complete(table[v], -1)')
    <3>1. PICK all \in [Key -> Row] : all = table[v] /\ OnRecord(all)
      BY DEF BelowInv, TypeOK, CountingViews
    <3>2. v \notin torn => Complete(all, -1)
      BY <3>1 DEF BelowInv
    <3>3. OnRecord(all)' /\ (v \notin torn => Complete(all, -1)')
      <4>1. CASE v \notin torn
        BY <1>2, <3>1, <3>2, <4>1, AuditKeepsComplete DEF BelowInv
      <4>2. CASE v \in torn
        BY <1>2, <3>1, <4>2, StoredStays DEF OnRecord
      <4>. QED BY <4>1, <4>2
    <3>. QED BY <2>1, <3>1, <3>3 DEF OnRecord, Complete, PlainUpto, Plain, Stored
  <2>4. ASSUME NEW j \in Job, AtCounting(j, {"write"})'
        PROVE  OnRecord(rows[j])' /\ Complete(rows[j], mark[j])'
    <3>1. PICK all \in [Key -> Row], after \in Time \cup {-1} :
            all = rows[j] /\ after = mark[j] /\ OnRecord(all) /\ Complete(all, after)
      BY <2>1, <2>4 DEF BelowInv, TypeOK, AtCounting, ViewOf
    <3>2. OnRecord(all)' /\ Complete(all, after)'
      BY <1>2, <3>1, AuditKeepsComplete DEF BelowInv
    <3>. QED BY <2>1, <3>1, <3>2 DEF OnRecord, Complete, PlainUpto, Plain, Stored
  <2>. QED BY <2>2, <2>3, <2>4 DEF BelowInv
<1>3. ASSUME NEW j \in Job, ReadAudits(j) PROVE BelowInv'
  <2>1. /\ UNCHANGED <<now, stamp, storedAt, table, view, mark, torn>> /\ pc[j] = "read"
        /\ pc' = [pc EXCEPT ![j] = "write"]
        /\ rows' = [rows EXCEPT ![j] = Aggregate(ViewOf(j), mark[j])]
    BY <1>3 DEF ReadAudits, ghosts
  <2>2. \A v \in CountingViews : OnRecord(table[v])' /\ (v \notin torn' => Complete(table[v], -1)')
    BY <2>1 DEF BelowInv, OnRecord, Complete, PlainUpto, Plain, Stored
  <2>3. ASSUME NEW i \in Job, AtCounting(i, {"write"})'
        PROVE  OnRecord(rows[i])' /\ Complete(rows[i], mark[i])'
    <3>1. ViewOf(i)' = ViewOf(i) /\ ViewOf(i) \in CountingViews /\ mark[i] \in Time \cup {-1}
      BY <2>1, <2>3, ViewType DEF AtCounting, ViewOf, CountingViews, TypeOK
    <3>2. OnRecord(rows'[i]) /\ Complete(rows'[i], mark[i])
      <4>1. CASE i = j
        <5>1. rows'[i] = Aggregate(ViewOf(i), mark[i])
          BY <2>1, <4>1 DEF TypeOK
        <5>. QED BY <3>1, <5>1, AggregateComplete
      <4>2. CASE i # j
        <5>1. AtCounting(i, {"write"}) /\ rows'[i] = rows[i]
          BY <2>1, <2>3, <3>1, <4>2 DEF AtCounting, TypeOK
        <5>. QED BY <5>1 DEF BelowInv
      <4>. QED BY <4>1, <4>2
    <3>. QED BY <2>1, <3>2 DEF OnRecord, Complete, PlainUpto, Plain, Stored
  <2>4. \A a \in Audit : stamp'[a] <= now'
    BY <2>1 DEF BelowInv
  <2>. QED BY <2>2, <2>3, <2>4 DEF BelowInv
<1>4. ASSUME NEW j \in Job, WriteView(j) PROVE BelowInv'
  BY <1>4, WriteKeepsBelow DEF WriteView, ghosts
<1>5. ASSUME NEW j \in Job, Kill(j) PROVE BelowInv'
  <2>1. CASE UNCHANGED <<table, torn>>
    <3>1. \A i \in Job : pc'[i] = "write" =>
            pc[i] = "write" /\ view'[i] = view[i] /\ mark'[i] = mark[i] /\ rows'[i] = rows[i]
      BY <1>5 DEF Kill, TypeOK
    <3>. QED BY <1>5, <2>1, <3>1, WorkKeepsBelow DEF Kill, BelowInv
  <2>2. ASSUME NEW keys \in SUBSET Key, pc[j] = "write",
               table' = [table EXCEPT ![ViewOf(j)] = Written(j, keys)],
               torn' = torn \cup {ViewOf(j)}
        PROVE  BelowInv'
    BY <1>5, <2>2, WriteKeepsBelow DEF Kill
  <2>. QED BY <1>5, <2>1, <2>2 DEF Kill
<1>. QED BY <1>1, <1>2, <1>3, <1>4, <1>5 DEF Next, RunViews

\* Below the newest row of a view every plain audit row is counted, unless a killed job left
\* the view half written: a view's update reads past its newest row only, and nothing that was
\* not read is before it.
THEOREM NoneMissedBelow ==
  ASSUME OneSubset
  PROVE  Spec => []CountedBelowMark
<1>. DEFINE All == Inv /\ TypeOK /\ Stamped /\ CountInv /\ BelowInv
<1>1. Init => BelowInv
  <2>. SUFFICES ASSUME Init PROVE BelowInv
    OBVIOUS
  <2>1. \A a \in Audit : stamp[a] <= now
    BY DEF Init
  <2>2. \A v \in Views, k \in Key : ~table[v][k].there
    BY DEF Init, Empty, NoRow
  <2>. QED BY <2>1, <2>2 DEF Init, BelowInv, CountingViews, AtCounting, OnRecord, Complete
<1>2. All /\ [Next]_vars => All'
  <2>1. Inv => OneJobPerLock
    BY DEF Inv
  <2>. QED BY <2>1, InvStep, TypeStep, CountStep, BelowStep
<1>3. All => CountedBelowMark
  <2>. SUFFICES ASSUME All, NEW v \in CountingViews \ torn, NEW k \in Key
                PROVE  Cardinality({a \in Plain(k) : stamp[a] < Newest(v)}) <= table[v][k].count
    BY DEF CountedBelowMark
  <2>. DEFINE below == {a \in Plain(k) : stamp[a] < Newest(v)}
  <2>0. /\ v \in Views /\ table[v][k].count \in Nat
        /\ \A a \in Plain(k) : stamp[a] \in Time
    BY DEF TypeOK, CountingViews, Row, Plain, Stored, Stamped
  <2>1. CASE Newest(v) = -1
    <3>1. below = {}
      BY <2>0, <2>1, TimeAssumption DEF Time
    <3>. QED BY <2>0, <3>1, FS_EmptySet
  <2>2. CASE Newest(v) # -1
    <3>1. PICK m \in Key : table[v][m].there /\ table[v][m].latest = Newest(v)
      BY <2>0, <2>2, NewestBounds
    <3>2. Cardinality(PlainUpto(k, -1, Newest(v))) <= table[v][k].count
      BY <3>1 DEF BelowInv, Complete
    <3>3. below \subseteq PlainUpto(k, -1, Newest(v))
      <4>1. Newest(v) \in Int
        BY <2>0, NewestBounds, TimeAssumption DEF Time
      <4>. QED BY <2>0, <4>1, TimeAssumption DEF PlainUpto, Time
    <3>4. /\ PlainUpto(k, -1, Newest(v)) \in SUBSET Audit
          /\ Cardinality(PlainUpto(k, -1, Newest(v))) \in Nat
      BY PlainCount
    <3>. HIDE DEF below
    <3>5. Cardinality(below) \in Nat /\ Cardinality(below) <= Cardinality(PlainUpto(k, -1, Newest(v)))
      BY <3>3, <3>4, AuditCount
    <3>6. Cardinality(below) <= table[v][k].count
      BY <2>0, <3>2, <3>4, <3>5
    <3>. QED BY <3>6 DEF below
  <2>. QED BY <2>1, <2>2
<1>. QED BY <1>1, <1>2, <1>3, InitInv, TypeInit, CountInit, PTL DEF Spec
=============================================================================
