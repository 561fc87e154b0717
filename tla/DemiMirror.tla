----------------------------- MODULE DemiMirror -----------------------------
(***************************************************************************)
(* The mirroring of one Mongo record to DEMI: every write that saved is    *)
(* followed by a push of the record; a push that did not land leaves a     *)
(* flag on the row (or, for a hard delete, a tombstone) that the sweep     *)
(* takes up later.  Pushes of different records share nothing but HTTP     *)
(* slots (module PushClient), so the module follows a single record.       *)
(*                                                                         *)
(* A process is an API pod or the sweep's cron job.  Versions number the   *)
(* writes of the row; DEMI's copy is the body it took last.                *)
(***************************************************************************)
EXTENDS Integers, Sequences

CONSTANTS Pod,         \* processes that push
          Writer,      \* requests that write the row, one write each
          Sweeper,     \* sweep runs, each taking up one flag or tombstone at a time
          Drift,       \* how far each process's clock runs ahead of real time
          MaxDrift,    \* bound of Drift
          Skew,        \* CLOCK_SKEW_MS
          MongoDelay,  \* longest time from reading the clock for a flag to Mongo applying it
          MaxNow,      \* bound of the clock: time stops there
          Fault,       \* the faults the environment may cause
          Calm         \* from this tick on it causes none

ASSUME DriftAssumption == MaxDrift \in Nat /\ Drift \in [Pod -> 0..MaxDrift]
ASSUME TimeAssumption == /\ Skew \in Nat /\ MongoDelay \in Nat
                         /\ MaxNow \in Nat /\ Calm \in 0..MaxNow
\* What CLOCK_SKEW_MS is for: the clocks' difference and a flag's way to Mongo.
ASSUME SkewAssumption == MaxDrift + MongoDelay <= Skew
ASSUME TaskAssumption == Writer \cap Sweeper = {}
ASSUME FaultAssumption ==
  Fault \subseteq {"refuse",   \* DEMI refuses a push, or its client drops it
                  "late",     \* an attempt given up on may still arrive
                  "reread",   \* the read before a push fails
                  "deadline", \* awaitMirror's deadline passes first
                  "record",   \* Mongo refuses recordOutcome's write
                  "abandon",  \* a delete's handler throws before it waits
                  "crash"}    \* a process stops

Task == Writer \cup Sweeper

VARIABLES
  now,    \* real time
  row,    \* the record in Mongo: its version and whether it still exists
  flag,   \* demiPushPending, demiPushFailedAt; ver is the row's version when it was written
  tomb,   \* the DemiPushTombstone of the record, and the version of the body it keeps
  demi,   \* the body DEMI holds
  late,   \* bodies of HTTP attempts given up on that may still reach DEMI
  chain,  \* per process, the unsettled pushes chained under the record's key
  pc,     \* where the request or sweep behind each push stands
  op,     \* what its push is for
  home,   \* the process it runs in
  snap,   \* the version of the caller's copy
  push,   \* the push itself
  failedAt \* the failure time recordOutcome stamps

vars == <<now, row, flag, tomb, demi, late, chain, pc, op, home, snap, push, failedAt>>
store == <<row, flag, tomb>>
request == <<op, home, snap>>

-----------------------------------------------------------------------------
Source == {"row", "snapshot", "delete"}
Body == [ver: Nat, del: BOOLEAN, from: Source, stamp: Nat]
NoPush == [stage |-> "none", readAt |-> 0, ver |-> 0, from |-> "row",
           pending |-> FALSE, stamp |-> 0, sent |-> 0, landed |-> FALSE]
Push == [stage: {"none", "queued", "reading", "read", "stamped", "settled"},
         readAt: Nat, ver: Nat, from: Source, pending: BOOLEAN,
         stamp: Nat, sent: Nat, landed: BOOLEAN]

\* One type invariant: every variable keeps its shape.
TypeOK ==
  /\ now \in 0..MaxNow
  /\ row \in [ver: Nat, live: BOOLEAN]
  /\ flag \in [on: BOOLEAN, at: Nat, ver: Nat]
  /\ tomb \in [on: BOOLEAN, ver: Nat]
  /\ demi \in Body
  /\ late \in SUBSET Body
  /\ chain \in [Pod -> Seq(Task)]
  /\ pc \in [Task -> {"idle", "saved", "waiting", "marking", "clearing", "done", "lost"}]
  /\ op \in [Task -> {"save", "delete", "sweep", "resend"}]
  /\ home \in [Task -> Pod]
  /\ snap \in [Task -> Nat]
  /\ push \in [Task -> Push]
  /\ failedAt \in [Task -> Nat]

NoFlag == [on |-> FALSE, at |-> 0, ver |-> 0]
NoTomb == [on |-> FALSE, ver |-> 0]

\* Mongo and DEMI start out agreeing on version 1 of the record.
Init ==
  /\ now = 0
  /\ row = [ver |-> 1, live |-> TRUE]
  /\ flag = NoFlag
  /\ tomb = NoTomb
  /\ demi = [ver |-> 1, del |-> FALSE, from |-> "row", stamp |-> 0]
  /\ late = {}
  /\ chain = [p \in Pod |-> << >>]
  /\ pc = [t \in Task |-> "idle"]
  /\ op = [t \in Task |-> "save"]
  /\ home \in [Task -> Pod]
  /\ snap = [t \in Task |-> 0]
  /\ push = [t \in Task |-> NoPush]
  /\ failedAt = [t \in Task |-> 0]

Clock(t) == now + Drift[home[t]]
Can(fault) == fault \in Fault /\ now < Calm
IsDelete(t) == op[t] \in {"delete", "resend"}
Settled(t) == push[t].stage \in {"none", "settled"}

-----------------------------------------------------------------------------
(* The clock.  A tick is long next to a turn of the event loop: a request   *)
(* whose push settled goes on before it, and a failure time on its way to  *)
(* Mongo gets there in MongoDelay ticks.                                   *)
Tick ==
  /\ now < MaxNow
  /\ \A t \in Task :
       /\ ~(pc[t] = "waiting" /\ push[t].stage = "settled")
       /\ pc[t] = "marking" => now + Drift[home[t]] < failedAt[t] + MongoDelay
  /\ now' = now + 1
  /\ UNCHANGED <<store, demi, late, chain, pc, request, push, failedAt>>

-----------------------------------------------------------------------------
(* What starts a push. *)

\* A handler's write of the row; the models' hooks keep it off the pending fields.
Save(w) ==
  /\ pc[w] = "idle" /\ row.live
  /\ row' = [row EXCEPT !.ver = @ + 1]
  /\ pc' = [pc EXCEPT ![w] = "saved"]
  /\ op' = [op EXCEPT ![w] = "save"]
  /\ snap' = [snap EXCEPT ![w] = row.ver + 1]
  /\ UNCHANGED <<now, flag, tomb, demi, late, chain, home, push, failedAt>>

\* A hard delete takes the row and the flag on it.
Delete(w) ==
  /\ pc[w] = "idle" /\ row.live
  /\ row' = [row EXCEPT !.live = FALSE]
  /\ flag' = NoFlag
  /\ pc' = [pc EXCEPT ![w] = "saved"]
  /\ op' = [op EXCEPT ![w] = "delete"]
  /\ snap' = [snap EXCEPT ![w] = row.ver]
  /\ UNCHANGED <<now, tomb, demi, late, chain, home, push, failedAt>>

\* The sweep's query finds the row flagged: it takes the id alone.
FindFlagged(s) ==
  /\ pc[s] = "idle" /\ Settled(s) /\ row.live /\ flag.on
  /\ pc' = [pc EXCEPT ![s] = "saved"]
  /\ op' = [op EXCEPT ![s] = "sweep"]
  /\ UNCHANGED <<now, store, demi, late, chain, home, snap, push, failedAt>>

\* The sweep's query finds the tombstone: it takes the body kept there.
FindTombstone(s) ==
  /\ pc[s] = "idle" /\ Settled(s) /\ tomb.on
  /\ pc' = [pc EXCEPT ![s] = "saved"]
  /\ op' = [op EXCEPT ![s] = "resend"]
  /\ snap' = [snap EXCEPT ![s] = tomb.ver]
  /\ UNCHANGED <<now, store, demi, late, chain, home, push, failedAt>>

-----------------------------------------------------------------------------
(* The push: mirrorPush under serialize.  It runs whether or not its       *)
(* request still waits for it.                                             *)

\* The pod learns that the write is in and queues the push behind the record's others.
Enqueue(t) ==
  /\ pc[t] = "saved"
  /\ pc' = [pc EXCEPT ![t] = "waiting"]
  /\ push' = [push EXCEPT ![t] = [NoPush EXCEPT !.stage = "queued"]]
  /\ chain' = [chain EXCEPT ![home[t]] = Append(@, t)]
  /\ UNCHANGED <<now, store, demi, late, request, failedAt>>

\* Mutants of Begin: the record's chain forgotten; the skew taken off readAt at once.
BeginUnchained(t) ==
  /\ push[t].stage = "queued"
  /\ push' = [push EXCEPT ![t].stage = "reading", ![t].readAt = Clock(t)]
  /\ UNCHANGED <<now, store, demi, late, chain, pc, request, failedAt>>
BeginSkewed(t) ==
  /\ push[t].stage = "queued"
  /\ t = Head(chain[home[t]])
  /\ push' = [push EXCEPT ![t].stage = "reading", ![t].readAt = Clock(t) - Skew]
  /\ UNCHANGED <<now, store, demi, late, chain, pc, request, failedAt>>

\* Its turn: readAt is taken before the read.
Begin(t) ==
  /\ push[t].stage = "queued"
  /\ t = Head(chain[home[t]])
  /\ push' = [push EXCEPT ![t].stage = "reading", ![t].readAt = Clock(t)]
  /\ UNCHANGED <<now, store, demi, late, chain, pc, request, failedAt>>

\* Settling leaves the chain; a push nobody waits for any more leaves no outcome behind.
Settle(t, ok) ==
  /\ push' = [push EXCEPT ![t] =
       IF pc[t] = "waiting" THEN [@ EXCEPT !.stage = "settled", !.landed = ok] ELSE NoPush]
  /\ chain' = [chain EXCEPT ![home[t]] = Tail(@)]

\* currentDoc hands back the row.
ReadRow(t) ==
  /\ push[t].stage = "reading" /\ row.live
  /\ push' = [push EXCEPT ![t].stage = "read", ![t].ver = row.ver,
                          ![t].from = "row", ![t].pending = flag.on]
  /\ UNCHANGED <<now, store, demi, late, chain, pc, request, failedAt>>

\* The row is gone or cannot be read: the caller's copy is pushed.
FallBack(t) ==
  /\ push[t].stage = "reading" /\ (~row.live \/ Can("reread"))
  /\ op[t] # "sweep"
  /\ push' = [push EXCEPT ![t].stage = "read", ![t].ver = snap[t],
                          ![t].from = IF IsDelete(t) THEN "delete" ELSE "snapshot"]
  /\ UNCHANGED <<now, store, demi, late, chain, pc, request, failedAt>>

\* A push by id has no copy to fall back on and is dropped.
DropById(t) ==
  /\ push[t].stage = "reading" /\ (~row.live \/ Can("reread"))
  /\ op[t] = "sweep"
  /\ Settle(t, FALSE)
  /\ UNCHANGED <<now, store, demi, late, pc, request, failedAt>>

\* pushedAt is taken once the read is back.
StampBody(t) ==
  /\ push[t].stage = "read"
  /\ push' = [push EXCEPT ![t].stage = "stamped", ![t].stamp = Clock(t), ![t].sent = now]
  /\ UNCHANGED <<now, store, demi, late, chain, pc, request, failedAt>>

BodyOf(t) == [ver |-> push[t].ver, del |-> IsDelete(t), from |-> push[t].from,
              stamp |-> push[t].stamp]

\* DEMI keeps the newest stamp.
Newest(body) == IF body.stamp >= demi.stamp THEN body ELSE demi

\* An HTTP exchange outlasts the clock's millisecond.
Exchanged(t) == push[t].sent < now \/ now = MaxNow

\* DEMI takes the body and says so.
Land(t) ==
  /\ push[t].stage = "stamped" /\ Exchanged(t)
  /\ demi' = Newest(BodyOf(t))
  /\ Settle(t, TRUE)
  /\ UNCHANGED <<now, store, late, pc, request, failedAt>>

\* Refused, dropped at a full queue, or out of attempts.
Fail(t) ==
  /\ Can("refuse")
  /\ push[t].stage = "stamped"
  /\ Settle(t, FALSE)
  /\ UNCHANGED <<now, store, demi, late, pc, request, failedAt>>

\* An attempt times out, and its request is still under way; the push goes on with the next.
GiveUp(t) ==
  /\ Can("late")
  /\ push[t].stage = "stamped" /\ Exchanged(t)
  /\ late' = late \cup {BodyOf(t)}
  /\ UNCHANGED <<now, store, demi, chain, pc, request, push, failedAt>>

\* An attempt that the client gave up on reaches DEMI after all.
DeliverLate(body) ==
  /\ demi' = Newest(body)
  /\ late' = late \ {body}
  /\ UNCHANGED <<now, store, chain, pc, request, push, failedAt>>

-----------------------------------------------------------------------------
(* What the request does about the outcome: awaitMirror and recordOutcome. *)

\* Mutant of Resolve: a settled push counts as a landed one.
ResolveSettled(t) ==
  /\ pc[t] = "waiting"
  /\ \/ push[t].stage = "settled"
        /\ pc' = [pc EXCEPT ![t] = "clearing"]
        /\ UNCHANGED failedAt
     \/ push[t].stage # "settled" /\ Can("deadline")
        /\ pc' = [pc EXCEPT ![t] = "marking"]
        /\ failedAt' = [failedAt EXCEPT ![t] = Clock(t)]
  /\ UNCHANGED <<now, store, demi, late, chain, request, push>>

\* The outcome is known, or the deadline passes first.
Resolve(t) ==
  /\ pc[t] = "waiting"
  /\ \/ push[t].stage = "settled" /\ push[t].landed
        /\ pc' = [pc EXCEPT ![t] = "clearing"]
        /\ UNCHANGED failedAt
     \/ \/ push[t].stage = "settled" /\ ~push[t].landed
        \/ push[t].stage # "settled" /\ Can("deadline")
        /\ pc' = [pc EXCEPT ![t] = "marking"]
        /\ failedAt' = [failedAt EXCEPT ![t] = Clock(t)]
  /\ UNCHANGED <<now, store, demi, late, chain, request, push>>

\* A writer answers its request; a sweep goes on to its next row.
Finish(t, end) ==
  /\ pc' = [pc EXCEPT ![t] = IF t \in Sweeper THEN "idle" ELSE end]
  /\ push' = [push EXCEPT ![t] = IF Settled(t) THEN NoPush ELSE @]
  /\ snap' = [snap EXCEPT ![t] = IF Settled(t) THEN 0 ELSE @]
  /\ failedAt' = [failedAt EXCEPT ![t] = 0]
  /\ UNCHANGED <<op, home>>

\* Mutant of Mark: with no row left, nothing is kept of a failed delete.
MarkRowOnly(t) ==
  /\ pc[t] = "marking"
  /\ flag' = IF row.live THEN [on |-> TRUE, at |-> failedAt[t], ver |-> row.ver] ELSE flag
  /\ Finish(t, "done")
  /\ UNCHANGED <<now, row, tomb, demi, late, chain>>

\* markPending: the row is flagged; with no row, a delete's body goes to the tombstone.
Mark(t) ==
  /\ pc[t] = "marking"
  /\ flag' = IF row.live THEN [on |-> TRUE, at |-> failedAt[t], ver |-> row.ver] ELSE flag
  /\ tomb' = IF ~row.live /\ IsDelete(t) THEN [on |-> TRUE, ver |-> snap[t]] ELSE tomb
  /\ Finish(t, "done")
  /\ UNCHANGED <<now, row, demi, late, chain>>

\* Mutants of Covered: any landing clears a flag it saw; the clocks are taken to agree.
CoveredIfSeen(t) == push[t].pending /\ flag.on
CoveredNoSkew(t) == push[t].pending /\ flag.on /\ flag.at < push[t].readAt

\* Only a failure flagged before the push read the row is covered by its body.
Covered(t) == push[t].pending /\ flag.on /\ flag.at < push[t].readAt - Skew

\* Mutant of Clear: the tombstone of a delete that landed stays.
ClearFlagOnly(t) ==
  /\ pc[t] = "clearing"
  /\ flag' = IF Covered(t) THEN NoFlag ELSE flag
  /\ Finish(t, "done")
  /\ UNCHANGED <<now, row, tomb, demi, late, chain>>

\* clearPending and clearFailedDelete.
Clear(t) ==
  /\ pc[t] = "clearing"
  /\ flag' = IF Covered(t) THEN NoFlag ELSE flag
  /\ tomb' = IF IsDelete(t) THEN NoTomb ELSE tomb
  /\ Finish(t, "done")
  /\ UNCHANGED <<now, row, demi, late, chain>>

-----------------------------------------------------------------------------
(* What takes an outcome away before it is recorded. *)

\* Mongo refuses the flag, the tombstone or the clearing: it is logged and forgotten.
RecordError(t) ==
  /\ Can("record")
  /\ pc[t] \in {"marking", "clearing"}
  /\ Finish(t, IF pc[t] = "marking" THEN "lost" ELSE "done")
  /\ UNCHANGED <<now, store, demi, late, chain>>

\* A document's delete handler throws at MinIO after it queued the push, and never waits for it.
Abandon(w) ==
  /\ Can("abandon")
  /\ pc[w] = "waiting" /\ op[w] = "delete"
  /\ Finish(w, "lost")
  /\ UNCHANGED <<now, store, demi, late, chain>>

\* A process stops: its chain and whatever waits on it are gone; a body on the wire may still arrive.
Crash(p) ==
  /\ Can("crash")
  /\ \E sent \in SUBSET {t \in Task : home[t] = p /\ push[t].stage = "stamped" /\ Exchanged(t)} :
       late' = late \cup {BodyOf(t) : t \in sent}
  /\ chain' = [chain EXCEPT ![p] = << >>]
  /\ LET here == {t \in Task : home[t] = p}
         cut == {t \in here : pc[t] \in {"saved", "waiting", "marking", "clearing"}}
     IN /\ cut # {} \/ chain[p] # << >>
        /\ pc' = [t \in Task |-> IF t \notin cut THEN pc[t]
                                 ELSE IF t \in Sweeper THEN "idle"
                                 ELSE IF pc[t] = "clearing" THEN "done" ELSE "lost"]
        /\ push' = [t \in Task |-> IF t \in here THEN NoPush ELSE push[t]]
        /\ snap' = [t \in Task |-> IF t \in here THEN 0 ELSE snap[t]]
        /\ failedAt' = [t \in Task |-> IF t \in here THEN 0 ELSE failedAt[t]]
  /\ UNCHANGED <<now, store, demi, op, home>>

-----------------------------------------------------------------------------
PushStep(t) ==
  \/ Enqueue(t) \/ Begin(t) \/ ReadRow(t) \/ FallBack(t) \/ DropById(t)
  \/ StampBody(t) \/ Land(t) \/ Fail(t)

Next ==
  \/ Tick
  \/ \E w \in Writer : Save(w) \/ Delete(w) \/ Abandon(w)
  \/ \E s \in Sweeper : FindFlagged(s) \/ FindTombstone(s)
  \/ \E t \in Task : PushStep(t) \/ GiveUp(t) \/ Resolve(t) \/ Mark(t) \/ Clear(t) \/ RecordError(t)
  \/ \E body \in late : DeliverLate(body)
  \/ \E p \in Pod : Crash(p)

Spec == Init /\ [][Next]_vars

\* Time goes on, only so much fits a tick; the sweep runs again and again, and what a
\* process has begun it goes on with.
Fairness ==
  /\ SF_vars(Tick)
  /\ \A t \in Task : /\ WF_vars(PushStep(t))
                     /\ WF_vars(Resolve(t) \/ Mark(t) \/ Clear(t))
  /\ \A s \in Sweeper : WF_vars(FindFlagged(s) \/ FindTombstone(s))

FairSpec == Spec /\ Fairness

-----------------------------------------------------------------------------
(* Properties *)

Quiet == \A t \in Task : pc[t] \in {"idle", "done", "lost"} /\ Settled(t)
NothingLost == \A w \in Writer : pc[w] # "lost"
Agrees == IF row.live THEN ~demi.del /\ demi.ver = row.ver ELSE demi.del

\* Once every request is answered and no push runs, DEMI shows the record as Mongo has it or
\* something is left that the sweep takes up.  The two ways out are the ones the code logs: an
\* outcome lost with its process or its Mongo write, and a body that is the caller's copy.
MirroredOrOwed ==
  Quiet /\ NothingLost /\ demi.from # "snapshot" => Agrees \/ flag.on \/ tomb.on

\* What DEMI took from a row is never replaced by an older version of it, nor a delete undone,
\* unless by a caller's copy: the chain and pushedAt keep pushes in the order of their reads.
NewestIsKept ==
  [][demi'.from # "snapshot" => demi'.ver >= demi.ver /\ (demi.del => demi'.del)]_vars

\* The two ways out apart, DEMI never goes back, and a write stays owed to it until it agrees.
Owed == ~Quiet \/ flag.on \/ tomb.on
Shown == [ver |-> demi.ver, del |-> demi.del, copy |-> demi.from = "snapshot"]

Mirror == INSTANCE MirrorPromise
  WITH row <- row, shown <- Shown, owed <- Owed, lost <- ~NothingLost

\* Mirroring with its pushes, flags, tombstones and sweeps does what MirrorPromise says.
KeepsMirrorPromise == Mirror!Spec

\* A body DEMI takes for its newer stamp is never the older one.
NewerStampIsNewerBody ==
  [][demi'.stamp > demi.stamp /\ demi'.from # "snapshot" => demi'.ver >= demi.ver]_vars

\* A landing takes a flag off only if its body is at least as new as the row was when the
\* flag was written: CLOCK_SKEW_MS covers the clocks' drift and Mongo's delay.
ClearCoversFlag ==
  [][flag.on /\ ~flag'.on /\ row'.live =>
       \E t \in Task : pc[t] = "clearing" /\ pc'[t] # "clearing" /\ push[t].ver >= flag.ver]_vars

\* A write is reported mirrored only when DEMI shows it, or something newer.
MirroredReplyIsTrue ==
  \A w \in Writer : pc[w] = "clearing" /\ demi.from # "snapshot" =>
    demi.ver >= snap[w] /\ (op[w] = "delete" => demi.del)

\* A hard delete that DEMI took stays deleted.
DeleteSticks == [][demi.del => demi'.del]_vars

\* What is owed to DEMI is settled in the end: a sweep that lands takes the flag off.
OwedIsSettled == (flag.on \/ tomb.on) ~> ~(flag.on \/ tomb.on)

\* And then DEMI agrees with Mongo for good, unless an outcome was lost or a copy pushed.
Converges == <>[](Agrees \/ ~NothingLost \/ demi.from = "snapshot")

=============================================================================
