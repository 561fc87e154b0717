------------------------------- MODULE Repush -------------------------------
(***************************************************************************)
(* The re-push script: it walks the records of some kinds in the order of  *)
(* their _ids, pushes each batch, and writes a checkpoint once the batch is *)
(* settled.  A run that was killed, or gave up, is run again by hand, with *)
(* any arguments; it resumes a checkpoint of the same kind and the same    *)
(* filter.                                                                 *)
(***************************************************************************)
EXTENDS Naturals, Sequences, FiniteSets

CONSTANTS Kind, Id,     \* a record is a kind and an _id
          KindLists,    \* what --kinds may name, in order
          Filters,      \* what --ids-file and --since may let through; Id is no filter
          Given,        \* the --state path itself, which a run of one kind uses
          Project,      \* the kind whose pushes go out one at a time
          Concurrencies, \* what --concurrency may be: how long a batch is
          MaxReopens,   \* MAX_CURSOR_REOPENS
          Limits,       \* what --limit may be; 0 is no limit
          MaxRuns, MaxChanges, \* bound the model
          NoState, NoRun

ASSUME RepushAssumption ==
  /\ Id \subseteq Nat \ {0} /\ Filters \subseteq SUBSET Id
  /\ KindLists \subseteq Seq(Kind) \ {<< >>}
  /\ Given \notin Kind /\ Project \in Kind /\ Concurrencies \subseteq Nat \ {0}
  /\ Limits \subseteq Nat /\ MaxReopens \in Nat

VARIABLES records, \* the rows in Mongo
          state,   \* the checkpoint files
          run,     \* the script's process
          landed,  \* for the properties: the records a push of which landed
          pushes,  \* how often each record was pushed
          allowed, \* how often it may have been: by runs that began its kind, and kills
          steady,  \* the rows that were there all the time
          runs, changes

repushVars == <<records, state, run, landed, pushes, allowed, steady, runs, changes>>
counters == <<runs, changes>>
ghosts == <<landed, pushes, allowed, steady>>

Record == Kind \X Id
Paths == Kind \cup {Given}
Greatest(S) == CHOOSE i \in S : \A j \in S : j =< i
Least(S) == CHOOSE i \in S : \A j \in S : i =< j

Checkpoint == [kind : Kind, filter : Filters, last : Id, failed : SUBSET Id]

\* statePathFor
StatePathFor(kinds, kind) == IF Len(kinds) < 2 THEN Given ELSE kind

\* planKind resumes a checkpoint of this kind and this filter.
Resumes(args, kind) ==
  LET was == state[StatePathFor(args.kinds, kind)]
  IN was # NoState /\ was.kind = kind /\ was.filter = args.filter

\* A kind begins: where after, and which ids are skipped.
Plan(args, n) ==
  LET kind == args.kinds[n]
      was == state[StatePathFor(args.kinds, kind)]
      resume == Resumes(args, kind)
  IN [args |-> args, n |-> n, at |-> "read",
      from |-> IF resume THEN was.last ELSE 0,
      carried |-> IF resume THEN was.failed ELSE {},
      read |-> 0, batch |-> {}, seen |-> 0, failed |-> {}, reopens |-> 0]

KindOf(r) == r.args.kinds[r.n]

\* The records of a kind that may be pushed once more.
More(kind, ids) ==
  [rec \in Record |-> IF rec[1] = kind /\ rec[2] \in ids THEN allowed[rec] + 1 ELSE allowed[rec]]

\* A live kind that does not resume may push again what was pushed before.
Redo(args, n) ==
  IF args.live /\ ~Resumes(args, args.kinds[n])
  THEN allowed' = More(args.kinds[n], Id)
  ELSE allowed' = allowed

-----------------------------------------------------------------------------
\* The script is started.
Start(args) ==
  /\ run = NoRun /\ runs < MaxRuns
  /\ runs' = runs + 1
  /\ run' = Plan(args, 1)
  /\ Redo(args, 1)
  /\ UNCHANGED <<records, state, landed, pushes, steady, changes>>

\* buildQuery: the rows after the last one read, of the filter, not skipped.
Ahead(r) ==
  {i \in r.args.filter \ r.carried :
     /\ <<KindOf(r), i>> \in records
     /\ i > r.from /\ i > r.read}

Wants(r) ==
  /\ r.at = "read"
  /\ Cardinality(r.batch) < r.args.concurrency
  /\ r.args.limit = 0 \/ r.seen + Cardinality(r.batch) < r.args.limit

\* next: one record off the cursor.
ReadNext ==
  /\ run # NoRun /\ Wants(run) /\ Ahead(run) # {}
  /\ LET i == Least(Ahead(run))
     IN run' = [run EXCEPT !.read = i, !.batch = @ \cup {i}, !.reopens = 0]
  /\ UNCHANGED <<records, state, ghosts, counters>>

\* The server dropped the cursor; it is reopened after the last record read.
\* Too often in a row, or on any other error, the run ends.
LoseCursor ==
  /\ run # NoRun /\ Wants(run)
  /\ run' = IF run.reopens < MaxReopens THEN [run EXCEPT !.reopens = @ + 1] ELSE NoRun
  /\ UNCHANGED <<records, state, ghosts, counters>>

\* A batch is complete, or the cursor is at its end.
Complete(r) == r.at = "read" /\ r.batch # {} /\ (~Wants(r) \/ Ahead(r) = {})

\* The pushes of a batch, all settled: DEMI took those of `ok'.
PushBatch(ok) ==
  LET kind == KindOf(run) IN
  /\ run # NoRun /\ Complete(run) /\ run.args.live
  /\ ok \subseteq run.batch
  /\ run' = [run EXCEPT !.at = "save", !.seen = @ + Cardinality(run.batch),
                        !.failed = @ \cup (run.batch \ ok)]
  /\ landed' = landed \cup ({kind} \X ok)
  /\ pushes' = [rec \in Record |-> IF rec[1] = kind /\ rec[2] \in run.batch
                                   THEN pushes[rec] + 1 ELSE pushes[rec]]
  /\ UNCHANGED <<records, state, allowed, steady, counters>>

\* Mutant of Failures: the ids of earlier runs are dropped.
FailuresOfThisRun(r) == r.failed

Failures(r) == r.carried \cup r.failed

\* The checkpoint names the batch's last record.
WriteState ==
  /\ run # NoRun /\ run.at = "save"
  /\ state' = [state EXCEPT ![StatePathFor(run.args.kinds, KindOf(run))] =
        [kind |-> KindOf(run), filter |-> run.args.filter, last |-> Greatest(run.batch),
         failed |-> Failures(run)]]
  /\ run' = [run EXCEPT !.at = "read", !.batch = {}]
  /\ UNCHANGED <<records, ghosts, counters>>

\* A dry run counts the batch.
CountBatch ==
  /\ run # NoRun /\ Complete(run) /\ ~run.args.live
  /\ run' = [run EXCEPT !.seen = @ + Cardinality(run.batch), !.batch = {}]
  /\ UNCHANGED <<records, state, ghosts, counters>>

\* A kind is through: nothing is left, or the limit is reached.  One with
\* failures stops the run, unless --continue-on-failure is given.
EndKind ==
  LET args == run.args
      goesOn == run.n < Len(args.kinds) /\ (run.failed = {} \/ args.continues)
  IN /\ run # NoRun /\ run.at = "read" /\ run.batch = {}
     /\ ~Wants(run) \/ Ahead(run) = {}
     /\ run' = IF goesOn THEN Plan(args, run.n + 1) ELSE NoRun
     /\ IF goesOn THEN Redo(args, run.n + 1) ELSE allowed' = allowed
     /\ UNCHANGED <<records, state, landed, pushes, steady, counters>>

\* The process is killed: what it pushed is settled or not, and it counts as a
\* batch that will be pushed again.
KillRun(ok) ==
  LET kind == KindOf(run)
      out == run.args.live /\ (run.at = "save" \/ Complete(run))
      now == IF run.at = "read" /\ out THEN run.batch ELSE {}
  IN /\ run # NoRun
     /\ ok \subseteq now
     /\ landed' = landed \cup ({kind} \X ok)
     /\ pushes' = [rec \in Record |-> IF rec[1] = kind /\ rec[2] \in now
                                      THEN pushes[rec] + 1 ELSE pushes[rec]]
     /\ allowed' = IF out THEN More(kind, run.batch) ELSE allowed
     /\ run' = NoRun
     /\ UNCHANGED <<records, state, steady, counters>>

\* Eagle goes on meanwhile: a row is posted, under a caller's _id too, or goes.
ChangeRecords(rec) ==
  /\ changes < MaxChanges
  /\ changes' = changes + 1
  /\ records' = IF rec \in records THEN records \ {rec} ELSE records \cup {rec}
  /\ steady' = steady \ {rec}
  /\ UNCHANGED <<state, run, landed, pushes, allowed, runs>>

-----------------------------------------------------------------------------
\* What validate lets through.
Args ==
  {args \in [kinds : KindLists, filter : Filters, live : BOOLEAN, continues : BOOLEAN,
             limit : Limits, concurrency : Concurrencies] :
     (\E n \in 1..Len(args.kinds) : args.kinds[n] = Project) => args.concurrency = 1}

Run == [args : Args, n : Nat, at : {"read", "save"}, from : Nat, carried : SUBSET Id,
        read : Nat, batch : SUBSET Id, seen : Nat, failed : SUBSET Id, reopens : Nat]

ASSUME NoneAssumption == NoState \notin Checkpoint /\ NoRun \notin Run

RepushInit ==
  /\ records = Record
  /\ state = [p \in Paths |-> NoState]
  /\ run = NoRun
  /\ landed = {} /\ pushes = [rec \in Record |-> 0]
  /\ allowed = [rec \in Record |-> 0]
  /\ steady = Record
  /\ runs = 0 /\ changes = 0

RepushNext ==
  \/ \E args \in Args : Start(args)
  \/ ReadNext \/ LoseCursor \/ WriteState \/ CountBatch \/ EndKind
  \/ \E ok \in SUBSET Id : PushBatch(ok) \/ KillRun(ok)
  \/ \E rec \in Record : ChangeRecords(rec)

RepushSpec == RepushInit /\ [][RepushNext]_repushVars

-----------------------------------------------------------------------------
RepushTypeOK ==
  /\ records \subseteq Record /\ steady \subseteq records
  /\ state \in [Paths -> Checkpoint \cup {NoState}]
  /\ landed \subseteq Record
  /\ pushes \in [Record -> Nat] /\ allowed \in [Record -> Nat]
  /\ run \in Run \cup {NoRun}
  /\ run # NoRun =>
       /\ run.n \in 1..Len(run.args.kinds)
       /\ Cardinality(run.batch) =< run.args.concurrency

\* What a checkpoint says is behind it is: every row of its filter that was
\* there all the time has landed in DEMI or is among the failed ids, through
\* any kills, lost cursors and resumed runs.
CheckpointTrue ==
  \A p \in Paths :
    state[p] # NoState =>
      \A i \in state[p].filter :
        /\ i =< state[p].last
        /\ <<state[p].kind, i>> \in steady
        => <<state[p].kind, i>> \in landed \/ i \in state[p].failed

\* A record is pushed again only by a run that starts its kind over, or when it
\* was in the batch of a run that was killed before the checkpoint.
PushedOnce == \A rec \in Record : pushes[rec] =< allowed[rec]

RepushCovers == CheckpointTrue /\ PushedOnce
=============================================================================
