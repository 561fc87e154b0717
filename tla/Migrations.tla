----------------------------- MODULE Migrations -----------------------------
(***************************************************************************)
(* run_migration.js: the Helm hook, and whoever runs it by hand.  Before   *)
(* it runs what is pending it fills an empty changelog: from the list that *)
(* db-migrate kept, or, on a database without data, with every migration   *)
(* older than the baseline.  Both look whether the changelog is empty, and *)
(* both fill it with one insertMany.                                       *)
(***************************************************************************)
EXTENDS Naturals, FiniteSets

CONSTANTS Old, New, \* migrations, before the baseline and after
          Runner,   \* processes, each runs once
          MaxFailures \* bounds the model

ASSUME MigrationAssumption ==
  Old \cap New = {} /\ IsFiniteSet(Runner) /\ MaxFailures \in Nat

VARIABLES changelog, \* the names migrate-mongo takes as applied
          legacy,    \* the names in db-migrate's collection
          hasDocs,   \* whether epic holds any document
          indexed,   \* the text index that old migrations would have built
          phase, pending, doing, \* where each runner is, what it found missing, and
                     \* what it has run and not logged
          applied,   \* how often each migration ran here
          begun,     \* the names that were applied when the first runner began
          halves,    \* for the properties: an insertMany that was cut short
          overlaps,  \* for the properties: two runners were under way at once
          failures

runnerVars == <<phase, pending, doing>>
migrationVars == <<changelog, legacy, hasDocs, indexed, runnerVars, applied, begun,
                   halves, overlaps, failures>>

Migration == Old \cup New
Running == {r \in Runner : phase[r] \notin {"new", "done"}}
Go(r, to) == phase' = [phase EXCEPT ![r] = to] /\ UNCHANGED <<pending, doing>>

Untouched == UNCHANGED <<legacy, hasDocs, begun, failures, halves, overlaps>>

-----------------------------------------------------------------------------
StartRunner(r) ==
  /\ phase[r] = "new"
  /\ Go(r, "seed")
  /\ overlaps' = (overlaps \/ Running # {})
  /\ UNCHANGED <<changelog, legacy, hasDocs, indexed, applied, begun, halves, failures>>

\* seedChangelog: countDocuments, then the legacy list.
SeedCount(r) ==
  /\ phase[r] = "seed"
  /\ Go(r, IF changelog # {} \/ legacy = {} THEN "baseline" ELSE "copy")
  /\ UNCHANGED <<changelog, indexed, applied>> /\ Untouched

\* An insertMany stores all its rows, or Mongo fails after some of them.
Insert(r, rows, next) ==
  \/ /\ changelog' = changelog \cup rows
     /\ Go(r, next)
     /\ UNCHANGED <<failures, halves>>
  \/ /\ failures < MaxFailures
     /\ failures' = failures + 1
     /\ \E some \in SUBSET rows : /\ changelog' = changelog \cup some
                                  /\ halves' = (halves \/ (some # {} /\ some # rows))
     /\ Go(r, "done")

SeedCopy(r) ==
  /\ phase[r] = "copy"
  /\ Insert(r, legacy, "baseline")
  /\ UNCHANGED <<legacy, hasDocs, indexed, applied, begun, overlaps>>

\* Mutant of BaselineCount: a database with documents gets the baseline too.
BaselineCountOnly(r) ==
  /\ phase[r] = "baseline"
  /\ Go(r, IF changelog # {} THEN "plan" ELSE "index")
  /\ UNCHANGED <<changelog, indexed, applied>> /\ Untouched

\* baselineFreshDb: both counts.
BaselineCount(r) ==
  /\ phase[r] = "baseline"
  /\ Go(r, IF changelog # {} \/ hasDocs THEN "plan" ELSE "index")
  /\ UNCHANGED <<changelog, indexed, applied>> /\ Untouched

\* createIndex comes before the rows.
BaselineIndex(r) ==
  /\ phase[r] = "index"
  /\ \/ indexed' = TRUE /\ Go(r, "mark") /\ failures' = failures
     \/ failures < MaxFailures /\ failures' = failures + 1 /\ indexed' = indexed /\ Go(r, "done")
  /\ UNCHANGED <<changelog, legacy, hasDocs, applied, begun, halves, overlaps>>

BaselineMark(r) ==
  /\ phase[r] = "mark"
  /\ Insert(r, Old, "plan")
  /\ UNCHANGED <<legacy, hasDocs, indexed, applied, begun, overlaps>>

\* up reads what is pending, once.
PlanUp(r) ==
  /\ phase[r] = "plan"
  /\ phase' = [phase EXCEPT ![r] = "up"]
  /\ pending' = [pending EXCEPT ![r] = Migration \ changelog]
  /\ doing' = doing
  /\ UNCHANGED <<changelog, indexed, applied>> /\ Untouched

\* Oldest first; the changelog row follows the migration.
MayRun(r, m) == m \in pending[r] /\ (m \in New => pending[r] \cap Old = {})

RunMigration(r, m) ==
  /\ phase[r] = "up" /\ MayRun(r, m)
  /\ applied' = [applied EXCEPT ![m] = @ + 1]
  /\ phase' = [phase EXCEPT ![r] = "log"]
  /\ doing' = [doing EXCEPT ![r] = {m}]
  /\ pending' = pending
  /\ UNCHANGED <<changelog, indexed>> /\ Untouched

LogMigration(r) ==
  /\ phase[r] = "log"
  /\ changelog' = changelog \cup doing[r]
  /\ phase' = [phase EXCEPT ![r] = "up"]
  /\ pending' = [pending EXCEPT ![r] = @ \ doing[r]]
  /\ doing' = [doing EXCEPT ![r] = {}]
  /\ UNCHANGED <<indexed, applied>> /\ Untouched

EndUp(r) ==
  /\ phase[r] = "up" /\ pending[r] = {}
  /\ Go(r, "done")
  /\ UNCHANGED <<changelog, indexed, applied>> /\ Untouched

\* The process dies, or a call of its fails: the run ends there.
FailRunner(r) ==
  /\ r \in Running /\ failures < MaxFailures
  /\ failures' = failures + 1
  /\ Go(r, "done")
  /\ UNCHANGED <<changelog, legacy, hasDocs, indexed, applied, begun, halves, overlaps>>

-----------------------------------------------------------------------------
\* A database migrated by db-migrate, by this script, by hand, or never.
MigrationInit ==
  /\ legacy \in SUBSET Old
  /\ changelog \in {{}} \cup {legacy \cup n : n \in SUBSET New}
  /\ hasDocs \in BOOLEAN
  /\ legacy \cup changelog # {} => hasDocs
  /\ indexed = FALSE
  /\ phase = [r \in Runner |-> "new"]
  /\ pending = [r \in Runner |-> {}] /\ doing = [r \in Runner |-> {}]
  /\ applied = [m \in Migration |-> 0]
  /\ begun = legacy \cup changelog
  /\ halves = FALSE /\ overlaps = FALSE /\ failures = 0

RunnerStep(r) ==
  \/ StartRunner(r) \/ SeedCount(r) \/ SeedCopy(r)
  \/ BaselineCount(r) \/ BaselineIndex(r) \/ BaselineMark(r)
  \/ PlanUp(r) \/ (\E m \in Migration : RunMigration(r, m)) \/ LogMigration(r) \/ EndUp(r)
  \/ FailRunner(r)

MigrationNext == \E r \in Runner : RunnerStep(r)

MigrationSpec == MigrationInit /\ [][MigrationNext]_migrationVars

-----------------------------------------------------------------------------
MigrationTypeOK ==
  /\ changelog \subseteq Migration /\ legacy \subseteq Old /\ begun \subseteq Migration
  /\ hasDocs \in BOOLEAN /\ indexed \in BOOLEAN /\ halves \in BOOLEAN /\ overlaps \in BOOLEAN
  /\ phase \in [Runner -> {"new", "seed", "copy", "baseline", "index", "mark", "plan", "up",
                        "log", "done"}]
  /\ pending \in [Runner -> SUBSET Migration] /\ doing \in [Runner -> SUBSET Migration]
  /\ applied \in [Migration -> Nat]
  /\ failures \in 0..MaxFailures

\* What was applied before is not applied again, and a database without data
\* never runs a migration older than the baseline, whoever runs the script at
\* the same time; unless Mongo failed half way through an insertMany: the rows
\* it stored make every later run skip the rest.
OldStaysApplied ==
  halves \/
    /\ \A m \in begun : applied[m] = 0
    /\ ~hasDocs => \A m \in Old : applied[m] = 0

\* A database whose old migrations were marked and not run has their index.
BaselineIndexed == ~hasDocs /\ changelog \cap Old # {} => indexed

\* A name is in the changelog because its migration was applied, here or before;
\* only a database without data has old ones marked that never ran.
MarkedWereApplied ==
  \A m \in changelog : m \in begun \/ applied[m] > 0 \/ (m \in Old /\ ~hasDocs)

\* The runners that died between a migration and its changelog row.
Died(m) == {r \in Runner : phase[r] = "done" /\ m \in doing[r]}

\* A migration runs again only after a runner that died before it could say
\* that it had run, or while another runner is under way.
RanOnce == overlaps \/ \A m \in Migration : applied[m] =< 1 + Cardinality(Died(m))

\* The promises of the script, to whoever runs it and when.
MigrationsHold == OldStaysApplied /\ MarkedWereApplied /\ BaselineIndexed /\ RanOnce
=============================================================================
