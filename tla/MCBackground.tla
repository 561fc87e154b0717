---------------------------- MODULE MCBackground ----------------------------
(***************************************************************************)
(* What happens outside a request, or after it was answered.  A behaviour  *)
(* follows one of the parts, which `focus' names: they share no state, so a *)
(* product of them would show nothing more.                                *)
(***************************************************************************)
EXTENDS PodLifecycle, ConfigMirror, Backlog, Repush, Migrations, PinRepair, TLC

CONSTANTS cron, start,       \* sweeps: the daily job's and a starting pod's
          parents, children \* kinds

VARIABLE focus

backVars == <<podVars, configVars, backlogVars, repushVars, migrationVars, pinVars, focus>>

SweepLimit == cron :> 1 @@ start :> 2
PushKinds == {<<children>>, <<parents, children>>}

\* A part that is not followed keeps one of its initial states; the hand edits
\* reach every configuration from the one they start from.
Quiet ==
  /\ config = IF focus = "config" THEN CHOOSE value \in Value \ Malformed : TRUE ELSE Nothing
  /\ focus # "backlog" => queue = <<>>
  /\ focus # "migrations" => legacy = {} /\ changelog = {} /\ ~hasDocs
  /\ focus # "pins" => pins = <<>>

BackInit ==
  /\ focus \in {"pod", "config", "backlog", "repush", "migrations", "pins"}
  /\ PodInit /\ ConfigInit /\ BacklogInit /\ RepushInit /\ MigrationInit /\ PinInit
  /\ Quiet

PodPart ==
  /\ focus = "pod" /\ PodNext
  /\ UNCHANGED <<configVars, backlogVars, repushVars, migrationVars, pinVars, focus>>

ConfigPart ==
  /\ focus = "config" /\ ConfigNext
  /\ UNCHANGED <<podVars, backlogVars, repushVars, migrationVars, pinVars, focus>>

BacklogPart ==
  /\ focus = "backlog" /\ BacklogNext
  /\ UNCHANGED <<podVars, configVars, repushVars, migrationVars, pinVars, focus>>

RepushPart ==
  /\ focus = "repush" /\ RepushNext
  /\ UNCHANGED <<podVars, configVars, backlogVars, migrationVars, pinVars, focus>>

MigrationPart ==
  /\ focus = "migrations" /\ MigrationNext
  /\ UNCHANGED <<podVars, configVars, backlogVars, repushVars, pinVars, focus>>

PinPart ==
  /\ focus = "pins" /\ PinNext
  /\ UNCHANGED <<podVars, configVars, backlogVars, repushVars, migrationVars, focus>>

BackNext ==
  PodPart \/ ConfigPart \/ BacklogPart \/ RepushPart \/ MigrationPart \/ PinPart

BackSpec ==
  /\ BackInit /\ [][BackNext]_backVars
  /\ BacklogFairness
  /\ focus = "config" => ConfigFairness

\* The maintenance scripts, as they are run again after whatever ended the run
\* before, leave no row unpushed that they say is done, and undo nothing that
\* staff did meanwhile.
ScriptsHold == RepushCovers /\ PinsRepaired
=============================================================================
