----------------------------- MODULE PinRepair -----------------------------
(***************************************************************************)
(* dedupe-project-pins.js on one project, while staff pin and unpin: it    *)
(* reads the pins, writes them without their repeats if they still are     *)
(* what it read, and pushes the project to DEMI.                           *)
(***************************************************************************)
EXTENDS Naturals, SequencesExt, Picks

CONSTANTS Pin, MaxPins,      \* organizations, and how many a project repeats
          MaxTries, MaxPinEdits \* bound the model

ASSUME PinAssumption ==
  IsFiniteSet(Pin) /\ MaxPins \in Nat /\ MaxTries \in Nat /\ MaxPinEdits \in Nat

VARIABLES pins,   \* the project's pins in Mongo
          wanted, \* the organizations that staff left pinned
          shown,  \* the pins DEMI has
          script, \* the script's run
          unsaid, \* a run died, or was told to push nothing
          named,  \* a run said that the project was not fixed or not pushed
          edited, tries

pinVars == <<pins, wanted, shown, script, unsaid, named, edited, tries>>

Idle == [at |-> "idle", read |-> <<>>, noDemi |-> FALSE]
Repeated(s) == Len(s) # Cardinality(ToSet(s))

\* dedupePins: the first copy of each id stays, in its place.
DedupePins(s) == Picked(s, {n \in DOMAIN s : \A m \in 1..n - 1 : s[m] # s[n]})

-----------------------------------------------------------------------------
\* protectedAddPins ($addToSet) and protectedPinDelete ($pull), with the push
\* of theirs.
AddPin(p) ==
  /\ edited < MaxPinEdits /\ p \notin ToSet(pins)
  /\ edited' = edited + 1
  /\ pins' = Append(pins, p)
  /\ wanted' = wanted \cup {p}
  /\ shown' = pins'
  /\ UNCHANGED <<script, unsaid, named, tries>>

DeletePin(p) ==
  /\ edited < MaxPinEdits /\ p \in ToSet(pins)
  /\ edited' = edited + 1
  /\ pins' = Pulled(pins, p)
  /\ wanted' = wanted \ {p}
  /\ shown' = pins'
  /\ UNCHANGED <<script, unsaid, named, tries>>

\* A run with --apply looks for projects whose pins repeat; it may be told
\* --no-demi.
FindRepeated(noDemi) ==
  /\ script.at = "idle" /\ tries < MaxTries
  /\ tries' = tries + 1
  /\ script' = IF Repeated(pins) THEN [at |-> "write", read |-> pins, noDemi |-> noDemi]
                                 ELSE Idle
  /\ UNCHANGED <<pins, wanted, shown, unsaid, named, edited>>

\* The filter of the write: the pins as they were read.
AsRead == pins = script.read

WriteDeduped ==
  /\ script.at = "write"
  /\ IF AsRead
     THEN /\ pins' = DedupePins(script.read)
          /\ script' = IF script.noDemi THEN Idle ELSE [script EXCEPT !.at = "push"]
          /\ unsaid' = (unsaid \/ script.noDemi)
          /\ named' = named
     ELSE named' = TRUE /\ script' = Idle /\ UNCHANGED <<pins, unsaid>>
  /\ UNCHANGED <<wanted, shown, edited, tries>>

\* The push sends the row as it is by then.
PushProject(ok) ==
  /\ script.at = "push"
  /\ shown' = IF ok THEN pins ELSE shown
  /\ named' = (named \/ ~ok)
  /\ script' = Idle
  /\ UNCHANGED <<pins, wanted, unsaid, edited, tries>>

DieInRepair ==
  /\ script # Idle
  /\ script' = Idle /\ unsaid' = TRUE
  /\ UNCHANGED <<pins, wanted, shown, named, edited, tries>>

-----------------------------------------------------------------------------
PinInit ==
  /\ pins \in UNION {[1..n -> Pin] : n \in 0..MaxPins}
  /\ wanted = ToSet(pins)
  /\ shown = pins
  /\ script = Idle
  /\ unsaid = FALSE /\ named = FALSE
  /\ edited = 0 /\ tries = 0

PinNext ==
  \/ \E p \in Pin : AddPin(p) \/ DeletePin(p)
  \/ \E noDemi \in BOOLEAN : FindRepeated(noDemi)
  \/ WriteDeduped \/ DieInRepair
  \/ \E ok \in BOOLEAN : PushProject(ok)

PinSpec == PinInit /\ [][PinNext]_pinVars

-----------------------------------------------------------------------------
PinTypeOK ==
  /\ pins \in Seq(Pin) /\ shown \in Seq(Pin) /\ wanted \subseteq Pin
  /\ script \in [at : {"idle", "write", "push"}, read : Seq(Pin), noDemi : BOOLEAN]
  /\ unsaid \in BOOLEAN /\ named \in BOOLEAN
  /\ edited \in 0..MaxPinEdits /\ tries \in 0..MaxTries

\* The repair undoes nothing that staff did while it ran, and a project whose
\* repeats are gone from Mongo has lost them in DEMI too, or a run said that it
\* failed, or died, or was told not to push: a later run finds no repeats and
\* pushes nothing.
PinsRepaired ==
  /\ ToSet(pins) = wanted
  /\ ~Repeated(pins) /\ script = Idle => ~Repeated(shown) \/ named \/ unsaid
=============================================================================
