--------------------------- MODULE MirrorPromise ----------------------------
(***************************************************************************)
(* What mirroring promises of one record to those who read it in DEMI,     *)
(* whatever pushes, flags, tombstones and sweeps it takes: DEMI never goes *)
(* back, what was written stays owed until DEMI agrees, and nothing is     *)
(* owed without a write.                                                   *)
(***************************************************************************)
EXTENDS Naturals

VARIABLES row,   \* the record in Mongo: its version and whether it still exists
          shown, \* what DEMI shows: a version, or its deletion; "copy" is a caller's copy
          owed,  \* something is under way to DEMI or waits for a sweep
          lost   \* an outcome was lost with its process or its Mongo write, and logged

promiseVars == <<row, shown, owed, lost>>

Agrees == IF row.live THEN ~shown.del /\ shown.ver = row.ver ELSE shown.del

Init ==
  /\ row = [ver |-> 1, live |-> TRUE]
  /\ shown = [ver |-> 1, del |-> FALSE, copy |-> FALSE]
  /\ owed = FALSE /\ lost = FALSE

Write ==
  /\ row.live
  /\ row' = [row EXCEPT !.ver = @ + 1]
  /\ owed' = TRUE
  /\ UNCHANGED <<shown, lost>>

Remove ==
  /\ row.live
  /\ row' = [row EXCEPT !.live = FALSE]
  /\ owed' = TRUE
  /\ UNCHANGED <<shown, lost>>

\* No more is owed than before, and less only if DEMI agrees, or one of the two
\* ways out was taken.
OwesNoLess ==
  /\ owed' => owed
  /\ owed' \/ Agrees' \/ shown'.copy \/ lost'

\* DEMI takes a body: never one that the row has not had, nor, but for a
\* caller's copy, one older than what it shows.
Show ==
  /\ shown'.ver =< row.ver /\ (shown'.del => ~row.live)
  /\ shown'.copy \/ (shown.ver =< shown'.ver /\ (shown.del => shown'.del))
  /\ OwesNoLess
  /\ UNCHANGED <<row, lost>>

\* Nothing more is to be done.
Rest == OwesNoLess /\ UNCHANGED <<row, shown, lost>>

Lose == lost' = TRUE /\ OwesNoLess /\ UNCHANGED <<row, shown>>

Next == Write \/ Remove \/ Show \/ Rest \/ Lose

Spec == Init /\ [][Next]_promiseVars
=============================================================================
