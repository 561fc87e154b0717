---------------------------- MODULE MCDemiMirror ----------------------------
(* Instances of DemiMirror for TLC: one process, or two whose clocks differ. *)
EXTENDS DemiMirror, TLC

NoDrift == [p \in Pod |-> 0]

\* One process runs ahead of the others by MaxDrift.
OneAhead == LET ahead == CHOOSE p \in Pod : TRUE
            IN [p \in Pod |-> IF p = ahead THEN MaxDrift ELSE 0]

Symmetry == Permutations(Writer) \cup Permutations(Sweeper)
=============================================================================
