---------------------------- MODULE PushPromise -----------------------------
(***************************************************************************)
(* What a push client promises whoever calls it, and all that DemiMirror   *)
(* takes for granted of it: a call has one outcome, "landed" means that    *)
(* the service took the body, and a body may still arrive after its call   *)
(* gave up on it.                                                          *)
(***************************************************************************)
CONSTANT Call   \* the calls of push

VARIABLES outcome,  \* what the caller knows of each call
          wire,     \* calls with a request under way that the client gave up on
          taken     \* calls whose body the service took

promiseVars == <<outcome, wire, taken>>

Init == outcome = [c \in Call |-> "none"] /\ wire = {} /\ taken = {}

Ask(c) ==
  /\ outcome[c] = "none"
  /\ outcome' = [outcome EXCEPT ![c] = "asked"]
  /\ UNCHANGED <<wire, taken>>

\* Never sent at all.
Drop(c) ==
  /\ outcome[c] = "none"
  /\ outcome' = [outcome EXCEPT ![c] = "failed"]
  /\ UNCHANGED <<wire, taken>>

Land(c) ==
  /\ outcome[c] = "asked"
  /\ outcome' = [outcome EXCEPT ![c] = "landed"]
  /\ taken' = taken \cup {c}
  /\ UNCHANGED wire

\* Giving up on the last attempt is failing too.
Fail(c) ==
  /\ outcome[c] = "asked"
  /\ outcome' = [outcome EXCEPT ![c] = "failed"]
  /\ wire' \in {wire, wire \cup {c}}
  /\ UNCHANGED taken

GiveUp(c) ==
  /\ outcome[c] = "asked"
  /\ wire' = wire \cup {c}
  /\ UNCHANGED <<outcome, taken>>

DeliverLate(c) ==
  /\ c \in wire
  /\ wire' = wire \ {c}
  /\ taken' = taken \cup {c}
  /\ UNCHANGED outcome

Next == \E c \in Call :
  Ask(c) \/ Drop(c) \/ Land(c) \/ Fail(c) \/ GiveUp(c) \/ DeliverLate(c)

Spec == Init /\ [][Next]_promiseVars
=============================================================================
