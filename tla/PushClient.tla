----------------------------- MODULE PushClient -----------------------------
(***************************************************************************)
(* One outbound push client of a process: at most Concurrency calls send   *)
(* at a time, the rest wait in a queue, and past its length a call is      *)
(* dropped.  A call that ends hands its slot straight to the first that    *)
(* waits.  A send retries failures and throttles on counts of their own.   *)
(*                                                                         *)
(* The client is configured and unpaced: only a backfill sets a pacer.     *)
(***************************************************************************)
EXTENDS Integers, Sequences, FiniteSets

CONSTANTS Call,            \* the calls of push
          Concurrency,     \* DEMI_PUSH_CONCURRENCY
          QueueMax,        \* DEMI_PUSH_QUEUE_MAX
          Attempts,        \* ATTEMPTS
          ThrottleRetries  \* THROTTLE_RETRIES

ASSUME CallAssumption == IsFiniteSet(Call)
ASSUME LimitAssumption == /\ Concurrency \in Nat \ {0} /\ QueueMax \in Nat
                          /\ Attempts \in Nat \ {0} /\ ThrottleRetries \in Nat

VARIABLES
  active,    \* slots in use
  waiting,   \* calls queued for a slot
  unsent,    \* calls started and not settled, which logUnsent names at shutdown
  stage,     \* where each call stands
  landed,    \* what it resolves to
  failures,  \* fetch errors and 5xx so far
  throttles, \* 429s waited out so far
  requests,  \* HTTP requests made so far
  wire,      \* calls with a request under way that timed out
  taken      \* calls whose body the service took

slots == <<active, waiting, unsent>>
counts == <<failures, throttles, requests>>
vars == <<slots, stage, landed, counts, wire, taken>>

Stage == {"new", "waiting", "handed", "sending", "asleep", "ended", "settled"}

\* One type invariant: every variable keeps its shape.
TypeOK ==
  /\ active \in Nat
  /\ waiting \in Seq(Call)
  /\ unsent \in SUBSET Call
  /\ stage \in [Call -> Stage]
  /\ landed \in [Call -> BOOLEAN]
  /\ failures \in [Call -> 0..Attempts]
  /\ throttles \in [Call -> 0..ThrottleRetries]
  /\ requests \in [Call -> Nat]
  /\ wire \in SUBSET Call
  /\ taken \in SUBSET Call

Init ==
  /\ active = 0 /\ waiting = << >> /\ unsent = {}
  /\ stage = [c \in Call |-> "new"]
  /\ landed = [c \in Call |-> FALSE]
  /\ failures = [c \in Call |-> 0]
  /\ throttles = [c \in Call |-> 0]
  /\ requests = [c \in Call |-> 0]
  /\ wire = {} /\ taken = {}

-----------------------------------------------------------------------------
Full == active >= Concurrency /\ Len(waiting) >= QueueMax

\* Mutant of push: one slot too many is given out.
PushOverLimit(c) ==
  /\ stage[c] = "new"
  /\ \/ /\ active <= Concurrency
        /\ stage' = [stage EXCEPT ![c] = "handed"]
        /\ active' = active + 1
        /\ unsent' = unsent \cup {c}
        /\ UNCHANGED waiting
     \/ /\ active > Concurrency
        /\ stage' = [stage EXCEPT ![c] = "waiting"]
        /\ waiting' = Append(waiting, c)
        /\ unsent' = unsent \cup {c}
        /\ UNCHANGED active
  /\ UNCHANGED <<landed, counts, wire, taken>>

\* A call comes in: it is dropped, takes a slot, or waits for one.
PushBody(c) ==
  /\ stage[c] = "new"
  /\ \/ /\ Full
        /\ stage' = [stage EXCEPT ![c] = "settled"]
        /\ UNCHANGED slots
     \/ /\ active < Concurrency
        /\ stage' = [stage EXCEPT ![c] = "handed"]
        /\ active' = active + 1
        /\ unsent' = unsent \cup {c}
        /\ UNCHANGED waiting
     \/ /\ active >= Concurrency /\ ~Full
        /\ stage' = [stage EXCEPT ![c] = "waiting"]
        /\ waiting' = Append(waiting, c)
        /\ unsent' = unsent \cup {c}
        /\ UNCHANGED active
  /\ UNCHANGED <<landed, counts, wire, taken>>

\* With a slot of its own, or after a pause, the call makes its next request.
Fetch(c) ==
  /\ stage[c] \in {"handed", "asleep"}
  /\ stage' = [stage EXCEPT ![c] = "sending"]
  /\ requests' = [requests EXCEPT ![c] = @ + 1]
  /\ UNCHANGED <<slots, landed, failures, throttles, wire, taken>>

\* The service takes the body and answers in time.
Accepted(c) ==
  /\ stage[c] = "sending"
  /\ stage' = [stage EXCEPT ![c] = "ended"]
  /\ landed' = [landed EXCEPT ![c] = TRUE]
  /\ taken' = taken \cup {c}
  /\ UNCHANGED <<slots, counts, wire>>

\* Mutant of Rejected: an answer below 500 passes for a landing.
RejectedLands(c) ==
  /\ stage[c] = "sending"
  /\ stage' = [stage EXCEPT ![c] = "ended"]
  /\ landed' = [landed EXCEPT ![c] = TRUE]
  /\ UNCHANGED <<slots, counts, wire, taken>>

\* Any other answer below 500 is final.
Rejected(c) ==
  /\ stage[c] = "sending"
  /\ stage' = [stage EXCEPT ![c] = "ended"]
  /\ UNCHANGED <<slots, landed, counts, wire, taken>>

\* Mutant of Throttled: 429s are waited out for ever.
ThrottledEver(c) ==
  /\ stage[c] = "sending"
  /\ throttles' = [throttles EXCEPT ![c] = @ + 1]
  /\ stage' = [stage EXCEPT ![c] = "asleep"]
  /\ UNCHANGED <<slots, landed, failures, requests, wire, taken>>

\* A 429 within its own count is waited out; past it, it is one of Rejected's answers.
Throttled(c) ==
  /\ stage[c] = "sending"
  /\ throttles[c] < ThrottleRetries
  /\ throttles' = [throttles EXCEPT ![c] = @ + 1]
  /\ stage' = [stage EXCEPT ![c] = "asleep"]
  /\ UNCHANGED <<slots, landed, failures, requests, wire, taken>>

\* A 5xx, a fetch error, or a timeout, which may leave the request under way.
Failed(c) ==
  /\ stage[c] = "sending"
  /\ failures' = [failures EXCEPT ![c] = @ + 1]
  /\ stage' = [stage EXCEPT ![c] = IF failures[c] + 1 >= Attempts THEN "ended" ELSE "asleep"]
  /\ wire' \in {wire, wire \cup {c}}
  /\ UNCHANGED <<slots, landed, throttles, requests, taken>>

\* Mutants of Release: a hand-over leaves the entry among the unsent; nobody is woken.
ReleaseStillListed(c) ==
  /\ stage[c] = "ended"
  /\ \/ /\ waiting = << >>
        /\ active' = active - 1
        /\ unsent' = unsent \ {c}
        /\ stage' = [stage EXCEPT ![c] = "settled"]
        /\ UNCHANGED waiting
     \/ /\ waiting # << >>
        /\ stage' = [stage EXCEPT ![c] = "settled", ![Head(waiting)] = "handed"]
        /\ waiting' = Tail(waiting)
        /\ UNCHANGED <<active, unsent>>
  /\ UNCHANGED <<landed, counts, wire, taken>>
ReleaseOnly(c) ==
  /\ stage[c] = "ended"
  /\ active' = active - 1
  /\ unsent' = unsent \ {c}
  /\ stage' = [stage EXCEPT ![c] = "settled"]
  /\ UNCHANGED <<waiting, landed, counts, wire, taken>>

\* The slot goes to the first that waits, active staying as it was, or is given up.
Release(c) ==
  /\ stage[c] = "ended"
  /\ unsent' = unsent \ {c}
  /\ \/ /\ waiting = << >>
        /\ active' = active - 1
        /\ stage' = [stage EXCEPT ![c] = "settled"]
        /\ UNCHANGED waiting
     \/ /\ waiting # << >>
        /\ stage' = [stage EXCEPT ![c] = "settled", ![Head(waiting)] = "handed"]
        /\ waiting' = Tail(waiting)
        /\ UNCHANGED active
  /\ UNCHANGED <<landed, counts, wire, taken>>

\* A request that timed out reaches the service after all.
Arrive(c) ==
  /\ c \in wire
  /\ wire' = wire \ {c}
  /\ taken' = taken \cup {c}
  /\ UNCHANGED <<slots, stage, landed, counts>>

-----------------------------------------------------------------------------
Send(c) ==
  Fetch(c) \/ Accepted(c) \/ Rejected(c) \/ Throttled(c) \/ Failed(c) \/ Release(c)

Next == \E c \in Call : PushBody(c) \/ Send(c) \/ Arrive(c)

Spec == Init /\ [][Next]_vars

\* AbortSignal.timeout ends every request, and a pause is a timer: what has a slot goes on.
FairSpec == Spec /\ \A c \in Call : WF_vars(Send(c))

-----------------------------------------------------------------------------
(* Properties *)

Holding == {c \in Call : stage[c] \in {"handed", "sending", "asleep", "ended"}}

\* The count that decides who may send is the number of calls that do, across every
\* hand-over, and it never passes the limit.
SlotsAccounted == active = Cardinality(Holding) /\ active <= Concurrency

\* Nobody waits while a slot is free.
NoIdleSlot == waiting # << >> => active = Concurrency

\* A call that comes in never takes a slot ahead of one that waits.
NoOvertaking ==
  [][\A c \in Call : stage[c] = "new" /\ stage'[c] = "handed" => waiting = << >>]_vars

\* The two retry counts together bound what one call asks of the service.
RequestsBounded == \A c \in Call : requests[c] <= Attempts + ThrottleRetries

\* Whatever shutdown takes with it is named: the calls that started and did not settle.
UnsentIsExact == unsent = {c \in Call : stage[c] \notin {"new", "settled"}}

\* Every call that is not dropped is answered.
EveryCallSettles == \A c \in Call : stage[c] # "new" ~> stage[c] = "settled"

-----------------------------------------------------------------------------
\* What the caller knows: the outcome is set once the send is over.
outcome == [c \in Call |->
  IF stage[c] = "new" THEN "none"
  ELSE IF stage[c] \notin {"ended", "settled"} THEN "asked"
  ELSE IF landed[c] THEN "landed" ELSE "failed"]

Promise == INSTANCE PushPromise WITH outcome <- outcome, wire <- wire, taken <- taken

\* The client keeps the promise DemiMirror is built on, queue, slots and retries included.
KeepsPromise == Promise!Spec
=============================================================================
