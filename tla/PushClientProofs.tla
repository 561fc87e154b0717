-------------------------- MODULE PushClientProofs --------------------------
(***************************************************************************)
(* Proofs, for any number of calls and any limits, that the push client    *)
(* accounts for its slots, bounds its requests, keeps its queue fair and   *)
(* implements PushPromise.                                                 *)
(***************************************************************************)
EXTENDS PushClient, FiniteSetTheorems, SequenceTheorems, TLAPS

-----------------------------------------------------------------------------
(* The inductive invariant. *)

\* The queue holds calls that wait, each of them once.
QueueHoldsWaiting ==
  /\ \A i \in 1..Len(waiting) : stage[waiting[i]] = "waiting"
  /\ \A i, j \in 1..Len(waiting) : waiting[i] = waiting[j] => i = j

\* Every request but the one being made was counted as a failure or a throttle.
RequestsCounted ==
  \A c \in Call :
    /\ stage[c] \in {"new", "waiting", "handed", "asleep"} =>
         failures[c] < Attempts /\ requests[c] <= failures[c] + throttles[c]
    /\ stage[c] = "sending" =>
         failures[c] < Attempts /\ requests[c] <= failures[c] + throttles[c] + 1
    /\ requests[c] <= Attempts + ThrottleRetries

\* Nothing has landed before its send is over.
LandedAtEnd == \A c \in Call : stage[c] \notin {"ended", "settled"} => ~landed[c]

SlotInv == SlotsAccounted /\ NoIdleSlot
Inv == TypeOK /\ SlotInv /\ QueueHoldsWaiting /\ RequestsCounted /\ LandedAtEnd /\ UnsentIsExact

-----------------------------------------------------------------------------
(* Lemmas *)

\* The holders of slots are finitely many.
LEMMA HoldingFinite == IsFiniteSet(Holding)
BY CallAssumption, FS_Subset DEF Holding

\* A slot more or less is a holder more or less.
LEMMA OneMore ==
  ASSUME NEW S, IsFiniteSet(S), NEW c, c \notin S
  PROVE  Cardinality(S \cup {c}) = Cardinality(S) + 1
BY FS_AddElement

\* One leaves.
LEMMA OneLess ==
  ASSUME NEW S, IsFiniteSet(S), NEW c \in S
  PROVE  Cardinality(S \ {c}) = Cardinality(S) - 1
BY FS_RemoveElement

\* A hand-over leaves as many holders as there were.
LEMMA HandOver ==
  ASSUME NEW S, IsFiniteSet(S), NEW c \in S, NEW d, d \notin S
  PROVE  Cardinality((S \ {c}) \cup {d}) = Cardinality(S)
<1>1. IsFiniteSet(S \ {c}) /\ Cardinality(S \ {c}) = Cardinality(S) - 1
  BY FS_RemoveElement
<1>2. Cardinality((S \ {c}) \cup {d}) = Cardinality(S \ {c}) + 1
  BY <1>1, OneMore
<1>3. Cardinality(S) \in Nat
  BY FS_CardinalityType
<1>. QED BY <1>1, <1>2, <1>3

-----------------------------------------------------------------------------
(* Type correctness *)

\* The initial state satisfies the whole invariant.
LEMMA InitInv == Init => Inv
<1>. SUFFICES ASSUME Init PROVE Inv
  OBVIOUS
<1>1. TypeOK
  BY LimitAssumption DEF Init, TypeOK, Stage
<1>2. SlotInv
  <2>1. Holding = {}
    BY DEF Init, Holding
  <2>. QED BY <2>1, FS_EmptySet, LimitAssumption DEF Init, SlotInv, SlotsAccounted, NoIdleSlot
<1>3. QueueHoldsWaiting /\ LandedAtEnd /\ UnsentIsExact
  BY DEF Init, QueueHoldsWaiting, LandedAtEnd, UnsentIsExact
<1>4. RequestsCounted
  BY LimitAssumption DEF Init, RequestsCounted
<1>. QED BY <1>1, <1>2, <1>3, <1>4 DEF Inv

\* Every step keeps the types.
LEMMA TypeStep == Inv /\ [Next]_vars => TypeOK'
<1>. SUFFICES ASSUME Inv, [Next]_vars PROVE TypeOK'
  OBVIOUS
<1>. USE LimitAssumption DEF Inv, TypeOK, Stage
<1>1. ASSUME NEW c \in Call, PushBody(c) PROVE TypeOK'
  <2>1. active' \in Nat /\ unsent' \in SUBSET Call /\ waiting' \in Seq(Call)
    <3>1. /\ active' \in {active, active + 1}
          /\ unsent' \in {unsent, unsent \cup {c}}
          /\ waiting' = waiting \/ waiting' = Append(waiting, c)
      BY <1>1 DEF PushBody, slots
    <3>2. Append(waiting, c) \in Seq(Call)
      OBVIOUS
    <3>3. active' \in Nat
      BY <3>1
    <3>4. unsent' \in SUBSET Call
      BY <3>1
    <3>. QED BY <3>1, <3>2, <3>3, <3>4
  <2>2. stage' \in [Call -> Stage]
    <3>1. PICK s \in {"settled", "handed", "waiting"} : stage' = [stage EXCEPT ![c] = s]
      BY <1>1 DEF PushBody
    <3>. QED BY <3>1
  <2>. QED BY <1>1, <2>1, <2>2 DEF PushBody, counts
<1>2. ASSUME NEW c \in Call, Fetch(c) PROVE TypeOK'
  BY <1>2 DEF Fetch, slots
<1>3. ASSUME NEW c \in Call, Accepted(c) PROVE TypeOK'
  BY <1>3 DEF Accepted, slots, counts
<1>4. ASSUME NEW c \in Call, Rejected(c) PROVE TypeOK'
  BY <1>4 DEF Rejected, slots, counts
<1>5. ASSUME NEW c \in Call, Throttled(c) PROVE TypeOK'
  BY <1>5 DEF Throttled, slots
<1>6. ASSUME NEW c \in Call, Failed(c) PROVE TypeOK'
  BY <1>6 DEF Failed, slots, RequestsCounted
<1>7. ASSUME NEW c \in Call, Release(c) PROVE TypeOK'
  <2>1. active' \in Nat
    <3>1. c \in Holding
      BY <1>7 DEF Release, Holding
    <3>2. Cardinality(Holding) # 0
      BY <3>1, HoldingFinite, FS_EmptySet
    <3>. QED BY <1>7, <3>2 DEF Release, SlotInv, SlotsAccounted
  <2>2. waiting' \in Seq(Call) /\ stage' \in [Call -> Stage]
    <3>1. CASE waiting = << >>
      BY <1>7, <3>1 DEF Release
    <3>2. CASE waiting # << >>
      <4>1. Tail(waiting) \in Seq(Call)
        BY <3>2
      <4>2. /\ waiting' = Tail(waiting)
            /\ stage' = [stage EXCEPT ![c] = "settled", ![Head(waiting)] = "handed"]
        BY <1>7, <3>2 DEF Release
      <4>. QED BY <4>1, <4>2
    <3>. QED BY <3>1, <3>2
  <2>. QED BY <1>7, <2>1, <2>2 DEF Release, counts
<1>8. ASSUME NEW c \in Call, Arrive(c) PROVE TypeOK'
  BY <1>8 DEF Arrive, slots, counts
<1>9. CASE UNCHANGED vars
  BY <1>9 DEF vars, slots, counts
<1>. QED BY <1>1, <1>2, <1>3, <1>4, <1>5, <1>6, <1>7, <1>8, <1>9 DEF Next, Send

-----------------------------------------------------------------------------
(* Slots and the queue *)

\* The steps of a send move no slot.
LEMMA SendKeepsSlots ==
  ASSUME Inv, NEW c \in Call,
         Fetch(c) \/ Accepted(c) \/ Rejected(c) \/ Throttled(c) \/ Failed(c)
  PROVE  SlotInv' /\ QueueHoldsWaiting' /\ UnsentIsExact'
<1>1. UNCHANGED slots
  BY DEF Fetch, Accepted, Rejected, Throttled, Failed
<1>2. PICK s \in {"sending", "ended", "asleep"} : stage' = [stage EXCEPT ![c] = s]
  BY DEF Fetch, Accepted, Rejected, Throttled, Failed
<1>3. stage[c] \in {"handed", "asleep", "sending"}
  BY DEF Fetch, Accepted, Rejected, Throttled, Failed
<1>4. stage \in [Call -> Stage] /\ waiting \in Seq(Call)
  BY DEF Inv, TypeOK
<1>5. Holding' = Holding
  BY <1>2, <1>3, <1>4 DEF Holding
<1>6. SlotInv'
  BY <1>1, <1>5 DEF Inv, SlotInv, SlotsAccounted, NoIdleSlot, slots
<1>7. QueueHoldsWaiting'
  BY <1>1, <1>2, <1>3, <1>4 DEF Inv, QueueHoldsWaiting, slots
<1>8. UnsentIsExact'
  BY <1>1, <1>2, <1>3, <1>4 DEF Inv, UnsentIsExact, slots
<1>. QED BY <1>6, <1>7, <1>8

\* A call that comes in is counted, queued or dropped.
LEMMA PushKeepsSlots ==
  ASSUME Inv, NEW c \in Call, PushBody(c)
  PROVE  SlotInv' /\ QueueHoldsWaiting' /\ UnsentIsExact'
<1>0. /\ stage \in [Call -> Stage] /\ waiting \in Seq(Call) /\ active \in Nat
      /\ stage[c] = "new" /\ c \notin Holding
      /\ Concurrency \in Nat \ {0} /\ QueueMax \in Nat
  BY LimitAssumption DEF Inv, TypeOK, PushBody, Holding
<1>1. CASE Full /\ stage' = [stage EXCEPT ![c] = "settled"] /\ UNCHANGED slots
  <2>1. Holding' = Holding
    BY <1>0, <1>1 DEF Holding
  <2>2. SlotInv'
    BY <1>1, <2>1 DEF Inv, SlotInv, SlotsAccounted, NoIdleSlot, slots
  <2>3. QueueHoldsWaiting' /\ UnsentIsExact'
    BY <1>0, <1>1 DEF Inv, QueueHoldsWaiting, UnsentIsExact, slots
  <2>. QED BY <2>2, <2>3
<1>2. CASE /\ active < Concurrency
           /\ stage' = [stage EXCEPT ![c] = "handed"]
           /\ active' = active + 1
           /\ unsent' = unsent \cup {c}
           /\ UNCHANGED waiting
  <2>1. Holding' = Holding \cup {c}
    BY <1>0, <1>2 DEF Holding
  <2>2. Cardinality(Holding') = Cardinality(Holding) + 1
    BY <1>0, <2>1, HoldingFinite, OneMore
  <2>3. waiting = << >>
    BY <1>0, <1>2 DEF Inv, SlotInv, NoIdleSlot
  <2>4. SlotInv'
    BY <1>0, <1>2, <2>2, <2>3 DEF Inv, SlotInv, SlotsAccounted, NoIdleSlot
  <2>5. QueueHoldsWaiting' /\ UnsentIsExact'
    BY <1>0, <1>2 DEF Inv, QueueHoldsWaiting, UnsentIsExact
  <2>. QED BY <2>4, <2>5
<1>3. CASE /\ active >= Concurrency /\ ~Full
           /\ stage' = [stage EXCEPT ![c] = "waiting"]
           /\ waiting' = Append(waiting, c)
           /\ unsent' = unsent \cup {c}
           /\ UNCHANGED active
  <2>1. Holding' = Holding
    BY <1>0, <1>3 DEF Holding
  <2>2. SlotInv'
    BY <1>0, <1>3, <2>1 DEF Inv, SlotInv, SlotsAccounted, NoIdleSlot
  <2>3. QueueHoldsWaiting'
    BY <1>0, <1>3 DEF Inv, QueueHoldsWaiting
  <2>4. UnsentIsExact'
    BY <1>0, <1>3 DEF Inv, UnsentIsExact
  <2>. QED BY <2>2, <2>3, <2>4
<1>. QED BY <1>1, <1>2, <1>3 DEF PushBody

\* A call that ends gives its slot back or hands it over.
LEMMA ReleaseKeepsSlots ==
  ASSUME Inv, NEW c \in Call, Release(c)
  PROVE  SlotInv' /\ QueueHoldsWaiting' /\ UnsentIsExact'
<1>0. /\ stage \in [Call -> Stage] /\ waiting \in Seq(Call) /\ active \in Nat
      /\ stage[c] = "ended" /\ c \in Holding /\ unsent' = unsent \ {c}
      /\ Concurrency \in Nat \ {0}
  BY LimitAssumption DEF Inv, TypeOK, Release, Holding
<1>1. CASE /\ waiting = << >> /\ active' = active - 1
           /\ stage' = [stage EXCEPT ![c] = "settled"] /\ UNCHANGED waiting
  <2>1. Holding' = Holding \ {c}
    BY <1>0, <1>1 DEF Holding
  <2>2. Cardinality(Holding') = Cardinality(Holding) - 1
    BY <1>0, <2>1, HoldingFinite, OneLess
  <2>3. SlotInv'
    BY <1>0, <1>1, <2>2 DEF Inv, SlotInv, SlotsAccounted, NoIdleSlot
  <2>4. QueueHoldsWaiting' /\ UnsentIsExact'
    BY <1>0, <1>1 DEF Inv, QueueHoldsWaiting, UnsentIsExact
  <2>. QED BY <2>3, <2>4
<1>2. CASE /\ waiting # << >> /\ waiting' = Tail(waiting) /\ UNCHANGED active
           /\ stage' = [stage EXCEPT ![c] = "settled", ![Head(waiting)] = "handed"]
  <2>1. /\ Head(waiting) \in Call /\ Head(waiting) = waiting[1] /\ 1 \in 1..Len(waiting)
        /\ Tail(waiting) \in Seq(Call) /\ Len(Tail(waiting)) = Len(waiting) - 1
        /\ \A i \in 1..Len(Tail(waiting)) : Tail(waiting)[i] = waiting[i + 1]
    BY <1>0, <1>2, HeadTailProperties
  <2>2. stage[Head(waiting)] = "waiting" /\ Head(waiting) # c /\ Head(waiting) \notin Holding
    BY <1>0, <2>1 DEF Inv, QueueHoldsWaiting, Holding
  <2>3. Holding' = (Holding \ {c}) \cup {Head(waiting)}
    BY <1>0, <1>2, <2>1, <2>2 DEF Holding
  <2>4. Cardinality(Holding') = Cardinality(Holding)
    BY <1>0, <2>2, <2>3, HoldingFinite, HandOver
  <2>5. SlotInv'
    BY <1>2, <2>4 DEF Inv, SlotInv, SlotsAccounted, NoIdleSlot
  <2>6. QueueHoldsWaiting'
    <3>. DEFINE q == Tail(waiting)
    <3>1. ASSUME NEW i \in 1..Len(q)
          PROVE  i + 1 \in 1..Len(waiting) /\ q[i] = waiting[i + 1] /\ i + 1 # 1
      BY <1>0, <2>1
    <3>2. ASSUME NEW i \in 1..Len(q) PROVE stage'[q[i]] = "waiting"
      <4>1. stage[q[i]] = "waiting" /\ q[i] # waiting[1] /\ q[i] \in Call
        BY <1>0, <2>1, <3>1 DEF Inv, QueueHoldsWaiting
      <4>. QED BY <1>0, <1>2, <2>1, <4>1
    <3>3. ASSUME NEW i \in 1..Len(q), NEW j \in 1..Len(q), q[i] = q[j] PROVE i = j
      <4>1. i + 1 = j + 1
        BY <3>1, <3>3 DEF Inv, QueueHoldsWaiting
      <4>. QED BY <4>1
    <3>. QED BY <1>2, <3>2, <3>3 DEF QueueHoldsWaiting
  <2>7. UnsentIsExact'
    BY <1>0, <1>2, <2>1, <2>2 DEF Inv, UnsentIsExact
  <2>. QED BY <2>5, <2>6, <2>7
<1>. QED BY <1>1, <1>2 DEF Release

-----------------------------------------------------------------------------
(* Requests and outcomes *)

\* Every step keeps the request count and the outcome in order.
LEMMA CountStep == Inv /\ [Next]_vars => RequestsCounted' /\ LandedAtEnd'
<1>. SUFFICES ASSUME Inv, [Next]_vars PROVE RequestsCounted' /\ LandedAtEnd'
  OBVIOUS
<1>0. TypeOK
  BY DEF Inv
<1>. USE LimitAssumption DEF TypeOK, RequestsCounted, LandedAtEnd
<1>1. ASSUME NEW c \in Call, PushBody(c) PROVE RequestsCounted' /\ LandedAtEnd'
  BY <1>0, <1>1 DEF Inv, PushBody, counts
<1>2. ASSUME NEW c \in Call, Fetch(c) PROVE RequestsCounted' /\ LandedAtEnd'
  <2>1. /\ failures[c] < Attempts
        /\ requests[c] <= failures[c] + throttles[c]
        /\ requests'[c] = requests[c] + 1
        /\ stage'[c] = "sending"
        /\ \A d \in Call \ {c} : stage'[d] = stage[d] /\ requests'[d] = requests[d]
        /\ UNCHANGED <<failures, throttles, landed>>
    BY <1>0, <1>2 DEF Inv, Fetch
  <2>2. requests'[c] <= Attempts + ThrottleRetries
    BY <1>0, <2>1
  <2>3. RequestsCounted /\ LandedAtEnd
    BY DEF Inv
  <2>4. RequestsCounted'
    <3>1. ASSUME NEW d \in Call, d # c
          PROVE  /\ stage'[d] = stage[d] /\ requests'[d] = requests[d]
                 /\ failures'[d] = failures[d] /\ throttles'[d] = throttles[d]
      BY <2>1, <3>1
    <3>2. UNCHANGED <<failures, throttles>> /\ stage'[c] = "sending"
          /\ requests'[c] <= failures[c] + throttles[c] + 1
      BY <1>0, <2>1
    <3>. QED BY <2>1, <2>2, <2>3, <3>1, <3>2
  <2>5. LandedAtEnd'
    BY <1>0, <1>2, <2>1, <2>3 DEF Fetch
  <2>. QED BY <2>4, <2>5
<1>3. ASSUME NEW c \in Call, Accepted(c) PROVE RequestsCounted' /\ LandedAtEnd'
  BY <1>0, <1>3 DEF Inv, Accepted, counts
<1>4. ASSUME NEW c \in Call, Rejected(c) PROVE RequestsCounted' /\ LandedAtEnd'
  BY <1>0, <1>4 DEF Inv, Rejected, counts
<1>5. ASSUME NEW c \in Call, Throttled(c) PROVE RequestsCounted' /\ LandedAtEnd'
  BY <1>0, <1>5 DEF Inv, Throttled
<1>6. ASSUME NEW c \in Call, Failed(c) PROVE RequestsCounted' /\ LandedAtEnd'
  BY <1>0, <1>6 DEF Inv, Failed
<1>7. ASSUME NEW c \in Call, Release(c) PROVE RequestsCounted' /\ LandedAtEnd'
  <2>1. waiting # << >> => Head(waiting) \in Call /\ stage[Head(waiting)] = "waiting"
    BY <1>0 DEF Inv, QueueHoldsWaiting
  <2>2. UNCHANGED <<counts, landed>>
    BY <1>7 DEF Release
  <2>3. \A d \in Call : \/ stage'[d] = stage[d]
                        \/ stage'[d] = "settled" /\ stage[d] = "ended"
                        \/ stage'[d] = "handed" /\ stage[d] = "waiting"
    BY <1>0, <1>7, <2>1 DEF Release
  <2>4. RequestsCounted /\ LandedAtEnd
    BY DEF Inv
  <2>5. RequestsCounted'
    BY <2>2, <2>3, <2>4 DEF counts
  <2>6. LandedAtEnd'
    BY <2>2, <2>3, <2>4 DEF counts
  <2>. QED BY <2>5, <2>6
<1>8. ASSUME NEW c \in Call, Arrive(c) PROVE RequestsCounted' /\ LandedAtEnd'
  BY <1>0, <1>8 DEF Inv, Arrive, counts
<1>9. CASE UNCHANGED vars
  BY <1>0, <1>9 DEF Inv, vars, counts
<1>. QED BY <1>1, <1>2, <1>3, <1>4, <1>5, <1>6, <1>7, <1>8, <1>9 DEF Next, Send

\* The invariant is inductive.
LEMMA InvStep == Inv /\ [Next]_vars => Inv'
<1>. SUFFICES ASSUME Inv, [Next]_vars PROVE Inv'
  OBVIOUS
<1>1. TypeOK' /\ RequestsCounted' /\ LandedAtEnd'
  BY TypeStep, CountStep
<1>2. SlotInv' /\ QueueHoldsWaiting' /\ UnsentIsExact'
  <2>1. ASSUME NEW c \in Call, Arrive(c) PROVE SlotInv' /\ QueueHoldsWaiting' /\ UnsentIsExact'
    BY <2>1 DEF Inv, Arrive, SlotInv, SlotsAccounted, NoIdleSlot, Holding, QueueHoldsWaiting,
                UnsentIsExact, slots
  <2>2. CASE UNCHANGED vars
    BY <2>2 DEF Inv, vars, SlotInv, SlotsAccounted, NoIdleSlot, Holding, QueueHoldsWaiting,
                UnsentIsExact, slots
  <2>. QED BY <2>1, <2>2, PushKeepsSlots, SendKeepsSlots, ReleaseKeepsSlots DEF Next, Send
<1>. QED BY <1>1, <1>2 DEF Inv

\* The invariant holds in every state the client can reach.
LEMMA Invariance == Spec => []Inv
<1>. QED BY InitInv, InvStep, PTL DEF Spec

-----------------------------------------------------------------------------
(* Theorems *)

\* Every variable keeps its shape, whatever the limits.
THEOREM TypeCorrect == Spec => []TypeOK
<1>1. Inv => TypeOK
  BY DEF Inv
<1>. QED BY Invariance, <1>1, PTL

\* The count of slots is exact and within the limit, hand-overs included.
THEOREM SlotsCorrect == Spec => []SlotsAccounted
<1>1. Inv => SlotsAccounted
  BY DEF Inv, SlotInv
<1>. QED BY Invariance, <1>1, PTL

\* A slot is never free while a call waits.
THEOREM NoIdleSlotEver == Spec => []NoIdleSlot
<1>1. Inv => NoIdleSlot
  BY DEF Inv, SlotInv
<1>. QED BY Invariance, <1>1, PTL

\* One call makes at most ATTEMPTS + THROTTLE_RETRIES requests.
THEOREM RequestsCorrect == Spec => []RequestsBounded
<1>1. Inv => RequestsBounded
  BY DEF Inv, RequestsCounted, RequestsBounded
<1>. QED BY Invariance, <1>1, PTL

\* Shutdown names the calls that started and did not settle, no more and no less.
THEOREM UnsentCorrect == Spec => []UnsentIsExact
<1>1. Inv => UnsentIsExact
  BY DEF Inv
<1>. QED BY Invariance, <1>1, PTL

\* A call that comes in overtakes nobody: a free slot means an empty queue.
THEOREM Fair == Spec => NoOvertaking
<1>1. Inv /\ [Next]_vars =>
        [\A c \in Call : stage[c] = "new" /\ stage'[c] = "handed" => waiting = << >>]_vars
  <2>. SUFFICES ASSUME Inv, Next, NEW d \in Call, stage[d] = "new", stage'[d] = "handed"
                PROVE  waiting = << >>
    OBVIOUS
  <2>0. stage \in [Call -> Stage] /\ waiting \in Seq(Call) /\ active \in Nat
    BY DEF Inv, TypeOK
  <2>1. ASSUME NEW c \in Call, PushBody(c) PROVE waiting = << >>
    BY <2>0, <2>1, LimitAssumption DEF Inv, SlotInv, NoIdleSlot, PushBody
  <2>2. ASSUME NEW c \in Call, Send(c) \/ Arrive(c) PROVE FALSE
    <3>1. waiting # << >> => stage[Head(waiting)] = "waiting"
      BY <2>0 DEF Inv, QueueHoldsWaiting
    <3>2. CASE Release(c)
      BY <2>0, <3>1, <3>2 DEF Release
    <3>3. CASE Fetch(c) \/ Accepted(c) \/ Rejected(c) \/ Throttled(c) \/ Failed(c) \/ Arrive(c)
      BY <2>0, <3>3 DEF Fetch, Accepted, Rejected, Throttled, Failed, Arrive
    <3>. QED BY <2>2, <3>2, <3>3 DEF Send
  <2>. QED BY <2>1, <2>2 DEF Next
<1>. QED BY Invariance, <1>1, PTL DEF Spec, NoOvertaking

-----------------------------------------------------------------------------
(* Refinement: queue, slots and retries are stutters or steps of PushPromise. *)

\* Every step of the client is a step of the promise, or none.
LEMMA PromiseStep == Inv /\ [Next]_vars => [Promise!Next]_(Promise!promiseVars)
<1>. SUFFICES ASSUME Inv, [Next]_vars
              PROVE  Promise!Next \/ UNCHANGED <<outcome, wire, taken>>
  BY DEF Promise!promiseVars
<1>0. /\ stage \in [Call -> Stage] /\ landed \in [Call -> BOOLEAN]
      /\ LandedAtEnd
  BY DEF Inv, TypeOK
<1>. USE <1>0 DEF outcome, LandedAtEnd
<1>1. ASSUME NEW c \in Call, PushBody(c) PROVE Promise!Ask(c) \/ Promise!Drop(c)
  BY <1>1 DEF PushBody, Promise!Ask, Promise!Drop
<1>2. ASSUME NEW c \in Call, Fetch(c) \/ Throttled(c) PROVE UNCHANGED <<outcome, wire, taken>>
  BY <1>2 DEF Fetch, Throttled
<1>3. ASSUME NEW c \in Call, Accepted(c) PROVE Promise!Land(c)
  BY <1>3 DEF Accepted, Promise!Land
<1>4. ASSUME NEW c \in Call, Rejected(c) PROVE Promise!Fail(c)
  BY <1>4 DEF Rejected, Promise!Fail
<1>5. ASSUME NEW c \in Call, Failed(c)
      PROVE  Promise!Fail(c) \/ Promise!GiveUp(c) \/ UNCHANGED <<outcome, wire, taken>>
  <2>1. CASE failures[c] + 1 >= Attempts
    BY <1>5, <2>1 DEF Failed, Promise!Fail
  <2>2. CASE ~(failures[c] + 1 >= Attempts)
    <3>1. outcome' = outcome /\ outcome[c] = "asked"
      BY <1>5, <2>2 DEF Failed
    <3>. QED BY <1>5, <3>1 DEF Failed, Promise!GiveUp
  <2>. QED BY <2>1, <2>2
<1>6. ASSUME NEW c \in Call, Release(c) PROVE UNCHANGED <<outcome, wire, taken>>
  <2>1. waiting # << >> => Head(waiting) \in Call /\ stage[Head(waiting)] = "waiting"
    BY DEF Inv, TypeOK, QueueHoldsWaiting
  <2>. QED BY <1>6, <2>1 DEF Release
<1>7. ASSUME NEW c \in Call, Arrive(c) PROVE Promise!DeliverLate(c)
  BY <1>7 DEF Arrive, Promise!DeliverLate
<1>8. CASE UNCHANGED vars
  BY <1>8 DEF vars
<1>. HIDE DEF outcome
<1>. QED BY <1>1, <1>2, <1>3, <1>4, <1>5, <1>6, <1>7, <1>8 DEF Next, Send, Promise!Next

\* The client implements the promise DemiMirror takes for granted.
THEOREM Refines == Spec => KeepsPromise
<1>1. Init => Promise!Init
  BY DEF Init, Promise!Init, outcome
<1>. QED BY <1>1, Invariance, PromiseStep, PTL DEF Spec, KeepsPromise, Promise!Spec
=============================================================================
