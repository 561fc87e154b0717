-------------------------- MODULE DemiMirrorProofs --------------------------
(***************************************************************************)
(* Proofs, for any processes, writers and sweeps and any faults, that the  *)
(* mirror's variables keep their shape and that a landing never takes off  *)
(* a flag written for a newer row than the one it carried; and, when one   *)
(* process does all the pushing, that DEMI shows the record or is owed it, *)
(* that no reply claims more, and that DEMI never goes back.               *)
(***************************************************************************)
EXTENDS DemiMirror, SequenceTheorems, TLAPS

-----------------------------------------------------------------------------
(* The inductive invariant. *)

\* An unsettled push is in its process's chain, and at its head once it has begun.
Chained ==
  \A t \in Task :
    /\ push[t].stage \in {"queued", "reading", "read", "stamped"} =>
         \E i \in 1..Len(chain[home[t]]) : chain[home[t]][i] = t
    /\ push[t].stage \in {"reading", "read", "stamped"} => t = Head(chain[home[t]])

\* No clock reading is from the future, and a failure time on its way to Mongo is recent.
TimesInOrder ==
  \A t \in Task :
    /\ push[t].readAt <= now + MaxDrift
    /\ pc[t] = "marking" => now <= failedAt[t] + MongoDelay

\* A flag is about a version the row had; only a push that read the row has seen a flag.
FlagsAreReal ==
  /\ flag.on => flag.ver <= row.ver
  /\ \A t \in Task : push[t].pending => push[t].stage \notin {"queued", "reading"}

\* A push that may take the flag off carries what the flag is about.
CoverIsNew ==
  \A t \in Task : Covered(t) => flag.ver <= push[t].ver

Inv == TypeOK /\ Chained /\ TimesInOrder /\ FlagsAreReal /\ CoverIsNew

-----------------------------------------------------------------------------
(* Lemmas on the operators of DemiMirror. *)

\* A process's clock is at most MaxDrift ahead.
LEMMA ClockBound ==
  ASSUME TypeOK, NEW t \in Task
  PROVE  Clock(t) \in Nat /\ now <= Clock(t) /\ Clock(t) <= now + MaxDrift
<1>1. Drift[home[t]] \in 0..MaxDrift /\ now \in Nat /\ MaxDrift \in Nat
  BY DriftAssumption, TimeAssumption DEF TypeOK
<1>. QED BY <1>1 DEF Clock

\* What a push sends is a body.
LEMMA BodyType ==
  ASSUME TypeOK, NEW t \in Task
  PROVE  BodyOf(t) \in Body
BY DEF TypeOK, BodyOf, Body, Push, IsDelete

\* Settling a push that has begun keeps types and chains, and its version, if it keeps anything.
LEMMA SettleLemma ==
  ASSUME TypeOK, Chained, NEW t \in Task, NEW ok \in BOOLEAN, Settle(t, ok), UNCHANGED home,
         push[t].stage \in {"reading", "read", "stamped"}
  PROVE  /\ push' \in [Task -> Push]
         /\ chain' \in [Pod -> Seq(Task)]
         /\ Chained'
<1>0. /\ push \in [Task -> Push] /\ chain \in [Pod -> Seq(Task)] /\ home \in [Task -> Pod]
      /\ home' = home
  BY DEF TypeOK
<1>1. PICK r \in Push : r.stage \in {"none", "settled"} /\ push' = [push EXCEPT ![t] = r]
  <2>1. NoPush \in Push /\ NoPush.stage = "none"
    BY DEF NoPush, Push, Source
  <2>2. /\ [push[t] EXCEPT !.stage = "settled", !.landed = ok] \in Push
        /\ [push[t] EXCEPT !.stage = "settled", !.landed = ok].stage = "settled"
    BY <1>0 DEF Push
  <2>. QED BY <2>1, <2>2 DEF Settle
<1>. DEFINE s == chain[home[t]]
<1>2. s \in Seq(Task) /\ s # << >> /\ t = s[1]
  BY <1>0 DEF Chained
<1>3. /\ Tail(s) \in Seq(Task) /\ Len(Tail(s)) = Len(s) - 1
      /\ \A i \in 1..Len(Tail(s)) : Tail(s)[i] = s[i + 1]
  BY <1>2, HeadTailProperties
<1>4. chain' = [chain EXCEPT ![home[t]] = Tail(s)]
  BY DEF Settle
<1>5. push' \in [Task -> Push] /\ chain' \in [Pod -> Seq(Task)]
  BY <1>0, <1>1, <1>3, <1>4
<1>6. ASSUME NEW d \in Task
      PROVE  /\ push'[d].stage \in {"queued", "reading", "read", "stamped"} =>
                  \E i \in 1..Len(chain'[home'[d]]) : chain'[home'[d]][i] = d
             /\ push'[d].stage \in {"reading", "read", "stamped"} => d = Head(chain'[home'[d]])
  <2>1. CASE d = t
    BY <1>0, <1>1, <2>1
  <2>2. CASE d # t /\ home[d] # home[t]
    BY <1>0, <1>1, <1>4, <2>2 DEF Chained
  <2>3. CASE d # t /\ home[d] = home[t]
    <3>1. push'[d] = push[d] /\ chain'[home'[d]] = Tail(s)
      BY <1>0, <1>1, <1>4, <2>3
    <3>2. push[d].stage \notin {"reading", "read", "stamped"}
      BY <2>3, <1>2 DEF Chained
    <3>3. ASSUME push[d].stage = "queued"
          PROVE  \E i \in 1..Len(Tail(s)) : Tail(s)[i] = d
      <4>1. PICK i \in 1..Len(s) : s[i] = d
        BY <2>3, <3>3 DEF Chained
      <4>2. i # 1
        BY <1>2, <2>3, <4>1
      <4>3. i - 1 \in 1..Len(Tail(s)) /\ (i - 1) + 1 = i
        BY <1>2, <1>3, <4>1, <4>2
      <4>. QED BY <1>3, <4>1, <4>3
    <3>. QED BY <3>1, <3>2, <3>3
  <2>. QED BY <2>1, <2>2, <2>3
<1>. QED BY <1>5, <1>6 DEF Chained

-----------------------------------------------------------------------------
(* Type correctness *)

\* The initial state satisfies the whole invariant.
LEMMA InitInv == Init => Inv
<1>. SUFFICES ASSUME Init PROVE Inv
  OBVIOUS
<1>0. NoPush \in Push /\ NoPush.stage = "none" /\ ~NoPush.pending /\ NoPush.readAt = 0
  BY DEF NoPush, Push, Source
<1>1. TypeOK
  BY <1>0, TimeAssumption DEF Init, TypeOK, NoFlag, NoTomb, Body, Source
<1>2. Chained
  BY <1>0 DEF Init, Chained
<1>3. TimesInOrder
  BY <1>0, DriftAssumption DEF Init, TimesInOrder
<1>4. FlagsAreReal /\ CoverIsNew
  BY <1>0 DEF Init, FlagsAreReal, CoverIsNew, Covered, NoFlag
<1>. QED BY <1>1, <1>2, <1>3, <1>4 DEF Inv

\* What Enqueue, ReadRow, FallBack and StampBody make of a push is one.
LEMMA PushTypes ==
  ASSUME TypeOK, NEW t \in Task
  PROVE  /\ [NoPush EXCEPT !.stage = "queued"] \in Push
         /\ \A r \in Nat : [push[t] EXCEPT !.stage = "reading", !.readAt = r] \in Push
         /\ \A v \in Nat, f \in Source, b \in BOOLEAN :
              [push[t] EXCEPT !.stage = "read", !.ver = v, !.from = f, !.pending = b] \in Push
         /\ \A v \in Nat, f \in Source :
              [push[t] EXCEPT !.stage = "read", !.ver = v, !.from = f] \in Push
         /\ \A c, n \in Nat :
              [push[t] EXCEPT !.stage = "stamped", !.stamp = c, !.sent = n] \in Push
         /\ NoPush \in Push
<1>0. push[t] \in Push
  BY DEF TypeOK
<1>1. NoPush \in Push /\ [NoPush EXCEPT !.stage = "queued"] \in Push
  BY DEF NoPush, Push, Source
<1>2. ASSUME NEW r \in Nat PROVE [push[t] EXCEPT !.stage = "reading", !.readAt = r] \in Push
  BY <1>0 DEF Push
<1>3. ASSUME NEW v \in Nat, NEW f \in Source, NEW b \in BOOLEAN
      PROVE  [push[t] EXCEPT !.stage = "read", !.ver = v, !.from = f, !.pending = b] \in Push
  BY <1>0 DEF Push
<1>4. ASSUME NEW v \in Nat, NEW f \in Source
      PROVE  [push[t] EXCEPT !.stage = "read", !.ver = v, !.from = f] \in Push
  BY <1>0 DEF Push
<1>5. ASSUME NEW c \in Nat, NEW n \in Nat
      PROVE  [push[t] EXCEPT !.stage = "stamped", !.stamp = c, !.sent = n] \in Push
  BY <1>0 DEF Push
<1>. QED BY <1>1, <1>2, <1>3, <1>4, <1>5

\* What follows an outcome keeps the request's variables in shape.
LEMMA FinishTypes ==
  ASSUME TypeOK, NEW t \in Task, NEW end \in {"done", "lost"}, Finish(t, end)
  PROVE  /\ pc' \in [Task -> {"idle", "saved", "waiting", "marking", "clearing", "done", "lost"}]
         /\ push' \in [Task -> Push]
         /\ snap' \in [Task -> Nat]
         /\ failedAt' \in [Task -> Nat]
         /\ UNCHANGED <<op, home>>
<1>1. NoPush \in Push
  BY PushTypes
<1>. QED BY <1>1 DEF TypeOK, Finish

\* Every step keeps the types.
LEMMA TypeStep == Inv /\ [Next]_vars => TypeOK'
<1>. SUFFICES ASSUME Inv, [Next]_vars PROVE TypeOK'
  OBVIOUS
<1>0. TypeOK /\ Chained
  BY DEF Inv
<1>. USE <1>0
<1>1. CASE Tick
  BY <1>1, TimeAssumption DEF Tick, TypeOK, store, request
<1>2. ASSUME NEW w \in Writer, Save(w) PROVE TypeOK'
  <2>1. row' \in [ver : Nat, live : BOOLEAN]
    <3>1. row \in [ver : Nat, live : BOOLEAN] /\ row' = [row EXCEPT !.ver = row.ver + 1]
      BY <1>2 DEF Save, TypeOK
    <3>. QED BY <3>1
  <2>2. snap' \in [Task -> Nat]
    <3>1. row.ver + 1 \in Nat
      BY DEF TypeOK
    <3>. QED BY <1>2, <3>1 DEF Save, TypeOK, Task
  <2>. QED BY <1>2, <2>1, <2>2 DEF Save, TypeOK, Task
<1>3. ASSUME NEW w \in Writer, Delete(w) PROVE TypeOK'
  BY <1>3 DEF Delete, TypeOK, Task, NoFlag
<1>4. ASSUME NEW w \in Writer, Abandon(w) PROVE TypeOK'
  BY <1>4, FinishTypes DEF Abandon, TypeOK, Task, store
<1>5. ASSUME NEW s \in Sweeper, FindFlagged(s) PROVE TypeOK'
  BY <1>5 DEF FindFlagged, TypeOK, Task, store
<1>6. ASSUME NEW s \in Sweeper, FindTombstone(s) PROVE TypeOK'
  BY <1>6 DEF FindTombstone, TypeOK, Task, store
<1>7. ASSUME NEW t \in Task, Enqueue(t) PROVE TypeOK'
  <2>1. push' \in [Task -> Push]
    BY <1>7, PushTypes DEF Enqueue, TypeOK
  <2>2. chain' \in [Pod -> Seq(Task)]
    BY <1>7 DEF Enqueue, TypeOK
  <2>. QED BY <1>7, <2>1, <2>2 DEF Enqueue, TypeOK, store, request
<1>8. ASSUME NEW t \in Task, Begin(t) PROVE TypeOK'
  <2>1. push' \in [Task -> Push]
    <3>1. push' = [push EXCEPT ![t] = [push[t] EXCEPT !.stage = "reading", !.readAt = Clock(t)]]
      BY <1>8 DEF Begin, TypeOK, Push
    <3>2. [push[t] EXCEPT !.stage = "reading", !.readAt = Clock(t)] \in Push
      BY PushTypes, ClockBound
    <3>. QED BY <3>1, <3>2 DEF TypeOK
  <2>. QED BY <1>8, <2>1 DEF Begin, TypeOK, store, request
<1>9. ASSUME NEW t \in Task, ReadRow(t) PROVE TypeOK'
  <2>1. push' \in [Task -> Push]
    <3>. DEFINE r == [push[t] EXCEPT !.stage = "read", !.ver = row.ver, !.from = "row",
                                     !.pending = flag.on]
    <3>1. push' = [push EXCEPT ![t] = r]
      BY <1>9 DEF ReadRow, TypeOK, Push
    <3>2. r \in Push
      BY PushTypes DEF TypeOK, Source
    <3>. QED BY <3>1, <3>2 DEF TypeOK
  <2>. QED BY <1>9, <2>1 DEF ReadRow, TypeOK, store, request
<1>10. ASSUME NEW t \in Task, FallBack(t) PROVE TypeOK'
  <2>1. push' \in [Task -> Push]
    <3>. DEFINE f == IF IsDelete(t) THEN "delete" ELSE "snapshot"
    <3>. DEFINE r == [push[t] EXCEPT !.stage = "read", !.ver = snap[t], !.from = f]
    <3>1. push' = [push EXCEPT ![t] = r]
      BY <1>10 DEF FallBack, TypeOK, Push
    <3>2. r \in Push
      BY PushTypes DEF TypeOK, Source
    <3>. QED BY <3>1, <3>2 DEF TypeOK
  <2>. QED BY <1>10, <2>1 DEF FallBack, TypeOK, store, request
<1>11. ASSUME NEW t \in Task, DropById(t) PROVE TypeOK'
  BY <1>11, SettleLemma DEF DropById, TypeOK, store, request
<1>12. ASSUME NEW t \in Task, StampBody(t) PROVE TypeOK'
  <2>1. push' \in [Task -> Push]
    <3>. DEFINE r == [push[t] EXCEPT !.stage = "stamped", !.stamp = Clock(t), !.sent = now]
    <3>1. push' = [push EXCEPT ![t] = r]
      BY <1>12 DEF StampBody, TypeOK, Push
    <3>2. now \in Nat /\ Clock(t) \in Nat
      BY ClockBound, TimeAssumption DEF TypeOK
    <3>3. r \in Push
      BY <3>2, PushTypes
    <3>. QED BY <3>1, <3>3 DEF TypeOK
  <2>. QED BY <1>12, <2>1 DEF StampBody, TypeOK, store, request
<1>13. ASSUME NEW t \in Task, Land(t) PROVE TypeOK'
  <2>1. demi' \in Body
    BY <1>13, BodyType DEF Land, Newest, TypeOK
  <2>. QED BY <1>13, <2>1, SettleLemma DEF Land, TypeOK, store, request
<1>14. ASSUME NEW t \in Task, Fail(t) PROVE TypeOK'
  BY <1>14, SettleLemma DEF Fail, TypeOK, store, request
<1>15. ASSUME NEW t \in Task, GiveUp(t) PROVE TypeOK'
  BY <1>15, BodyType DEF GiveUp, TypeOK, store, request
<1>16. ASSUME NEW body \in late, DeliverLate(body) PROVE TypeOK'
  BY <1>16 DEF DeliverLate, Newest, TypeOK, store, request
<1>17. ASSUME NEW t \in Task, Resolve(t) PROVE TypeOK'
  <2>1. failedAt' \in [Task -> Nat]
    BY <1>17, ClockBound DEF Resolve, TypeOK
  <2>2. pc' \in [Task -> {"idle", "saved", "waiting", "marking", "clearing", "done", "lost"}]
    BY <1>17 DEF Resolve, TypeOK
  <2>. QED BY <1>17, <2>1, <2>2 DEF Resolve, TypeOK, store, request
<1>18. ASSUME NEW t \in Task, Mark(t) PROVE TypeOK'
  BY <1>18, FinishTypes DEF Mark, TypeOK
<1>19. ASSUME NEW t \in Task, Clear(t) PROVE TypeOK'
  BY <1>19, FinishTypes DEF Clear, TypeOK, NoFlag, NoTomb
<1>20. ASSUME NEW t \in Task, RecordError(t) PROVE TypeOK'
  BY <1>20, FinishTypes DEF RecordError, TypeOK, store
<1>21. ASSUME NEW p \in Pod, Crash(p) PROVE TypeOK'
  <2>1. late' \in SUBSET Body
    BY <1>21, BodyType DEF Crash, TypeOK
  <2>2. push' \in [Task -> Push]
    BY <1>21, PushTypes DEF Crash, TypeOK
  <2>3. /\ pc' \in [Task -> {"idle", "saved", "waiting", "marking", "clearing", "done", "lost"}]
        /\ snap' \in [Task -> Nat] /\ failedAt' \in [Task -> Nat]
        /\ chain' \in [Pod -> Seq(Task)]
    BY <1>21 DEF Crash, TypeOK
  <2>. QED BY <1>21, <2>1, <2>2, <2>3 DEF Crash, TypeOK, store
<1>22. CASE UNCHANGED vars
  BY <1>22 DEF vars, TypeOK
<1>. QED BY <1>1, <1>2, <1>3, <1>4, <1>5, <1>6, <1>7, <1>8, <1>9, <1>10, <1>11, <1>12, <1>13,
            <1>14, <1>15, <1>16, <1>17, <1>18, <1>19, <1>20, <1>21, <1>22 DEF Next, PushStep

-----------------------------------------------------------------------------
(* Chains *)

\* A step that leaves chains, homes and the stages of unsettled pushes alone keeps them chained.
LEMMA ChainsKept ==
  ASSUME Chained, UNCHANGED <<chain, home>>,
         \A t \in Task : \/ push'[t].stage = push[t].stage
                         \/ push'[t].stage \in {"none", "settled"}
                         \/ /\ push[t].stage \in {"reading", "read", "stamped"}
                            /\ push'[t].stage \in {"reading", "read", "stamped"}
  PROVE  Chained'
BY DEF Chained

\* Every step keeps the chains.
LEMMA ChainStep == Inv /\ [Next]_vars => Chained'
<1>. SUFFICES ASSUME Inv, [Next]_vars PROVE Chained'
  OBVIOUS
<1>0. TypeOK /\ Chained /\ push \in [Task -> Push] /\ home \in [Task -> Pod]
      /\ chain \in [Pod -> Seq(Task)]
  BY DEF Inv, TypeOK
<1>. USE <1>0
<1>1. CASE Tick
  BY <1>1, ChainsKept DEF Tick, request
<1>2. ASSUME NEW w \in Writer, Save(w) \/ Delete(w) PROVE Chained'
  BY <1>2, ChainsKept DEF Save, Delete
<1>3. ASSUME NEW s \in Sweeper, FindFlagged(s) \/ FindTombstone(s) PROVE Chained'
  BY <1>3, ChainsKept DEF FindFlagged, FindTombstone
<1>4. ASSUME NEW t \in Task, NEW end \in {"done", "lost"}, Finish(t, end), UNCHANGED chain
      PROVE  Chained'
  <2>1. NoPush.stage = "none"
    BY DEF NoPush
  <2>2. \A d \in Task : push'[d] = push[d] \/ push'[d] = NoPush
    BY <1>4 DEF Finish
  <2>. QED BY <1>4, <2>1, <2>2, ChainsKept DEF Finish
<1>5. ASSUME NEW t \in Task, Enqueue(t) PROVE Chained'
  <2>. DEFINE s == chain[home[t]]
  <2>1. /\ push' = [push EXCEPT ![t] = [NoPush EXCEPT !.stage = "queued"]]
        /\ chain' = [chain EXCEPT ![home[t]] = Append(s, t)]
        /\ home' = home
    BY <1>5 DEF Enqueue, request
  <2>2. s \in Seq(Task)
    OBVIOUS
  <2>3. /\ Len(Append(s, t)) = Len(s) + 1 /\ Append(s, t)[Len(s) + 1] = t
        /\ \A i \in 1..Len(s) : Append(s, t)[i] = s[i]
        /\ s # << >> => Head(Append(s, t)) = Head(s)
    BY <2>2
  <2>4. push'[t].stage = "queued"
    BY <2>1 DEF NoPush
  <2>5. ASSUME NEW d \in Task
        PROVE  /\ push'[d].stage \in {"queued", "reading", "read", "stamped"} =>
                    \E i \in 1..Len(chain'[home'[d]]) : chain'[home'[d]][i] = d
               /\ push'[d].stage \in {"reading", "read", "stamped"} => d = Head(chain'[home'[d]])
    <3>1. CASE d = t
      <4>1. chain'[home'[d]] = Append(s, t) /\ Len(s) + 1 \in 1..Len(Append(s, t))
        BY <2>1, <2>2, <2>3, <3>1
      <4>. QED BY <2>3, <2>4, <3>1, <4>1
    <3>2. CASE d # t /\ home[d] # home[t]
      BY <2>1, <3>2 DEF Chained
    <3>3. CASE d # t /\ home[d] = home[t]
      <4>1. push'[d] = push[d] /\ chain'[home'[d]] = Append(s, t)
        BY <2>1, <3>3
      <4>2. ASSUME push[d].stage \in {"queued", "reading", "read", "stamped"}
            PROVE  s # << >> /\ \E i \in 1..Len(Append(s, t)) : Append(s, t)[i] = d
        <5>1. PICK i \in 1..Len(s) : s[i] = d
          BY <3>3, <4>2 DEF Chained
        <5>. QED BY <2>2, <2>3, <5>1
      <4>3. ASSUME push[d].stage \in {"reading", "read", "stamped"} PROVE d = Head(Append(s, t))
        BY <2>3, <3>3, <4>2, <4>3 DEF Chained
      <4>. QED BY <4>1, <4>2, <4>3
    <3>. QED BY <3>1, <3>2, <3>3
  <2>. QED BY <2>5 DEF Chained
<1>6. ASSUME NEW t \in Task, Begin(t) PROVE Chained'
  <2>1. /\ push[t].stage = "queued" /\ t = Head(chain[home[t]]) /\ UNCHANGED <<chain, home>>
        /\ push'[t].stage = "reading" /\ \A d \in Task \ {t} : push'[d] = push[d]
    BY <1>6 DEF Begin, request, Push
  <2>. QED BY <2>1 DEF Chained
<1>7. ASSUME NEW t \in Task, ReadRow(t) \/ FallBack(t) \/ StampBody(t) PROVE Chained'
  <2>1. /\ push[t].stage \in {"reading", "read"} /\ UNCHANGED <<chain, home>>
        /\ push'[t].stage \in {"read", "stamped"} /\ \A d \in Task \ {t} : push'[d] = push[d]
    BY <1>7 DEF ReadRow, FallBack, StampBody, request, Push
  <2>. QED BY <2>1, ChainsKept
<1>8. ASSUME NEW t \in Task, DropById(t) \/ Land(t) \/ Fail(t) PROVE Chained'
  BY <1>8, SettleLemma DEF DropById, Land, Fail, request
<1>9. ASSUME NEW t \in Task, GiveUp(t) \/ Resolve(t) PROVE Chained'
  BY <1>9, ChainsKept DEF GiveUp, Resolve, request
<1>10. ASSUME NEW body \in late, DeliverLate(body) PROVE Chained'
  BY <1>10, ChainsKept DEF DeliverLate, request
<1>11. ASSUME NEW p \in Pod, Crash(p) PROVE Chained'
  <2>1. NoPush.stage = "none"
    BY DEF NoPush
  <2>2. /\ chain' = [chain EXCEPT ![p] = << >>] /\ home' = home
        /\ \A d \in Task : push'[d] = IF home[d] = p THEN NoPush ELSE push[d]
    BY <1>11 DEF Crash
  <2>. QED BY <2>1, <2>2 DEF Chained
<1>12. ASSUME NEW t \in Task, Mark(t) \/ Clear(t) \/ RecordError(t) PROVE Chained'
  BY <1>4, <1>12 DEF Mark, Clear, RecordError
<1>13. ASSUME NEW w \in Writer, Abandon(w) PROVE Chained'
  BY <1>4, <1>13 DEF Abandon, Task
<1>14. CASE UNCHANGED vars
  BY <1>14, ChainsKept DEF vars
<1>. QED BY <1>1, <1>2, <1>3, <1>5, <1>6, <1>7, <1>8, <1>9, <1>10, <1>11, <1>12, <1>13, <1>14
         DEF Next, PushStep

-----------------------------------------------------------------------------
(* Times, flags and what covers them *)

\* A step that only forgets pushes, under a flag it leaves alone or takes off, keeps the rest.
LEMMA NothingNew ==
  ASSUME Inv, UNCHANGED now, row'.ver \in Nat, row'.ver >= row.ver, (flag' = flag \/ ~flag'.on),
         \A t \in Task : push'[t] = push[t] \/ push'[t] = NoPush,
         \A t \in Task : pc'[t] = "marking" => pc[t] = "marking" /\ failedAt'[t] = failedAt[t]
  PROVE  TimesInOrder' /\ FlagsAreReal' /\ CoverIsNew'
<1>0. /\ TypeOK /\ TimesInOrder /\ FlagsAreReal /\ CoverIsNew
      /\ NoPush.readAt = 0 /\ ~NoPush.pending /\ MaxDrift \in Nat /\ now \in Nat
      /\ row.ver \in Nat
  BY DriftAssumption, TimeAssumption DEF Inv, TypeOK, NoPush
<1>1. TimesInOrder'
  BY <1>0 DEF TimesInOrder
<1>2. FlagsAreReal'
  <2>1. flag'.on => flag.on /\ flag'.ver = flag.ver /\ flag.ver \in Nat
    BY <1>0 DEF TypeOK
  <2>2. \A t \in Task : push'[t].pending => push'[t].stage \notin {"queued", "reading"}
    BY <1>0 DEF FlagsAreReal
  <2>. QED BY <1>0, <2>1, <2>2 DEF FlagsAreReal
<1>3. CoverIsNew'
  BY <1>0 DEF CoverIsNew, Covered
<1>. QED BY <1>1, <1>2, <1>3

\* A step that changes one push without hiding a flag from it or moving its read keeps the rest.
LEMMA OnePush ==
  ASSUME Inv, NEW t \in Task, UNCHANGED <<now, row, flag, pc, failedAt>>,
         \A d \in Task \ {t} : push'[d] = push[d],
         push'[t].readAt <= now + MaxDrift,
         push'[t].pending => push'[t].stage \notin {"queued", "reading"},
         Covered(t)' => flag.ver <= push'[t].ver
  PROVE  TimesInOrder' /\ FlagsAreReal' /\ CoverIsNew'
<1>0. TimesInOrder /\ FlagsAreReal /\ CoverIsNew
  BY DEF Inv
<1>1. TimesInOrder'
  BY <1>0 DEF TimesInOrder
<1>2. FlagsAreReal'
  BY <1>0 DEF FlagsAreReal
<1>3. CoverIsNew'
  BY <1>0 DEF CoverIsNew, Covered
<1>. QED BY <1>1, <1>2, <1>3

\* Every step keeps times, flags and covers in order.
LEMMA CoverStep == Inv /\ [Next]_vars => TimesInOrder' /\ FlagsAreReal' /\ CoverIsNew'
<1>. SUFFICES ASSUME Inv, [Next]_vars PROVE TimesInOrder' /\ FlagsAreReal' /\ CoverIsNew'
  OBVIOUS
<1>0. /\ TypeOK /\ Chained /\ TimesInOrder /\ FlagsAreReal /\ CoverIsNew
      /\ push \in [Task -> Push] /\ home \in [Task -> Pod] /\ pc = [t \in Task |-> pc[t]]
      /\ failedAt \in [Task -> Nat] /\ now \in Nat /\ row.ver \in Nat
      /\ MaxDrift \in Nat /\ Drift \in [Pod -> 0..MaxDrift] /\ MongoDelay \in Nat
      /\ Skew \in Nat /\ MaxDrift + MongoDelay <= Skew
  BY DriftAssumption, TimeAssumption, SkewAssumption DEF Inv, TypeOK
<1>1. CASE Tick
  <2>1. /\ now' = now + 1 /\ UNCHANGED <<row, flag, push, pc, failedAt>>
        /\ \A t \in Task : pc[t] = "marking" => now + Drift[home[t]] < failedAt[t] + MongoDelay
    BY <1>1 DEF Tick, store
  <2>2. TimesInOrder'
    <3>1. ASSUME NEW t \in Task PROVE push'[t].readAt <= now' + MaxDrift
      BY <1>0, <2>1 DEF TimesInOrder, Push
    <3>2. ASSUME NEW t \in Task, pc'[t] = "marking" PROVE now' <= failedAt'[t] + MongoDelay
      <4>1. Drift[home[t]] \in Nat
        BY <1>0
      <4>. QED BY <1>0, <2>1, <3>2, <4>1
    <3>. QED BY <3>1, <3>2 DEF TimesInOrder
  <2>3. FlagsAreReal' /\ CoverIsNew'
    BY <1>0, <2>1 DEF FlagsAreReal, CoverIsNew, Covered
  <2>. QED BY <2>2, <2>3
<1>2. ASSUME NEW w \in Writer, Save(w) PROVE TimesInOrder' /\ FlagsAreReal' /\ CoverIsNew'
  <2>1. row'.ver = row.ver + 1
    BY <1>2 DEF Save, TypeOK, Inv
  <2>2. UNCHANGED <<now, flag, push, failedAt>> /\ pc' = [pc EXCEPT ![w] = "saved"]
    BY <1>2 DEF Save
  <2>3. w \in Task
    BY DEF Task
  <2>4. \A d \in Task : pc'[d] = "marking" => pc[d] = "marking" /\ failedAt'[d] = failedAt[d]
    BY <1>0, <2>2
  <2>. QED BY <1>0, <2>1, <2>2, <2>4, NothingNew
<1>3. ASSUME NEW w \in Writer, Delete(w) PROVE TimesInOrder' /\ FlagsAreReal' /\ CoverIsNew'
  <2>1. row'.ver = row.ver /\ ~flag'.on
    BY <1>3 DEF Delete, TypeOK, Inv, NoFlag
  <2>2. UNCHANGED <<now, push, failedAt>> /\ pc' = [pc EXCEPT ![w] = "saved"]
    BY <1>3 DEF Delete
  <2>. QED BY <1>0, <2>1, <2>2, NothingNew
<1>4. ASSUME NEW s \in Sweeper, FindFlagged(s) \/ FindTombstone(s)
      PROVE  TimesInOrder' /\ FlagsAreReal' /\ CoverIsNew'
  <2>1. UNCHANGED <<now, row, flag, push, failedAt>> /\ pc' = [pc EXCEPT ![s] = "saved"]
    BY <1>4 DEF FindFlagged, FindTombstone, store
  <2>. QED BY <1>0, <2>1, NothingNew
<1>5. ASSUME NEW t \in Task, Enqueue(t) PROVE TimesInOrder' /\ FlagsAreReal' /\ CoverIsNew'
  <2>1. /\ UNCHANGED <<now, row, flag, failedAt>> /\ pc' = [pc EXCEPT ![t] = "waiting"]
        /\ push' = [push EXCEPT ![t] = [NoPush EXCEPT !.stage = "queued"]]
    BY <1>5 DEF Enqueue, store
  <2>2. push'[t].readAt = 0 /\ ~push'[t].pending
    BY <1>0, <2>1 DEF NoPush
  <2>3. \A d \in Task \ {t} : push'[d] = push[d] /\ pc'[d] = pc[d]
    BY <1>0, <2>1
  <2>4. pc'[t] # "marking"
    BY <1>0, <2>1
  <2>5. TimesInOrder'
    BY <1>0, <2>1, <2>2, <2>3, <2>4 DEF TimesInOrder
  <2>6. FlagsAreReal' /\ CoverIsNew'
    BY <1>0, <2>1, <2>2, <2>3 DEF FlagsAreReal, CoverIsNew, Covered
  <2>. QED BY <2>5, <2>6
<1>6. ASSUME NEW t \in Task, Begin(t) PROVE TimesInOrder' /\ FlagsAreReal' /\ CoverIsNew'
  <2>1. /\ UNCHANGED <<now, row, flag, pc, failedAt>> /\ push[t].stage = "queued"
        /\ \A d \in Task \ {t} : push'[d] = push[d]
        /\ push'[t].readAt = Clock(t) /\ push'[t].pending = push[t].pending
    BY <1>0, <1>6 DEF Begin, store, Push
  <2>2. ~push'[t].pending
    BY <1>0, <2>1 DEF FlagsAreReal, Push
  <2>. QED BY <1>0, <2>1, <2>2, ClockBound, OnePush DEF Covered
<1>7. ASSUME NEW t \in Task, ReadRow(t) PROVE TimesInOrder' /\ FlagsAreReal' /\ CoverIsNew'
  <2>1. /\ UNCHANGED <<now, row, flag, pc, failedAt>>
        /\ \A d \in Task \ {t} : push'[d] = push[d]
        /\ push'[t].readAt = push[t].readAt /\ push'[t].ver = row.ver
        /\ push'[t].stage = "read"
    BY <1>0, <1>7 DEF ReadRow, store, Push
  <2>2. flag.on => flag.ver <= push'[t].ver
    BY <1>0, <2>1 DEF FlagsAreReal
  <2>. QED BY <1>0, <2>1, <2>2, OnePush DEF Covered, TimesInOrder
<1>8. ASSUME NEW t \in Task, FallBack(t) PROVE TimesInOrder' /\ FlagsAreReal' /\ CoverIsNew'
  <2>1. /\ UNCHANGED <<now, row, flag, pc, failedAt>> /\ push[t].stage = "reading"
        /\ \A d \in Task \ {t} : push'[d] = push[d]
        /\ push'[t].readAt = push[t].readAt /\ push'[t].pending = push[t].pending
        /\ push'[t].stage = "read"
    BY <1>0, <1>8 DEF FallBack, store, Push
  <2>2. ~push'[t].pending
    BY <1>0, <2>1 DEF FlagsAreReal
  <2>. QED BY <1>0, <2>1, <2>2, OnePush DEF Covered, TimesInOrder
<1>9. ASSUME NEW t \in Task, StampBody(t) PROVE TimesInOrder' /\ FlagsAreReal' /\ CoverIsNew'
  <2>1. /\ UNCHANGED <<now, row, flag, pc, failedAt>>
        /\ \A d \in Task \ {t} : push'[d] = push[d]
        /\ push'[t].readAt = push[t].readAt /\ push'[t].pending = push[t].pending
        /\ push'[t].ver = push[t].ver /\ push'[t].stage = "stamped"
    BY <1>0, <1>9 DEF StampBody, store, Push
  <2>2. Covered(t)' => flag.ver <= push'[t].ver
    BY <1>0, <2>1 DEF Covered, CoverIsNew
  <2>. QED BY <1>0, <2>1, <2>2, OnePush DEF TimesInOrder
<1>10. ASSUME NEW t \in Task, NEW ok \in BOOLEAN, Settle(t, ok),
              UNCHANGED <<now, row, flag, pc, failedAt>>
       PROVE  TimesInOrder' /\ FlagsAreReal' /\ CoverIsNew'
  <2>1. \A d \in Task \ {t} : push'[d] = push[d]
    BY <1>0, <1>10 DEF Settle
  <2>2. CASE pc[t] # "waiting"
    <3>1. push'[t] = NoPush
      BY <1>0, <1>10, <2>2 DEF Settle
    <3>. QED BY <1>0, <1>10, <2>1, <3>1, NothingNew
  <2>3. CASE pc[t] = "waiting"
    <3>1. /\ push'[t].readAt = push[t].readAt /\ push'[t].pending = push[t].pending
          /\ push'[t].ver = push[t].ver /\ push'[t].stage = "settled"
      BY <1>0, <1>10, <2>3 DEF Settle, Push
    <3>2. Covered(t)' => flag.ver <= push'[t].ver
      BY <1>0, <1>10, <3>1 DEF Covered, CoverIsNew
    <3>. QED BY <1>0, <1>10, <2>1, <3>1, <3>2, OnePush DEF TimesInOrder
  <2>. QED BY <2>2, <2>3
<1>11. ASSUME NEW t \in Task, DropById(t) \/ Land(t) \/ Fail(t)
       PROVE  TimesInOrder' /\ FlagsAreReal' /\ CoverIsNew'
  BY <1>10, <1>11 DEF DropById, Land, Fail, store
<1>12. ASSUME NEW t \in Task, GiveUp(t) PROVE TimesInOrder' /\ FlagsAreReal' /\ CoverIsNew'
  BY <1>0, <1>12, NothingNew DEF GiveUp, store
<1>13. ASSUME NEW body \in late, DeliverLate(body)
       PROVE  TimesInOrder' /\ FlagsAreReal' /\ CoverIsNew'
  BY <1>0, <1>13, NothingNew DEF DeliverLate, store
<1>14. ASSUME NEW t \in Task, Resolve(t) PROVE TimesInOrder' /\ FlagsAreReal' /\ CoverIsNew'
  <2>1. /\ UNCHANGED <<now, row, flag, push>>
        /\ \A d \in Task \ {t} : pc'[d] = pc[d] /\ failedAt'[d] = failedAt[d]
        /\ pc'[t] = "marking" => failedAt'[t] = Clock(t)
    BY <1>0, <1>14 DEF Resolve, store
  <2>2. now <= Clock(t) /\ Clock(t) \in Nat
    BY <1>0, ClockBound
  <2>3. TimesInOrder'
    BY <1>0, <2>1, <2>2 DEF TimesInOrder
  <2>4. FlagsAreReal' /\ CoverIsNew'
    BY <1>0, <2>1 DEF FlagsAreReal, CoverIsNew, Covered
  <2>. QED BY <2>3, <2>4
<1>15. ASSUME NEW t \in Task, NEW end \in {"done", "lost"}, Finish(t, end)
       PROVE  /\ \A d \in Task : push'[d] = push[d] \/ push'[d] = NoPush
              /\ \A d \in Task : pc'[d] = "marking" => pc[d] = "marking" /\ failedAt'[d] = failedAt[d]
  BY <1>0, <1>15 DEF Finish
<1>16. ASSUME NEW t \in Task, Clear(t) \/ RecordError(t)
       PROVE  TimesInOrder' /\ FlagsAreReal' /\ CoverIsNew'
  <2>1. UNCHANGED <<now, row>> /\ (flag' = flag \/ ~flag'.on)
    BY <1>16 DEF Clear, RecordError, store, NoFlag
  <2>2. \E end \in {"done", "lost"} : Finish(t, end)
    BY <1>16 DEF Clear, RecordError
  <2>3. PICK end \in {"done", "lost"} : Finish(t, end)
    BY <2>2
  <2>. QED BY <1>0, <1>15, <2>1, <2>3, NothingNew
<1>17. ASSUME NEW w \in Writer, Abandon(w) PROVE TimesInOrder' /\ FlagsAreReal' /\ CoverIsNew'
  <2>1. UNCHANGED <<now, row, flag>> /\ Finish(w, "lost") /\ w \in Task
    BY <1>17 DEF Abandon, store, Task
  <2>. QED BY <1>0, <1>15, <2>1, NothingNew
<1>18. ASSUME NEW t \in Task, Mark(t) PROVE TimesInOrder' /\ FlagsAreReal' /\ CoverIsNew'
  <2>1. Finish(t, "done") /\ UNCHANGED <<now, row>> /\ pc[t] = "marking"
    BY <1>18 DEF Mark
  <2>2. CASE ~row.live
    BY <1>0, <1>15, <1>18, <2>1, <2>2, NothingNew DEF Mark
  <2>3. CASE row.live
    <3>1. flag' = [on |-> TRUE, at |-> failedAt[t], ver |-> row.ver]
      BY <1>18, <2>3 DEF Mark
    <3>2. /\ \A d \in Task : push'[d] = push[d] \/ push'[d] = NoPush
          /\ \A d \in Task : pc'[d] = "marking" => pc[d] = "marking" /\ failedAt'[d] = failedAt[d]
      BY <1>15, <2>1
    <3>3. NoPush.readAt = 0 /\ ~NoPush.pending
      BY DEF NoPush
    <3>4. TimesInOrder'
      BY <1>0, <2>1, <3>2, <3>3 DEF TimesInOrder
    <3>5. FlagsAreReal'
      BY <1>0, <2>1, <3>1, <3>2, <3>3 DEF FlagsAreReal
    <3>6. ASSUME NEW d \in Task PROVE ~Covered(d)'
      <4>1. push[d].readAt \in Nat /\ push[d].readAt <= now + MaxDrift
        BY <1>0 DEF TimesInOrder, Push
      <4>2. now <= failedAt[t] + MongoDelay /\ failedAt[t] \in Nat
        BY <1>0, <2>1 DEF TimesInOrder
      <4>3. ~(failedAt[t] < push[d].readAt - Skew)
        BY <1>0, <4>1, <4>2
      <4>. QED BY <3>1, <3>2, <3>3, <4>3 DEF Covered
    <3>. QED BY <3>4, <3>5, <3>6 DEF CoverIsNew
  <2>. QED BY <2>2, <2>3
<1>19. ASSUME NEW p \in Pod, Crash(p) PROVE TimesInOrder' /\ FlagsAreReal' /\ CoverIsNew'
  <2>1. /\ UNCHANGED <<now, row, flag>>
        /\ \A d \in Task : push'[d] = push[d] \/ push'[d] = NoPush
    BY <1>19 DEF Crash, store
  <2>2. \A d \in Task : pc'[d] = "marking" => pc[d] = "marking" /\ failedAt'[d] = failedAt[d]
    BY <1>19 DEF Crash
  <2>. QED BY <1>0, <2>1, <2>2, NothingNew
<1>20. CASE UNCHANGED vars
  BY <1>0, <1>20, NothingNew DEF vars
<1>. QED BY <1>1, <1>2, <1>3, <1>4, <1>5, <1>6, <1>7, <1>8, <1>9, <1>11, <1>12, <1>13, <1>14,
            <1>16, <1>17, <1>18, <1>19, <1>20 DEF Next, PushStep

-----------------------------------------------------------------------------
(* Theorems *)

\* The invariant holds in every state the mirror can reach.
LEMMA Invariance == Spec => []Inv
<1>1. Inv /\ [Next]_vars => Inv'
  BY TypeStep, ChainStep, CoverStep DEF Inv
<1>. QED BY InitInv, <1>1, PTL DEF Spec

\* Every variable keeps its shape, whatever the processes, requests and faults.
THEOREM TypeCorrect == Spec => []TypeOK
<1>1. Inv => TypeOK
  BY DEF Inv
<1>. QED BY Invariance, <1>1, PTL

\* However many processes push one record, with clocks within MaxDrift and flags within
\* MongoDelay of Mongo, a landing clears only a flag whose row its body covers.
THEOREM ClearIsSafe == Spec => ClearCoversFlag
<1>. DEFINE Covers == flag.on /\ ~flag'.on /\ row'.live =>
              \E t \in Task : pc[t] = "clearing" /\ pc'[t] # "clearing" /\ push[t].ver >= flag.ver
<1>1. Inv /\ [Next]_vars => [Covers]_vars
  <2>. SUFFICES ASSUME Inv, Next, flag.on, ~flag'.on, row'.live
                PROVE  \E t \in Task : /\ pc[t] = "clearing" /\ pc'[t] # "clearing"
                                       /\ push[t].ver >= flag.ver
    OBVIOUS
  <2>0. TypeOK /\ CoverIsNew
    BY DEF Inv
  <2>1. \E t \in Task : Clear(t)
    <3>1. ~Tick
      BY DEF Tick, store
    <3>2. ASSUME NEW w \in Writer PROVE ~(Save(w) \/ Delete(w) \/ Abandon(w))
      BY <2>0 DEF Save, Delete, Abandon, store, TypeOK
    <3>3. ASSUME NEW s \in Sweeper PROVE ~(FindFlagged(s) \/ FindTombstone(s))
      BY DEF FindFlagged, FindTombstone, store
    <3>4. ASSUME NEW t \in Task PROVE ~(PushStep(t) \/ GiveUp(t) \/ Resolve(t) \/ RecordError(t))
      BY DEF PushStep, Enqueue, Begin, ReadRow, FallBack, DropById, StampBody, Land, Fail, GiveUp,
             Resolve, RecordError, store
    <3>5. ASSUME NEW t \in Task PROVE ~Mark(t)
      BY DEF Mark
    <3>6. ASSUME NEW body \in late PROVE ~DeliverLate(body)
      BY DEF DeliverLate, store
    <3>7. ASSUME NEW p \in Pod PROVE ~Crash(p)
      BY DEF Crash, store
    <3>. QED BY <3>1, <3>2, <3>3, <3>4, <3>5, <3>6, <3>7 DEF Next
  <2>2. PICK t \in Task : Clear(t)
    BY <2>1
  <2>3. Covered(t)
    BY <2>2 DEF Clear
  <2>4. pc[t] = "clearing" /\ pc'[t] # "clearing"
    BY <2>0, <2>2 DEF Clear, Finish, TypeOK
  <2>5. push[t].ver >= flag.ver
    BY <2>0, <2>3 DEF CoverIsNew, TypeOK, Push
  <2>. QED BY <2>4, <2>5
<1>. QED BY Invariance, <1>1, PTL DEF Spec, ClearCoversFlag

-----------------------------------------------------------------------------
(* One process.  Its chain runs the record's pushes one after the other, so *)
(* the bodies DEMI may still take are ordered by their stamps as they were  *)
(* by their reads.  Of two processes this is false (NewerStampIsNewerBody). *)

OneProcess == \A p, q \in Pod : p = q

\* A body that is not a caller's copy and shows no less than another.
Supersedes(c, b) == c.from # "snapshot" => b.ver <= c.ver /\ (b.del => c.del)

\* What there was to show: the bodies DEMI has, may still get, or said it took.
Landed == {t \in Task : push[t].landed}
Past == late \cup {demi} \cup {BodyOf(t) : t \in Landed}

AtWork(t) == push[t].stage \in {"read", "stamped"}
Busy(t) == pc[t] \in {"saved", "waiting", "marking", "clearing"} \/ ~Settled(t)

\* A request's copy is one the row was, and what it reads is no older; a delete's copy is the
\* last; the outcome a request records is its push's.
RequestsInOrder ==
  /\ tomb.on => ~row.live /\ tomb.ver = row.ver
  /\ \A t \in Task :
       /\ snap[t] <= row.ver
       /\ IsDelete(t) => ~row.live /\ (Busy(t) => snap[t] = row.ver)
       /\ pc[t] = "saved" \/ (t \in Writer /\ pc[t] = "idle") => push[t].stage = "none"
       /\ push[t].stage = "settled" => pc[t] \in {"waiting", "marking", "clearing"}
       /\ push[t].landed => push[t].stage = "settled"
       /\ pc[t] = "clearing" => push[t].landed
       /\ AtWork(t) \/ push[t].landed => snap[t] <= push[t].ver

\* A body that is still on its way and would be taken shows no less than what was taken.
PastInOrder ==
  /\ \A b \in Past : /\ b.ver <= row.ver /\ (b.del => ~row.live)
                     /\ \A t \in Task : b.stamp <= Clock(t)
  /\ \A c \in late : /\ \A t \in Task : c.stamp < Clock(t)
                     /\ \A b \in Past : b.stamp <= c.stamp => Supersedes(c, b)
  /\ \A t \in Landed : push[t].stamp <= demi.stamp /\ Supersedes(demi, BodyOf(t))

\* The push whose turn it is shows no less than all before it, and gets the newest stamp.
PushesAreNew ==
  \A t \in Task :
    /\ AtWork(t) => /\ push[t].ver <= row.ver
                    /\ \A b \in Past : Supersedes(BodyOf(t), b)
    /\ push[t].stage = "stamped" =>
         /\ push[t].sent <= now /\ push[t].stamp = push[t].sent + Drift[home[t]]
         /\ \A b \in Past : b.stamp <= push[t].stamp
         /\ \A c \in late : c = BodyOf(t) \/ c.stamp < push[t].stamp

\* DEMI shows at least this, and whatever it may take next does.
Stands(b) ==
  /\ Supersedes(demi, b)
  /\ \A c \in late : c.stamp >= demi.stamp => Supersedes(c, b)
  /\ \A t \in Task : AtWork(t) => Supersedes(BodyOf(t), b)

\* The record as Mongo has it.
Truth == [ver |-> row.ver, del |-> ~row.live]

\* The request that wrote it has an outcome to come.
Answers(w) ==
  pc[w] \in {"saved", "waiting", "marking"} /\ snap[w] = row.ver /\ (op[w] = "delete" <=> ~row.live)

StandsOrOwed ==
  \/ ~NothingLost
  \/ Stands(Truth)
  \/ row.live /\ flag.on /\ flag.ver = row.ver
  \/ ~row.live /\ tomb.on
  \/ \E w \in Writer : Answers(w)

OneInv == RequestsInOrder /\ PastInOrder /\ PushesAreNew /\ StandsOrOwed

-----------------------------------------------------------------------------
(* Lemmas on one process *)

\* One push of the record is under way at a time.
LEMMA OneAtATime ==
  ASSUME OneProcess, TypeOK, Chained, NEW t \in Task, NEW u \in Task,
         push[t].stage \in {"reading", "read", "stamped"},
         push[u].stage \in {"reading", "read", "stamped"}
  PROVE  t = u
<1>1. home[t] = home[u]
  BY DEF OneProcess, TypeOK
<1>. QED BY <1>1 DEF Chained

\* All clocks of one process are the same.
LEMMA OneClock ==
  ASSUME OneProcess, TypeOK, NEW t \in Task, NEW u \in Task
  PROVE  Drift[home[t]] = Drift[home[u]] /\ Clock(t) = Clock(u)
<1>1. home[t] = home[u]
  BY DEF OneProcess, TypeOK
<1>. QED BY <1>1 DEF Clock

\* The fields that order bodies have an order.
LEMMA PastTypes ==
  ASSUME TypeOK
  PROVE  /\ Past \subseteq Body /\ late \subseteq Past /\ demi \in Past
         /\ \A b \in Past : b.ver \in Nat /\ b.stamp \in Nat /\ b.del \in BOOLEAN
         /\ \A t \in Task : /\ BodyOf(t).ver = push[t].ver /\ BodyOf(t).stamp = push[t].stamp
                            /\ BodyOf(t).del = IsDelete(t) /\ BodyOf(t).from = push[t].from
                            /\ push[t].ver \in Nat /\ push[t].stamp \in Nat /\ push[t].sent \in Nat
                            /\ IsDelete(t) \in BOOLEAN
         /\ row.ver \in Nat /\ now \in Nat /\ \A t \in Task : Clock(t) \in Nat
<1>1. Past \subseteq Body
  BY BodyType DEF TypeOK, Past, Landed
<1>2. \A t \in Task : push[t] \in Push
  BY DEF TypeOK
<1>3. \A t \in Task : Clock(t) \in Nat
  BY ClockBound
<1>4. row.ver \in Nat /\ now \in Nat
  BY TimeAssumption DEF TypeOK
<1>5. \A t \in Task : /\ push[t].ver \in Nat /\ push[t].stamp \in Nat /\ push[t].sent \in Nat
                      /\ IsDelete(t) \in BOOLEAN
  BY <1>2 DEF Push, IsDelete
<1>6. late \subseteq Past /\ demi \in Past
  BY DEF Past
<1>7. \A b \in Body : b.ver \in Nat /\ b.stamp \in Nat /\ b.del \in BOOLEAN
  BY DEF Body
<1>. QED BY <1>1, <1>3, <1>4, <1>5, <1>6, <1>7 DEF BodyOf

\* A step that sends nothing, takes no body and reads nothing keeps the order.
LEMMA OrderKept ==
  ASSUME TypeOK, TypeOK', PastInOrder, PushesAreNew, UNCHANGED <<home, late, demi>>,
         row.ver <= row'.ver, row'.live => row.live, now <= now',
         \A t \in Task : AtWork(t)' => push'[t] = push[t] /\ op'[t] = op[t],
         \A t \in Task : push'[t].landed => push'[t] = push[t] /\ op'[t] = op[t]
  PROVE  PastInOrder' /\ PushesAreNew'
<1>0. /\ Past \subseteq Body /\ \A b \in Past : b.ver \in Nat /\ b.stamp \in Nat
      /\ row.ver \in Nat /\ row'.ver \in Nat /\ now \in Nat /\ now' \in Nat
      /\ \A t \in Task : push[t].ver \in Nat /\ push[t].sent \in Nat
      /\ late \subseteq Past /\ demi \in Past
  BY PastTypes, TimeAssumption DEF TypeOK
<1>1. \A t \in Task : /\ AtWork(t)' => AtWork(t) /\ BodyOf(t)' = BodyOf(t)
                      /\ push'[t].landed => push[t].landed /\ BodyOf(t)' = BodyOf(t)
  BY DEF AtWork, BodyOf, IsDelete
<1>2. Past' \subseteq Past /\ Landed' \subseteq Landed
  BY <1>1 DEF Past, Landed
<1>3. \A t \in Task : Clock(t) \in Nat /\ Clock(t)' \in Nat /\ Clock(t) <= Clock(t)'
  <2>1. \A t \in Task : Drift[home[t]] \in 0..MaxDrift /\ MaxDrift \in Nat
    BY DriftAssumption DEF TypeOK
  <2>. QED BY <1>0, <2>1 DEF Clock
<1>4. PastInOrder'
  <2>1. ASSUME NEW b \in Past'
        PROVE  b.ver <= row'.ver /\ (b.del => ~row'.live) /\ \A t \in Task : b.stamp <= Clock(t)'
    BY <1>0, <1>2, <1>3 DEF PastInOrder
  <2>2. ASSUME NEW c \in late'
        PROVE  /\ \A t \in Task : c.stamp < Clock(t)'
               /\ \A b \in Past' : b.stamp <= c.stamp => Supersedes(c, b)
    BY <1>0, <1>2, <1>3 DEF PastInOrder
  <2>3. ASSUME NEW t \in Landed'
        PROVE  push'[t].stamp <= demi'.stamp /\ Supersedes(demi', BodyOf(t)')
    BY <1>1, <1>2 DEF PastInOrder, Landed
  <2>. QED BY <2>1, <2>2, <2>3 DEF PastInOrder, Supersedes
<1>5. PushesAreNew'
  <2>1. ASSUME NEW t \in Task, AtWork(t)'
        PROVE  push'[t].ver <= row'.ver /\ \A b \in Past' : Supersedes(BodyOf(t)', b)
    BY <1>0, <1>1, <1>2, <2>1 DEF PushesAreNew
  <2>2. ASSUME NEW t \in Task, push'[t].stage = "stamped"
        PROVE  /\ push'[t].sent <= now' /\ push'[t].stamp = push'[t].sent + Drift[home'[t]]
               /\ \A b \in Past' : b.stamp <= push'[t].stamp
               /\ \A c \in late' : c = BodyOf(t)' \/ c.stamp < push'[t].stamp
    <3>1. push'[t] = push[t] /\ BodyOf(t)' = BodyOf(t)
      BY <1>1, <2>2 DEF AtWork
    <3>. QED BY <1>0, <1>2, <2>2, <3>1 DEF PushesAreNew
  <2>. QED BY <2>1, <2>2 DEF PushesAreNew, Supersedes
<1>. QED BY <1>4, <1>5
\* What settling leaves of a push.
LEMMA SettleShape ==
  ASSUME TypeOK, NEW t \in Task, NEW ok \in BOOLEAN, Settle(t, ok)
  PROVE  /\ \A u \in Task \ {t} : push'[u] = push[u]
         /\ \/ pc[t] # "waiting" /\ push'[t] = NoPush
            \/ /\ pc[t] = "waiting" /\ push'[t].stage = "settled" /\ push'[t].landed = ok
               /\ push'[t].ver = push[t].ver /\ push'[t].stamp = push[t].stamp
               /\ push'[t].from = push[t].from
<1>1. push[t] \in Push /\ push \in [Task -> Push]
  BY DEF TypeOK
<1>. QED BY <1>1 DEF Settle, Push

\* What an outcome that was recorded, or lost, leaves of its request.
LEMMA FinishShape ==
  ASSUME TypeOK, NEW t \in Task, NEW end, Finish(t, end)
  PROVE  /\ \A u \in Task \ {t} : /\ pc'[u] = pc[u] /\ push'[u] = push[u] /\ snap'[u] = snap[u]
         /\ pc'[t] = (IF t \in Sweeper THEN "idle" ELSE end)
         /\ Settled(t) => push'[t] = NoPush /\ snap'[t] = 0
         /\ ~Settled(t) => push'[t] = push[t] /\ snap'[t] = snap[t]
         /\ UNCHANGED <<op, home>>
BY DEF Finish, TypeOK

\* No push is none: nothing of it is under way or has landed.
LEMMA NoPushIsIdle ==
  NoPush.stage = "none" /\ ~NoPush.landed
BY DEF NoPush

\* Every step keeps requests, copies and outcomes in order.
LEMMA RequestStep ==
  ASSUME TypeOK, TypeOK', PushesAreNew, RequestsInOrder, [Next]_vars
  PROVE  RequestsInOrder'
<1>0. /\ push \in [Task -> Push] /\ pc = [t \in Task |-> pc[t]] /\ op = [t \in Task |-> op[t]]
      /\ snap \in [Task -> Nat] /\ row.ver \in Nat /\ row'.ver \in Nat
      /\ \A t \in Task : push[t].ver \in Nat /\ push'[t].ver \in Nat
      /\ NoPush.stage = "none" /\ ~NoPush.landed
  BY NoPushIsIdle DEF TypeOK, Push
<1>. USE DEF IsDelete, Busy, Settled, AtWork
<1>1. CASE Tick
  BY <1>0, <1>1 DEF Tick, store, request, RequestsInOrder
<1>2. ASSUME NEW w \in Writer, Save(w) PROVE RequestsInOrder'
  <2>0. w \in Task
    BY DEF Task
  <2>1. row'.ver = row.ver + 1 /\ row'.live /\ row.live
    BY <1>2 DEF Save, TypeOK
  <2>2. \A t \in Task : /\ t = w => pc'[t] = "saved" /\ op'[t] = "save" /\ snap'[t] = row.ver + 1
                        /\ t # w => pc'[t] = pc[t] /\ op'[t] = op[t] /\ snap'[t] = snap[t]
    BY <1>0, <1>2, <2>0 DEF Save
  <2>3. push' = push /\ tomb' = tomb
    BY <1>2 DEF Save
  <2>. QED BY <1>0, <1>2, <2>0, <2>1, <2>2, <2>3 DEF Save, RequestsInOrder
<1>3. ASSUME NEW w \in Writer, Delete(w) PROVE RequestsInOrder'
  <2>0. w \in Task
    BY DEF Task
  <2>1. row'.ver = row.ver /\ ~row'.live /\ row.live
    BY <1>3 DEF Delete, TypeOK
  <2>2. \A t \in Task : /\ t = w => pc'[t] = "saved" /\ op'[t] = "delete" /\ snap'[t] = row.ver
                        /\ t # w => pc'[t] = pc[t] /\ op'[t] = op[t] /\ snap'[t] = snap[t]
    BY <1>0, <1>3, <2>0 DEF Delete
  <2>3. push' = push /\ tomb' = tomb
    BY <1>3 DEF Delete
  <2>. QED BY <1>0, <1>3, <2>0, <2>1, <2>2, <2>3 DEF Delete, RequestsInOrder
<1>4. ASSUME NEW s \in Sweeper, FindFlagged(s) PROVE RequestsInOrder'
  <2>1. \A t \in Task : /\ t = s => pc'[t] = "saved" /\ op'[t] = "sweep"
                        /\ t # s => pc'[t] = pc[t] /\ op'[t] = op[t]
    BY <1>0, <1>4 DEF FindFlagged, Task
  <2>. QED BY <1>0, <1>4, <2>1, TaskAssumption DEF FindFlagged, RequestsInOrder, store
<1>5. ASSUME NEW s \in Sweeper, FindTombstone(s) PROVE RequestsInOrder'
  <2>1. \A t \in Task : /\ t = s => pc'[t] = "saved" /\ op'[t] = "resend" /\ snap'[t] = tomb.ver
                        /\ t # s => pc'[t] = pc[t] /\ op'[t] = op[t] /\ snap'[t] = snap[t]
    BY <1>0, <1>5 DEF FindTombstone, Task
  <2>. QED BY <1>0, <1>5, <2>1, TaskAssumption DEF FindTombstone, RequestsInOrder, store
<1>6. ASSUME NEW t \in Task, Enqueue(t) PROVE RequestsInOrder'
  <2>1. \A u \in Task : /\ u = t => /\ pc'[u] = "waiting" /\ push'[u].stage = "queued"
                                    /\ ~push'[u].landed
                        /\ u # t => pc'[u] = pc[u] /\ push'[u] = push[u]
    BY <1>0, <1>6 DEF Enqueue, NoPush
  <2>. QED BY <1>0, <1>6, <2>1 DEF Enqueue, RequestsInOrder, store, request
<1>7. ASSUME NEW t \in Task, Begin(t) PROVE RequestsInOrder'
  <2>1. \A u \in Task : /\ u = t => push'[u].stage = "reading" /\ push'[u].landed = push[u].landed
                        /\ u # t => push'[u] = push[u]
    BY <1>0, <1>7 DEF Begin, Push
  <2>. QED BY <1>0, <1>7, <2>1 DEF Begin, RequestsInOrder, store, request
<1>8. ASSUME NEW t \in Task, ReadRow(t) PROVE RequestsInOrder'
  <2>1. \A u \in Task : /\ u = t => /\ push'[u].stage = "read" /\ push'[u].landed = push[u].landed
                                    /\ push'[u].ver = row.ver
                        /\ u # t => push'[u] = push[u]
    BY <1>0, <1>8 DEF ReadRow, Push
  <2>. QED BY <1>0, <1>8, <2>1 DEF ReadRow, RequestsInOrder, store, request
<1>9. ASSUME NEW t \in Task, FallBack(t) PROVE RequestsInOrder'
  <2>1. \A u \in Task : /\ u = t => /\ push'[u].stage = "read" /\ push'[u].landed = push[u].landed
                                    /\ push'[u].ver = snap[u]
                        /\ u # t => push'[u] = push[u]
    BY <1>0, <1>9 DEF FallBack, Push
  <2>. QED BY <1>0, <1>9, <2>1 DEF FallBack, RequestsInOrder, store, request
<1>10. ASSUME NEW t \in Task, StampBody(t) PROVE RequestsInOrder'
  <2>1. \A u \in Task : /\ u = t => /\ push'[u].stage = "stamped" /\ push'[u].landed = push[u].landed
                                    /\ push'[u].ver = push[u].ver
                        /\ u # t => push'[u] = push[u]
    BY <1>0, <1>10 DEF StampBody, Push
  <2>. QED BY <1>0, <1>10, <2>1 DEF StampBody, RequestsInOrder, store, request
<1>11. ASSUME NEW t \in Task, DropById(t) \/ Land(t) \/ Fail(t) PROVE RequestsInOrder'
  <2>1. UNCHANGED <<store, pc, request>>
    BY <1>11 DEF DropById, Land, Fail
  <2>2. PICK ok \in BOOLEAN : Settle(t, ok) /\ (ok => push[t].stage = "stamped")
    BY <1>11 DEF DropById, Land, Fail
  <2>3. push[t].stage \in {"reading", "read", "stamped"}
    BY <1>11 DEF DropById, Land, Fail
  <2>. QED BY <1>0, <2>1, <2>2, <2>3, SettleShape DEF RequestsInOrder, store, request
<1>12. ASSUME NEW t \in Task, GiveUp(t) PROVE RequestsInOrder'
  BY <1>0, <1>12 DEF GiveUp, RequestsInOrder, store, request
<1>13. ASSUME NEW body \in late, DeliverLate(body) PROVE RequestsInOrder'
  BY <1>0, <1>13 DEF DeliverLate, RequestsInOrder, store, request
<1>14. ASSUME NEW t \in Task, Resolve(t) PROVE RequestsInOrder'
  <2>1. \A u \in Task : /\ u = t => /\ pc[u] = "waiting" /\ pc'[u] \in {"clearing", "marking"}
                                    /\ pc'[u] = "clearing" => push[u].landed
                        /\ u # t => pc'[u] = pc[u]
    BY <1>0, <1>14 DEF Resolve
  <2>. QED BY <1>0, <1>14, <2>1 DEF Resolve, RequestsInOrder, store, request
<1>15. ASSUME NEW t \in Task, NEW end \in {"done", "lost"}, Finish(t, end), UNCHANGED row,
              tomb'.on => ~row.live /\ tomb'.ver = row.ver
       PROVE  RequestsInOrder'
  BY <1>0, <1>15, FinishShape, TaskAssumption DEF RequestsInOrder
<1>16. ASSUME NEW t \in Task, Mark(t) PROVE RequestsInOrder'
  <2>1. tomb'.on => ~row.live /\ tomb'.ver = row.ver
    BY <1>16 DEF Mark, RequestsInOrder
  <2>. QED BY <1>15, <1>16, <2>1 DEF Mark
<1>17. ASSUME NEW t \in Task, Clear(t) PROVE RequestsInOrder'
  <2>1. tomb'.on => ~row.live /\ tomb'.ver = row.ver
    BY <1>17 DEF Clear, RequestsInOrder, NoTomb
  <2>. QED BY <1>15, <1>17, <2>1 DEF Clear
<1>18. ASSUME NEW t \in Task, RecordError(t) PROVE RequestsInOrder'
  BY <1>15, <1>18 DEF RecordError, RequestsInOrder, store
<1>19. ASSUME NEW w \in Writer, Abandon(w) PROVE RequestsInOrder'
  BY <1>15, <1>19 DEF Abandon, RequestsInOrder, store, Task
<1>20. ASSUME NEW p \in Pod, Crash(p) PROVE RequestsInOrder'
  <2>1. \A t \in Task :
          /\ home[t] = p => /\ push'[t] = NoPush /\ snap'[t] = 0
                            /\ pc'[t] \notin {"saved", "waiting", "marking", "clearing"}
                            /\ pc'[t] = "idle" => pc[t] = "idle" \/ t \in Sweeper
          /\ home[t] # p => push'[t] = push[t] /\ snap'[t] = snap[t] /\ pc'[t] = pc[t]
    BY <1>0, <1>20 DEF Crash, TypeOK
  <2>. QED BY <1>0, <1>20, <2>1, TaskAssumption DEF Crash, RequestsInOrder, store
<1>21. CASE UNCHANGED vars
  BY <1>0, <1>21 DEF vars, RequestsInOrder
<1>. QED BY <1>1, <1>2, <1>3, <1>4, <1>5, <1>6, <1>7, <1>8, <1>9, <1>10, <1>11, <1>12, <1>13,
            <1>14, <1>16, <1>17, <1>18, <1>19, <1>20, <1>21 DEF Next, PushStep
\* A push that has its turn and has not landed leaves what there was to show as it was, when
\* only its own progress changes.
LEMMA PastSame ==
  ASSUME TypeOK, RequestsInOrder, NEW t \in Task, push[t].stage # "settled",
         UNCHANGED <<late, demi, op>>, \A u \in Task \ {t} : push'[u] = push[u],
         push'[t].landed = push[t].landed
  PROVE  Past' = Past /\ Landed' = Landed /\ \A u \in Task \ {t} : BodyOf(u)' = BodyOf(u)
<1>1. ~push[t].landed /\ ~push'[t].landed
  BY DEF RequestsInOrder
<1>2. Landed' = Landed /\ t \notin Landed
  BY <1>1 DEF Landed
<1>3. \A u \in Task \ {t} : BodyOf(u)' = BodyOf(u)
  BY DEF BodyOf, IsDelete
<1>. QED BY <1>2, <1>3 DEF Past, Landed

\* The turn of a push goes on: what it read, and then its stamp, are the newest.
LEMMA TurnKeepsOrder ==
  ASSUME OneProcess, TypeOK, TypeOK', Chained, RequestsInOrder, PastInOrder, PushesAreNew,
         NEW t \in Task, ReadRow(t) \/ FallBack(t) \/ StampBody(t)
  PROVE  PastInOrder' /\ PushesAreNew'
<1>0. /\ push \in [Task -> Push] /\ \A b \in Past : b.ver \in Nat /\ b.stamp \in Nat
      /\ row.ver \in Nat /\ now \in Nat /\ late \subseteq Past /\ demi \in Past
      /\ \A u \in Task : /\ BodyOf(u).ver = push[u].ver /\ BodyOf(u).stamp = push[u].stamp
                         /\ BodyOf(u).del = IsDelete(u) /\ BodyOf(u).from = push[u].from
  BY PastTypes DEF TypeOK
<1>1. /\ UNCHANGED <<now, row, late, demi, home, op>> /\ push[t].stage \in {"reading", "read"}
      /\ \A u \in Task \ {t} : push'[u] = push[u]
      /\ push'[t].landed = push[t].landed
  BY <1>0 DEF ReadRow, FallBack, StampBody, store, request, Push
<1>2. Past' = Past /\ Landed' = Landed /\ \A u \in Task \ {t} : BodyOf(u)' = BodyOf(u)
  BY <1>1, PastSame
<1>3. \A u \in Task : Clock(u)' = Clock(u)
  BY <1>1 DEF Clock
<1>4. PastInOrder'
  <2>1. ~push[t].landed
    BY <1>1 DEF RequestsInOrder
  <2>2. \A u \in Landed : push'[u] = push[u] /\ BodyOf(u)' = BodyOf(u)
    BY <1>1, <1>2, <2>1 DEF Landed
  <2>. QED BY <1>1, <1>2, <1>3, <2>2 DEF PastInOrder, Supersedes
<1>5. \A u \in Task \ {t} : push'[u].stage \notin {"read", "stamped"}
  BY <1>1, OneAtATime
<1>6. push'[t].stage \in {"read", "stamped"}
  BY <1>0 DEF ReadRow, FallBack, StampBody, Push
<1>7. /\ BodyOf(t)' = [ver |-> push'[t].ver, del |-> IsDelete(t), from |-> push'[t].from,
                       stamp |-> push'[t].stamp]
      /\ IsDelete(t) => ~row.live /\ snap[t] = row.ver
      /\ IsDelete(t) \in BOOLEAN
  BY <1>1 DEF BodyOf, IsDelete, RequestsInOrder, Busy, Settled
<1>8. push'[t].ver <= row.ver /\ \A b \in Past : Supersedes(BodyOf(t)', b)
  <2>1. CASE ReadRow(t)
    <3>1. push'[t].ver = row.ver /\ row.live
      BY <1>0, <2>1 DEF ReadRow, Push
    <3>. QED BY <1>0, <1>7, <3>1 DEF Supersedes, PastInOrder
  <2>2. CASE FallBack(t)
    <3>1. /\ push'[t].ver = snap[t]
          /\ push'[t].from = IF IsDelete(t) THEN "delete" ELSE "snapshot"
      BY <1>0, <2>2 DEF FallBack, Push
    <3>2. snap[t] <= row.ver
      BY DEF RequestsInOrder
    <3>. QED BY <1>0, <1>7, <3>1, <3>2 DEF Supersedes, PastInOrder
  <2>3. CASE StampBody(t)
    <3>1. /\ push'[t].ver = push[t].ver /\ push'[t].from = push[t].from
          /\ push[t].stage = "read"
      BY <1>0, <2>3 DEF StampBody, Push
    <3>. QED BY <1>0, <1>7, <3>1 DEF Supersedes, PushesAreNew, AtWork
  <2>. QED BY <2>1, <2>2, <2>3
<1>9. ASSUME push'[t].stage = "stamped"
      PROVE  /\ push'[t].sent <= now /\ push'[t].stamp = push'[t].sent + Drift[home[t]]
             /\ \A b \in Past : b.stamp <= push'[t].stamp
             /\ \A c \in late : c.stamp < push'[t].stamp
  <2>1. push'[t].stamp = Clock(t) /\ push'[t].sent = now
    BY <1>0, <1>9 DEF ReadRow, FallBack, StampBody, Push
  <2>. QED BY <1>0, <2>1 DEF PastInOrder, Clock
<1>10. PushesAreNew'
  <2>1. ASSUME NEW u \in Task, AtWork(u)'
        PROVE  u = t
    BY <1>5, <2>1 DEF AtWork
  <2>2. ASSUME NEW u \in Task, AtWork(u)'
        PROVE  push'[u].ver <= row'.ver /\ \A b \in Past' : Supersedes(BodyOf(u)', b)
    BY <1>1, <1>2, <1>8, <2>1, <2>2
  <2>3. ASSUME NEW u \in Task, push'[u].stage = "stamped"
        PROVE  /\ push'[u].sent <= now' /\ push'[u].stamp = push'[u].sent + Drift[home'[u]]
               /\ \A b \in Past' : b.stamp <= push'[u].stamp
               /\ \A c \in late' : c = BodyOf(u)' \/ c.stamp < push'[u].stamp
    BY <1>1, <1>2, <1>9, <2>1, <2>3 DEF AtWork
  <2>. QED BY <2>2, <2>3 DEF PushesAreNew, Supersedes
<1>. QED BY <1>4, <1>10

\* DEMI takes a body: the push's, or one that was on its way.
LEMMA LandKeepsOrder ==
  ASSUME OneProcess, TypeOK, TypeOK', Chained, RequestsInOrder, PastInOrder, PushesAreNew,
         NEW t \in Task, Land(t)
  PROVE  PastInOrder' /\ PushesAreNew'
<1>0. /\ push \in [Task -> Push] /\ \A b \in Past : b.ver \in Nat /\ b.stamp \in Nat
      /\ row.ver \in Nat /\ now \in Nat /\ late \subseteq Past /\ demi \in Past
      /\ \A u \in Task : /\ BodyOf(u).ver = push[u].ver /\ BodyOf(u).stamp = push[u].stamp
                         /\ BodyOf(u).del = IsDelete(u) /\ BodyOf(u).from = push[u].from
                         /\ push[u].stamp \in Nat /\ push[u].sent \in Nat /\ Clock(u) \in Nat
                         /\ push[u].ver \in Nat
      /\ NoPush.stage = "none" /\ ~NoPush.landed
  BY PastTypes, NoPushIsIdle DEF TypeOK
<1>1. /\ UNCHANGED <<now, row, late, home, op>> /\ push[t].stage = "stamped"
      /\ Settle(t, TRUE) /\ demi' = Newest(BodyOf(t))
  BY DEF Land, store, request
<1>2. AtWork(t) /\ t \in Task
  BY <1>1 DEF AtWork
<1>3. demi' = BodyOf(t)
  BY <1>0, <1>1 DEF Newest, PushesAreNew
<1>4. ASSUME NEW u \in Task \ {t}
      PROVE  push'[u] = push[u] /\ push'[u].stage \notin {"read", "stamped"}
  <2>1. push'[u] = push[u]
    BY <1>1, SettleShape
  <2>2. push[u].stage \notin {"read", "stamped"}
    BY <1>1, OneAtATime
  <2>. QED BY <2>1, <2>2
<1>5. /\ push'[t].stage \notin {"read", "stamped"}
      /\ push'[t].landed => BodyOf(t)' = BodyOf(t) /\ push'[t].stamp = push[t].stamp
  BY <1>0, <1>1, SettleShape DEF BodyOf, IsDelete
<1>6. \A u \in Task \ {t} : BodyOf(u)' = BodyOf(u)
  BY <1>1, <1>4 DEF BodyOf, IsDelete
<1>7. Past' \subseteq Past \cup {BodyOf(t)} /\ Landed' \subseteq Landed \cup {t}
  BY <1>1, <1>3, <1>4, <1>5, <1>6 DEF Past, Landed
<1>8. \A u \in Task : Clock(u)' = Clock(u)
  BY <1>1 DEF Clock
<1>9. /\ push[t].ver <= row.ver /\ (IsDelete(t) => ~row.live)
      /\ \A u \in Task : push[t].stamp <= Clock(u)
  <2>1. \A u \in Task : Clock(u) = Clock(t)
    BY OneClock
  <2>2. push[t].stamp <= Clock(t)
    <3>1. Drift[home[t]] \in Nat
      BY DriftAssumption DEF TypeOK
    <3>. QED BY <1>0, <1>1, <3>1 DEF PushesAreNew, Clock
  <2>. QED BY <1>2, <2>1, <2>2 DEF PushesAreNew, RequestsInOrder
<1>10. PastInOrder'
  <2>1. ASSUME NEW b \in Past'
        PROVE  b.ver <= row'.ver /\ (b.del => ~row'.live) /\ \A u \in Task : b.stamp <= Clock(u)'
    BY <1>0, <1>1, <1>7, <1>8, <1>9 DEF PastInOrder
  <2>2. ASSUME NEW c \in late'
        PROVE  /\ \A u \in Task : c.stamp < Clock(u)'
               /\ \A b \in Past' : b.stamp <= c.stamp => Supersedes(c, b)
    <3>1. c \in late
      BY <1>1
    <3>2. ASSUME NEW b \in Past', b.stamp <= c.stamp PROVE Supersedes(c, b)
      <4>1. CASE b \in Past
        BY <3>1, <3>2, <4>1 DEF PastInOrder
      <4>2. CASE b = BodyOf(t)
        <5>1. c = BodyOf(t)
          BY <1>0, <1>1, <3>1, <3>2, <4>2 DEF PushesAreNew
        <5>. QED BY <1>0, <4>2, <5>1 DEF Supersedes
      <4>. QED BY <1>7, <4>1, <4>2
    <3>. QED BY <1>8, <3>1, <3>2 DEF PastInOrder
  <2>3. ASSUME NEW u \in Landed'
        PROVE  push'[u].stamp <= demi'.stamp /\ Supersedes(demi', BodyOf(u)')
    <3>1. CASE u = t
      <4>1. push'[t].landed
        BY <2>3, <3>1 DEF Landed
      <4>. QED BY <1>0, <1>3, <1>5, <3>1, <4>1 DEF Supersedes
    <3>2. CASE u # t
      <4>1. u \in Landed /\ BodyOf(u)' = BodyOf(u) /\ BodyOf(u) \in Past /\ push'[u] = push[u]
        BY <1>4, <1>6, <1>7, <2>3, <3>2 DEF Landed, Past
      <4>2. BodyOf(u).stamp <= push[t].stamp /\ Supersedes(BodyOf(t), BodyOf(u))
        BY <1>1, <1>2, <4>1 DEF PushesAreNew
      <4>3. BodyOf(u).stamp = push[u].stamp /\ BodyOf(t).stamp = push[t].stamp /\ u \in Task
        BY <1>0, <4>1 DEF Landed
      <4>. QED BY <1>3, <4>1, <4>2, <4>3
    <3>. QED BY <3>1, <3>2
  <2>. QED BY <2>1, <2>2, <2>3 DEF PastInOrder, Supersedes
<1>11. PushesAreNew'
  BY <1>4, <1>5 DEF PushesAreNew, AtWork
<1>. QED BY <1>10, <1>11

\* A body is left on its way, whether its push goes on or dies with the process.
LEMMA GiveUpKeepsOrder ==
  ASSUME OneProcess, TypeOK, TypeOK', Chained, RequestsInOrder, PastInOrder, PushesAreNew,
         NEW t \in Task, push[t].stage = "stamped", Exchanged(t), now < MaxNow,
         late' = late \cup {BodyOf(t)}, UNCHANGED <<now, row, demi, home, op>>,
         \A u \in Task : push'[u] = push[u] \/ push'[u] = NoPush
  PROVE  PastInOrder' /\ PushesAreNew'
<1>0. /\ push \in [Task -> Push] /\ \A b \in Past : b.ver \in Nat /\ b.stamp \in Nat
      /\ row.ver \in Nat /\ now \in Nat /\ late \subseteq Past /\ demi \in Past
      /\ \A u \in Task : /\ BodyOf(u).ver = push[u].ver /\ BodyOf(u).stamp = push[u].stamp
                         /\ BodyOf(u).del = IsDelete(u) /\ BodyOf(u).from = push[u].from
                         /\ push[u].stamp \in Nat /\ push[u].sent \in Nat /\ Clock(u) \in Nat
                         /\ push[u].ver \in Nat
  BY PastTypes DEF TypeOK
<1>1. /\ \A u \in Task : Clock(u)' = Clock(u)
      /\ \A u \in Task : push'[u] = push[u] => BodyOf(u)' = BodyOf(u)
      /\ \A u \in Task : AtWork(u)' \/ push'[u].landed => push'[u] = push[u] /\ BodyOf(u)' = BodyOf(u)
      /\ Landed' \subseteq Landed
  BY NoPushIsIdle DEF BodyOf, IsDelete, Clock, Landed, AtWork
<1>2. Past' \subseteq Past \cup {BodyOf(t)}
  BY <1>1 DEF Past, Landed
<1>3. /\ push[t].ver <= row.ver /\ (IsDelete(t) => ~row.live)
      /\ \A u \in Task : push[t].stamp < Clock(u)
  <2>1. \A u \in Task : Clock(u) = Clock(t)
    BY OneClock
  <2>2. push[t].stamp < Clock(t)
    <3>1. Drift[home[t]] \in Nat
      BY DriftAssumption DEF TypeOK
    <3>2. push[t].sent < now
      BY <1>0 DEF Exchanged
    <3>. QED BY <1>0, <3>1, <3>2 DEF PushesAreNew, Clock
  <2>. QED BY <2>1, <2>2 DEF PushesAreNew, RequestsInOrder, AtWork
<1>4. \A b \in Past : Supersedes(BodyOf(t), b)
  BY DEF PushesAreNew, AtWork
<1>5. \A c \in late : BodyOf(t).stamp <= c.stamp => c = BodyOf(t)
  BY <1>0 DEF PushesAreNew
<1>6. PastInOrder'
  <2>1. ASSUME NEW b \in Past'
        PROVE  b.ver <= row'.ver /\ (b.del => ~row'.live) /\ \A u \in Task : b.stamp <= Clock(u)'
    BY <1>0, <1>1, <1>2, <1>3 DEF PastInOrder
  <2>2. ASSUME NEW c \in late'
        PROVE  /\ \A u \in Task : c.stamp < Clock(u)'
               /\ \A b \in Past' : b.stamp <= c.stamp => Supersedes(c, b)
    <3>1. Supersedes(BodyOf(t), BodyOf(t))
      BY <1>0 DEF Supersedes
    <3>2. CASE c = BodyOf(t)
      BY <1>0, <1>1, <1>2, <1>3, <1>4, <3>1, <3>2
    <3>3. CASE c \in late
      BY <1>1, <1>2, <1>5, <3>1, <3>3 DEF PastInOrder
    <3>. QED BY <3>2, <3>3
  <2>3. ASSUME NEW u \in Landed'
        PROVE  push'[u].stamp <= demi'.stamp /\ Supersedes(demi', BodyOf(u)')
    BY <1>1, <2>3 DEF PastInOrder, Landed
  <2>. QED BY <2>1, <2>2, <2>3 DEF PastInOrder, Supersedes
<1>7. PushesAreNew'
  <2>1. ASSUME NEW u \in Task, AtWork(u)'
        PROVE  u = t
    BY <1>1, <2>1, OneAtATime DEF AtWork
  <2>2. Supersedes(BodyOf(t), BodyOf(t))
    BY <1>0 DEF Supersedes
  <2>3. ASSUME NEW u \in Task, AtWork(u)'
        PROVE  push'[u].ver <= row'.ver /\ \A b \in Past' : Supersedes(BodyOf(u)', b)
    BY <1>1, <1>2, <1>3, <1>4, <2>1, <2>2, <2>3 DEF AtWork
  <2>4. ASSUME NEW u \in Task, push'[u].stage = "stamped"
        PROVE  /\ push'[u].sent <= now' /\ push'[u].stamp = push'[u].sent + Drift[home'[u]]
               /\ \A b \in Past' : b.stamp <= push'[u].stamp
               /\ \A c \in late' : c = BodyOf(u)' \/ c.stamp < push'[u].stamp
    <3>1. u = t
      BY <2>1, <2>4 DEF AtWork
    <3>2. push'[t] = push[t] /\ BodyOf(t)' = BodyOf(t) /\ push[t].stage = "stamped"
      BY <1>1, <2>4, <3>1 DEF AtWork
    <3>3. /\ push[t].sent <= now /\ push[t].stamp = push[t].sent + Drift[home[t]]
          /\ \A b \in Past : b.stamp <= push[t].stamp
          /\ \A c \in late : c = BodyOf(t) \/ c.stamp < push[t].stamp
      BY <3>2 DEF PushesAreNew
    <3>4. BodyOf(t).stamp <= push[t].stamp
      BY <1>0
    <3>. QED BY <1>2, <3>1, <3>2, <3>3, <3>4
  <2>. QED BY <2>3, <2>4 DEF PushesAreNew, Supersedes
<1>. QED BY <1>6, <1>7

\* A body that was left on its way arrives.
LEMMA DeliverKeepsOrder ==
  ASSUME TypeOK, TypeOK', PastInOrder, PushesAreNew, NEW body \in late, DeliverLate(body)
  PROVE  PastInOrder' /\ PushesAreNew'
<1>0. /\ \A b \in Past : b.ver \in Nat /\ b.stamp \in Nat
      /\ late \subseteq Past /\ demi \in Past
      /\ \A u \in Task : push[u].stamp \in Nat
  BY PastTypes
<1>1. UNCHANGED <<now, row, home, op, push>> /\ late' \subseteq late /\ demi' = Newest(body)
  BY DEF DeliverLate, store, request
<1>2. /\ \A u \in Task : BodyOf(u)' = BodyOf(u) /\ Clock(u)' = Clock(u)
      /\ Landed' = Landed
  BY <1>1 DEF BodyOf, IsDelete, Clock, Landed
<1>3. demi' \in {body, demi} /\ Past' \subseteq Past
  BY <1>1, <1>2 DEF Past, Newest, Landed
<1>4. ASSUME NEW u \in Landed
      PROVE  push[u].stamp <= demi'.stamp /\ Supersedes(demi', BodyOf(u))
  <2>1. CASE body.stamp >= demi.stamp
    <3>1. BodyOf(u) \in Past /\ BodyOf(u).stamp = push[u].stamp /\ u \in Task
      BY DEF Past, BodyOf, Landed
    <3>2. push[u].stamp <= demi.stamp /\ demi' = body
      BY <1>1, <2>1 DEF PastInOrder, Newest
    <3>3. push[u].stamp <= body.stamp
      BY <1>0, <2>1, <3>1, <3>2
    <3>. QED BY <3>1, <3>2, <3>3 DEF PastInOrder
  <2>2. CASE ~(body.stamp >= demi.stamp)
    BY <1>1, <2>2 DEF PastInOrder, Newest
  <2>. QED BY <2>1, <2>2
<1>5. PastInOrder'
  <2>1. ASSUME NEW b \in Past'
        PROVE  b.ver <= row'.ver /\ (b.del => ~row'.live) /\ \A u \in Task : b.stamp <= Clock(u)'
    BY <1>1, <1>2, <1>3 DEF PastInOrder
  <2>2. ASSUME NEW c \in late'
        PROVE  /\ \A u \in Task : c.stamp < Clock(u)'
               /\ \A b \in Past' : b.stamp <= c.stamp => Supersedes(c, b)
    BY <1>1, <1>2, <1>3 DEF PastInOrder
  <2>3. ASSUME NEW u \in Landed'
        PROVE  push'[u].stamp <= demi'.stamp /\ Supersedes(demi', BodyOf(u)')
    BY <1>1, <1>2, <1>4 DEF Landed
  <2>. QED BY <2>1, <2>2, <2>3 DEF PastInOrder, Supersedes
<1>6. PushesAreNew'
  BY <1>1, <1>2, <1>3 DEF PushesAreNew, AtWork, Supersedes
<1>. QED BY <1>5, <1>6

\* Every step keeps bodies and pushes in order.
LEMMA OrderStep ==
  ASSUME OneProcess, TypeOK, TypeOK', Chained, RequestsInOrder, PastInOrder, PushesAreNew,
         [Next]_vars
  PROVE  PastInOrder' /\ PushesAreNew'
<1>0. /\ push \in [Task -> Push] /\ op = [t \in Task |-> op[t]] /\ now \in Nat
      /\ NoPush.stage = "none" /\ ~NoPush.landed /\ row.ver \in Nat /\ row'.ver \in Nat
  BY NoPushIsIdle, TimeAssumption DEF TypeOK
<1>. DEFINE Kept == /\ \A t \in Task : AtWork(t)' => push'[t] = push[t] /\ op'[t] = op[t]
                    /\ \A t \in Task : push'[t].landed => push'[t] = push[t] /\ op'[t] = op[t]
<1>1. CASE Tick
  BY <1>0, <1>1, OrderKept DEF Tick, store, request
<1>2. ASSUME NEW w \in Writer, Save(w) \/ Delete(w) PROVE PastInOrder' /\ PushesAreNew'
  <2>1. push[w].stage = "none" /\ w \in Task
    BY <1>2 DEF Save, Delete, RequestsInOrder, Task
  <2>2. \A t \in Task : t # w => op'[t] = op[t]
    BY <1>0, <1>2 DEF Save, Delete
  <2>3. UNCHANGED <<home, late, demi, now, push>> /\ (row'.live => row.live) /\ row.ver <= row'.ver
    <3>1. row \in [ver : Nat, live : BOOLEAN]
      BY DEF TypeOK
    <3>2. row'.ver \in {row.ver, row.ver + 1} /\ row.live
      BY <1>2, <3>1 DEF Save, Delete
    <3>. QED BY <1>0, <1>2, <3>2 DEF Save, Delete
  <2>4. ~push[w].landed
    BY <2>1 DEF RequestsInOrder
  <2>. QED BY <1>0, <2>1, <2>2, <2>3, <2>4, OrderKept DEF AtWork
<1>3. ASSUME NEW s \in Sweeper, FindFlagged(s) \/ FindTombstone(s)
      PROVE  PastInOrder' /\ PushesAreNew'
  <2>1. push[s].stage = "none" /\ s \in Task
    BY <1>3 DEF FindFlagged, FindTombstone, RequestsInOrder, Task, Settled
  <2>2. \A t \in Task : t # s => op'[t] = op[t]
    BY <1>0, <1>3 DEF FindFlagged, FindTombstone
  <2>3. UNCHANGED <<home, late, demi, now, push, row>>
    BY <1>3 DEF FindFlagged, FindTombstone, store
  <2>4. ~push[s].landed
    BY <2>1 DEF RequestsInOrder
  <2>. QED BY <1>0, <2>1, <2>2, <2>3, <2>4, OrderKept DEF AtWork
<1>4. ASSUME NEW t \in Task, Enqueue(t) \/ Begin(t) PROVE PastInOrder' /\ PushesAreNew'
  <2>1. /\ UNCHANGED <<home, late, demi, now, row, op>>
        /\ \A u \in Task \ {t} : push'[u] = push[u]
        /\ push'[t].stage \in {"queued", "reading"}
    BY <1>0, <1>4 DEF Enqueue, Begin, store, request, Push, NoPush
  <2>2. ~push'[t].landed
    <3>1. push'[t].landed = FALSE \/ (push'[t].landed = push[t].landed /\ push[t].stage = "queued")
      BY <1>0, <1>4 DEF Enqueue, Begin, Push, NoPush
    <3>. QED BY <3>1 DEF RequestsInOrder
  <2>. QED BY <1>0, <2>1, <2>2, OrderKept DEF AtWork
<1>5. ASSUME NEW t \in Task, ReadRow(t) \/ FallBack(t) \/ StampBody(t)
      PROVE  PastInOrder' /\ PushesAreNew'
  BY <1>5, TurnKeepsOrder
<1>6. ASSUME NEW t \in Task, DropById(t) \/ Fail(t) PROVE PastInOrder' /\ PushesAreNew'
  <2>1. UNCHANGED <<home, late, demi, now, row, op>> /\ Settle(t, FALSE)
    BY <1>6 DEF DropById, Fail, store, request
  <2>2. \A u \in Task \ {t} : push'[u] = push[u]
    BY <2>1, SettleShape
  <2>3. ~push'[t].landed /\ push'[t].stage \in {"none", "settled"}
    BY <1>0, <2>1, SettleShape
  <2>. QED BY <1>0, <2>1, <2>2, <2>3, OrderKept DEF AtWork
<1>7. ASSUME NEW t \in Task, Land(t) PROVE PastInOrder' /\ PushesAreNew'
  BY <1>7, LandKeepsOrder
<1>8. ASSUME NEW t \in Task, GiveUp(t) PROVE PastInOrder' /\ PushesAreNew'
  <2>1. now < MaxNow
    BY <1>0, <1>8, TimeAssumption DEF GiveUp, Can
  <2>. QED BY <1>8, <2>1, GiveUpKeepsOrder DEF GiveUp, store, request
<1>9. ASSUME NEW body \in late, DeliverLate(body) PROVE PastInOrder' /\ PushesAreNew'
  BY <1>9, DeliverKeepsOrder
<1>10. ASSUME NEW t \in Task, Resolve(t) PROVE PastInOrder' /\ PushesAreNew'
  BY <1>0, <1>10, OrderKept DEF Resolve, store, request
<1>11. ASSUME NEW t \in Task, NEW end, Finish(t, end), UNCHANGED <<now, row, demi, late>>
       PROVE  PastInOrder' /\ PushesAreNew'
  BY <1>0, <1>11, FinishShape, OrderKept DEF AtWork
<1>12. ASSUME NEW t \in Task, Mark(t) \/ Clear(t) \/ RecordError(t)
       PROVE  PastInOrder' /\ PushesAreNew'
  BY <1>11, <1>12 DEF Mark, Clear, RecordError, store
<1>13. ASSUME NEW w \in Writer, Abandon(w) PROVE PastInOrder' /\ PushesAreNew'
  BY <1>11, <1>13 DEF Abandon, Task, store
<1>14. ASSUME NEW p \in Pod, Crash(p) PROVE PastInOrder' /\ PushesAreNew'
  <2>1. /\ UNCHANGED <<now, row, demi, home, op>> /\ now < MaxNow
        /\ \A u \in Task : push'[u] = push[u] \/ push'[u] = NoPush
    BY <1>0, <1>14, TimeAssumption DEF Crash, Can, store
  <2>2. PICK sent \in SUBSET {t \in Task : /\ home[t] = p /\ push[t].stage = "stamped"
                                           /\ Exchanged(t)} :
          late' = late \cup {BodyOf(t) : t \in sent}
    BY <1>14 DEF Crash
  <2>3. CASE sent = {}
    BY <1>0, <2>1, <2>2, <2>3, OrderKept DEF AtWork
  <2>4. CASE sent # {}
    <3>1. PICK t \in sent : TRUE
      BY <2>4
    <3>2. \A u \in sent : u = t
      BY <3>1, OneAtATime
    <3>3. late' = late \cup {BodyOf(t)}
      BY <2>2, <3>1, <3>2
    <3>. QED BY <2>1, <3>1, <3>3, GiveUpKeepsOrder
  <2>. QED BY <2>3, <2>4
<1>15. CASE UNCHANGED vars
  BY <1>0, <1>15, OrderKept DEF vars
<1>. QED BY <1>1, <1>2, <1>3, <1>4, <1>5, <1>6, <1>7, <1>8, <1>9, <1>10, <1>12, <1>13, <1>14,
            <1>15 DEF Next, PushStep
-----------------------------------------------------------------------------
(* What stands, and what is owed *)

\* What a landed push showed stands.
LEMMA StandsAfter ==
  ASSUME TypeOK, PastInOrder, PushesAreNew, NEW b, b.ver \in Nat,
         NEW w \in Landed, b.ver <= push[w].ver, b.del => IsDelete(w)
  PROVE  Stands(b)
<1>0. /\ w \in Task /\ BodyOf(w) \in Past /\ BodyOf(w).ver = push[w].ver
      /\ BodyOf(w).stamp = push[w].stamp /\ BodyOf(w).del = IsDelete(w)
      /\ push[w].ver \in Nat /\ push[w].stamp \in Nat /\ late \subseteq Past /\ demi \in Past
      /\ \A x \in Past : x.ver \in Nat /\ x.stamp \in Nat
      /\ \A t \in Task : BodyOf(t).ver \in Nat
  BY PastTypes DEF Past, Landed
<1>1. ASSUME NEW c, c.ver \in Nat, Supersedes(c, BodyOf(w)) PROVE Supersedes(c, b)
  BY <1>0, <1>1 DEF Supersedes
<1>2. Supersedes(demi, b)
  BY <1>0, <1>1 DEF PastInOrder
<1>3. ASSUME NEW c \in late, c.stamp >= demi.stamp PROVE Supersedes(c, b)
  <2>1. push[w].stamp <= demi.stamp
    BY DEF PastInOrder
  <2>2. BodyOf(w).stamp <= c.stamp
    BY <1>0, <1>3, <2>1
  <2>. QED BY <1>0, <1>1, <2>2 DEF PastInOrder
<1>4. ASSUME NEW t \in Task, AtWork(t) PROVE Supersedes(BodyOf(t), b)
  BY <1>0, <1>1, <1>4 DEF PushesAreNew
<1>. QED BY <1>2, <1>3, <1>4 DEF Stands

\* A step that sends nothing, takes no body and reads nothing leaves standing what stands.
LEMMA StandsSame ==
  ASSUME NEW b, Stands(b), UNCHANGED demi, late' \subseteq late,
         \A t \in Task : AtWork(t)' => push'[t] = push[t] /\ op'[t] = op[t]
  PROVE  Stands(b)'
<1>1. \A t \in Task : AtWork(t)' => AtWork(t) /\ BodyOf(t)' = BodyOf(t)
  BY DEF AtWork, BodyOf, IsDelete
<1>. QED BY <1>1 DEF Stands, Supersedes

\* As long as the record is not written, DEMI does not fall behind it.
LEMMA StandsKept ==
  ASSUME OneProcess, TypeOK, TypeOK', Chained, RequestsInOrder, PastInOrder, PushesAreNew,
         NEW b, b = Truth, Stands(b), [Next]_vars, UNCHANGED row
  PROVE  Stands(b)'
<1>0. /\ push \in [Task -> Push] /\ op = [t \in Task |-> op[t]]
      /\ NoPush.stage = "none" /\ row.ver \in Nat
      /\ b.ver = row.ver /\ b.del = ~row.live
      /\ \A x \in Past : x.ver \in Nat /\ x.stamp \in Nat
      /\ late \subseteq Past /\ demi \in Past
  BY NoPushIsIdle, PastTypes DEF TypeOK, Truth
<1>1. CASE Tick
  BY <1>1, StandsSame DEF Tick, request
<1>2. ASSUME NEW w \in Writer, Save(w) \/ Delete(w) PROVE Stands(b)'
  <2>1. row \in [ver : Nat, live : BOOLEAN]
    BY DEF TypeOK
  <2>. QED BY <1>0, <1>2, <2>1 DEF Save, Delete
<1>3. ASSUME NEW s \in Sweeper, FindFlagged(s) \/ FindTombstone(s) PROVE Stands(b)'
  <2>1. push[s].stage = "none" /\ s \in Task
    BY <1>3 DEF FindFlagged, FindTombstone, RequestsInOrder, Task, Settled
  <2>2. \A t \in Task : t # s => op'[t] = op[t]
    BY <1>0, <1>3 DEF FindFlagged, FindTombstone
  <2>. QED BY <1>3, <2>1, <2>2, StandsSame DEF FindFlagged, FindTombstone, AtWork
<1>4. ASSUME NEW t \in Task, Enqueue(t) \/ Begin(t) PROVE Stands(b)'
  <2>1. /\ UNCHANGED <<late, demi, op>>
        /\ \A u \in Task \ {t} : push'[u] = push[u]
        /\ push'[t].stage \in {"queued", "reading"}
    BY <1>0, <1>4 DEF Enqueue, Begin, request, Push, NoPush
  <2>. QED BY <2>1, StandsSame DEF AtWork
<1>5. ASSUME NEW t \in Task, ReadRow(t) \/ FallBack(t) \/ StampBody(t) PROVE Stands(b)'
  <2>1. /\ UNCHANGED <<late, demi, op>> /\ push[t].stage \in {"reading", "read"}
        /\ \A u \in Task \ {t} : push'[u] = push[u]
    BY <1>0, <1>5 DEF ReadRow, FallBack, StampBody, request
  <2>2. \A u \in Task \ {t} : BodyOf(u)' = BodyOf(u) /\ (AtWork(u)' <=> AtWork(u))
    BY <2>1 DEF BodyOf, IsDelete, AtWork
  <2>3. /\ BodyOf(t)' = [ver |-> push'[t].ver, del |-> IsDelete(t), from |-> push'[t].from,
                         stamp |-> push'[t].stamp]
        /\ IsDelete(t) => ~row.live /\ snap[t] = row.ver
        /\ IsDelete(t) \in BOOLEAN
    BY <2>1 DEF BodyOf, IsDelete, RequestsInOrder, Busy, Settled
  <2>4. Supersedes(BodyOf(t)', b)
    <3>1. CASE ReadRow(t)
      <4>1. push'[t].ver = row.ver /\ row.live
        BY <1>0, <3>1 DEF ReadRow, Push
      <4>. QED BY <1>0, <2>3, <4>1 DEF Supersedes
    <3>2. CASE FallBack(t)
      <4>1. /\ push'[t].ver = snap[t]
            /\ push'[t].from = IF IsDelete(t) THEN "delete" ELSE "snapshot"
        BY <1>0, <3>2 DEF FallBack, Push
      <4>. QED BY <1>0, <2>3, <4>1 DEF Supersedes
    <3>3. CASE StampBody(t)
      <4>1. /\ push'[t].ver = push[t].ver /\ push'[t].from = push[t].from
            /\ push[t].stage = "read"
        BY <1>0, <3>3 DEF StampBody, Push
      <4>2. Supersedes(BodyOf(t), b)
        BY <4>1 DEF Stands, AtWork
      <4>. QED BY <2>3, <4>1, <4>2 DEF Supersedes, BodyOf
    <3>. QED BY <1>5, <3>1, <3>2, <3>3
  <2>. QED BY <2>1, <2>2, <2>4 DEF Stands, Supersedes
<1>6. ASSUME NEW t \in Task, DropById(t) \/ Fail(t) PROVE Stands(b)'
  <2>1. UNCHANGED <<late, demi, op>> /\ Settle(t, FALSE)
    BY <1>6 DEF DropById, Fail, request
  <2>2. \A u \in Task \ {t} : push'[u] = push[u]
    BY <2>1, SettleShape
  <2>3. push'[t].stage \in {"none", "settled"}
    BY <1>0, <2>1, SettleShape
  <2>. QED BY <2>1, <2>2, <2>3, StandsSame DEF AtWork
<1>7. ASSUME NEW t \in Task, Land(t) PROVE Stands(b)'
  <2>1. /\ UNCHANGED <<late, op>> /\ Settle(t, TRUE) /\ push[t].stage = "stamped"
        /\ demi' = Newest(BodyOf(t))
    BY <1>7 DEF Land, request
  <2>2. demi.stamp <= push[t].stamp /\ BodyOf(t).stamp = push[t].stamp /\ push[t].stamp \in Nat
    BY <1>0, <2>1, PastTypes DEF PushesAreNew
  <2>3. demi' = BodyOf(t)
    BY <1>0, <2>1, <2>2 DEF Newest
  <2>4. \A u \in Task \ {t} : push'[u] = push[u]
    BY <2>1, SettleShape
  <2>5. push'[t].stage \in {"none", "settled"}
    BY <1>0, <2>1, SettleShape
  <2>6. \A u \in Task : AtWork(u)' => AtWork(u) /\ BodyOf(u)' = BodyOf(u)
    BY <2>1, <2>4, <2>5 DEF AtWork, BodyOf, IsDelete
  <2>7. Supersedes(BodyOf(t), b)
    BY <2>1 DEF Stands, AtWork
  <2>8. \A c \in late : c.stamp >= push[t].stamp => c.stamp >= demi.stamp
    BY <1>0, <2>2
  <2>. QED BY <2>1, <2>2, <2>3, <2>6, <2>7, <2>8 DEF Stands, Supersedes
<1>8. ASSUME NEW t \in Task, AtWork(t), late' \subseteq late \cup {BodyOf(t)}, UNCHANGED <<demi, op>>,
             \A u \in Task : push'[u] = push[u] \/ push'[u] = NoPush
      PROVE  Stands(b)'
  <2>1. \A u \in Task : AtWork(u)' => AtWork(u) /\ BodyOf(u)' = BodyOf(u)
    BY <1>0, <1>8 DEF AtWork, BodyOf, IsDelete
  <2>2. Supersedes(BodyOf(t), b)
    BY <1>8 DEF Stands
  <2>. QED BY <1>8, <2>1, <2>2 DEF Stands, Supersedes
<1>9. ASSUME NEW t \in Task, GiveUp(t) PROVE Stands(b)'
  BY <1>8, <1>9 DEF GiveUp, AtWork, request
<1>10. ASSUME NEW body \in late, DeliverLate(body) PROVE Stands(b)'
  <2>1. UNCHANGED <<op, push>> /\ late' \subseteq late /\ demi' = Newest(body)
    BY <1>10 DEF DeliverLate, request
  <2>2. \A u \in Task : BodyOf(u)' = BodyOf(u) /\ (AtWork(u)' <=> AtWork(u))
    BY <2>1 DEF BodyOf, IsDelete, AtWork
  <2>3. CASE body.stamp >= demi.stamp
    <3>1. demi' = body /\ Supersedes(body, b)
      BY <2>1, <2>3 DEF Newest, Stands
    <3>2. \A c \in late : c.stamp >= body.stamp => c.stamp >= demi.stamp
      BY <1>0, <2>3
    <3>. QED BY <2>1, <2>2, <3>1, <3>2 DEF Stands, Supersedes
  <2>4. CASE ~(body.stamp >= demi.stamp)
    BY <2>1, <2>2, <2>4 DEF Stands, Supersedes, Newest
  <2>. QED BY <2>3, <2>4
<1>11. ASSUME NEW t \in Task, Resolve(t) PROVE Stands(b)'
  BY <1>11, StandsSame DEF Resolve, request
<1>12. ASSUME NEW t \in Task, NEW end, Finish(t, end), UNCHANGED <<demi, late>> PROVE Stands(b)'
  BY <1>0, <1>12, FinishShape, StandsSame DEF AtWork
<1>13. ASSUME NEW t \in Task, Mark(t) \/ Clear(t) \/ RecordError(t) PROVE Stands(b)'
  BY <1>12, <1>13 DEF Mark, Clear, RecordError
<1>14. ASSUME NEW w \in Writer, Abandon(w) PROVE Stands(b)'
  BY <1>12, <1>14 DEF Abandon, Task
<1>15. ASSUME NEW p \in Pod, Crash(p) PROVE Stands(b)'
  <2>1. UNCHANGED <<demi, op>> /\ \A u \in Task : push'[u] = push[u] \/ push'[u] = NoPush
    BY <1>0, <1>15 DEF Crash
  <2>2. PICK sent \in SUBSET {t \in Task : /\ home[t] = p /\ push[t].stage = "stamped"
                                           /\ Exchanged(t)} :
          late' = late \cup {BodyOf(t) : t \in sent}
    BY <1>15 DEF Crash
  <2>3. CASE sent = {}
    BY <1>0, <2>1, <2>2, <2>3, StandsSame DEF AtWork
  <2>4. CASE sent # {}
    <3>1. PICK t \in sent : TRUE
      BY <2>4
    <3>2. \A u \in sent : u = t
      BY <3>1, OneAtATime
    <3>3. late' = late \cup {BodyOf(t)} /\ AtWork(t) /\ t \in Task
      BY <2>2, <3>1, <3>2 DEF AtWork
    <3>. QED BY <1>8, <2>1, <3>3
  <2>. QED BY <2>3, <2>4
<1>16. CASE UNCHANGED vars
  BY <1>16, StandsSame DEF vars
<1>. QED BY <1>1, <1>2, <1>3, <1>4, <1>5, <1>6, <1>7, <1>9, <1>10, <1>11, <1>13, <1>14, <1>15,
            <1>16 DEF Next, PushStep

\* A request that has an outcome to come keeps it, records it, learns that it landed, or loses it.
LEMMA AnswersKept ==
  ASSUME TypeOK, RequestsInOrder, [Next]_vars, UNCHANGED row, NEW w \in Writer, Answers(w)
  PROVE  \/ Answers(w)' \/ pc'[w] = "lost" \/ Mark(w)
         \/ push[w].landed
<1>0. /\ pc = [t \in Task |-> pc[t]] /\ w \in Task /\ w \notin Sweeper
      /\ pc[w] \in {"saved", "waiting", "marking"}
  BY TaskAssumption DEF TypeOK, Task, Answers
<1>1. ASSUME UNCHANGED <<pc, snap, op>> PROVE Answers(w)'
  BY <1>1 DEF Answers
<1>2. CASE Tick
  BY <1>1, <1>2 DEF Tick, request
<1>3. ASSUME NEW v \in Writer, Save(v) \/ Delete(v) PROVE Answers(w)'
  <2>1. row \in [ver : Nat, live : BOOLEAN]
    BY DEF TypeOK
  <2>. QED BY <1>3, <2>1 DEF Save, Delete
<1>4. ASSUME NEW s \in Sweeper, FindFlagged(s) \/ FindTombstone(s) PROVE Answers(w)'
  <2>1. s # w /\ s \in Task
    BY <1>0 DEF Task
  <2>2. pc'[w] = pc[w] /\ snap'[w] = snap[w] /\ op'[w] = op[w]
    BY <1>0, <1>4, <2>1 DEF FindFlagged, FindTombstone, TypeOK
  <2>. QED BY <2>2 DEF Answers
<1>5. ASSUME NEW t \in Task, Enqueue(t) PROVE Answers(w)'
  BY <1>0, <1>5 DEF Enqueue, Answers, request
<1>6. ASSUME NEW t \in Task, Begin(t) \/ ReadRow(t) \/ FallBack(t) \/ DropById(t) \/ StampBody(t)
                              \/ Land(t) \/ Fail(t) \/ GiveUp(t)
      PROVE  Answers(w)'
  BY <1>1, <1>6 DEF Begin, ReadRow, FallBack, DropById, StampBody, Land, Fail, GiveUp, request
<1>7. ASSUME NEW body \in late, DeliverLate(body) PROVE Answers(w)'
  BY <1>1, <1>7 DEF DeliverLate, request
<1>8. ASSUME NEW t \in Task, Resolve(t) PROVE Answers(w)' \/ push[w].landed
  BY <1>0, <1>8 DEF Resolve, Answers, request
<1>9. ASSUME NEW t \in Task \ {w}, NEW end, Finish(t, end) PROVE Answers(w)'
  BY <1>0, <1>9, FinishShape DEF Answers
<1>10. ASSUME Finish(w, "lost") PROVE pc'[w] = "lost"
  BY <1>0, <1>10, FinishShape
<1>11. ASSUME NEW t \in Task, Mark(t) PROVE Answers(w)' \/ Mark(w)
  BY <1>9, <1>11 DEF Mark
<1>12. ASSUME NEW t \in Task, Clear(t) PROVE Answers(w)'
  <2>1. t # w
    BY <1>0, <1>12 DEF Clear
  <2>. QED BY <1>9, <1>12, <2>1 DEF Clear
<1>13. ASSUME NEW t \in Task, RecordError(t) PROVE Answers(w)' \/ pc'[w] = "lost"
  <2>1. CASE t # w
    BY <1>9, <1>13, <2>1 DEF RecordError
  <2>2. CASE t = w
    BY <1>0, <1>10, <1>13, <2>2 DEF RecordError
  <2>. QED BY <2>1, <2>2
<1>14. ASSUME NEW v \in Writer, Abandon(v) PROVE Answers(w)' \/ pc'[w] = "lost"
  <2>1. v \in Task
    BY DEF Task
  <2>. QED BY <1>9, <1>10, <1>14, <2>1 DEF Abandon
<1>15. ASSUME NEW p \in Pod, Crash(p) PROVE Answers(w)' \/ pc'[w] = "lost"
  <2>1. /\ op' = op
        /\ home[w] # p => pc'[w] = pc[w] /\ snap'[w] = snap[w]
        /\ home[w] = p => pc'[w] = "lost"
    BY <1>0, <1>15 DEF Crash
  <2>. QED BY <2>1 DEF Answers
<1>16. CASE UNCHANGED vars
  BY <1>1, <1>16 DEF vars
<1>. QED BY <1>2, <1>3, <1>4, <1>5, <1>6, <1>7, <1>8, <1>11, <1>12, <1>13, <1>14, <1>15, <1>16
         DEF Next, PushStep

\* A request that lost its outcome does not find it again.
LEMMA LostStays ==
  ASSUME TypeOK, [Next]_vars, NEW w \in Writer, pc[w] = "lost"
  PROVE  pc'[w] = "lost"
<1>0. pc = [t \in Task |-> pc[t]] /\ w \in Task /\ w \notin Sweeper
  BY TaskAssumption DEF TypeOK, Task
<1>1. ASSUME NEW t \in Task, pc[t] # "lost", NEW end, Finish(t, end) PROVE pc'[w] = "lost"
  BY <1>0, <1>1, FinishShape
<1>2. ASSUME NEW t \in Task, Mark(t) \/ Clear(t) \/ RecordError(t) PROVE pc'[w] = "lost"
  BY <1>1, <1>2 DEF Mark, Clear, RecordError
<1>3. ASSUME NEW v \in Writer, Abandon(v) PROVE pc'[w] = "lost"
  BY <1>1, <1>3 DEF Abandon, Task
<1>4. ASSUME NEW p \in Pod, Crash(p) PROVE pc'[w] = "lost"
  BY <1>0, <1>4 DEF Crash
<1>5. ASSUME NEW t \in Task, PushStep(t) \/ Resolve(t) \/ GiveUp(t) PROVE pc'[w] = "lost"
  BY <1>0, <1>5 DEF PushStep, Enqueue, Begin, ReadRow, FallBack, DropById, StampBody, Land, Fail,
                    Resolve, GiveUp
<1>6. CASE Tick \/ UNCHANGED vars \/ \E body \in late : DeliverLate(body)
  BY <1>0, <1>6 DEF Tick, DeliverLate, vars
<1>7. ASSUME NEW v \in Writer, Save(v) \/ Delete(v) PROVE pc'[w] = "lost"
  BY <1>0, <1>7 DEF Save, Delete
<1>8. ASSUME NEW s \in Sweeper, FindFlagged(s) \/ FindTombstone(s) PROVE pc'[w] = "lost"
  BY <1>0, <1>8 DEF FindFlagged, FindTombstone
<1>. QED BY <1>2, <1>3, <1>4, <1>5, <1>6, <1>7, <1>8 DEF Next

\* A push that landed and shows the record as it is leaves DEMI showing it.
LEMMA LandedStands ==
  ASSUME OneProcess, TypeOK, TypeOK', Chained, RequestsInOrder, PastInOrder, PushesAreNew,
         [Next]_vars, UNCHANGED row,
         NEW t \in Landed, row.ver <= push[t].ver, ~row.live => IsDelete(t)
  PROVE  Stands(Truth)'
<1>1. Truth.ver = row.ver /\ Truth.del = ~row.live /\ row.ver \in Nat /\ Truth' = Truth
  BY DEF TypeOK, Truth
<1>2. Stands(Truth)
  BY <1>1, StandsAfter
<1>3. PICK b : b = Truth
  OBVIOUS
<1>4. Stands(b)'
  BY <1>2, <1>3, StandsKept
<1>. QED BY <1>1, <1>3, <1>4

\* Whatever happens, DEMI shows the record or somebody owes it.
LEMMA OwedStep ==
  ASSUME OneProcess, TypeOK, TypeOK', Chained, FlagsAreReal, CoverIsNew, RequestsInOrder,
         PastInOrder, PushesAreNew, StandsOrOwed, [Next]_vars
  PROVE  StandsOrOwed'
<1>0. /\ row \in [ver : Nat, live : BOOLEAN] /\ pc = [t \in Task |-> pc[t]]
      /\ op = [t \in Task |-> op[t]] /\ snap = [t \in Task |-> snap[t]] /\ Writer \subseteq Task
      /\ Truth.ver = row.ver /\ Truth.del = ~row.live
  BY DEF TypeOK, Task, Truth
<1>1. CASE ~NothingLost
  BY <1>1, LostStays DEF NothingLost, StandsOrOwed
<1>2. ASSUME NEW w \in Writer, Save(w) \/ Delete(w) PROVE StandsOrOwed'
  <2>1. CASE Save(w)
    <3>1. /\ pc'[w] = "saved" /\ op'[w] = "save" /\ snap'[w] = row.ver + 1
          /\ row'.ver = row.ver + 1 /\ row'.live
      BY <1>0, <2>1 DEF Save
    <3>. QED BY <3>1 DEF StandsOrOwed, Answers
  <2>2. CASE Delete(w)
    <3>1. /\ pc'[w] = "saved" /\ op'[w] = "delete" /\ snap'[w] = row.ver
          /\ row'.ver = row.ver /\ ~row'.live
      BY <1>0, <2>2 DEF Delete
    <3>. QED BY <3>1 DEF StandsOrOwed, Answers
  <2>. QED BY <1>2, <2>1, <2>2
<1>3. CASE row' = row
  <2>1. Truth' = Truth
    BY <1>3 DEF Truth
  <2>2. CASE Stands(Truth)
    <3>1. PICK b : b = Truth
      OBVIOUS
    <3>2. Stands(b)'
      BY <1>3, <2>2, <3>1, StandsKept
    <3>. QED BY <2>1, <3>1, <3>2 DEF StandsOrOwed
  <2>3. ASSUME NEW t \in Task, pc[t] = "clearing", ~row.live => IsDelete(t),
               row.live => row.ver <= push[t].ver
        PROVE  StandsOrOwed'
    <3>1. t \in Landed /\ snap[t] <= push[t].ver
      BY <2>3 DEF RequestsInOrder, Landed
    <3>2. ~row.live => row.ver <= push[t].ver
      BY <2>3, <3>1 DEF RequestsInOrder, Busy
    <3>. QED BY <1>3, <2>3, <3>1, <3>2, LandedStands DEF StandsOrOwed
  <2>4. CASE row.live /\ flag.on /\ flag.ver = row.ver
    <3>1. CASE flag' = flag
      BY <1>3, <2>4, <3>1 DEF StandsOrOwed
    <3>2. ASSUME NEW t \in Task, Mark(t) PROVE StandsOrOwed'
      BY <1>3, <2>4, <3>2 DEF Mark, StandsOrOwed
    <3>3. ASSUME NEW t \in Task, Clear(t) PROVE StandsOrOwed'
      <4>1. CASE Covered(t)
        BY <2>3, <2>4, <3>3, <4>1 DEF Clear, CoverIsNew
      <4>2. CASE ~Covered(t)
        BY <3>1, <3>3, <4>2 DEF Clear
      <4>. QED BY <4>1, <4>2
    <3>4. ASSUME NEW w \in Writer, Abandon(w) PROVE flag' = flag
      BY <3>4 DEF Abandon, store
    <3>5. ASSUME NEW s \in Sweeper, FindFlagged(s) \/ FindTombstone(s) PROVE flag' = flag
      BY <3>5 DEF FindFlagged, FindTombstone, store
    <3>6. ASSUME NEW t \in Task, PushStep(t) \/ Resolve(t) \/ GiveUp(t) \/ RecordError(t)
          PROVE  flag' = flag
      BY <3>6 DEF PushStep, Enqueue, Begin, ReadRow, FallBack, DropById, StampBody, Land, Fail,
                  Resolve, GiveUp, RecordError, store
    <3>7. CASE \/ Tick \/ UNCHANGED vars \/ \E body \in late : DeliverLate(body)
               \/ \E p \in Pod : Crash(p)
      BY <3>1, <3>7 DEF Tick, vars, DeliverLate, Crash, store
    <3>. QED BY <1>2, <3>1, <3>2, <3>3, <3>4, <3>5, <3>6, <3>7 DEF Next
  <2>5. CASE ~row.live /\ tomb.on
    <3>1. CASE tomb' = tomb
      BY <1>3, <2>5, <3>1 DEF StandsOrOwed
    <3>2. ASSUME NEW t \in Task, Mark(t) PROVE StandsOrOwed'
      BY <1>3, <2>5, <3>1, <3>2 DEF Mark, StandsOrOwed
    <3>3. ASSUME NEW t \in Task, Clear(t) PROVE StandsOrOwed'
      BY <2>3, <2>5, <3>1, <3>3 DEF Clear
    <3>4. ASSUME NEW w \in Writer, Abandon(w) PROVE tomb' = tomb
      BY <3>4 DEF Abandon, store
    <3>5. ASSUME NEW s \in Sweeper, FindFlagged(s) \/ FindTombstone(s) PROVE tomb' = tomb
      BY <3>5 DEF FindFlagged, FindTombstone, store
    <3>6. ASSUME NEW t \in Task, PushStep(t) \/ Resolve(t) \/ GiveUp(t) \/ RecordError(t)
          PROVE  tomb' = tomb
      BY <3>6 DEF PushStep, Enqueue, Begin, ReadRow, FallBack, DropById, StampBody, Land, Fail,
                  Resolve, GiveUp, RecordError, store
    <3>7. CASE \/ Tick \/ UNCHANGED vars \/ \E body \in late : DeliverLate(body)
               \/ \E p \in Pod : Crash(p)
      BY <3>1, <3>7 DEF Tick, vars, DeliverLate, Crash, store
    <3>. QED BY <1>2, <3>1, <3>2, <3>3, <3>4, <3>5, <3>6, <3>7 DEF Next
  <2>6. ASSUME NEW w \in Writer, Answers(w) PROVE StandsOrOwed'
    <3>1. CASE Answers(w)'
      BY <3>1 DEF StandsOrOwed
    <3>2. CASE pc'[w] = "lost"
      BY <3>2 DEF StandsOrOwed, NothingLost
    <3>3. CASE Mark(w)
      <4>1. flag' = IF row.live THEN [on |-> TRUE, at |-> failedAt[w], ver |-> row.ver] ELSE flag
        BY <3>3 DEF Mark
      <4>2. ~row.live => tomb'.on
        BY <2>6, <3>3 DEF Mark, Answers, IsDelete
      <4>. QED BY <1>3, <4>1, <4>2 DEF StandsOrOwed
    <3>4. CASE push[w].landed
      <4>1. w \in Landed /\ row.ver <= push[w].ver /\ (~row.live => IsDelete(w))
        BY <1>0, <2>6, <3>4 DEF Landed, RequestsInOrder, Answers, IsDelete
      <4>. QED BY <1>3, <4>1, LandedStands DEF StandsOrOwed
    <3>. QED BY <1>3, <2>6, <3>1, <3>2, <3>3, <3>4, AnswersKept
  <2>. QED BY <1>1, <2>2, <2>4, <2>5, <2>6 DEF StandsOrOwed
<1>4. ASSUME \A w \in Writer : ~(Save(w) \/ Delete(w)) PROVE row' = row
  BY <1>4 DEF Next, vars, store, Tick, Abandon, FindFlagged, FindTombstone, PushStep, Enqueue, Begin,
              ReadRow, FallBack, DropById, StampBody, Land, Fail, Resolve, GiveUp, RecordError, Mark,
              Clear, DeliverLate, Crash
<1>. QED BY <1>2, <1>3, <1>4

\* Nothing is under way to begin with, and DEMI shows the record.
LEMMA OneInit == Init => OneInv
<1>. SUFFICES ASSUME Init PROVE OneInv
  OBVIOUS
<1>0. /\ TypeOK /\ now = 0 /\ late = {} /\ row.ver = 1 /\ row.live /\ ~tomb.on
      /\ demi.ver = 1 /\ ~demi.del /\ demi.stamp = 0
      /\ \A t \in Task : /\ push[t].stage = "none" /\ ~push[t].landed /\ pc[t] = "idle"
                          /\ snap[t] = 0 /\ ~IsDelete(t)
  BY InitInv, NoPushIsIdle DEF Init, Inv, NoTomb, IsDelete
<1>1. RequestsInOrder
  BY <1>0 DEF RequestsInOrder, AtWork
<1>2. Past = {demi}
  BY <1>0 DEF Past, Landed
<1>3. PastInOrder
  <2>1. \A t \in Task : demi.stamp <= Clock(t)
    BY <1>0, ClockBound
  <2>. QED BY <1>0, <1>2, <2>1 DEF PastInOrder, Landed
<1>4. PushesAreNew
  BY <1>0 DEF PushesAreNew, AtWork
<1>5. Stands(Truth)
  <2>1. Truth.ver = 1 /\ ~Truth.del
    BY <1>0 DEF Truth
  <2>2. Supersedes(demi, Truth)
    BY <1>0, <2>1 DEF Supersedes
  <2>3. \A t \in Task : ~AtWork(t)
    BY <1>0 DEF AtWork
  <2>. QED BY <1>0, <2>2, <2>3 DEF Stands
<1>. QED BY <1>1, <1>3, <1>4, <1>5 DEF OneInv, StandsOrOwed

\* In one process the strengthened invariant is inductive.
LEMMA OneStep ==
  ASSUME OneProcess, Inv, OneInv, [Next]_vars
  PROVE  Inv' /\ OneInv'
<1>1. Inv'
  BY TypeStep, ChainStep, CoverStep DEF Inv
<1>2. TypeOK /\ TypeOK' /\ Chained /\ FlagsAreReal /\ CoverIsNew
  BY <1>1 DEF Inv
<1>3. RequestsInOrder /\ PastInOrder /\ PushesAreNew /\ StandsOrOwed
  BY DEF OneInv
<1>4. RequestsInOrder' /\ PastInOrder' /\ PushesAreNew' /\ StandsOrOwed'
  BY <1>2, <1>3, RequestStep, OrderStep, OwedStep
<1>. QED BY <1>1, <1>4 DEF OneInv

\* What the invariant says once every request is answered and no push runs.
LEMMA OneShows ==
  ASSUME Inv, OneInv
  PROVE  MirroredOrOwed
<1>. SUFFICES ASSUME Quiet, NothingLost, demi.from # "snapshot", ~flag.on, ~tomb.on
              PROVE  Agrees
  BY DEF MirroredOrOwed
<1>1. /\ row \in [ver : Nat, live : BOOLEAN] /\ demi.ver \in Nat /\ demi.del \in BOOLEAN
      /\ demi \in Past /\ Writer \subseteq Task
  BY PastTypes DEF Inv, TypeOK, Task
<1>2. demi.ver <= row.ver /\ (demi.del => ~row.live)
  BY <1>1 DEF OneInv, PastInOrder
<1>3. \A w \in Writer : ~Answers(w)
  BY <1>1 DEF Answers, Quiet
<1>4. Stands(Truth)
  BY <1>3 DEF OneInv, StandsOrOwed
<1>5. row.ver <= demi.ver /\ (~row.live => demi.del)
  BY <1>4 DEF Stands, Truth, Supersedes
<1>. QED BY <1>1, <1>2, <1>5 DEF Agrees

\* As long as one process pushes the record: once every request is answered and no push runs,
\* DEMI shows the record as Mongo has it or a flag or tombstone says it does not, unless an
\* outcome was lost or a caller's copy pushed.
THEOREM OneProcessMirrors ==
  ASSUME OneProcess
  PROVE  Spec => []MirroredOrOwed
<1>1. Inv /\ OneInv => MirroredOrOwed
  BY OneShows
<1>2. Inv /\ OneInv /\ [Next]_vars => Inv' /\ OneInv'
  BY OneStep
<1>. QED BY InitInv, OneInit, <1>1, <1>2, PTL DEF Spec

\* As long as one process pushes the record, a request is told that its write is mirrored only
\* when DEMI shows it, or something newer, or a caller's copy pushed since.
THEOREM OneProcessReplies ==
  ASSUME OneProcess
  PROVE  Spec => []MirroredReplyIsTrue
<1>1. Inv /\ OneInv => MirroredReplyIsTrue
  <2>. SUFFICES ASSUME Inv, OneInv, NEW w \in Writer, pc[w] = "clearing", demi.from # "snapshot"
                PROVE  demi.ver >= snap[w] /\ (op[w] = "delete" => demi.del)
    BY DEF MirroredReplyIsTrue
  <2>1. w \in Task /\ TypeOK
    BY DEF Task, Inv
  <2>2. w \in Landed /\ snap[w] <= push[w].ver
    BY <2>1 DEF OneInv, RequestsInOrder, Landed
  <2>3. Supersedes(demi, BodyOf(w))
    BY <2>2 DEF OneInv, PastInOrder
  <2>4. push[w].ver <= demi.ver /\ (IsDelete(w) => demi.del)
    BY <2>3 DEF Supersedes, BodyOf
  <2>5. demi.ver \in Nat /\ push[w].ver \in Nat /\ snap[w] \in Nat
    BY <2>1 DEF TypeOK, Body, Push
  <2>. QED BY <2>2, <2>4, <2>5 DEF IsDelete
<1>2. Inv /\ OneInv /\ [Next]_vars => Inv' /\ OneInv'
  BY OneStep
<1>. QED BY InitInv, OneInit, <1>1, <1>2, PTL DEF Spec

\* What DEMI shows only grows newer, by any step.
LEMMA OneKeeps ==
  ASSUME Inv, OneInv, Next
  PROVE  demi'.from # "snapshot" => demi'.ver >= demi.ver /\ (demi.del => demi'.del)
<1>. DEFINE Kept == demi'.from # "snapshot" => demi'.ver >= demi.ver /\ (demi.del => demi'.del)
<1>0. TypeOK /\ PastInOrder /\ PushesAreNew /\ Writer \subseteq Task /\ Sweeper \subseteq Task
  BY DEF Inv, OneInv, Task
<1>1. demi \in Past /\ \A b \in Past : b.ver \in Nat /\ b.stamp \in Nat
  BY <1>0, PastTypes
<1>2. ASSUME UNCHANGED demi PROVE Kept
  BY <1>1, <1>2
<1>3. ASSUME NEW t \in Task, Land(t) PROVE Kept
  <2>1. demi' = BodyOf(t) \/ demi' = demi
    BY <1>3 DEF Land, Newest
  <2>2. Supersedes(BodyOf(t), demi)
    BY <1>0, <1>1, <1>3 DEF PushesAreNew, Land, AtWork
  <2>3. BodyOf(t).ver \in Nat
    BY <1>0, BodyType DEF Body
  <2>. QED BY <1>1, <1>2, <2>1, <2>2, <2>3 DEF Supersedes
<1>4. ASSUME NEW body \in late, DeliverLate(body) PROVE Kept
  <2>1. (demi' = body /\ demi.stamp <= body.stamp) \/ demi' = demi
    BY <1>1, <1>4, PastTypes, <1>0 DEF DeliverLate, Newest
  <2>2. demi.stamp <= body.stamp => Supersedes(body, demi)
    BY <1>0, <1>1 DEF PastInOrder
  <2>3. body.ver \in Nat
    BY <1>0, <1>1, PastTypes
  <2>. QED BY <1>1, <1>2, <2>1, <2>2, <2>3 DEF Supersedes
<1>5. ASSUME NEW t \in Task, PushStep(t) \/ GiveUp(t) \/ Resolve(t) \/ RecordError(t), ~Land(t)
      PROVE  UNCHANGED demi
  BY <1>5 DEF PushStep, Enqueue, Begin, ReadRow, FallBack, DropById, StampBody, Fail, GiveUp,
              Resolve, RecordError
<1>6. ASSUME NEW t \in Task, Mark(t) \/ Clear(t) PROVE UNCHANGED demi
  BY <1>6 DEF Mark, Clear
<1>7. ASSUME NEW w \in Writer, Save(w) \/ Delete(w) \/ Abandon(w) PROVE UNCHANGED demi
  BY <1>7 DEF Save, Delete, Abandon
<1>8. ASSUME NEW s \in Sweeper, FindFlagged(s) \/ FindTombstone(s) PROVE UNCHANGED demi
  BY <1>8 DEF FindFlagged, FindTombstone
<1>9. ASSUME Tick \/ \E p \in Pod : Crash(p) PROVE UNCHANGED demi
  BY <1>9 DEF Tick, Crash
<1>. HIDE DEF Kept
<1>10. Kept
  BY <1>2, <1>3, <1>4, <1>5, <1>6, <1>7, <1>8, <1>9 DEF Next
<1>. QED BY <1>10 DEF Kept

\* As long as one process pushes the record, what DEMI took from a row is never replaced by an
\* older version of it, nor a delete undone, unless by a caller's copy: not by a push that was
\* given up on and arrives after all, nor by one that was read first.
THEOREM OneProcessKeepsNewest ==
  ASSUME OneProcess
  PROVE  Spec => NewestIsKept
<1>1. Inv /\ OneInv /\ [Next]_vars
      => [demi'.from # "snapshot" => demi'.ver >= demi.ver /\ (demi.del => demi'.del)]_vars
  BY OneKeeps
<1>2. Inv /\ OneInv /\ [Next]_vars => Inv' /\ OneInv'
  BY OneStep
<1>. QED BY InitInv, OneInit, <1>1, <1>2, PTL DEF Spec, NewestIsKept
-----------------------------------------------------------------------------
(* The refinement. *)

\* Only a write or a delete of the row makes anything owed to DEMI.
LEMMA OwedOnlyByWrites ==
  ASSUME Inv, Next, \A w \in Writer : ~Save(w) /\ ~Delete(w)
  PROVE  Owed' => Owed
<1>0. TypeOK /\ Writer \subseteq Task /\ Sweeper \subseteq Task
  BY DEF Inv, Task
<1>1. ASSUME NEW t \in Task,
             pc[t] \in {"saved", "waiting", "marking", "clearing"} \/ ~Settled(t)
      PROVE  Owed
  BY <1>1 DEF Owed, Quiet
<1>2. ASSUME NEW t \in Task, PushStep(t) \/ GiveUp(t) PROVE Owed
  BY <1>1, <1>2 DEF PushStep, Enqueue, Begin, ReadRow, FallBack, DropById, StampBody, Land, Fail,
                    GiveUp, Settled
<1>3. ASSUME NEW t \in Task, Resolve(t) \/ Mark(t) \/ Clear(t) \/ RecordError(t) PROVE Owed
  BY <1>1, <1>3 DEF Resolve, Mark, Clear, RecordError
<1>4. ASSUME NEW w \in Writer, Abandon(w) PROVE Owed
  BY <1>0, <1>1, <1>4 DEF Abandon
<1>5. ASSUME NEW s \in Sweeper, FindFlagged(s) \/ FindTombstone(s) PROVE Owed
  BY <1>5 DEF FindFlagged, FindTombstone, Owed
<1>6. ASSUME Tick \/ \E body \in late : DeliverLate(body) PROVE Owed' => Owed
  BY <1>6 DEF Tick, DeliverLate, Owed, Quiet, Settled, store
<1>7. ASSUME NEW p \in Pod, Crash(p) PROVE Owed' => Owed
  <2>1. flag' = flag /\ tomb' = tomb
    BY <1>7 DEF Crash, store
  <2>2. ASSUME Quiet, NEW t \in Task
        PROVE  pc'[t] \in {"idle", "done", "lost"} /\ Settled(t)'
    <3>1. pc[t] \in {"idle", "done", "lost"} /\ Settled(t)
      BY <2>2 DEF Quiet
    <3>2. pc'[t] = pc[t]
      BY <1>7, <3>1 DEF Crash
    <3>3. push'[t] = NoPush \/ push'[t] = push[t]
      BY <1>7 DEF Crash
    <3>. QED BY <3>1, <3>2, <3>3 DEF Settled, NoPush
  <2>3. Quiet => Quiet'
    BY <2>2 DEF Quiet
  <2>. QED BY <2>1, <2>3 DEF Owed
<1>. QED BY <1>2, <1>3, <1>4, <1>5, <1>6, <1>7 DEF Next

\* And nothing else writes the row.
LEMMA RowOnlyByWrites ==
  ASSUME Next, \A w \in Writer : ~Save(w) /\ ~Delete(w)
  PROVE  row' = row
<1>. USE DEF store
<1>1. ASSUME NEW t \in Task, PushStep(t) \/ GiveUp(t) PROVE row' = row
  BY <1>1 DEF PushStep, Enqueue, Begin, ReadRow, FallBack, DropById, StampBody, Land, Fail, GiveUp
<1>2. ASSUME NEW t \in Task, Resolve(t) \/ Mark(t) \/ Clear(t) \/ RecordError(t) PROVE row' = row
  BY <1>2 DEF Resolve, Mark, Clear, RecordError
<1>3. ASSUME NEW w \in Writer, Abandon(w) PROVE row' = row
  BY <1>3 DEF Abandon
<1>4. ASSUME NEW s \in Sweeper, FindFlagged(s) \/ FindTombstone(s) PROVE row' = row
  BY <1>4 DEF FindFlagged, FindTombstone
<1>5. ASSUME Tick \/ (\E body \in late : DeliverLate(body)) \/ (\E p \in Pod : Crash(p))
      PROVE  row' = row
  BY <1>5 DEF Tick, DeliverLate, Crash
<1>. QED BY <1>1, <1>2, <1>3, <1>4, <1>5 DEF Next

\* A step changes what DEMI holds or loses an outcome, not both.
LEMMA ShownOrLost ==
  ASSUME TypeOK, Next
  PROVE  demi' = demi \/ pc' = pc
<1>1. ASSUME NEW t \in Task, PushStep(t) \/ GiveUp(t) PROVE demi' = demi \/ pc' = pc
  BY <1>1 DEF PushStep, Enqueue, Begin, ReadRow, FallBack, DropById, StampBody, Land, Fail, GiveUp
<1>2. ASSUME NEW t \in Task, Resolve(t) \/ Mark(t) \/ Clear(t) \/ RecordError(t) PROVE demi' = demi
  BY <1>2 DEF Resolve, Mark, Clear, RecordError
<1>3. ASSUME NEW w \in Writer, Save(w) \/ Delete(w) \/ Abandon(w) PROVE demi' = demi
  BY <1>3 DEF Save, Delete, Abandon
<1>4. ASSUME NEW s \in Sweeper, FindFlagged(s) \/ FindTombstone(s) PROVE demi' = demi
  BY <1>4 DEF FindFlagged, FindTombstone
<1>5. ASSUME Tick \/ (\E p \in Pod : Crash(p)) PROVE demi' = demi
  BY <1>5 DEF Tick, Crash
<1>6. ASSUME \E body \in late : DeliverLate(body) PROVE pc' = pc
  BY <1>6 DEF DeliverLate
<1>. QED BY <1>1, <1>2, <1>3, <1>4, <1>5, <1>6 DEF Next

\* The initial states of the mirror are those of the promise.
LEMMA PromiseInit == Init => Mirror!Init
<1>. SUFFICES ASSUME Init PROVE Mirror!Init
  OBVIOUS
<1>1. row = [ver |-> 1, live |-> TRUE] /\ flag = NoFlag /\ tomb = NoTomb
      /\ demi = [ver |-> 1, del |-> FALSE, from |-> "row", stamp |-> 0]
      /\ \A t \in Task : pc[t] = "idle" /\ push[t] = NoPush
  BY DEF Init
<1>2. Shown = [ver |-> 1, del |-> FALSE, copy |-> FALSE]
  BY <1>1 DEF Shown
<1>3. Owed = FALSE
  BY <1>1 DEF Owed, Quiet, Settled, NoPush, NoFlag, NoTomb
<1>4. ~NothingLost = FALSE
  BY <1>1 DEF NothingLost, Task
<1>. QED BY <1>1, <1>2, <1>3, <1>4 DEF Mirror!Init

\* And every step of it is one of the promise's, or changes nothing of it.
LEMMA PromiseStep ==
  ASSUME OneProcess, Inv, OneInv, [Next]_vars, MirroredOrOwed'
  PROVE  [Mirror!Next]_(Mirror!promiseVars)
<1>1. TypeOK /\ TypeOK' /\ PastInOrder' /\ Writer \subseteq Task
  BY OneStep DEF Inv, OneInv, Task
<1>2. /\ row \in [ver : Nat, live : BOOLEAN] /\ demi \in Body /\ demi' \in Body
      /\ Owed \in BOOLEAN /\ Owed' \in BOOLEAN
  BY <1>1 DEF TypeOK, Owed, Quiet
<1>3. /\ Shown.ver = demi.ver /\ Shown.del = demi.del /\ Shown.copy = (demi.from = "snapshot")
      /\ Shown'.ver = demi'.ver /\ Shown'.del = demi'.del
      /\ Shown'.copy = (demi'.from = "snapshot")
      /\ demi' = demi => Shown' = Shown
  BY DEF Shown
<1>4. demi'.ver <= row'.ver /\ (demi'.del => ~row'.live)
  BY <1>1 DEF PastInOrder, Past
<1>5. Owed' \/ Mirror!Agrees' \/ Shown'.copy \/ ~NothingLost'
  BY <1>3 DEF MirroredOrOwed, Agrees, Mirror!Agrees, Owed
<1>6. ~NothingLost => ~NothingLost'
  BY <1>1, LostStays DEF NothingLost
<1>7. ASSUME NEW w \in Writer, Save(w) PROVE Mirror!Write
  <2>1. /\ row.live /\ row' = [row EXCEPT !.ver = @ + 1] /\ demi' = demi
        /\ pc' = [pc EXCEPT ![w] = "saved"] /\ w \in Task
    BY <1>1, <1>7 DEF Save
  <2>2. Owed' = TRUE
    <3>1. pc'[w] = "saved" BY <1>1, <2>1 DEF TypeOK
    <3>. QED BY <2>1, <3>1 DEF Owed, Quiet
  <2>3. NothingLost' = NothingLost
    <3>1. pc[w] = "idle" /\ pc'[w] = "saved" BY <1>1, <1>7, <2>1 DEF TypeOK, Save
    <3>2. \A v \in Writer : v # w => pc'[v] = pc[v] BY <1>1, <2>1 DEF TypeOK
    <3>. QED BY <3>1, <3>2 DEF NothingLost
  <2>. QED BY <1>3, <2>1, <2>2, <2>3 DEF Mirror!Write
<1>8. ASSUME NEW w \in Writer, Delete(w) PROVE Mirror!Remove
  <2>1. /\ row.live /\ row' = [row EXCEPT !.live = FALSE] /\ demi' = demi
        /\ pc' = [pc EXCEPT ![w] = "saved"] /\ w \in Task
    BY <1>1, <1>8 DEF Delete
  <2>2. Owed' = TRUE
    <3>1. pc'[w] = "saved" BY <1>1, <2>1 DEF TypeOK
    <3>. QED BY <2>1, <3>1 DEF Owed, Quiet
  <2>3. NothingLost' = NothingLost
    <3>1. pc[w] = "idle" /\ pc'[w] = "saved" BY <1>1, <1>8, <2>1 DEF TypeOK, Delete
    <3>2. \A v \in Writer : v # w => pc'[v] = pc[v] BY <1>1, <2>1 DEF TypeOK
    <3>. QED BY <3>1, <3>2 DEF NothingLost
  <2>. QED BY <1>3, <2>1, <2>2, <2>3 DEF Mirror!Remove
<1>9. ASSUME Next, \A w \in Writer : ~Save(w) /\ ~Delete(w) PROVE Mirror!Next
  <2>1. row' = row BY <1>9, RowOnlyByWrites
  <2>2. Mirror!OwesNoLess BY <1>5, <1>9, OwedOnlyByWrites DEF Mirror!OwesNoLess
  <2>3. CASE demi' = demi
    <3>1. CASE NothingLost' = NothingLost
      <4>1. Mirror!Rest BY <1>3, <2>1, <2>2, <2>3, <3>1 DEF Mirror!Rest
      <4>. QED BY <4>1 DEF Mirror!Next
    <3>2. CASE NothingLost' # NothingLost
      <4>1. ~NothingLost' = TRUE BY <1>6, <3>2 DEF NothingLost
      <4>2. Mirror!Lose BY <1>3, <2>1, <2>2, <2>3, <4>1 DEF Mirror!Lose
      <4>. QED BY <4>2 DEF Mirror!Next
    <3>. QED BY <3>1, <3>2
  <2>4. CASE pc' = pc
    <3>1. NothingLost' = NothingLost BY <2>4 DEF NothingLost
    <3>2. demi'.from # "snapshot" => demi'.ver >= demi.ver /\ (demi.del => demi'.del)
      BY <1>9, OneKeeps
    <3>3. demi.ver \in Nat /\ demi'.ver \in Nat BY <1>2 DEF Body
    <3>4. /\ Shown'.ver <= row.ver /\ (Shown'.del => ~row.live)
          /\ Shown'.copy \/ (Shown.ver <= Shown'.ver /\ (Shown.del => Shown'.del))
      BY <1>3, <1>4, <2>1, <3>2, <3>3
    <3>5. Mirror!Show BY <2>1, <2>2, <3>1, <3>4 DEF Mirror!Show
    <3>. QED BY <3>5 DEF Mirror!Next
  <2>. QED BY <1>1, <1>9, <2>3, <2>4, ShownOrLost
<1>10. CASE UNCHANGED vars
  <2>1. row' = row /\ demi' = demi /\ pc' = pc /\ flag' = flag /\ tomb' = tomb /\ push' = push
    BY <1>10 DEF vars
  <2>2. Shown' = Shown BY <1>3, <2>1
  <2>3. Owed' = Owed BY <2>1 DEF Owed, Quiet, Settled
  <2>4. NothingLost' = NothingLost BY <2>1 DEF NothingLost
  <2>. QED BY <2>1, <2>2, <2>3, <2>4 DEF Mirror!promiseVars
<1>. QED BY <1>7, <1>8, <1>9, <1>10 DEF Mirror!Next

\* As long as one process pushes the record, mirroring implements MirrorPromise: through every
\* refused push, retry, deadline and sweep, DEMI never goes back, a write stays owed until DEMI
\* agrees, and nothing is owed without a write, but for lost outcomes and callers' copies.
THEOREM OneProcessPromise ==
  ASSUME OneProcess
  PROVE  Spec => KeepsMirrorPromise
<1>1. Inv /\ OneInv => MirroredOrOwed
  BY OneShows
<1>2. Inv /\ OneInv /\ [Next]_vars => Inv' /\ OneInv'
  BY OneStep
<1>3. Inv /\ OneInv /\ [Next]_vars /\ MirroredOrOwed' => [Mirror!Next]_(Mirror!promiseVars)
  BY PromiseStep
<1>. QED BY InitInv, OneInit, PromiseInit, <1>1, <1>2, <1>3, PTL
         DEF Spec, KeepsMirrorPromise, Mirror!Spec
=============================================================================
