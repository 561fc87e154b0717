----------------------------- MODULE ApiProofs -----------------------------
(***************************************************************************)
(* What holds of the API's handlers whatever the number of requests, rows  *)
(* and faults.  A part per module: the push of an organization's users     *)
(* first, then organizations, users and CACUsers, then documents, then the *)
(* reads, and last the handlers together.                                  *)
(***************************************************************************)
EXTENDS MCApi, FiniteSetTheorems, TLAPS

-----------------------------------------------------------------------------
\* RenamePush.

\* Where a request can be, and its record.
PushStage == {"new", "written", "looking", "await", "mark", "markLate", "late", "clear", "done"}
PushRow == [at : PushStage, ids : SUBSET Person, wrote : [Person -> Nat], older : SUBSET Person,
            pending : BOOLEAN, ok : BOOLEAN]
Exchange == [of : Pusher \cup {Nobody}, ver : Nat]

RenShapes ==
  /\ joined \subseteq Person /\ lost \subseteq Person
  /\ ver \in [Person -> Nat] /\ mirror \in [Person -> Nat] /\ due \in [Person -> Nat]
  /\ flag \in [Person -> {"no", "fresh", "old"}]
  /\ push \in [Pusher -> PushRow]
  /\ wire \in [Person -> Exchange]
  /\ asked \subseteq Pusher \X Person
  /\ faults \in 0..MaxFaults

\* A user's push that has not come back.
Waits(o, u) == <<o, u>> \in asked \/ wire[u].of = o

\* DEMI never has, and nothing stands for, a version Mongo has not.
VersionsInOrder ==
  \A u \in Person :
    /\ ver[u] > 0 /\ mirror[u] =< ver[u] /\ due[u] =< ver[u]
    /\ wire[u].of = Nobody => wire[u] = NoWire
    /\ wire[u] # NoWire => mirror[u] =< wire[u].ver /\ wire[u].ver =< ver[u]
    /\ \A o \in Pusher : push[o].wrote[u] =< ver[u]

\* A request pushes only while it waits, and clears once all have come back.
OutInOrder ==
  \A o \in Pusher :
    /\ push[o].at \in {"new", "written", "looking", "markLate", "late", "clear"}
         => \A u \in Person : ~Waits(o, u)
    /\ push[o].at = "clear" => push[o].ok
    /\ push[o].at = "new" => \A u \in Person : push[o].wrote[u] = 0

\* What is on the wire has the write of its request, and what an older flag is for.
OnWire ==
  \A o \in Pusher, u \in Person :
    Unanswered(o) /\ wire[u].of = o =>
      /\ wire[u].ver >= push[o].wrote[u]
      /\ u \in push[o].older => wire[u].ver >= due[u]

\* So does DEMI, when it came back and nothing failed.
CameBack ==
  \A o \in Pusher, u \in Person :
    push[o].at \in {"await", "clear"} /\ push[o].ok /\ u \in push[o].ids /\ ~Waits(o, u) =>
      /\ mirror[u] >= push[o].wrote[u]
      /\ u \in push[o].older => mirror[u] >= due[u]

\* Whose row a request was the last to write is of those it flags, and of
\* those it pushes.
WritesInOrder ==
  \A o \in Pusher, u \in Person :
    Unanswered(o) /\ push[o].wrote[u] = ver[u] =>
      /\ u \in FlaggedBy(o)
      /\ push[o].at \in {"await", "clear"} /\ push[o].ok => u \in push[o].ids

\* A request that is still to answer for the last write of a user.
AnswersFor(o, u) ==
  /\ push[o].at \in {"written", "looking", "await", "mark", "markLate", "clear"}
  /\ push[o].wrote[u] = ver[u]

\* Someone owes DEMI a user it has not.
UserIsOwed ==
  \A u \in Person :
    \/ mirror[u] = ver[u] \/ u \in lost
    \/ flag[u] # "no" /\ due[u] = ver[u]
    \/ \E o \in Pusher : AnswersFor(o, u)

FlagsCover == \A u \in Person : flag[u] = "no" => mirror[u] >= due[u]

RenInv ==
  /\ RenShapes /\ VersionsInOrder /\ OutInOrder /\ OnWire /\ CameBack
  /\ WritesInOrder /\ UserIsOwed /\ FlagsCover

\* What the shapes say of each request and user.
RenNumbers ==
  /\ \A u \in Person : /\ ver[u] \in Nat /\ mirror[u] \in Nat /\ due[u] \in Nat
                       /\ wire[u] \in Exchange /\ wire[u].ver \in Nat
                       /\ flag[u] \in {"no", "fresh", "old"}
  /\ \A o \in Pusher : push[o].at \in PushStage
  /\ \A o \in Pusher, u \in Person : push[o].wrote[u] \in Nat

LEMMA NumbersNow == RenShapes => RenNumbers
BY DEF RenShapes, RenNumbers, PushRow, Exchange

LEMMA NumbersNext == RenShapes' => RenNumbers'
BY DEF RenShapes, RenNumbers, PushRow, Exchange

LEMMA AskUsersStep ==
  ASSUME RenInv,
         NEW o \in Rename,
         AskUsers(o)
  PROVE  RenInv'
<1> o \in Pusher BY DEF Pusher
<1>a. /\ push[o].at = "written" /\ UNCHANGED <<joined, ver, mirror, flag, asked, wire, due, lost, faults>>
  BY DEF AskUsers
<1>b. /\ push'[o].at = "looking" /\ push'[o].older = OldFlags /\ push'[o].ok = push[o].ok
      /\ push'[o].ids = push[o].ids /\ push'[o].wrote = push[o].wrote
      /\ \A p \in Pusher : p # o => push'[p] = push[p]
  BY DEF AskUsers, RenInv, RenShapes, PushRow
<1>1. RenShapes'
  <2>0. push[o] \in PushRow /\ OldFlags \in SUBSET Person BY DEF RenInv, RenShapes, OldFlags
  <2>1. [push[o] EXCEPT !.at = "looking", !.older = OldFlags] \in PushRow
    BY <2>0 DEF PushRow, PushStage
  <2>2. push' \in [Pusher -> PushRow]
    BY <2>1 DEF AskUsers, RenInv, RenShapes
  <2> QED BY <2>2, <1>a DEF RenInv, RenShapes
<1>c. RenNumbers /\ RenNumbers' BY <1>1, NumbersNow, NumbersNext DEF RenInv
<1>2. VersionsInOrder' BY <1>a, <1>b DEF RenInv, VersionsInOrder
<1>3. OutInOrder' BY <1>a, <1>b DEF RenInv, OutInOrder, Waits
<1>4. OnWire'
  <2> SUFFICES ASSUME NEW p \in Pusher, NEW u \in Person, Unanswered(p)', wire'[u].of = p
               PROVE  /\ wire'[u].ver >= push'[p].wrote[u]
                      /\ u \in push'[p].older => wire'[u].ver >= due'[u]
    BY DEF OnWire
  <2>1. p # o BY <1>a DEF RenInv, OutInOrder, Waits
  <2> QED BY <2>1, <1>a, <1>b DEF RenInv, OnWire, Unanswered
<1>5. CameBack' BY <1>a, <1>b DEF RenInv, CameBack, Waits
<1>6. WritesInOrder' BY <1>a, <1>b DEF RenInv, WritesInOrder, Unanswered, FlaggedBy
<1>7. UserIsOwed' BY <1>a, <1>b DEF RenInv, UserIsOwed, AnswersFor
<1>8. FlagsCover' BY <1>a DEF RenInv, FlagsCover
<1> QED BY <1>1, <1>2, <1>3, <1>4, <1>5, <1>6, <1>7, <1>8 DEF RenInv

LEMMA RenameAllStep ==
  ASSUME RenInv,
         NEW o \in Rename,
         RenameAll(o)
  PROVE  RenInv'
<1> o \in Pusher BY DEF Pusher
<1> DEFINE written == [u \in Person |-> IF u \in joined THEN ver'[u] ELSE 0]
<1>a. /\ push[o].at = "new" /\ UNCHANGED <<joined, mirror, flag, asked, wire, due, lost, faults>>
      /\ \A u \in Person : ver'[u] = IF u \in joined THEN ver[u] + 1 ELSE ver[u]
  BY DEF RenameAll
<1>b. /\ push'[o].at = "written" /\ push'[o].older = push[o].older /\ push'[o].ok = push[o].ok
      /\ push'[o].ids = push[o].ids /\ push'[o].wrote = written
      /\ \A p \in Pusher : p # o => push'[p] = push[p]
  BY DEF RenameAll, RenInv, RenShapes, PushRow
<1>1. RenShapes'
  <2>0. /\ push[o] \in PushRow
        /\ ver' \in [Person -> Nat]
    BY DEF RenInv, RenShapes, RenameAll
  <2>1. written \in [Person -> Nat] BY <2>0
  <2>2. [push[o] EXCEPT !.at = "written", !.wrote = written] \in PushRow
    BY <2>0, <2>1 DEF PushRow, PushStage
  <2>3. push' \in [Pusher -> PushRow]
    BY <2>2 DEF RenameAll, RenInv, RenShapes
  <2> QED BY <2>0, <2>3, <1>a DEF RenInv, RenShapes
<1>c. RenNumbers /\ RenNumbers' BY <1>1, NumbersNow, NumbersNext DEF RenInv
<1>d. \A u \in Person : push'[o].wrote[u] = IF u \in joined THEN ver'[u] ELSE 0
  BY <1>b
<1>e. \A p \in Pusher, u \in Person : p # o => push[p].wrote[u] =< ver[u]
  BY DEF RenInv, VersionsInOrder
<1>2. VersionsInOrder' BY <1>a, <1>b, <1>c, <1>d DEF RenInv, VersionsInOrder, RenNumbers, NoWire
<1>3. OutInOrder' BY <1>a, <1>b DEF RenInv, OutInOrder, Waits
<1>4. OnWire'
  <2> SUFFICES ASSUME NEW p \in Pusher, NEW u \in Person, Unanswered(p)', wire'[u].of = p
               PROVE  /\ wire'[u].ver >= push'[p].wrote[u]
                      /\ u \in push'[p].older => wire'[u].ver >= due'[u]
    BY DEF OnWire
  <2>1. p # o BY <1>a DEF RenInv, OutInOrder, Waits
  <2> QED BY <2>1, <1>a, <1>b DEF RenInv, OnWire, Unanswered
<1>5. CameBack' BY <1>a, <1>b DEF RenInv, CameBack, Waits
<1>6. WritesInOrder'
  <2> SUFFICES ASSUME NEW p \in Pusher, NEW u \in Person, Unanswered(p)', push'[p].wrote[u] = ver'[u]
               PROVE  /\ u \in FlaggedBy(p)'
                      /\ push'[p].at \in {"await", "clear"} /\ push'[p].ok => u \in push'[p].ids
    BY DEF WritesInOrder
  <2>1. CASE p = o BY <2>1, <1>a, <1>b, <1>c, <1>d, <1>2 DEF FlaggedBy, VersionsInOrder
  <2>2. CASE p # o
    <3>1. ver'[u] = ver[u] BY <2>2, <1>a, <1>b, <1>c, <1>e DEF RenNumbers
    <3> QED BY <3>1, <2>2, <1>a, <1>b DEF RenInv, WritesInOrder, Unanswered, FlaggedBy
  <2> QED BY <2>1, <2>2
<1>7. UserIsOwed'
  <2> SUFFICES ASSUME NEW u \in Person
               PROVE  \/ mirror'[u] = ver'[u] \/ u \in lost'
                      \/ flag'[u] # "no" /\ due'[u] = ver'[u]
                      \/ \E p \in Pusher : AnswersFor(p, u)'
    BY DEF UserIsOwed
  <2>1. CASE u \in joined BY <2>1, <1>b, <1>d DEF AnswersFor
  <2>2. CASE u \notin joined BY <2>2, <1>a, <1>b DEF RenInv, UserIsOwed, AnswersFor
  <2> QED BY <2>1, <2>2
<1>8. FlagsCover' BY <1>a DEF RenInv, FlagsCover
<1> QED BY <1>1, <1>2, <1>3, <1>4, <1>5, <1>6, <1>7, <1>8 DEF RenInv

LEMMA FindUsersStep ==
  ASSUME RenInv,
         NEW o \in Rename,
         FindUsers(o)
  PROVE  RenInv'
<1> o \in Pusher BY DEF Pusher
<1>a. /\ push[o].at \in {"looking", "late"} /\ UNCHANGED <<joined, ver, mirror, flag, wire, due, lost, faults>>
      /\ asked' = asked \cup ({o} \X joined)
  BY DEF FindUsers
<1>b. \A p \in Pusher : p # o => push'[p] = push[p]
  BY DEF FindUsers, RenInv, RenShapes
<1>w. \A p \in Pusher, u \in Person : Waits(p, u)' <=> Waits(p, u) \/ (p = o /\ u \in joined)
  BY <1>a DEF Waits
<1>n. \A u \in Person : ~Waits(o, u) BY <1>a DEF RenInv, OutInOrder
<1>v. \A p \in Pusher, u \in Person : wire'[u].of = p => p # o BY <1>n, <1>a DEF Waits
<1>l. CASE push[o].at = "late"
  <2>b. push'[o] = EndPush BY <1>l DEF FindUsers, RenInv, RenShapes
  <2>e. EndPush.at = "done" /\ \A u \in Person : EndPush.wrote[u] = 0 BY DEF EndPush, NewPush
  <2>1. RenShapes'
    <3>1. EndPush \in PushRow BY DEF EndPush, NewPush, PushRow, PushStage
    <3>2. push' \in [Pusher -> PushRow] BY <3>1, <1>l DEF FindUsers, RenInv, RenShapes
    <3>3. asked' \subseteq Pusher \X Person BY <1>a DEF RenInv, RenShapes
    <3> QED BY <3>2, <3>3, <1>a DEF RenInv, RenShapes
  <2>c. RenNumbers /\ RenNumbers' BY <2>1, NumbersNow, NumbersNext DEF RenInv
  <2>2. VersionsInOrder' BY <1>a, <1>b, <2>b, <2>c, <2>e DEF RenInv, VersionsInOrder, RenNumbers, NoWire
  <2>3. OutInOrder' BY <1>b, <1>w, <2>b, <2>e DEF RenInv, OutInOrder
  <2>4. OnWire' BY <1>a, <1>b, <1>v DEF RenInv, OnWire, Unanswered
  <2>5. CameBack' BY <1>a, <1>b, <1>w, <2>b, <2>e DEF RenInv, CameBack
  <2>6. WritesInOrder' BY <1>a, <1>b, <2>b, <2>e DEF RenInv, WritesInOrder, Unanswered, FlaggedBy
  <2>7. UserIsOwed' BY <1>a, <1>b, <1>l DEF RenInv, UserIsOwed, AnswersFor
  <2>8. FlagsCover' BY <1>a DEF RenInv, FlagsCover
  <2> QED BY <2>1, <2>2, <2>3, <2>4, <2>5, <2>6, <2>7, <2>8 DEF RenInv
<1>k. CASE push[o].at = "looking"
  <2> DEFINE found == [push[o] EXCEPT !.at = "await", !.ids = joined, !.pending = joined \cap Flagged # {}]
  <2>0. push' = [push EXCEPT ![o] = found] BY <1>k DEF FindUsers
  <2>b. /\ push'[o].at = "await" /\ push'[o].older = push[o].older /\ push'[o].ok = push[o].ok
        /\ push'[o].ids = joined /\ push'[o].wrote = push[o].wrote
    BY <2>0 DEF RenInv, RenShapes, PushRow
  <2>1. RenShapes'
    <3>0. push[o] \in PushRow BY DEF RenInv, RenShapes
    <3>1. found \in PushRow BY <3>0 DEF PushRow, PushStage, RenInv, RenShapes
    <3>2. push' \in [Pusher -> PushRow] BY <3>1, <2>0 DEF RenInv, RenShapes
    <3>3. asked' \subseteq Pusher \X Person BY <1>a DEF RenInv, RenShapes
    <3> QED BY <3>2, <3>3, <1>a DEF RenInv, RenShapes
  <2> HIDE DEF found
  <2>2. VersionsInOrder' BY <1>a, <1>b, <2>b DEF RenInv, VersionsInOrder, NoWire
  <2>3. OutInOrder' BY <1>b, <1>w, <2>b DEF RenInv, OutInOrder
  <2>4. OnWire' BY <1>a, <1>b, <1>v DEF RenInv, OnWire, Unanswered
  <2>5. CameBack' BY <1>a, <1>b, <1>w, <2>b DEF RenInv, CameBack
  <2>6. WritesInOrder' BY <1>a, <1>b, <1>k, <2>b DEF RenInv, WritesInOrder, Unanswered, FlaggedBy
  <2>7. UserIsOwed' BY <1>a, <1>b, <1>k, <2>b DEF RenInv, UserIsOwed, AnswersFor
  <2>8. FlagsCover' BY <1>a DEF RenInv, FlagsCover
  <2> QED BY <2>1, <2>2, <2>3, <2>4, <2>5, <2>6, <2>7, <2>8 DEF RenInv
<1> QED BY <1>a, <1>l, <1>k

LEMMA LookupFailsStep ==
  ASSUME RenInv,
         NEW o \in Rename,
         LookupFails(o)
  PROVE  RenInv'
<1> o \in Pusher BY DEF Pusher
<1>a. /\ push[o].at \in {"looking", "late"} /\ UNCHANGED <<joined, ver, mirror, flag, asked, wire, due, lost>>
      /\ faults' \in 0..MaxFaults
  BY RenameAssumption DEF LookupFails, RenInv, RenShapes
<1>b. \A p \in Pusher : p # o => push'[p] = push[p]
  BY DEF LookupFails, RenInv, RenShapes
<1>n. \A u \in Person : ~Waits(o, u) BY <1>a DEF RenInv, OutInOrder
<1>v. \A p \in Pusher, u \in Person : wire'[u].of = p => p # o BY <1>n, <1>a DEF Waits
<1>l. CASE push[o].at = "late"
  <2>b. push'[o] = EndPush BY <1>l DEF LookupFails, RenInv, RenShapes
  <2>e. EndPush.at = "done" /\ \A u \in Person : EndPush.wrote[u] = 0 BY DEF EndPush, NewPush
  <2>1. RenShapes'
    <3>1. EndPush \in PushRow BY DEF EndPush, NewPush, PushRow, PushStage
    <3>2. push' \in [Pusher -> PushRow] BY <3>1, <1>l DEF LookupFails, RenInv, RenShapes
    <3> QED BY <3>2, <1>a DEF RenInv, RenShapes
  <2>c. RenNumbers /\ RenNumbers' BY <2>1, NumbersNow, NumbersNext DEF RenInv
  <2>2. VersionsInOrder' BY <1>a, <1>b, <2>b, <2>c, <2>e DEF RenInv, VersionsInOrder, RenNumbers, NoWire
  <2>3. OutInOrder' BY <1>a, <1>b, <2>b, <2>e DEF RenInv, OutInOrder, Waits
  <2>4. OnWire' BY <1>a, <1>b, <1>v DEF RenInv, OnWire, Unanswered
  <2>5. CameBack' BY <1>a, <1>b, <2>b, <2>e DEF RenInv, CameBack, Waits
  <2>6. WritesInOrder' BY <1>a, <1>b, <2>b, <2>e DEF RenInv, WritesInOrder, Unanswered, FlaggedBy
  <2>7. UserIsOwed' BY <1>a, <1>b, <1>l DEF RenInv, UserIsOwed, AnswersFor
  <2>8. FlagsCover' BY <1>a DEF RenInv, FlagsCover
  <2> QED BY <2>1, <2>2, <2>3, <2>4, <2>5, <2>6, <2>7, <2>8 DEF RenInv
<1>k. CASE push[o].at = "looking"
  <2> DEFINE failed == [push[o] EXCEPT !.at = "await", !.ok = FALSE]
  <2>0. push' = [push EXCEPT ![o] = failed] BY <1>k DEF LookupFails
  <2>b. /\ push'[o].at = "await" /\ push'[o].older = push[o].older /\ ~push'[o].ok
        /\ push'[o].ids = push[o].ids /\ push'[o].wrote = push[o].wrote
    BY <2>0 DEF RenInv, RenShapes, PushRow
  <2>1. RenShapes'
    <3>0. push[o] \in PushRow BY DEF RenInv, RenShapes
    <3>1. failed \in PushRow BY <3>0 DEF PushRow, PushStage
    <3>2. push' \in [Pusher -> PushRow] BY <3>1, <2>0 DEF RenInv, RenShapes
    <3> QED BY <3>2, <1>a DEF RenInv, RenShapes
  <2> HIDE DEF failed
  <2>2. VersionsInOrder' BY <1>a, <1>b, <2>b DEF RenInv, VersionsInOrder, NoWire
  <2>3. OutInOrder' BY <1>a, <1>b, <2>b DEF RenInv, OutInOrder, Waits
  <2>4. OnWire' BY <1>a, <1>b, <1>v DEF RenInv, OnWire, Unanswered
  <2>5. CameBack' BY <1>a, <1>b, <2>b DEF RenInv, CameBack, Waits
  <2>6. WritesInOrder' BY <1>a, <1>b, <1>k, <2>b DEF RenInv, WritesInOrder, Unanswered, FlaggedBy
  <2>7. UserIsOwed' BY <1>a, <1>b, <1>k, <2>b DEF RenInv, UserIsOwed, AnswersFor
  <2>8. FlagsCover' BY <1>a DEF RenInv, FlagsCover
  <2> QED BY <2>1, <2>2, <2>3, <2>4, <2>5, <2>6, <2>7, <2>8 DEF RenInv
<1> QED BY <1>a, <1>l, <1>k

LEMMA SaveUserStep ==
  ASSUME RenInv,
         NEW o \in Put, NEW w \in Person, NEW joins \in BOOLEAN,
         SaveUser(o, w, joins)
  PROVE  RenInv'
<1> o \in Pusher /\ o \notin Rename BY RenameAssumption DEF Pusher
<1> DEFINE written == [push[o].wrote EXCEPT ![w] = ver'[w]]
           saved == [push[o] EXCEPT !.at = "await", !.ids = {w}, !.wrote = written]
<1>a. /\ push[o].at = "new" /\ UNCHANGED <<mirror, flag, wire, due, lost, faults>>
      /\ ver'[w] = ver[w] + 1 /\ \A u \in Person : u # w => ver'[u] = ver[u]
      /\ \A u \in Person : u # w => (u \in joined' <=> u \in joined)
      /\ asked' = asked \cup {<<o, w>>}
  BY DEF SaveUser, RenInv, RenShapes
<1>0. /\ push[o] \in PushRow /\ push[o].wrote \in [Person -> Nat] /\ ver' \in [Person -> Nat]
      /\ \A u \in Person : push[o].wrote[u] = 0
  BY <1>a DEF SaveUser, RenInv, RenShapes, PushRow, OutInOrder
<1>p. push' = [push EXCEPT ![o] = saved]
  BY <1>0 DEF SaveUser, RenInv, RenShapes, PushRow
<1>b. /\ push'[o].at = "await" /\ push'[o].older = push[o].older /\ push'[o].ok = push[o].ok
      /\ push'[o].ids = {w} /\ push'[o].wrote[w] = ver'[w]
      /\ \A u \in Person : u # w => push'[o].wrote[u] = 0
      /\ \A p \in Pusher : p # o => push'[p] = push[p]
  BY <1>p, <1>0 DEF RenInv, RenShapes, PushRow
<1>1. RenShapes'
  <2>1. written \in [Person -> Nat] BY <1>0
  <2>2. saved \in PushRow BY <2>1, <1>0 DEF PushRow, PushStage
  <2>3. push' \in [Pusher -> PushRow] BY <2>2, <1>p DEF RenInv, RenShapes
  <2>4. joined' \subseteq Person BY DEF SaveUser, RenInv, RenShapes
  <2> QED BY <2>3, <2>4, <1>0, <1>a DEF RenInv, RenShapes
<1> HIDE DEF written, saved
<1>c. RenNumbers /\ RenNumbers' BY <1>1, NumbersNow, NumbersNext DEF RenInv
<1>w. \A p \in Pusher, u \in Person : Waits(p, u)' <=> Waits(p, u) \/ (p = o /\ u = w)
  BY <1>a DEF Waits
<1>n. \A u \in Person : ~Waits(o, u) BY <1>a DEF RenInv, OutInOrder
<1>v. \A p \in Pusher, u \in Person : wire'[u].of = p => p # o BY <1>n, <1>a DEF Waits
<1>2. VersionsInOrder' BY <1>a, <1>b, <1>c DEF RenInv, VersionsInOrder, RenNumbers, NoWire
<1>3. OutInOrder' BY <1>b, <1>w DEF RenInv, OutInOrder
<1>4. OnWire' BY <1>a, <1>b, <1>v DEF RenInv, OnWire, Unanswered
<1>5. CameBack' BY <1>a, <1>b, <1>w DEF RenInv, CameBack
<1>6. WritesInOrder'
  <2> SUFFICES ASSUME NEW p \in Pusher, NEW u \in Person, Unanswered(p)', push'[p].wrote[u] = ver'[u]
               PROVE  /\ u \in FlaggedBy(p)'
                      /\ push'[p].at \in {"await", "clear"} /\ push'[p].ok => u \in push'[p].ids
    BY DEF WritesInOrder
  <2>1. CASE p = o
    <3>1. u = w BY <2>1, <1>b, <1>2 DEF VersionsInOrder
    <3> QED BY <2>1, <3>1, <1>b DEF FlaggedBy
  <2>2. CASE p # o
    <3>1. u # w BY <2>2, <1>a, <1>b, <1>c DEF RenNumbers, RenInv, VersionsInOrder
    <3> QED BY <3>1, <2>2, <1>a, <1>b DEF RenInv, WritesInOrder, Unanswered, FlaggedBy
  <2> QED BY <2>1, <2>2
<1>7. UserIsOwed'
  <2> SUFFICES ASSUME NEW u \in Person
               PROVE  \/ mirror'[u] = ver'[u] \/ u \in lost'
                      \/ flag'[u] # "no" /\ due'[u] = ver'[u]
                      \/ \E p \in Pusher : AnswersFor(p, u)'
    BY DEF UserIsOwed
  <2>1. CASE u = w BY <2>1, <1>b DEF AnswersFor
  <2>2. CASE u # w BY <2>2, <1>a, <1>b DEF RenInv, UserIsOwed, AnswersFor
  <2> QED BY <2>1, <2>2
<1>8. FlagsCover' BY <1>a DEF RenInv, FlagsCover
<1> QED BY <1>1, <1>2, <1>3, <1>4, <1>5, <1>6, <1>7, <1>8 DEF RenInv

LEMMA SweepUserStep ==
  ASSUME RenInv,
         NEW o \in Put, NEW w \in Person,
         SweepUser(o, w)
  PROVE  RenInv'
<1> o \in Pusher /\ o \notin Rename BY RenameAssumption DEF Pusher
<1> DEFINE swept == [push[o] EXCEPT !.at = "await", !.ids = {w}]
<1>a. /\ push[o].at = "new" /\ UNCHANGED <<joined, ver, mirror, flag, wire, due, lost, faults>>
      /\ asked' = asked \cup {<<o, w>>}
  BY DEF SweepUser
<1>p. push' = [push EXCEPT ![o] = swept]
  BY DEF SweepUser
<1>0. push[o] \in PushRow /\ \A u \in Person : push[o].wrote[u] = 0
  BY <1>a DEF RenInv, RenShapes, OutInOrder
<1>b. /\ push'[o].at = "await" /\ push'[o].older = push[o].older /\ push'[o].ok = push[o].ok
      /\ push'[o].ids = {w} /\ push'[o].wrote = push[o].wrote
      /\ \A p \in Pusher : p # o => push'[p] = push[p]
  BY <1>p, <1>0 DEF RenInv, RenShapes, PushRow
<1>1. RenShapes'
  <2>1. swept \in PushRow BY <1>0 DEF PushRow, PushStage
  <2>2. push' \in [Pusher -> PushRow] BY <2>1, <1>p DEF RenInv, RenShapes
  <2> QED BY <2>2, <1>a DEF RenInv, RenShapes
<1> HIDE DEF swept
<1>w. \A p \in Pusher, u \in Person : Waits(p, u)' <=> Waits(p, u) \/ (p = o /\ u = w)
  BY <1>a DEF Waits
<1>n. \A u \in Person : ~Waits(o, u) BY <1>a DEF RenInv, OutInOrder
<1>v. \A p \in Pusher, u \in Person : wire'[u].of = p => p # o BY <1>n, <1>a DEF Waits
<1>2. VersionsInOrder' BY <1>a, <1>b DEF RenInv, VersionsInOrder, NoWire
<1>3. OutInOrder' BY <1>b, <1>w DEF RenInv, OutInOrder
<1>4. OnWire' BY <1>a, <1>b, <1>v DEF RenInv, OnWire, Unanswered
<1>5. CameBack' BY <1>a, <1>b, <1>w DEF RenInv, CameBack
<1>6. WritesInOrder'
  <2>1. \A u \in Person : push'[o].wrote[u] # ver'[u]
    BY <1>0, <1>a, <1>b DEF RenInv, VersionsInOrder
  <2> QED BY <2>1, <1>a, <1>b DEF RenInv, WritesInOrder, Unanswered, FlaggedBy
<1>7. UserIsOwed' BY <1>a, <1>b DEF RenInv, UserIsOwed, AnswersFor
<1>8. FlagsCover' BY <1>a DEF RenInv, FlagsCover
<1> QED BY <1>1, <1>2, <1>3, <1>4, <1>5, <1>6, <1>7, <1>8 DEF RenInv

LEMMA ReadUserStep ==
  ASSUME RenInv,
         NEW o \in Pusher, NEW w \in Person,
         ReadUser(o, w)
  PROVE  RenInv'
<1> DEFINE sent == [of |-> o, ver |-> ver[w]]
           read == [push[o] EXCEPT !.older = OldFlags \cap {w}, !.pending = w \in Flagged]
<1>a. /\ <<o, w>> \in asked /\ wire[w] = NoWire /\ UNCHANGED <<joined, ver, mirror, flag, due, lost, faults>>
      /\ asked' = asked \ {<<o, w>>} /\ wire' = [wire EXCEPT ![w] = sent]
  BY DEF ReadUser
<1>0. /\ o # Nobody /\ push[o] \in PushRow
      /\ wire \in [Person -> Exchange] /\ push \in [Pusher -> PushRow]
  BY RenameAssumption DEF Pusher, RenInv, RenShapes
<1>x. sent \in Exchange BY DEF Exchange, RenInv, RenShapes
<1>b. /\ wire'[w] = sent /\ \A u \in Person : u # w => wire'[u] = wire[u]
  BY <1>a, <1>0
<1>s. sent.of = o /\ sent.ver = ver[w] OBVIOUS
<1>p. push' = IF o \in Put /\ Unanswered(o) THEN [push EXCEPT ![o] = read] ELSE push
  BY <1>0 DEF ReadUser, PushRow
<1>r. /\ push'[o].at = push[o].at /\ push'[o].ok = push[o].ok /\ push'[o].ids = push[o].ids
      /\ push'[o].wrote = push[o].wrote
      /\ push'[o].older \subseteq push[o].older \/ push'[o].older \subseteq {w}
      /\ \A p \in Pusher : p # o => push'[p] = push[p]
  <2>1. CASE o \in Put /\ Unanswered(o)
    <3>1. push'[o] = read /\ \A p \in Pusher : p # o => push'[p] = push[p]
      BY <2>1, <1>p, <1>0
    <3>2. /\ read.at = push[o].at /\ read.ok = push[o].ok /\ read.ids = push[o].ids
          /\ read.wrote = push[o].wrote /\ read.older \subseteq {w}
      BY <1>0 DEF PushRow
    <3> QED BY <3>1, <3>2
  <2>2. CASE ~(o \in Put /\ Unanswered(o)) BY <2>2, <1>p
  <2> QED BY <2>1, <2>2
<1>1. RenShapes'
  <2>0. OldFlags \cap {w} \in SUBSET Person /\ (w \in Flagged) \in BOOLEAN BY DEF OldFlags
  <2>1. read \in PushRow BY <2>0, <1>0 DEF PushRow
  <2>2. push' \in [Pusher -> PushRow] BY <2>1, <1>p, <1>0
  <2>3. wire' \in [Person -> Exchange] BY <1>a, <1>0, <1>x
  <2> QED BY <2>2, <2>3, <1>a DEF RenInv, RenShapes
<1> HIDE DEF sent, read
<1>c. RenNumbers /\ RenNumbers' BY <1>1, NumbersNow, NumbersNext DEF RenInv
<1>w. \A p \in Pusher, u \in Person : Waits(p, u)' <=> Waits(p, u)
  <2> SUFFICES ASSUME NEW p \in Pusher, NEW u \in Person PROVE Waits(p, u)' <=> Waits(p, u)
    OBVIOUS
  <2>1. CASE p = o /\ u = w BY <2>1, <1>a, <1>b, <1>s DEF Waits
  <2>2. CASE p # o /\ u = w
    <3>1. wire[w].of # p BY <1>a, RenameAssumption DEF NoWire, Pusher
    <3> QED BY <3>1, <2>2, <1>a, <1>b, <1>s DEF Waits
  <2>3. CASE u # w BY <2>3, <1>a, <1>b DEF Waits
  <2> QED BY <2>1, <2>2, <2>3
<1>2. VersionsInOrder' BY <1>a, <1>b, <1>r, <1>s, <1>0, <1>c DEF RenInv, VersionsInOrder, RenNumbers, NoWire
<1>3. OutInOrder' BY <1>r, <1>w DEF RenInv, OutInOrder
<1>4. OnWire'
  <2> SUFFICES ASSUME NEW p \in Pusher, NEW u \in Person, Unanswered(p)', wire'[u].of = p
               PROVE  /\ wire'[u].ver >= push'[p].wrote[u]
                      /\ u \in push'[p].older => wire'[u].ver >= due'[u]
    BY DEF OnWire
  <2>1. CASE u = w
    <3>1. wire'[u].ver = ver[w] BY <2>1, <1>b, <1>s
    <3>2. push'[p].wrote[u] = push[p].wrote[u] BY <1>r
    <3> QED BY <3>1, <3>2, <2>1, <1>a, <1>c DEF RenInv, VersionsInOrder, RenNumbers
  <2>2. CASE u # w
    <3>1. Unanswered(p) /\ wire[u].of = p /\ wire'[u] = wire[u] BY <2>2, <1>b, <1>r DEF Unanswered
    <3>2. u \in push'[p].older => u \in push[p].older BY <2>2, <1>r
    <3> QED BY <3>1, <3>2, <1>a, <1>r DEF RenInv, OnWire
  <2> QED BY <2>1, <2>2
<1>5. CameBack'
  <2> SUFFICES ASSUME NEW p \in Pusher, NEW u \in Person, push'[p].at \in {"await", "clear"}, push'[p].ok,
                      u \in push'[p].ids, ~Waits(p, u)'
               PROVE  /\ mirror'[u] >= push'[p].wrote[u]
                      /\ u \in push'[p].older => mirror'[u] >= due'[u]
    BY DEF CameBack
  <2>1. p = o => u # w BY <1>b, <1>s DEF Waits
  <2>2. u \in push'[p].older => u \in push[p].older BY <2>1, <1>r
  <2>3. /\ push[p].at \in {"await", "clear"} /\ push[p].ok /\ u \in push[p].ids /\ ~Waits(p, u)
        /\ push'[p].wrote = push[p].wrote
    BY <1>r, <1>w
  <2> QED BY <2>2, <2>3, <1>a DEF RenInv, CameBack
<1>6. WritesInOrder' BY <1>a, <1>r DEF RenInv, WritesInOrder, Unanswered, FlaggedBy
<1>7. UserIsOwed' BY <1>a, <1>r DEF RenInv, UserIsOwed, AnswersFor
<1>8. FlagsCover' BY <1>a DEF RenInv, FlagsCover
<1> QED BY <1>1, <1>2, <1>3, <1>4, <1>5, <1>6, <1>7, <1>8 DEF RenInv

LEMMA SettleUserStep ==
  ASSUME RenInv,
         NEW w \in Person, NEW ok \in BOOLEAN,
         SettleUser(w, ok)
  PROVE  RenInv'
<1> DEFINE o == wire[w].of
<1>a. /\ wire[w] # NoWire /\ UNCHANGED <<joined, ver, flag, asked, due, lost>>
      /\ mirror' = IF ok THEN [mirror EXCEPT ![w] = wire[w].ver] ELSE mirror
      /\ wire' = [wire EXCEPT ![w] = NoWire]
      /\ push' = IF Unanswered(o) THEN [push EXCEPT ![o] = [push[o] EXCEPT !.ok = push[o].ok /\ ok]] ELSE push
  BY DEF SettleUser
<1>f. faults' \in 0..MaxFaults BY RenameAssumption DEF SettleUser, RenInv, RenShapes
<1>0. /\ wire \in [Person -> Exchange] /\ push \in [Pusher -> PushRow] /\ mirror \in [Person -> Nat]
      /\ wire[w].ver \in Nat
  BY DEF RenInv, RenShapes, Exchange
<1>o. o \in Pusher /\ push[o] \in PushRow BY <1>a, <1>0 DEF RenInv, VersionsInOrder, Exchange
<1>n. NoWire \in Exchange /\ NoWire.of = Nobody /\ Nobody \notin Pusher
  BY RenameAssumption DEF NoWire, Exchange, Pusher
<1>b. /\ wire'[w] = NoWire /\ \A u \in Person : u # w => wire'[u] = wire[u] /\ mirror'[u] = mirror[u]
      /\ mirror'[w] = IF ok THEN wire[w].ver ELSE mirror[w]
  BY <1>a, <1>0
<1>r. /\ \A p \in Pusher : /\ push'[p].at = push[p].at /\ push'[p].ids = push[p].ids
                           /\ push'[p].wrote = push[p].wrote /\ push'[p].older = push[p].older
                           /\ push'[p].ok => push[p].ok
      /\ \A p \in Pusher : p # o => push'[p].ok = push[p].ok
      /\ Unanswered(o) => push'[o].ok = (push[o].ok /\ ok)
      /\ push' \in [Pusher -> PushRow]
  <2>1. CASE Unanswered(o)
    <3> DEFINE new == [push[o] EXCEPT !.ok = push[o].ok /\ ok]
    <3>1. push'[o] = new /\ \A p \in Pusher : p # o => push'[p] = push[p]
      BY <2>1, <1>a, <1>0, <1>o
    <3>2. /\ new.at = push[o].at /\ new.ids = push[o].ids /\ new.wrote = push[o].wrote
          /\ new.older = push[o].older /\ new.ok = (push[o].ok /\ ok) /\ new \in PushRow
      BY <1>o DEF PushRow
    <3> HIDE DEF new
    <3>3. push' \in [Pusher -> PushRow] BY <2>1, <1>a, <1>0, <3>2 DEF new
    <3> QED BY <3>1, <3>2, <3>3
  <2>2. CASE ~Unanswered(o) BY <2>2, <1>a, <1>0
  <2> QED BY <2>1, <2>2
<1>1. RenShapes'
  <2>1. wire' \in [Person -> Exchange] BY <1>a, <1>0, <1>n
  <2>2. mirror' \in [Person -> Nat] BY <1>a, <1>0
  <2> QED BY <2>1, <2>2, <1>r, <1>a, <1>f DEF RenInv, RenShapes
<1>c. RenNumbers /\ RenNumbers' BY <1>1, NumbersNow, NumbersNext DEF RenInv
<1>g. \A u \in Person : mirror'[u] >= mirror[u]
  BY <1>a, <1>b, <1>c DEF RenInv, VersionsInOrder, RenNumbers
<1>2. VersionsInOrder' BY <1>a, <1>b, <1>r, <1>c DEF RenInv, VersionsInOrder, RenNumbers
<1>w. \A p \in Pusher, u \in Person : Waits(p, u)' => Waits(p, u)
  BY <1>a, <1>b, <1>n DEF Waits
<1>v. \A p \in Pusher, u \in Person : Waits(p, u) /\ ~Waits(p, u)' => p = o /\ u = w
  BY <1>a, <1>b DEF Waits
<1>3. OutInOrder'
  <2>1. \A p \in Pusher : push[p].at = "clear" => p # o
    BY DEF RenInv, OutInOrder, Waits
  <2> QED BY <2>1, <1>r, <1>w DEF RenInv, OutInOrder
<1>4. OnWire'
  <2> SUFFICES ASSUME NEW p \in Pusher, NEW u \in Person, Unanswered(p)', wire'[u].of = p
               PROVE  /\ wire'[u].ver >= push'[p].wrote[u]
                      /\ u \in push'[p].older => wire'[u].ver >= due'[u]
    BY DEF OnWire
  <2>1. u # w BY <1>b, <1>n
  <2> QED BY <2>1, <1>a, <1>b, <1>r DEF RenInv, OnWire, Unanswered
<1>5. CameBack'
  <2> SUFFICES ASSUME NEW p \in Pusher, NEW u \in Person, push'[p].at \in {"await", "clear"}, push'[p].ok,
                      u \in push'[p].ids, ~Waits(p, u)'
               PROVE  /\ mirror'[u] >= push'[p].wrote[u]
                      /\ u \in push'[p].older => mirror'[u] >= due'[u]
    BY DEF CameBack
  <2>0. /\ push[p].at \in {"await", "clear"} /\ push[p].ok /\ u \in push[p].ids
        /\ push'[p].wrote = push[p].wrote /\ push'[p].older = push[p].older
    BY <1>r
  <2>1. CASE Waits(p, u)
    <3>1. p = o /\ u = w BY <2>1, <1>v
    <3>2. Unanswered(o) /\ ok BY <3>1, <2>0, <1>r DEF Unanswered
    <3> QED BY <3>1, <3>2, <2>0, <1>a, <1>b DEF RenInv, OnWire
  <2>2. CASE ~Waits(p, u)
    <3>1. mirror[u] >= push[p].wrote[u] /\ (u \in push[p].older => mirror[u] >= due[u])
      BY <2>0, <2>2 DEF RenInv, CameBack
    <3> QED BY <3>1, <2>0, <1>a, <1>c, <1>g DEF RenNumbers
  <2> QED BY <2>1, <2>2
<1>6. WritesInOrder' BY <1>a, <1>r DEF RenInv, WritesInOrder, Unanswered, FlaggedBy
<1>7. UserIsOwed'
  <2>1. \A u \in Person : mirror[u] = ver[u] => mirror'[u] = ver'[u]
    BY <1>a, <1>c, <1>g, <1>2 DEF RenNumbers, VersionsInOrder
  <2> QED BY <2>1, <1>a, <1>r DEF RenInv, UserIsOwed, AnswersFor
<1>8. FlagsCover' BY <1>a, <1>c, <1>g DEF RenInv, FlagsCover, RenNumbers
<1> QED BY <1>1, <1>2, <1>3, <1>4, <1>5, <1>6, <1>7, <1>8 DEF RenInv

LEMMA SettledStep ==
  ASSUME RenInv,
         NEW o \in Pusher,
         Settled(o)
  PROVE  RenInv'
<1> DEFINE next == IF push[o].ok THEN "clear" ELSE "mark"
<1>a. /\ push[o].at = "await" /\ UNCHANGED <<joined, ver, mirror, flag, asked, wire, due, lost, faults>>
      /\ \A u \in Person : ~Waits(o, u)
  BY DEF Settled, Out, Waits
<1>0. push[o] \in PushRow BY DEF RenInv, RenShapes
<1>b. /\ push'[o].at = next /\ push'[o].older = push[o].older /\ push'[o].ok = push[o].ok
      /\ push'[o].ids = push[o].ids /\ push'[o].wrote = push[o].wrote
      /\ \A p \in Pusher : p # o => push'[p] = push[p]
  BY <1>0 DEF Settled, RenInv, RenShapes, PushRow
<1>1. RenShapes'
  <2>1. [push[o] EXCEPT !.at = next] \in PushRow BY <1>0 DEF PushRow, PushStage
  <2>2. push' \in [Pusher -> PushRow] BY <2>1 DEF Settled, RenInv, RenShapes
  <2> QED BY <2>2, <1>a DEF RenInv, RenShapes
<1>2. VersionsInOrder' BY <1>a, <1>b DEF RenInv, VersionsInOrder, NoWire
<1>3. OutInOrder' BY <1>a, <1>b DEF RenInv, OutInOrder, Waits
<1>4. OnWire' BY <1>a, <1>b DEF RenInv, OnWire, Unanswered
<1>5. CameBack' BY <1>a, <1>b DEF RenInv, CameBack, Waits
<1>6. WritesInOrder' BY <1>a, <1>b DEF RenInv, WritesInOrder, Unanswered, FlaggedBy
<1>7. UserIsOwed' BY <1>a, <1>b DEF RenInv, UserIsOwed, AnswersFor
<1>8. FlagsCover' BY <1>a DEF RenInv, FlagsCover
<1> QED BY <1>1, <1>2, <1>3, <1>4, <1>5, <1>6, <1>7, <1>8 DEF RenInv

LEMMA DeadlineStep ==
  ASSUME RenInv,
         NEW o \in Pusher,
         Deadline(o)
  PROVE  RenInv'
<1> DEFINE next == IF push[o].at = "looking" THEN "markLate" ELSE "mark"
<1>a. /\ push[o].at \in {"looking", "await"}
      /\ UNCHANGED <<joined, ver, mirror, flag, asked, wire, due, lost>>
      /\ faults' \in 0..MaxFaults
  BY RenameAssumption DEF Deadline, RenInv, RenShapes
<1>0. push[o] \in PushRow BY DEF RenInv, RenShapes
<1>b. /\ push'[o].at = next /\ push'[o].older = push[o].older /\ push'[o].ok = push[o].ok
      /\ push'[o].ids = push[o].ids /\ push'[o].wrote = push[o].wrote
      /\ \A p \in Pusher : p # o => push'[p] = push[p]
  BY <1>0 DEF Deadline, RenInv, RenShapes, PushRow
<1>1. RenShapes'
  <2>1. [push[o] EXCEPT !.at = next] \in PushRow BY <1>0 DEF PushRow, PushStage
  <2>2. push' \in [Pusher -> PushRow] BY <2>1 DEF Deadline, RenInv, RenShapes
  <2> QED BY <2>2, <1>a DEF RenInv, RenShapes
<1>2. VersionsInOrder' BY <1>a, <1>b DEF RenInv, VersionsInOrder, NoWire
<1>3. OutInOrder' BY <1>a, <1>b DEF RenInv, OutInOrder, Waits
<1>4. OnWire' BY <1>a, <1>b DEF RenInv, OnWire, Unanswered
<1>5. CameBack' BY <1>a, <1>b DEF RenInv, CameBack, Waits
<1>6. WritesInOrder' BY <1>a, <1>b DEF RenInv, WritesInOrder, Unanswered, FlaggedBy
<1>7. UserIsOwed' BY <1>a, <1>b DEF RenInv, UserIsOwed, AnswersFor
<1>8. FlagsCover' BY <1>a DEF RenInv, FlagsCover
<1> QED BY <1>1, <1>2, <1>3, <1>4, <1>5, <1>6, <1>7, <1>8 DEF RenInv

LEMMA AgeFlagStep ==
  ASSUME RenInv,
         NEW w \in Person,
         AgeFlag(w)
  PROVE  RenInv'
<1>a. /\ UNCHANGED <<joined, ver, mirror, push, asked, wire, due, lost, faults>>
      /\ flag' \in [Person -> {"no", "fresh", "old"}]
      /\ \A u \in Person : flag'[u] = "no" <=> flag[u] = "no"
  BY DEF AgeFlag, RenInv, RenShapes
<1>1. RenShapes' BY <1>a DEF RenInv, RenShapes
<1>2. VersionsInOrder' BY <1>a DEF RenInv, VersionsInOrder, NoWire
<1>3. OutInOrder' BY <1>a DEF RenInv, OutInOrder, Waits
<1>4. OnWire' BY <1>a DEF RenInv, OnWire, Unanswered
<1>5. CameBack' BY <1>a DEF RenInv, CameBack, Waits
<1>6. WritesInOrder' BY <1>a DEF RenInv, WritesInOrder, Unanswered, FlaggedBy
<1>7. UserIsOwed' BY <1>a DEF RenInv, UserIsOwed, AnswersFor
<1>8. FlagsCover' BY <1>a DEF RenInv, FlagsCover
<1> QED BY <1>1, <1>2, <1>3, <1>4, <1>5, <1>6, <1>7, <1>8 DEF RenInv

LEMMA MarkUsersStep ==
  ASSUME RenInv,
         NEW o \in Pusher,
         MarkUsers(o)
  PROVE  RenInv'
<1> DEFINE whom == FlaggedBy(o)
<1>a. /\ push[o].at \in {"mark", "markLate"} /\ UNCHANGED <<joined, ver, mirror, asked, wire, lost, faults>>
      /\ flag' = [u \in Person |-> IF u \in whom THEN "fresh" ELSE flag[u]]
      /\ due' = [u \in Person |-> IF u \in whom THEN ver[u] ELSE due[u]]
      /\ push' = [p \in Pusher |-> IF p = o THEN Recorded(o) ELSE [push[p] EXCEPT !.older = @ \ whom]]
  BY DEF MarkUsers
<1>0. push \in [Pusher -> PushRow] /\ \A p \in Pusher : push[p] \in PushRow
  BY DEF RenInv, RenShapes
<1>e. /\ Recorded(o) \in PushRow /\ \A u \in Person : Recorded(o).wrote[u] = 0
      /\ push[o].at = "mark" => Recorded(o).at = "done"
      /\ push[o].at = "markLate" => Recorded(o).at = "late"
  BY DEF Recorded, EndPush, NewPush, PushRow, PushStage
<1>b. push'[o] = Recorded(o) BY <1>a
<1>r. \A p \in Pusher : p # o =>
        /\ push'[p].at = push[p].at /\ push'[p].ids = push[p].ids /\ push'[p].wrote = push[p].wrote
        /\ push'[p].ok = push[p].ok /\ push'[p].older = push[p].older \ whom
  BY <1>a, <1>0 DEF PushRow
<1> HIDE DEF whom
<1>1. RenShapes'
  <2>1. \A p \in Pusher : [push[p] EXCEPT !.older = @ \ whom] \in PushRow BY <1>0 DEF PushRow
  <2>2. push' \in [Pusher -> PushRow] BY <2>1, <1>a, <1>e
  <2>3. flag' \in [Person -> {"no", "fresh", "old"}] /\ due' \in [Person -> Nat]
    BY <1>a DEF RenInv, RenShapes
  <2> QED BY <2>2, <2>3, <1>a DEF RenInv, RenShapes
<1>c. RenNumbers /\ RenNumbers' BY <1>1, NumbersNow, NumbersNext DEF RenInv
<1>d. /\ \A u \in whom : u \in Person => flag'[u] # "no" /\ due'[u] = ver[u]
      /\ \A u \in Person : u \notin whom => flag'[u] = flag[u] /\ due'[u] = due[u]
  BY <1>a
<1>2. VersionsInOrder'
  <2>1. \A p \in Pusher, u \in Person : push'[p].wrote[u] =< ver[u]
    BY <1>b, <1>e, <1>r, <1>c DEF RenInv, VersionsInOrder, RenNumbers
  <2>2. \A u \in Person : due'[u] =< ver[u]
    BY <1>d, <1>c DEF RenInv, VersionsInOrder, RenNumbers
  <2> QED BY <2>1, <2>2, <1>a DEF RenInv, VersionsInOrder, NoWire
<1>3. OutInOrder'
  <2>1. push[o].at = "markLate" => \A u \in Person : ~Waits(o, u)' BY <1>a DEF RenInv, OutInOrder, Waits
  <2>2. \A p \in Pusher : p # o => (push'[p].at = push[p].at /\ push'[p].ok = push[p].ok /\ push'[p].wrote = push[p].wrote)
    BY <1>r
  <2> QED BY <2>1, <2>2, <1>a, <1>b, <1>e DEF RenInv, OutInOrder, Waits
<1>4. OnWire'
  <2> SUFFICES ASSUME NEW p \in Pusher, NEW u \in Person, Unanswered(p)', wire'[u].of = p
               PROVE  /\ wire'[u].ver >= push'[p].wrote[u]
                      /\ u \in push'[p].older => wire'[u].ver >= due'[u]
    BY DEF OnWire
  <2>1. p # o BY <1>a, <1>b, <1>e DEF RenInv, OutInOrder, Waits, Unanswered
  <2> QED BY <2>1, <1>a, <1>d, <1>r DEF RenInv, OnWire, Unanswered
<1>5. CameBack'
  <2> SUFFICES ASSUME NEW p \in Pusher, NEW u \in Person, push'[p].at \in {"await", "clear"}, push'[p].ok,
                      u \in push'[p].ids, ~Waits(p, u)'
               PROVE  /\ mirror'[u] >= push'[p].wrote[u]
                      /\ u \in push'[p].older => mirror'[u] >= due'[u]
    BY DEF CameBack
  <2>1. p # o BY <1>a, <1>b, <1>e
  <2>2. ~Waits(p, u) BY <1>a DEF Waits
  <2> QED BY <2>1, <2>2, <1>a, <1>d, <1>r DEF RenInv, CameBack
<1>6. WritesInOrder'
  <2> SUFFICES ASSUME NEW p \in Pusher, NEW u \in Person, Unanswered(p)', push'[p].wrote[u] = ver'[u]
               PROVE  /\ u \in FlaggedBy(p)'
                      /\ push'[p].at \in {"await", "clear"} /\ push'[p].ok => u \in push'[p].ids
    BY DEF WritesInOrder
  <2>1. p # o BY <1>a, <1>b, <1>e DEF RenInv, VersionsInOrder
  <2> QED BY <2>1, <1>a, <1>r DEF RenInv, WritesInOrder, Unanswered, FlaggedBy
<1>7. UserIsOwed'
  <2> SUFFICES ASSUME NEW u \in Person
               PROVE  \/ mirror'[u] = ver'[u] \/ u \in lost'
                      \/ flag'[u] # "no" /\ due'[u] = ver'[u]
                      \/ \E p \in Pusher : AnswersFor(p, u)'
    BY DEF UserIsOwed
  <2>1. CASE u \in whom BY <2>1, <1>d, <1>a
  <2>2. CASE u \notin whom
    <3>1. ~AnswersFor(o, u) BY <2>2, <1>a DEF RenInv, WritesInOrder, AnswersFor, Unanswered, whom
    <3>2. \A p \in Pusher : AnswersFor(p, u) => AnswersFor(p, u)' BY <3>1, <1>r, <1>a DEF AnswersFor
    <3> QED BY <3>2, <2>2, <1>d, <1>a DEF RenInv, UserIsOwed
  <2> QED BY <2>1, <2>2
<1>8. FlagsCover' BY <1>a, <1>d DEF RenInv, FlagsCover
<1> QED BY <1>1, <1>2, <1>3, <1>4, <1>5, <1>6, <1>7, <1>8 DEF RenInv

LEMMA ClearUsersStep ==
  ASSUME RenInv,
         NEW o \in Pusher,
         ClearUsers(o)
  PROVE  RenInv'
<1>a. /\ push[o].at = "clear" /\ UNCHANGED <<joined, ver, mirror, asked, wire, lost, faults>>
      /\ flag' = [u \in Person |-> IF u \in ClearedBy(o) THEN "no" ELSE flag[u]]
      /\ due' = [u \in Person |-> IF u \in push[o].ids THEN Greater(due[u], push[o].wrote[u]) ELSE due[u]]
      /\ push' = [push EXCEPT ![o] = EndPush]
  BY DEF ClearUsers
<1>e. EndPush \in PushRow /\ EndPush.at = "done" /\ \A u \in Person : EndPush.wrote[u] = 0
  BY DEF EndPush, NewPush, PushRow, PushStage
<1>b. push'[o] = EndPush /\ \A p \in Pusher : p # o => push'[p] = push[p]
  BY <1>a DEF RenInv, RenShapes
<1>c1. RenNumbers BY NumbersNow DEF RenInv
<1>d. \A u \in Person : due'[u] = IF u \in push[o].ids THEN Greater(due[u], push[o].wrote[u]) ELSE due[u]
  BY <1>a
<1>m. \A u \in push[o].ids : u \in Person =>
         /\ mirror[u] >= push[o].wrote[u]
         /\ u \in push[o].older => mirror[u] >= due[u]
  BY <1>a DEF RenInv, CameBack, OutInOrder
<1>f. \A u \in Person : /\ flag'[u] = "no" => flag[u] = "no" \/ (u \in push[o].ids /\ u \in push[o].older)
                        /\ flag[u] = "no" => flag'[u] = "no"
  BY <1>a DEF ClearedBy
<1>1. RenShapes'
  <2>1. push' \in [Pusher -> PushRow] BY <1>a, <1>e DEF RenInv, RenShapes
  <2>2. due' \in [Person -> Nat] BY <1>a, <1>c1 DEF RenInv, RenShapes, RenNumbers, Greater
  <2>3. flag' \in [Person -> {"no", "fresh", "old"}] BY <1>a DEF RenInv, RenShapes
  <2> QED BY <2>1, <2>2, <2>3, <1>a DEF RenInv, RenShapes
<1>c. RenNumbers' BY <1>1, NumbersNext
<1>g. \A u \in Person : due'[u] # due[u] => /\ due'[u] = push[o].wrote[u]
                                            /\ due'[u] =< mirror[u]
  BY <1>c1, <1>d, <1>m DEF RenNumbers, Greater
<1>2. VersionsInOrder'
  <2>1. \A u \in Person : due'[u] =< ver[u]
    BY <1>g DEF RenInv, VersionsInOrder
  <2> QED BY <2>1, <1>a, <1>b, <1>c, <1>c1, <1>e DEF RenInv, VersionsInOrder, NoWire, RenNumbers
<1>3. OutInOrder' BY <1>a, <1>b, <1>e DEF RenInv, OutInOrder, Waits
<1>4. OnWire'
  <2> SUFFICES ASSUME NEW p \in Pusher, NEW u \in Person, Unanswered(p)', wire'[u].of = p
               PROVE  /\ wire'[u].ver >= push'[p].wrote[u]
                      /\ u \in push'[p].older => wire'[u].ver >= due'[u]
    BY DEF OnWire
  <2>1. p # o /\ Unanswered(p) /\ wire'[u] = wire[u] /\ push'[p] = push[p]
    BY <1>a, <1>b, <1>e DEF Unanswered
  <2>2. wire[u].ver >= mirror[u]
    BY <2>1, <1>c1, RenameAssumption DEF RenInv, VersionsInOrder, RenNumbers, NoWire, Pusher
  <2>3. due'[u] # due[u] => wire[u].ver >= due'[u] BY <2>2, <1>g, <1>c1, <1>c DEF RenNumbers
  <2> QED BY <2>1, <2>3 DEF RenInv, OnWire
<1>5. CameBack'
  <2> SUFFICES ASSUME NEW p \in Pusher, NEW u \in Person, push'[p].at \in {"await", "clear"}, push'[p].ok,
                      u \in push'[p].ids, ~Waits(p, u)'
               PROVE  /\ mirror'[u] >= push'[p].wrote[u]
                      /\ u \in push'[p].older => mirror'[u] >= due'[u]
    BY DEF CameBack
  <2>1. p # o /\ push'[p] = push[p] /\ ~Waits(p, u) BY <1>a, <1>b, <1>e DEF Waits
  <2>2. due'[u] # due[u] => mirror[u] >= due'[u] BY <1>g, <1>c1, <1>c DEF RenNumbers
  <2> QED BY <2>1, <2>2, <1>a DEF RenInv, CameBack
<1>6. WritesInOrder'
  <2> SUFFICES ASSUME NEW p \in Pusher, NEW u \in Person, Unanswered(p)', push'[p].wrote[u] = ver'[u]
               PROVE  /\ u \in FlaggedBy(p)'
                      /\ push'[p].at \in {"await", "clear"} /\ push'[p].ok => u \in push'[p].ids
    BY DEF WritesInOrder
  <2>1. p # o BY <1>b, <1>e DEF Unanswered
  <2> QED BY <2>1, <1>a, <1>b DEF RenInv, WritesInOrder, Unanswered, FlaggedBy
<1>7. UserIsOwed'
  <2> SUFFICES ASSUME NEW u \in Person
               PROVE  \/ mirror'[u] = ver'[u] \/ u \in lost'
                      \/ flag'[u] # "no" /\ due'[u] = ver'[u]
                      \/ \E p \in Pusher : AnswersFor(p, u)'
    BY DEF UserIsOwed
  <2>1. CASE AnswersFor(o, u)
    <3>1. u \in push[o].ids BY <2>1, <1>a DEF RenInv, WritesInOrder, AnswersFor, Unanswered, OutInOrder
    <3>2. mirror[u] = ver[u]
      BY <2>1, <3>1, <1>m, <1>c1 DEF AnswersFor, RenInv, VersionsInOrder, RenNumbers
    <3> QED BY <3>2, <1>a
  <2>2. CASE flag[u] # "no" /\ due[u] = ver[u]
    <3>1. due'[u] = ver[u] BY <2>2, <1>c1, <1>d DEF RenInv, VersionsInOrder, RenNumbers, Greater
    <3>2. CASE flag'[u] # "no" BY <3>1, <3>2, <1>a
    <3>3. CASE flag'[u] = "no"
      <4>1. mirror[u] = ver[u]
        BY <2>2, <3>3, <1>f, <1>m, <1>c1 DEF RenInv, VersionsInOrder, RenNumbers
      <4> QED BY <4>1, <1>a
    <3> QED BY <3>2, <3>3
  <2>3. CASE \E p \in Pusher : p # o /\ AnswersFor(p, u) BY <2>3, <1>a, <1>b DEF AnswersFor
  <2>4. CASE mirror[u] = ver[u] \/ u \in lost BY <2>4, <1>a
  <2> QED BY <2>1, <2>2, <2>3, <2>4 DEF RenInv, UserIsOwed
<1>8. FlagsCover'
  <2> SUFFICES ASSUME NEW u \in Person, flag'[u] = "no" PROVE mirror[u] >= due'[u]
    BY <1>a DEF FlagsCover
  <2>1. CASE due'[u] # due[u] BY <2>1, <1>g, <1>c, <1>c1 DEF RenNumbers
  <2>2. CASE due'[u] = due[u] BY <2>2, <1>f, <1>m DEF RenInv, FlagsCover
  <2> QED BY <2>1, <2>2
<1> QED BY <1>1, <1>2, <1>3, <1>4, <1>5, <1>6, <1>7, <1>8 DEF RenInv

LEMMA ForgetOutcomeStep ==
  ASSUME RenInv,
         NEW o \in Pusher,
         ForgetOutcome(o)
  PROVE  RenInv'
<1>a. /\ push[o].at \in {"mark", "clear", "markLate"}
      /\ UNCHANGED <<joined, ver, mirror, flag, asked, wire, due>>
      /\ faults' \in 0..MaxFaults /\ lost' = lost \cup Concerned(o)
      /\ push' = [push EXCEPT ![o] = Recorded(o)]
  BY RenameAssumption DEF ForgetOutcome, RenInv, RenShapes
<1>e. /\ Recorded(o) \in PushRow /\ \A u \in Person : Recorded(o).wrote[u] = 0
      /\ push[o].at \in {"mark", "clear"} => Recorded(o).at = "done"
      /\ push[o].at = "markLate" => Recorded(o).at = "late"
  BY DEF Recorded, EndPush, NewPush, PushRow, PushStage
<1>b. push'[o] = Recorded(o) /\ \A p \in Pusher : p # o => push'[p] = push[p]
  BY <1>a DEF RenInv, RenShapes
<1>1. RenShapes'
  <2>1. push' \in [Pusher -> PushRow] BY <1>a, <1>e DEF RenInv, RenShapes
  <2>2. Concerned(o) \subseteq Person BY DEF Concerned, FlaggedBy, RenInv, RenShapes, PushRow
  <2> QED BY <2>1, <2>2, <1>a DEF RenInv, RenShapes
<1>c. RenNumbers /\ RenNumbers' BY <1>1, NumbersNow, NumbersNext DEF RenInv
<1>2. VersionsInOrder' BY <1>a, <1>b, <1>c, <1>e DEF RenInv, VersionsInOrder, NoWire, RenNumbers
<1>3. OutInOrder'
  <2>1. push[o].at = "markLate" => \A u \in Person : ~Waits(o, u)' BY <1>a DEF RenInv, OutInOrder, Waits
  <2> QED BY <2>1, <1>a, <1>b, <1>e DEF RenInv, OutInOrder, Waits
<1>4. OnWire'
  <2> SUFFICES ASSUME NEW p \in Pusher, NEW u \in Person, Unanswered(p)', wire'[u].of = p
               PROVE  /\ wire'[u].ver >= push'[p].wrote[u]
                      /\ u \in push'[p].older => wire'[u].ver >= due'[u]
    BY DEF OnWire
  <2>1. p # o BY <1>a, <1>b, <1>e DEF RenInv, OutInOrder, Waits, Unanswered
  <2> QED BY <2>1, <1>a, <1>b DEF RenInv, OnWire, Unanswered
<1>5. CameBack' BY <1>a, <1>b, <1>e DEF RenInv, CameBack, Waits
<1>6. WritesInOrder'
  <2> SUFFICES ASSUME NEW p \in Pusher, NEW u \in Person, Unanswered(p)', push'[p].wrote[u] = ver'[u]
               PROVE  /\ u \in FlaggedBy(p)'
                      /\ push'[p].at \in {"await", "clear"} /\ push'[p].ok => u \in push'[p].ids
    BY DEF WritesInOrder
  <2>1. p # o BY <1>a, <1>b, <1>e DEF RenInv, VersionsInOrder
  <2> QED BY <2>1, <1>a, <1>b DEF RenInv, WritesInOrder, Unanswered, FlaggedBy
<1>7. UserIsOwed'
  <2>1. \A u \in Person : AnswersFor(o, u) => u \in lost'
    BY <1>a, <1>c DEF AnswersFor, Concerned, RenInv, VersionsInOrder, RenNumbers
  <2> QED BY <2>1, <1>a, <1>b DEF RenInv, UserIsOwed, AnswersFor
<1>8. FlagsCover' BY <1>a DEF RenInv, FlagsCover
<1> QED BY <1>1, <1>2, <1>3, <1>4, <1>5, <1>6, <1>7, <1>8 DEF RenInv

LEMMA DieWithPushesStep ==
  ASSUME RenInv, DieWithPushes
  PROVE  RenInv'
<1> DEFINE under == {o \in Pusher : Unanswered(o)}
<1>a. /\ UNCHANGED <<joined, ver, flag, due>> /\ faults' \in 0..MaxFaults
      /\ lost' = lost \cup UNION {Concerned(o) : o \in under}
      /\ push' = [o \in Pusher |-> IF o \in under THEN EndPush ELSE push[o]]
      /\ asked' = {} /\ wire' = [u \in Person |-> NoWire]
  BY RenameAssumption DEF DieWithPushes, RenInv, RenShapes
<1>m. PICK sent \in SUBSET {u \in Person : wire[u] # NoWire} :
        mirror' = [u \in Person |-> IF u \in sent THEN wire[u].ver ELSE mirror[u]]
  BY DEF DieWithPushes
<1>e. EndPush \in PushRow /\ EndPush.at = "done" /\ \A u \in Person : EndPush.wrote[u] = 0
  BY DEF EndPush, NewPush, PushRow, PushStage
<1>b. \A p \in Pusher : IF Unanswered(p) THEN push'[p] = EndPush ELSE push'[p] = push[p]
  BY <1>a
<1>n. NoWire \in Exchange /\ NoWire.of = Nobody /\ Nobody \notin Pusher
  BY RenameAssumption DEF NoWire, Exchange, Pusher
<1>w. \A p \in Pusher, u \in Person : ~Waits(p, u)' BY <1>a, <1>n DEF Waits
<1>c1. RenNumbers BY NumbersNow DEF RenInv
<1>1. RenShapes'
  <2>1. push' \in [Pusher -> PushRow] BY <1>a, <1>e DEF RenInv, RenShapes
  <2>2. mirror' \in [Person -> Nat] BY <1>m, <1>c1 DEF RenNumbers
  <2>3. wire' \in [Person -> Exchange] BY <1>a, <1>n
  <2>4. \A o \in Pusher : Concerned(o) \subseteq Person BY DEF Concerned, FlaggedBy, RenInv, RenShapes, PushRow
  <2>5. lost' \subseteq Person BY <2>4, <1>a DEF RenInv, RenShapes
  <2> QED BY <2>1, <2>2, <2>3, <2>5, <1>a DEF RenInv, RenShapes
<1>c. RenNumbers' BY <1>1, NumbersNext
<1>g. \A u \in Person : mirror[u] =< mirror'[u] /\ mirror'[u] =< ver[u]
  BY <1>m, <1>c1 DEF RenInv, VersionsInOrder, RenNumbers
<1>2. VersionsInOrder'
  <2>1. \A p \in Pusher, u \in Person : push'[p].wrote[u] =< ver[u]
    BY <1>b, <1>e, <1>c1 DEF RenInv, VersionsInOrder, RenNumbers
  <2> QED BY <2>1, <1>a, <1>g DEF RenInv, VersionsInOrder, NoWire
<1>d. \A p \in Pusher : push'[p].at \in {"new", "done"}
  BY <1>b, <1>e DEF Unanswered
<1>3. OutInOrder' BY <1>b, <1>d, <1>e, <1>w DEF RenInv, OutInOrder
<1>4. OnWire' BY <1>d DEF OnWire, Unanswered
<1>5. CameBack' BY <1>d DEF CameBack
<1>6. WritesInOrder' BY <1>d DEF WritesInOrder, Unanswered
<1>7. UserIsOwed'
  <2> SUFFICES ASSUME NEW u \in Person
               PROVE  \/ mirror'[u] = ver'[u] \/ u \in lost'
                      \/ flag'[u] # "no" /\ due'[u] = ver'[u]
    BY DEF UserIsOwed
  <2>1. ASSUME NEW p \in Pusher, AnswersFor(p, u) PROVE u \in lost'
    <3>1. Unanswered(p) BY <2>1 DEF AnswersFor, Unanswered
    <3>2. u \in Concerned(p)
      BY <2>1, <1>c1 DEF AnswersFor, Concerned, RenInv, VersionsInOrder, RenNumbers
    <3> QED BY <3>1, <3>2, <1>a
  <2>2. mirror[u] = ver[u] => mirror'[u] = ver'[u] BY <1>a, <1>g, <1>c1, <1>c DEF RenNumbers
  <2> QED BY <2>1, <2>2, <1>a DEF RenInv, UserIsOwed
<1>8. FlagsCover' BY <1>a, <1>g, <1>c1, <1>c DEF RenInv, FlagsCover, RenNumbers
<1> QED BY <1>1, <1>2, <1>3, <1>4, <1>5, <1>6, <1>7, <1>8 DEF RenInv

LEMMA RenInvInit == RenameInit => RenInv
<1> SUFFICES ASSUME RenameInit PROVE RenInv
  OBVIOUS
<1>0. /\ NewPush \in PushRow /\ NewPush.at = "new" /\ \A u \in Person : NewPush.wrote[u] = 0
      /\ NoWire \in Exchange /\ NoWire.of = Nobody /\ Nobody \notin Pusher
  BY RenameAssumption DEF NewPush, PushRow, PushStage, NoWire, Exchange, Pusher
<1>a. /\ \A p \in Pusher : push[p] = NewPush
      /\ \A u \in Person : /\ wire[u] = NoWire /\ ver[u] = 1 /\ due[u] = 1
                           /\ mirror[u] = IF flag[u] = "no" THEN 1 ELSE 0
      /\ asked = {}
  BY DEF RenameInit
<1>1. RenShapes
  <2>1. push \in [Pusher -> PushRow] /\ wire \in [Person -> Exchange] BY <1>0 DEF RenameInit
  <2>2. /\ ver \in [Person -> Nat] /\ due \in [Person -> Nat] /\ mirror \in [Person -> Nat]
        /\ flag \in [Person -> {"no", "fresh", "old"}] /\ faults \in 0..MaxFaults
    BY RenameAssumption DEF RenameInit
  <2> QED BY <2>1, <2>2 DEF RenameInit, RenShapes
<1>2. VersionsInOrder BY <1>0, <1>a DEF VersionsInOrder
<1>3. OutInOrder BY <1>0, <1>a DEF OutInOrder, Waits
<1>4. OnWire BY <1>0, <1>a DEF OnWire, Unanswered
<1>5. CameBack BY <1>0, <1>a DEF CameBack
<1>6. WritesInOrder BY <1>0, <1>a DEF WritesInOrder, Unanswered
<1>7. UserIsOwed BY <1>a DEF UserIsOwed
<1>8. FlagsCover BY <1>a DEF FlagsCover
<1> QED BY <1>1, <1>2, <1>3, <1>4, <1>5, <1>6, <1>7, <1>8 DEF RenInv

LEMMA RenInvStep == RenInv /\ [RenameNext]_renameVars => RenInv'
<1> SUFFICES ASSUME RenInv, [RenameNext]_renameVars PROVE RenInv'
  OBVIOUS
<1>1. CASE UNCHANGED renameVars
  BY <1>1 DEF renameVars, RenInv, RenShapes, VersionsInOrder, OutInOrder, OnWire, CameBack,
              WritesInOrder, UserIsOwed, FlagsCover, Waits, Unanswered, FlaggedBy, AnswersFor, NoWire
<1>2. ASSUME NEW o \in Rename, RenameAll(o) \/ AskUsers(o) \/ FindUsers(o) \/ LookupFails(o)
      PROVE  RenInv'
  BY <1>2, RenameAllStep, AskUsersStep, FindUsersStep, LookupFailsStep
<1>3. ASSUME NEW o \in Put, NEW u \in Person, SweepUser(o, u) \/ \E joins \in BOOLEAN : SaveUser(o, u, joins)
      PROVE  RenInv'
  BY <1>3, SweepUserStep, SaveUserStep
<1>4. ASSUME NEW o \in Pusher, Settled(o) \/ Deadline(o) \/ MarkUsers(o) \/ ClearUsers(o) \/ ForgetOutcome(o)
      PROVE  RenInv'
  BY <1>4, SettledStep, DeadlineStep, MarkUsersStep, ClearUsersStep, ForgetOutcomeStep
<1>5. ASSUME NEW o \in Pusher, NEW u \in Person, ReadUser(o, u)
      PROVE  RenInv'
  BY <1>5, ReadUserStep
<1>6. ASSUME NEW u \in Person, AgeFlag(u) \/ \E ok \in BOOLEAN : SettleUser(u, ok)
      PROVE  RenInv'
  BY <1>6, AgeFlagStep, SettleUserStep
<1>7. CASE DieWithPushes BY <1>7, DieWithPushesStep
<1> QED BY <1>1, <1>2, <1>3, <1>4, <1>5, <1>6, <1>7 DEF RenameNext

LEMMA RenInvImplies == RenInv => RenameTypeOK /\ UsersMirroredOrOwed
<1> SUFFICES ASSUME RenInv PROVE RenameTypeOK /\ UsersMirroredOrOwed
  OBVIOUS
<1>1. RenameTypeOK BY DEF RenInv, RenShapes, PushRow, PushStage, RenameTypeOK
<1>2. UsersMirroredOrOwed
  <2> SUFFICES ASSUME NEW u \in Person, \A o \in Pusher : ~Unanswered(o), u \notin lost
               PROVE  mirror[u] = ver[u] \/ flag[u] # "no"
    BY DEF RenInv, FlagsCover, UsersMirroredOrOwed
  <2> QED BY DEF RenInv, UserIsOwed, AnswersFor, Unanswered
<1> QED BY <1>1, <1>2

(***************************************************************************)
(* However many renames, saves and retries there are of however many       *)
(* users, and whenever lookups and exchanges fail, an outcome is refused   *)
(* or the process dies: a flag that is gone and a reply that said mirrored *)
(* stand for a version DEMI has, and once nothing is under way a user that *)
(* DEMI has not as Mongo does is flagged, unless its outcome was lost.     *)
(***************************************************************************)
THEOREM RenamesAreMirrored == RenameSpec => [](RenameTypeOK /\ UsersMirroredOrOwed)
<1>1. RenameSpec => []RenInv BY RenInvInit, RenInvStep, PTL DEF RenameSpec
<1> QED BY <1>1, RenInvImplies, PTL

-----------------------------------------------------------------------------
\* Directory.

\* A request that has not begun has done nothing, one under way has no outcome.
DirOrdered(r) ==
  LET j == dirJob[r] IN
  /\ j.at = "new" <=> j.op = "none"
  /\ j.at = "new" => j.out = "none" /\ j.member = None /\ j.met = {}
  /\ Active(j) => j.out = "none"
  /\ j.at = "users" => j.op = "rename" /\ j.org \in Org /\ j.name \in Name
  /\ j.at = "loaded" => j.copy # None /\ j.op # "rename"
  /\ j.copy # None => j.org \in Org /\ org[j.org] # None
  /\ j.at \in {"save", "join"} => j.op = "signUp" /\ j.member \in Member /\ j.email \in Email
  /\ j.at \in {"pull", "drop"} => j.op = "remove" /\ j.member \in Member

DirInOrder == \A r \in Request : DirOrdered(r)

\* Two requests that are under way together have met, and meeting is mutual.
DirMeet ==
  \A r, q \in Request :
    /\ q \in dirJob[r].met => r \in dirJob[q].met
    /\ r # q /\ Active(dirJob[r]) /\ Active(dirJob[q]) => q \in dirJob[r].met

\* Every rename of an organization was done, alone, and of one that was there.
CleanlyRenamed(o) ==
  \A r \in Request :
    Renaming(r, o) => /\ dirJob[r].out = "ok" /\ dirJob[r].copy # None
                      /\ \A q \in dirJob[r].met : ~Renaming(q, o)

NamesWritten ==
  \A u \in User :
    user[u] # None /\ ~user[u].typed /\ CleanlyRenamed(user[u].org) =>
      org[user[u].org] # None /\ user[u].name = org[user[u].org].name

\* A rename that met no other finds its name on the organization.
NameStands ==
  \A r \in Request :
    dirJob[r].at = "users" /\ dirJob[r].copy # None =>
      \/ org[dirJob[r].org].name = dirJob[r].name
      \/ \E q \in dirJob[r].met : Renaming(q, dirJob[r].org)

\* A sign-up for m overlapped with a removal of m.
Crossed(m) ==
  \E r, q \in Request : /\ q \in dirJob[r].met
                        /\ dirJob[r].op = "signUp" /\ dirJob[r].member = m
                        /\ dirJob[q].op = "remove" /\ dirJob[q].member = m

Joining ==
  \A r \in Request : dirJob[r].at = "join" => cac[dirJob[r].member] # None \/ Crossed(dirJob[r].member)

Dropping ==
  \A r \in Request :
    dirJob[r].at = "drop" /\ dirJob[r].member \in cacMembers => Crossed(dirJob[r].member)

Unlisted == \A m \in cacMembers : cac[m] = None => Crossed(m)

\* A CACUser off the list is joining it, about to be dropped, or was left.
Remains(r) == dirJob[r].at \in {"join", "drop"} \/ dirJob[r].out \in {"left", "stopped"}

LeftOver ==
  \A m \in Member \ cacMembers :
    cac[m] # None => \E r \in Request : dirJob[r].member = m /\ Remains(r)

\* Two sign-ups that overlapped, for m and for n.
SignedTogether(m, n) ==
  \E r, q \in Request : /\ q \in dirJob[r].met
                        /\ dirJob[r].op = "signUp" /\ dirJob[r].member = m
                        /\ dirJob[q].op = "signUp" /\ dirJob[q].member = n

OneEmail ==
  /\ \A m, n \in Member : m # n /\ cac[m] # None /\ cac[m] = cac[n] => SignedTogether(m, n)
  /\ \A r \in Request, n \in Member :
       dirJob[r].at = "save" /\ cac[n] = dirJob[r].email => SignedTogether(dirJob[r].member, n)

DirInv ==
  /\ DirTypeOK /\ DirInOrder /\ DirMeet /\ NamesWritten /\ NameStands
  /\ Joining /\ Dropping /\ Unlisted /\ LeftOver /\ OneEmail

\* How a step changes the requests: one of them goes on, or begins.
Kept(q) ==
  /\ dirJob'[q].op = dirJob[q].op /\ dirJob'[q].org = dirJob[q].org /\ dirJob'[q].name = dirJob[q].name
  /\ dirJob'[q].copy = dirJob[q].copy /\ dirJob'[q].member = dirJob[q].member
  /\ dirJob'[q].email = dirJob[q].email

WentOn(r, at, out) ==
  /\ \A q \in Request : q # r => dirJob'[q] = dirJob[q]
  /\ Kept(r) /\ dirJob'[r].met = dirJob[r].met
  /\ dirJob'[r].at = at /\ dirJob'[r].out = out

Began(r, new) ==
  /\ dirJob'[r].op = new.op /\ dirJob'[r].at = new.at /\ dirJob'[r].org = new.org
  /\ dirJob'[r].name = new.name /\ dirJob'[r].copy = new.copy /\ dirJob'[r].member = new.member
  /\ dirJob'[r].email = new.email /\ dirJob'[r].out = new.out
  /\ dirJob'[r].met = {q \in Request \ {r} : Active(dirJob[q])}
  /\ \A q \in Request : q # r =>
       /\ Kept(q) /\ dirJob'[q].at = dirJob[q].at /\ dirJob'[q].out = dirJob[q].out
       /\ dirJob'[q].met = IF Active(dirJob[q]) THEN dirJob[q].met \cup {r} ELSE dirJob[q].met

DirStage == {"new", "loaded", "users", "save", "join", "pull", "drop", "done"}

LEMMA DirGoIs ==
  ASSUME DirTypeOK, NEW r \in Request, NEW at \in DirStage, DirGo(r, at)
  PROVE  dirJob' \in [Request -> DirJob] /\ WentOn(r, at, dirJob[r].out)
<1>1. dirJob[r] \in DirJob BY DEF DirTypeOK
<1>2. [dirJob[r] EXCEPT !.at = at] \in DirJob BY <1>1 DEF DirJob, DirStage
<1>3. dirJob' = [dirJob EXCEPT ![r] = [dirJob[r] EXCEPT !.at = at]] BY DEF DirGo
<1>4. dirJob' \in [Request -> DirJob] BY <1>2, <1>3 DEF DirTypeOK
<1>5. WentOn(r, at, dirJob[r].out) BY <1>1, <1>3 DEF WentOn, Kept, DirTypeOK, DirJob
<1> QED BY <1>4, <1>5

LEMMA DirFinishIs ==
  ASSUME DirTypeOK, NEW r \in Request, NEW out \in Outcome, DirFinish(r, out)
  PROVE  dirJob' \in [Request -> DirJob] /\ WentOn(r, "done", out)
<1>1. dirJob[r] \in DirJob BY DEF DirTypeOK
<1>2. Answered(dirJob[r], out) \in DirJob BY <1>1 DEF DirJob, Answered, Outcome
<1>3. dirJob' = [dirJob EXCEPT ![r] = Answered(dirJob[r], out)] BY DEF DirFinish
<1>4. dirJob' \in [Request -> DirJob] BY <1>2, <1>3 DEF DirTypeOK
<1>5. WentOn(r, "done", out) BY <1>1, <1>3 DEF WentOn, Kept, DirTypeOK, DirJob, Answered
<1> QED BY <1>4, <1>5

LEMMA DirBeginIs ==
  ASSUME DirTypeOK, NEW r \in Request, NEW new \in DirJob, DirBegin(r, new)
  PROVE  dirJob' \in [Request -> DirJob] /\ dirJob[r].at = "new" /\ Began(r, new)
<1> DEFINE running == {q \in Request \ {r} : Active(dirJob[q])}
           next(q) == CASE q = r -> [new EXCEPT !.met = running]
                        [] q \in running -> [dirJob[q] EXCEPT !.met = @ \cup {r}]
                        [] OTHER -> dirJob[q]
<1>1. dirJob' = [q \in Request |-> next(q)] /\ dirJob[r].at = "new" BY DEF DirBegin, Begun
<1>2. \A q \in Request : dirJob[q] \in DirJob BY DEF DirTypeOK
<1>3. running \in SUBSET Request /\ r \notin running OBVIOUS
<1>4. next(r) = [new EXCEPT !.met = running] OBVIOUS
<1>5. \A q \in running : next(q) = [dirJob[q] EXCEPT !.met = @ \cup {r}] BY <1>3
<1>6. \A q \in Request : q # r /\ q \notin running => next(q) = dirJob[q] OBVIOUS
<1>7. /\ next(r) \in DirJob /\ next(r).met = running
      /\ next(r).op = new.op /\ next(r).at = new.at /\ next(r).org = new.org /\ next(r).name = new.name
      /\ next(r).copy = new.copy /\ next(r).member = new.member /\ next(r).email = new.email
      /\ next(r).out = new.out
  <2> HIDE DEF next, running
  <2> QED BY <1>3, <1>4 DEF DirJob
<1>8. \A q \in running :
        /\ next(q) \in DirJob /\ next(q).met = dirJob[q].met \cup {r}
        /\ next(q).op = dirJob[q].op /\ next(q).at = dirJob[q].at /\ next(q).org = dirJob[q].org
        /\ next(q).name = dirJob[q].name /\ next(q).copy = dirJob[q].copy
        /\ next(q).member = dirJob[q].member /\ next(q).email = dirJob[q].email
        /\ next(q).out = dirJob[q].out
  <2> HIDE DEF next
  <2> TAKE q \in running
  <2>1. dirJob[q] \in DirJob /\ next(q) = [dirJob[q] EXCEPT !.met = @ \cup {r}] BY <1>2, <1>5
  <2> HIDE DEF running
  <2> QED BY <2>1 DEF DirJob
<1>9. \A q \in Request : next(q) \in DirJob
  <2> HIDE DEF next
  <2> QED BY <1>2, <1>6, <1>7, <1>8
<1>10. \A q \in Request : dirJob'[q] = next(q) BY <1>1
<1>11. dirJob' \in [Request -> DirJob] BY <1>1, <1>9
<1>12. Began(r, new)
  <2> HIDE DEF next
  <2>1. ASSUME NEW q \in Request, q # r
        PROVE  /\ Kept(q) /\ dirJob'[q].at = dirJob[q].at /\ dirJob'[q].out = dirJob[q].out
               /\ dirJob'[q].met = IF Active(dirJob[q]) THEN dirJob[q].met \cup {r} ELSE dirJob[q].met
    <3>1. CASE Active(dirJob[q]) BY <2>1, <3>1, <1>8, <1>10 DEF Kept
    <3>2. CASE ~Active(dirJob[q]) BY <2>1, <3>2, <1>6, <1>10 DEF Kept
    <3> QED BY <3>1, <3>2
  <2> QED BY <2>1, <1>7, <1>10 DEF Began
<1> QED BY <1>1, <1>11, <1>12

\* What was done stays done, and who has met has met.
Grows ==
  \A q \in Request :
    /\ dirJob[q].met \subseteq dirJob'[q].met
    /\ dirJob[q].op # "none" => Kept(q)

LEMMA WentOnGrows ==
  ASSUME NEW r \in Request, NEW at, NEW out, WentOn(r, at, out), DirMeet, Active(dirJob[r])
  PROVE  Grows /\ DirMeet'
<1>1. Grows BY DEF WentOn, Grows, Kept
<1>2. \A q \in Request : dirJob'[q].met = dirJob[q].met /\ (Active(dirJob'[q]) => Active(dirJob[q]))
  BY DEF WentOn
<1>3. DirMeet' BY <1>2 DEF DirMeet
<1> QED BY <1>1, <1>3

LEMMA BeganGrows ==
  ASSUME NEW r \in Request, NEW new, Began(r, new), DirMeet, DirInOrder, dirJob[r].at = "new",
         DirTypeOK
  PROVE  Grows /\ DirMeet'
<1>0. dirJob[r].op = "none" /\ dirJob[r].met = {} /\ \A q \in Request : r \notin dirJob[q].met
  BY DEF DirInOrder, DirOrdered, DirMeet
<1>1. Grows BY <1>0 DEF Began, Grows, Kept
<1>2. \A q \in Request : q # r => (Active(dirJob'[q]) <=> Active(dirJob[q]))
  BY DEF Began, Active
<1>3. ASSUME NEW p \in Request, NEW q \in Request PROVE q \in dirJob'[p].met => p \in dirJob'[q].met
  <2>1. CASE p = r /\ q = r BY <2>1 DEF Began
  <2>2. CASE p = r /\ q # r BY <2>2 DEF Began
  <2>3. CASE p # r /\ q = r BY <2>3, <1>0 DEF Began
  <2>4. CASE p # r /\ q # r
    <3>1. q \in dirJob'[p].met => q \in dirJob[p].met BY <2>4 DEF Began
    <3>2. p \in dirJob[q].met => p \in dirJob'[q].met BY <2>4 DEF Began
    <3> QED BY <3>1, <3>2 DEF DirMeet
  <2> QED BY <2>1, <2>2, <2>3, <2>4
<1>4. ASSUME NEW p \in Request, NEW q \in Request, p # q, Active(dirJob'[p]), Active(dirJob'[q])
      PROVE  q \in dirJob'[p].met
  <2>1. CASE p = r BY <2>1, <1>4, <1>2 DEF Began
  <2>2. CASE q = r BY <2>2, <1>4, <1>2 DEF Began
  <2>3. CASE p # r /\ q # r BY <2>3, <1>4, <1>2 DEF Began, DirMeet
  <2> QED BY <2>1, <2>2, <2>3
<1>5. DirMeet' BY <1>3, <1>4 DEF DirMeet
<1> QED BY <1>1, <1>5

LEMMA CrossedStays ==
  ASSUME Grows, NEW m, Crossed(m) PROVE Crossed(m)'
<1> PICK r \in Request, q \in Request : /\ q \in dirJob[r].met
                        /\ dirJob[r].op = "signUp" /\ dirJob[r].member = m
                        /\ dirJob[q].op = "remove" /\ dirJob[q].member = m
  BY DEF Crossed
<1>1. Kept(r) /\ Kept(q) /\ q \in dirJob'[r].met BY DEF Grows
<1> QED BY <1>1 DEF Kept, Crossed

LEMMA TogetherStays ==
  ASSUME Grows, NEW m, NEW n, SignedTogether(m, n) PROVE SignedTogether(m, n)'
<1> PICK r \in Request, q \in Request : /\ q \in dirJob[r].met
                        /\ dirJob[r].op = "signUp" /\ dirJob[r].member = m
                        /\ dirJob[q].op = "signUp" /\ dirJob[q].member = n
  BY DEF SignedTogether
<1>1. Kept(r) /\ Kept(q) /\ q \in dirJob'[r].met BY DEF Grows
<1> QED BY <1>1 DEF Kept, SignedTogether

\* Meeting is mutual.
LEMMA TogetherBothWays ==
  ASSUME DirMeet, NEW m, NEW n, SignedTogether(m, n) PROVE SignedTogether(n, m)
BY DEF SignedTogether, DirMeet

\* A rename that was not clean does not become so.
LEMMA CleanBefore ==
  ASSUME DirInv, Grows, NEW o, CleanlyRenamed(o)',
         \A q \in Request : Renaming(q, o) /\ dirJob'[q].out = "ok" => dirJob[q].out = "ok"
  PROVE  CleanlyRenamed(o)
<1>1. \A q \in Request : Renaming(q, o) => Renaming(q, o)' /\ Kept(q) BY DEF Renaming, Grows, Kept
<1> SUFFICES ASSUME NEW r \in Request, Renaming(r, o)
             PROVE  /\ dirJob[r].out = "ok" /\ dirJob[r].copy # None
                    /\ \A q \in dirJob[r].met : ~Renaming(q, o)
  BY DEF CleanlyRenamed
<1>2. /\ dirJob'[r].out = "ok" /\ dirJob'[r].copy # None
      /\ \A q \in dirJob'[r].met : ~Renaming(q, o)'
  BY <1>1 DEF CleanlyRenamed
<1>3. dirJob[r].met \subseteq Request /\ dirJob[r].met \subseteq dirJob'[r].met
  BY DEF Grows, DirInv, DirTypeOK, DirJob
<1> QED BY <1>1, <1>2, <1>3 DEF Kept

\* A step that leaves users, the names of organizations and renames alone.
LEMMA NamesStay ==
  ASSUME DirInv, Grows, user' = user,
         \A o \in Org : org'[o].name = org[o].name /\ (org[o] # None => org'[o] # None),
         \A q \in Request :
           /\ dirJob'[q].at = "users" => dirJob[q].at = "users" /\ dirJob[q].op = "rename"
           /\ dirJob[q].op = "rename" /\ dirJob'[q].out = "ok" => dirJob[q].out = "ok"
  PROVE  NamesWritten' /\ NameStands'
<1>1. NamesWritten'
  <2> SUFFICES ASSUME NEW u \in User, user[u] # None, ~user[u].typed, CleanlyRenamed(user[u].org)'
               PROVE  org'[user[u].org] # None /\ user[u].name = org'[user[u].org].name
    BY DEF NamesWritten
  <2>1. user[u].org \in Org BY DEF DirInv, DirTypeOK, UserRow
  <2> PICK o \in Org : o = user[u].org BY <2>1
  <2>2. CleanlyRenamed(o)' BY DEF CleanlyRenamed, Renaming
  <2>3. CleanlyRenamed(o) BY <2>2, CleanBefore DEF Renaming
  <2> QED BY <2>3 DEF DirInv, NamesWritten
<1>2. NameStands'
  <2> SUFFICES ASSUME NEW r \in Request, dirJob'[r].at = "users", dirJob'[r].copy # None
               PROVE  \/ org'[dirJob'[r].org].name = dirJob'[r].name
                      \/ \E q \in dirJob'[r].met : dirJob'[q].op = "rename" /\ dirJob'[q].org = dirJob'[r].org
    BY DEF NameStands, Renaming
  <2>1. dirJob[r].at = "users" /\ Kept(r) /\ dirJob[r].met \subseteq dirJob'[r].met BY DEF Grows
  <2>2. dirJob[r].org \in Org /\ dirJob[r].met \subseteq Request
    BY <2>1 DEF DirInv, DirInOrder, DirOrdered, DirTypeOK, DirJob
  <2>3. CASE org[dirJob[r].org].name = dirJob[r].name BY <2>1, <2>2, <2>3 DEF Kept
  <2>4. CASE \E q \in dirJob[r].met : Renaming(q, dirJob[r].org)
    <3> PICK q \in dirJob[r].met : Renaming(q, dirJob[r].org) BY <2>4
    <3>1. Kept(q) BY <2>2 DEF Renaming, Grows
    <3> QED BY <3>1, <2>1 DEF Kept, Renaming
  <2> QED BY <2>1, <2>3, <2>4 DEF DirInv, NameStands, Kept
<1> QED BY <1>1, <1>2

\* A step that leaves the committee alone, and the requests about it, but that
\* some may end.
LEMMA CommitteeStays ==
  ASSUME DirInv, Grows, UNCHANGED <<cac, cacMembers>>,
         \A q \in Request :
           /\ dirJob'[q].at \in {"save", "join", "drop"} => dirJob'[q].at = dirJob[q].at
           /\ Remains(q) => Remains(q)'
  PROVE  Joining' /\ Dropping' /\ Unlisted' /\ LeftOver' /\ OneEmail'
<1>0. cac' = cac /\ cacMembers' = cacMembers
  OBVIOUS
<1>1. \A q \in Request : /\ dirJob'[q].at \in {"save", "join", "drop"} => Kept(q)
                         /\ Remains(q) => Kept(q)
  BY DEF DirInv, DirInOrder, DirOrdered, Grows, Remains
<1>2. Joining' BY <1>1, CrossedStays DEF DirInv, Joining, Kept
<1>3. Dropping' BY <1>1, CrossedStays DEF DirInv, Dropping, Kept
<1>4. Unlisted' BY CrossedStays DEF DirInv, Unlisted
<1>5. LeftOver'
  <2> SUFFICES ASSUME NEW m \in Member \ cacMembers, cac[m] # None
               PROVE  \E r \in Request : dirJob'[r].member = m /\ Remains(r)'
    BY <1>0 DEF LeftOver
  <2> PICK r \in Request : dirJob[r].member = m /\ Remains(r)
    BY DEF DirInv, LeftOver
  <2> QED BY <1>1 DEF Kept
<1>6. OneEmail' BY <1>1, TogetherStays DEF DirInv, OneEmail, Kept
<1> QED BY <1>2, <1>3, <1>4, <1>5, <1>6

\* A request that a step leaves where it was stays in order.
LEMMA StaysOrdered ==
  ASSUME DirInv, NEW q \in Request, Kept(q), dirJob'[q].out = dirJob[q].out \/ ~Active(dirJob'[q]),
         dirJob'[q].at = dirJob[q].at \/ (dirJob'[q].at = "done" /\ Active(dirJob[q])),
         dirJob[q].at = "new" => dirJob'[q].met = {} /\ dirJob'[q].out = dirJob[q].out,
         \A o \in Org : org[o] # None => org'[o] # None
  PROVE  DirOrdered(q)'
BY DEF DirInv, DirInOrder, DirOrdered, Kept, Active

\* How a request begins, and what a step that leaves a part alone keeps of it.
LEMMA NewDirJobIs == NewDirJob \in DirJob /\ NewDirJob.met = {}
BY DEF NewDirJob, DirJob, DirOp, Outcome

\* The requests when one goes on: in order, and the rest as they were.
LEMMA WentOnOrdered ==
  ASSUME DirInv, NEW r \in Request, NEW at, NEW out, WentOn(r, at, out), Active(dirJob[r]),
         at = "done" \/ DirOrdered(r)', at # "new",
         \A o \in Org : org[o] # None => org'[o] # None
  PROVE  DirInOrder'
<1> SUFFICES ASSUME NEW q \in Request PROVE DirOrdered(q)'
  BY DEF DirInOrder
<1>1. dirJob'[q].met = dirJob[q].met /\ Kept(q) BY DEF WentOn, Kept
<1>2. dirJob[q].at = "new" => dirJob[q].met = {} /\ q # r
  BY DEF DirInv, DirInOrder, DirOrdered, Active
<1>3. CASE q # r BY <1>1, <1>2, <1>3, StaysOrdered DEF WentOn
<1>4. CASE q = r /\ at = "done" BY <1>1, <1>2, <1>4, StaysOrdered DEF WentOn, Active
<1>5. CASE q = r /\ DirOrdered(r)' BY <1>5
<1> QED BY <1>3, <1>4, <1>5

\* And when one begins.
LEMMA BeganOrdered ==
  ASSUME DirInv, NEW r \in Request, NEW new, Began(r, new), dirJob[r].at = "new",
         DirOrdered(r)', \A o \in Org : org[o] # None => org'[o] # None
  PROVE  DirInOrder'
<1> SUFFICES ASSUME NEW q \in Request PROVE DirOrdered(q)'
  BY DEF DirInOrder
<1>1. CASE q = r BY <1>1
<1>2. CASE q # r
  <2>1. Kept(q) /\ dirJob'[q].at = dirJob[q].at /\ dirJob'[q].out = dirJob[q].out
    BY <1>2 DEF Began
  <2>2. dirJob[q].at = "new" => dirJob'[q].met = {}
    BY <1>2 DEF Began, Active, DirInv, DirInOrder, DirOrdered
  <2> QED BY <2>1, <2>2, StaysOrdered
<1> QED BY <1>1, <1>2

LEMMA PostOrgStep ==
  ASSUME DirInv, NEW o \in Org, NEW n \in Name, PostOrg(o, n)
  PROVE  DirInv'
<1> DEFINE entry == [name |-> n, open |-> TRUE, ver |-> 0]
<1>a. /\ org[o] = None /\ org' = [org EXCEPT ![o] = entry]
      /\ UNCHANGED <<user, cac, cacMembers, dirJob>>
  BY DEF PostOrg
<1>0. entry \in OrgRow BY DEF OrgRow
<1> HIDE DEF entry
<1>b. Grows BY <1>a DEF Grows, Kept
<1>c. org'[o] # None /\ \A x \in Org : x # o => org'[x] = org[x]
  BY <1>0, <1>a, NoneAssumption DEF DirInv, DirTypeOK
<1>1. DirTypeOK' BY <1>0, <1>a DEF DirInv, DirTypeOK
<1>2. DirInOrder' BY <1>a, <1>c DEF DirInv, DirInOrder, DirOrdered
<1>3. DirMeet' BY <1>a DEF DirInv, DirMeet
<1>4. NamesWritten'
  <2>1. \A u \in User : user[u] # None => user[u].org \in Org BY DEF DirInv, DirTypeOK, UserRow
  <2>2. \A x \in Org : CleanlyRenamed(x)' <=> CleanlyRenamed(x) BY <1>a DEF CleanlyRenamed, Renaming
  <2> QED BY <1>a, <1>c, <2>1, <2>2 DEF DirInv, NamesWritten, CleanlyRenamed, Renaming
<1>5. NameStands' BY <1>a, <1>c DEF DirInv, NameStands, DirInOrder, DirOrdered, Renaming
<1>6. Joining' /\ Dropping' /\ Unlisted' /\ LeftOver' /\ OneEmail'
  BY <1>a, <1>b, CommitteeStays DEF Remains
<1> QED BY <1>1, <1>2, <1>3, <1>4, <1>5, <1>6 DEF DirInv

LEMMA WriteUserStep ==
  ASSUME DirInv, NEW w \in User, NEW o \in Org, NEW n \in Name, WriteUser(w, o, n)
  PROVE  DirInv'
<1> DEFINE entry == [org |-> o, name |-> n, open |-> n = Eao, typed |-> TRUE]
<1>a. /\ user' = [user EXCEPT ![w] = entry]
      /\ UNCHANGED <<org, cac, cacMembers, dirJob>>
  BY DEF WriteUser
<1>0. entry \in UserRow /\ entry.typed BY DEF UserRow
<1> HIDE DEF entry
<1>b. Grows BY <1>a DEF Grows, Kept
<1>c. user'[w].typed /\ \A x \in User : x # w => user'[x] = user[x]
  BY <1>0, <1>a DEF DirInv, DirTypeOK
<1>1. DirTypeOK' BY <1>0, <1>a DEF DirInv, DirTypeOK
<1>2. DirInOrder' BY <1>a DEF DirInv, DirInOrder, DirOrdered
<1>3. DirMeet' BY <1>a DEF DirInv, DirMeet
<1>4. NamesWritten' BY <1>a, <1>c DEF DirInv, NamesWritten, CleanlyRenamed, Renaming
<1>5. NameStands' BY <1>a DEF DirInv, NameStands, Renaming
<1>6. Joining' /\ Dropping' /\ Unlisted' /\ LeftOver' /\ OneEmail'
  BY <1>a, <1>b, CommitteeStays DEF Remains
<1> QED BY <1>1, <1>2, <1>3, <1>4, <1>5, <1>6 DEF DirInv

LEMMA RenameOrgStep ==
  ASSUME DirInv, NEW r \in Request, NEW o \in Org, NEW n \in Name, RenameOrg(r, o, n)
  PROVE  DirInv'
<1> DEFINE new == [NewDirJob EXCEPT !.op = "rename", !.at = "users", !.org = o,
                                      !.name = n, !.copy = org[o]]
<1>0. /\ new \in DirJob /\ new.op = "rename" /\ new.at = "users" /\ new.org = o /\ new.name = n
      /\ new.copy = org[o] /\ new.out = "none"
  BY DEF DirInv, DirTypeOK, DirJob, DirOp, NewDirJob, Outcome
<1>a. /\ DirBegin(r, new) /\ UNCHANGED <<user, cac, cacMembers>>
      /\ org' = IF org[o] = None THEN org ELSE [org EXCEPT ![o] = [org[o] EXCEPT !.name = n, !.ver = org[o].ver + 1]]
  BY DEF RenameOrg, DirInv, DirTypeOK, OrgRow
<1> HIDE DEF new
<1>b. dirJob' \in [Request -> DirJob] /\ Began(r, new) /\ dirJob[r].at = "new"
  BY <1>a, <1>0, DirBeginIs DEF DirInv
<1>c. Grows /\ DirMeet' BY <1>b, BeganGrows DEF DirInv
<1>d. /\ org' \in [Org -> OrgRow \cup {None}]
      /\ org[o] # None => org'[o].name = n /\ org'[o] # None
      /\ org[o] = None => org'[o] = None
      /\ \A x \in Org : x # o => org'[x] = org[x]
  <2>1. CASE org[o] = None BY <2>1, <1>a DEF DirInv, DirTypeOK
  <2>2. CASE org[o] # None
    <3>1. org[o] \in OrgRow BY <2>2 DEF DirInv, DirTypeOK
    <3> DEFINE entry == [org[o] EXCEPT !.name = n, !.ver = org[o].ver + 1]
    <3>0. org[o].ver + 1 \in Nat BY <3>1 DEF OrgRow
    <3>2. entry \in OrgRow /\ entry.name = n BY <3>0, <3>1 DEF OrgRow
    <3>3. org' = [org EXCEPT ![o] = entry] BY <2>2, <1>a
    <3> HIDE DEF entry
    <3> QED BY <2>2, <3>2, <3>3, NoneAssumption DEF DirInv, DirTypeOK
  <2> QED BY <2>1, <2>2
<1>1. DirTypeOK' BY <1>a, <1>b, <1>d DEF DirInv, DirTypeOK
<1>2. DirInOrder'
  <2>1. DirOrdered(r)' BY <1>0, <1>b, <1>d DEF Began, DirOrdered
  <2> QED BY <2>1, <1>b, <1>d, BeganOrdered
<1>4. NamesWritten'
  <2> SUFFICES ASSUME NEW u \in User, user[u] # None, ~user[u].typed, CleanlyRenamed(user[u].org)'
               PROVE  org'[user[u].org] # None /\ user[u].name = org'[user[u].org].name
    BY <1>a DEF NamesWritten
  <2>1. user[u].org \in Org BY DEF DirInv, DirTypeOK, UserRow
  <2> PICK x \in Org : x = user[u].org BY <2>1
  <2>2. CleanlyRenamed(x)' BY <1>a DEF CleanlyRenamed, Renaming
  <2>3. x # o BY <2>2, <1>0, <1>b DEF CleanlyRenamed, Renaming, Began
  <2>4. \A q \in Request : Renaming(q, x) /\ dirJob'[q].out = "ok" => dirJob[q].out = "ok"
    BY <1>b, <1>0 DEF Began
  <2>5. CleanlyRenamed(x) BY <2>2, <2>4, <1>c, CleanBefore
  <2> QED BY <2>3, <2>5, <1>d DEF DirInv, NamesWritten
<1>5. NameStands'
  <2> SUFFICES ASSUME NEW p \in Request, dirJob'[p].at = "users", dirJob'[p].copy # None
               PROVE  \/ org'[dirJob'[p].org].name = dirJob'[p].name
                      \/ \E q \in dirJob'[p].met : dirJob'[q].op = "rename" /\ dirJob'[q].org = dirJob'[p].org
    BY DEF NameStands, Renaming
  <2>1. CASE p = r BY <2>1, <1>0, <1>b, <1>d DEF Began
  <2>2. CASE p # r
    <3>1. /\ dirJob[p].at = "users" /\ Kept(p) /\ dirJob'[p].met = dirJob[p].met \cup {r}
          /\ dirJob[p].org \in Org /\ dirJob[p].met \subseteq Request
      BY <2>2, <1>b DEF Began, Active, DirInv, DirInOrder, DirOrdered, DirTypeOK, DirJob, Kept
    <3>2. CASE dirJob[p].org = o BY <3>1, <3>2, <1>0, <1>b DEF Began, Kept
    <3>3. CASE dirJob[p].org # o
      <4>1. CASE org[dirJob[p].org].name = dirJob[p].name BY <4>1, <3>1, <3>3, <1>d DEF Kept
      <4>2. CASE \E q \in dirJob[p].met : Renaming(q, dirJob[p].org)
        <5> PICK q \in dirJob[p].met : Renaming(q, dirJob[p].org) BY <4>2
        <5>1. Kept(q) BY <3>1, <1>c DEF Renaming, Grows
        <5> QED BY <5>1, <3>1 DEF Kept, Renaming
      <4> QED BY <3>1, <4>1, <4>2 DEF DirInv, NameStands, Kept
    <3> QED BY <3>2, <3>3
  <2> QED BY <2>1, <2>2
<1>6. Joining' /\ Dropping' /\ Unlisted' /\ LeftOver' /\ OneEmail'
  <2>1. \A q \in Request :
           /\ dirJob'[q].at \in {"save", "join", "drop"} => dirJob'[q].at = dirJob[q].at
           /\ Remains(q) => Remains(q)'
    BY <1>0, <1>b DEF Began, DirInv, DirInOrder, DirOrdered, Remains
  <2> QED BY <1>a, <1>c, <2>1, CommitteeStays
<1> QED BY <1>1, <1>2, <1>c, <1>4, <1>5, <1>6 DEF DirInv

LEMMA RenameUsersStep ==
  ASSUME DirInv, NEW r \in Request, RenameUsers(r)
  PROVE  DirInv'
<1> DEFINE o == dirJob[r].org
           n == dirJob[r].name
           mine == {u \in User : user[u] # None /\ user[u].org = o}
<1>a. dirJob[r].op = "rename" /\ dirJob[r].at = "users" /\ UNCHANGED <<org, cac, cacMembers>>
  BY DEF RenameUsers
<1>0. Active(dirJob[r]) /\ o \in Org /\ n \in Name
  BY <1>a DEF Active, DirInv, DirInOrder, DirOrdered
<1>b. PICK out \in {"ok", "failed"} :
        /\ DirFinish(r, out)
        /\ out = "ok" => user' = [u \in User |-> IF u \in mine THEN [user[u] EXCEPT !.name = n, !.typed = FALSE]
                                                 ELSE user[u]]
        /\ out = "failed" => user' = user
  BY DEF RenameUsers
<1>c. dirJob' \in [Request -> DirJob] /\ WentOn(r, "done", out)
  BY <1>b, DirFinishIs DEF DirInv, Outcome
<1>d. Grows /\ DirMeet' BY <1>0, <1>c, WentOnGrows DEF DirInv
<1>e. /\ user' \in [User -> UserRow \cup {None}]
      /\ \A u \in User :
            \/ user'[u] = user[u] /\ ~(out = "ok" /\ user[u] # None /\ user[u].org = o)
            \/ /\ user[u] # None /\ user[u].org = o
               /\ user'[u] # None /\ user'[u].org = o /\ user'[u].name = n /\ out = "ok"
  <2>1. CASE out = "failed" BY <2>1, <1>b DEF DirInv, DirTypeOK
  <2>2. CASE out = "ok"
    <3>1. ASSUME NEW u \in mine
          PROVE  LET new == [user[u] EXCEPT !.name = n, !.typed = FALSE]
                 IN new \in UserRow /\ new.org = o /\ new.name = n
      <4>1. user[u] \in UserRow /\ user[u].org = o BY DEF DirInv, DirTypeOK
      <4> HIDE DEF mine, o, n
      <4> QED BY <4>1, <1>0 DEF UserRow
    <3>2. \A u \in User : u \notin mine => user[u] \in UserRow \cup {None} BY DEF DirInv, DirTypeOK
    <3>3. mine \subseteq User /\ \A u \in mine : user[u] # None /\ user[u].org = o OBVIOUS
    <3>4. user' = [u \in User |-> IF u \in mine THEN [user[u] EXCEPT !.name = n, !.typed = FALSE] ELSE user[u]]
      BY <2>2, <1>b
    <3>5. \A u \in User : u \in mine <=> user[u] # None /\ user[u].org = o OBVIOUS
    <3> HIDE DEF mine, o, n
    <3>6. \A u \in mine : user'[u] \in UserRow /\ user'[u].org = o /\ user'[u].name = n
      BY <3>1, <3>3, <3>4
    <3>7. \A u \in User : u \notin mine => user'[u] = user[u] BY <3>4
    <3>8. user' \in [User -> UserRow \cup {None}] BY <3>1, <3>2, <3>3, <3>4
    <3> QED BY <2>2, <3>3, <3>5, <3>6, <3>7, <3>8, NoneAssumption
  <2> QED BY <2>1, <2>2
<1> HIDE DEF mine, o, n
<1>1. DirTypeOK' BY <1>a, <1>c, <1>e DEF DirInv, DirTypeOK
<1>2. DirInOrder' BY <1>0, <1>a, <1>c, WentOnOrdered
<1>4. NamesWritten'
  <2> SUFFICES ASSUME NEW u \in User, user'[u] # None, ~user'[u].typed, CleanlyRenamed(user[u].org)'
               PROVE  org'[user'[u].org] # None /\ user'[u].name = org'[user'[u].org].name
    BY DEF NamesWritten
  <2>0. user'[u].org \in Org BY <1>1 DEF DirTypeOK, UserRow
  <2> PICK x \in Org : x = user'[u].org BY <2>0
  <2>1. CleanlyRenamed(x)' BY DEF CleanlyRenamed, Renaming
  <2>2. CASE x = o
    <3>1. Renaming(r, x) /\ Renaming(r, x)' BY <2>2, <1>a, <1>d DEF Renaming, Grows, Kept, o
    <3>2. out = "ok" /\ dirJob[r].copy # None /\ \A q \in dirJob[r].met : ~Renaming(q, x)'
      BY <2>1, <3>1, <1>c DEF CleanlyRenamed, WentOn, Kept
    <3>3. \A q \in dirJob[r].met : ~Renaming(q, x)
      BY <3>2, <1>d DEF DirInv, DirTypeOK, DirJob, Renaming, Grows, Kept
    <3>4. org[x] # None /\ org[x].name = n
      BY <2>2, <3>2, <3>3, <1>a DEF DirInv, NameStands, DirInOrder, DirOrdered, o, n
    <3>5. user'[u].name = n BY <3>2, <2>2, <1>e
    <3> QED BY <3>4, <3>5, <1>a
  <2>3. CASE x # o
    <3>1. user'[u] = user[u] BY <2>3, <1>e
    <3>2. \A q \in Request : Renaming(q, x) /\ dirJob'[q].out = "ok" => dirJob[q].out = "ok"
      BY <2>3, <1>c DEF WentOn, Renaming, o
    <3>3. CleanlyRenamed(x) BY <3>2, <2>1, <1>d, CleanBefore
    <3> QED BY <3>1, <3>3, <1>a DEF DirInv, NamesWritten
  <2> QED BY <2>2, <2>3
<1>5. NameStands'
  <2>1. \A q \in Request : /\ dirJob'[q].at = "users" => dirJob'[q] = dirJob[q]
                           /\ dirJob'[q].met = dirJob[q].met /\ dirJob'[q].op = dirJob[q].op
                           /\ dirJob'[q].org = dirJob[q].org
    BY <1>c DEF WentOn, Kept
  <2>2. \A q \in Request : dirJob[q].met \subseteq Request BY DEF DirInv, DirTypeOK, DirJob
  <2> QED BY <2>1, <2>2, <1>a DEF DirInv, NameStands, Renaming
<1>6. Joining' /\ Dropping' /\ Unlisted' /\ LeftOver' /\ OneEmail'
  <2>1. \A q \in Request :
           /\ dirJob'[q].at \in {"save", "join", "drop"} => dirJob'[q].at = dirJob[q].at
           /\ Remains(q) => Remains(q)'
    BY <1>a, <1>c DEF WentOn, Remains, DirInv, DirInOrder, DirOrdered, Active
  <2> QED BY <1>a, <1>d, <2>1, CommitteeStays
<1> QED BY <1>1, <1>2, <1>d, <1>4, <1>5, <1>6 DEF DirInv

LEMMA LoadOrgStep ==
  ASSUME DirInv, NEW r \in Request, NEW o \in Org, NEW op \in {"publish", "unpublish"}, LoadOrg(r, op, o)
  PROVE  DirInv'
<1> DEFINE loaded == [NewDirJob EXCEPT !.op = op, !.at = "loaded", !.org = o, !.copy = org[o]]
           new == IF org[o] = None THEN Answered(loaded, "failed") ELSE loaded
<1>a. DirBegin(r, new) /\ UNCHANGED <<org, user, cac, cacMembers>>
  BY DEF LoadOrg
<1>0. /\ new \in DirJob /\ new.op = op /\ new.org = o /\ new.copy = org[o]
      /\ new.at = "done" \/ (new.at = "loaded" /\ org[o] # None /\ new.out = "none")
      /\ new.out \in {"none", "failed"}
  BY DEF DirInv, DirTypeOK, DirJob, DirOp, NewDirJob, Outcome, Answered
<1> HIDE DEF new, loaded
<1>b. dirJob' \in [Request -> DirJob] /\ Began(r, new) /\ dirJob[r].at = "new"
  BY <1>a, <1>0, DirBeginIs DEF DirInv
<1>c. Grows /\ DirMeet' BY <1>b, BeganGrows DEF DirInv
<1>1. DirTypeOK' BY <1>a, <1>b DEF DirInv, DirTypeOK
<1>2. DirInOrder'
  <2>1. DirOrdered(r)' BY <1>0, <1>a, <1>b DEF Began, DirOrdered, Active
  <2> QED BY <2>1, <1>a, <1>b, BeganOrdered
<1>3. NamesWritten' /\ NameStands'
  <2>1. \A q \in Request :
           /\ dirJob'[q].at = "users" => dirJob[q].at = "users" /\ dirJob[q].op = "rename"
           /\ dirJob[q].op = "rename" /\ dirJob'[q].out = "ok" => dirJob[q].out = "ok"
    <3> TAKE q \in Request
    <3>1. CASE q = r
      <4>1. dirJob[q].op = "none" BY <3>1, <1>b DEF DirInv, DirInOrder, DirOrdered
      <4> QED BY <4>1, <3>1, <1>0, <1>b DEF Began
    <3>2. CASE q # r BY <3>2, <1>b DEF Began, DirInv, DirInOrder, DirOrdered
    <3> QED BY <3>1, <3>2
  <2> QED BY <1>a, <1>c, <2>1, NamesStay
<1>4. Joining' /\ Dropping' /\ Unlisted' /\ LeftOver' /\ OneEmail'
  <2>1. \A q \in Request :
           /\ dirJob'[q].at \in {"save", "join", "drop"} => dirJob'[q].at = dirJob[q].at
           /\ Remains(q) => Remains(q)'
    BY <1>0, <1>b DEF Began, DirInv, DirInOrder, DirOrdered, Remains
  <2> QED BY <1>a, <1>c, <2>1, CommitteeStays
<1> QED BY <1>1, <1>2, <1>c, <1>3, <1>4 DEF DirInv

LEMMA SaveOrgStep ==
  ASSUME DirInv, NEW r \in Request, SaveOrg(r)
  PROVE  DirInv'
<1> DEFINE o == dirJob[r].org
           open == dirJob[r].op = "publish"
<1>a. dirJob[r].at = "loaded" /\ UNCHANGED <<user, cac, cacMembers>>
  BY DEF SaveOrg
<1>0. Active(dirJob[r]) /\ o \in Org /\ org[o] \in OrgRow /\ dirJob[r].op # "rename"
  BY <1>a DEF Active, DirInv, DirInOrder, DirOrdered, DirTypeOK
<1>b. PICK out \in {"ok", "failed"} :
        /\ DirFinish(r, out)
        /\ org' = org \/ org' = [org EXCEPT ![o] = [org[o] EXCEPT !.open = open, !.ver = org[o].ver + 1]]
  BY <1>0 DEF SaveOrg, DirInv, DirTypeOK, OrgRow
<1>c. dirJob' \in [Request -> DirJob] /\ WentOn(r, "done", out)
  BY <1>b, DirFinishIs DEF DirInv, Outcome
<1>d. Grows /\ DirMeet' BY <1>0, <1>c, WentOnGrows DEF DirInv
<1>e. /\ org' \in [Org -> OrgRow \cup {None}]
      /\ \A x \in Org : org'[x].name = org[x].name /\ (org[x] # None => org'[x] # None)
  <2>1. CASE org' = org BY <2>1 DEF DirInv, DirTypeOK
  <2>2. CASE org' = [org EXCEPT ![o] = [org[o] EXCEPT !.open = open, !.ver = org[o].ver + 1]]
    <3> DEFINE entry == [org[o] EXCEPT !.open = open, !.ver = org[o].ver + 1]
    <3>1. org[o].ver + 1 \in Nat /\ open \in BOOLEAN BY <1>0 DEF OrgRow
    <3>2. entry \in OrgRow /\ entry.name = org[o].name
      <4> HIDE DEF o, open
      <4> QED BY <3>1, <1>0 DEF OrgRow
    <3>3. org' = [org EXCEPT ![o] = entry] BY <2>2
    <3> HIDE DEF entry, o, open
    <3> QED BY <1>0, <3>2, <3>3, NoneAssumption DEF DirInv, DirTypeOK
  <2> QED BY <2>1, <2>2, <1>b
<1> HIDE DEF o, open
<1>1. DirTypeOK' BY <1>a, <1>c, <1>e DEF DirInv, DirTypeOK
<1>2. DirInOrder' BY <1>0, <1>c, <1>e, WentOnOrdered
<1>3. NamesWritten' /\ NameStands'
  <2>1. \A q \in Request :
           /\ dirJob'[q].at = "users" => dirJob[q].at = "users" /\ dirJob[q].op = "rename"
           /\ dirJob[q].op = "rename" /\ dirJob'[q].out = "ok" => dirJob[q].out = "ok"
    BY <1>0, <1>c DEF WentOn, DirInv, DirInOrder, DirOrdered
  <2> QED BY <1>a, <1>d, <1>e, <2>1, NamesStay
<1>4. Joining' /\ Dropping' /\ Unlisted' /\ LeftOver' /\ OneEmail'
  <2>1. \A q \in Request :
           /\ dirJob'[q].at \in {"save", "join", "drop"} => dirJob'[q].at = dirJob[q].at
           /\ Remains(q) => Remains(q)'
    BY <1>a, <1>c DEF WentOn, Remains, DirInv, DirInOrder, DirOrdered, Active
  <2> QED BY <1>a, <1>d, <2>1, CommitteeStays
<1> QED BY <1>1, <1>2, <1>d, <1>3, <1>4 DEF DirInv

\* A step of a request that is not a rename leaves the names alone.
LEMMA NamesStayOn ==
  ASSUME DirInv, NEW r \in Request, NEW at, NEW out, WentOn(r, at, out), Active(dirJob[r]),
         at # "users", dirJob[r].op # "rename" \/ out # "ok", UNCHANGED <<org, user>>
  PROVE  NamesWritten' /\ NameStands'
<1>1. Grows BY WentOnGrows DEF DirInv
<1>2. \A q \in Request :
           /\ dirJob'[q].at = "users" => dirJob[q].at = "users" /\ dirJob[q].op = "rename"
           /\ dirJob[q].op = "rename" /\ dirJob'[q].out = "ok" => dirJob[q].out = "ok"
  BY DEF WentOn, DirInv, DirInOrder, DirOrdered
<1>3. user' = user /\ \A o \in Org : org'[o].name = org[o].name /\ (org[o] # None => org'[o] # None)
  OBVIOUS
<1> QED BY <1>1, <1>2, <1>3, NamesStay

LEMMA NamesStayNew ==
  ASSUME DirInv, NEW r \in Request, NEW new, Began(r, new), dirJob[r].at = "new",
         new.at # "users", UNCHANGED <<org, user>>
  PROVE  NamesWritten' /\ NameStands'
<1>1. Grows BY BeganGrows DEF DirInv
<1>2. \A q \in Request :
           /\ dirJob'[q].at = "users" => dirJob[q].at = "users" /\ dirJob[q].op = "rename"
           /\ dirJob[q].op = "rename" /\ dirJob'[q].out = "ok" => dirJob[q].out = "ok"
  <2> TAKE q \in Request
  <2>1. CASE q = r
    <3>1. dirJob[q].op = "none" BY <2>1 DEF DirInv, DirInOrder, DirOrdered
    <3> QED BY <3>1, <2>1 DEF Began
  <2>2. CASE q # r BY <2>2 DEF Began, DirInv, DirInOrder, DirOrdered
  <2> QED BY <2>1, <2>2
<1>3. user' = user /\ \A o \in Org : org'[o].name = org[o].name /\ (org[o] # None => org'[o] # None)
  OBVIOUS
<1> QED BY <1>1, <1>2, <1>3, NamesStay

\* A request that ends without a change of the committee, or left what it did.
LEMMA CommitteeStaysOn ==
  ASSUME DirInv, NEW r \in Request, NEW out, WentOn(r, "done", out), Active(dirJob[r]),
         UNCHANGED <<cac, cacMembers>>,
         dirJob[r].at \in {"join", "drop"} => out \in {"left", "stopped"}
  PROVE  Joining' /\ Dropping' /\ Unlisted' /\ LeftOver' /\ OneEmail'
<1>1. Grows BY WentOnGrows DEF DirInv
<1>2. \A q \in Request :
           /\ dirJob'[q].at \in {"save", "join", "drop"} => dirJob'[q].at = dirJob[q].at
           /\ Remains(q) => Remains(q)'
  BY DEF WentOn, Remains, DirInv, DirInOrder, DirOrdered
<1> QED BY <1>1, <1>2, CommitteeStays

LEMMA StopDirectoryStep ==
  ASSUME DirInv, NEW r \in Request, StopDirectory(r)
  PROVE  DirInv'
<1>a. Active(dirJob[r]) /\ UNCHANGED <<org, user, cac, cacMembers>> BY DEF StopDirectory
<1>c. dirJob' \in [Request -> DirJob] /\ WentOn(r, "done", "stopped")
  BY DirFinishIs DEF StopDirectory, DirInv, Outcome
<1>d. Grows /\ DirMeet' BY <1>a, <1>c, WentOnGrows DEF DirInv
<1>1. DirTypeOK' BY <1>a, <1>c DEF DirInv, DirTypeOK
<1>2. DirInOrder' BY <1>a, <1>c, WentOnOrdered
<1>3. NamesWritten' /\ NameStands' BY <1>a, <1>c, NamesStayOn
<1>4. Joining' /\ Dropping' /\ Unlisted' /\ LeftOver' /\ OneEmail'
  BY <1>a, <1>c, CommitteeStaysOn
<1> QED BY <1>1, <1>2, <1>d, <1>3, <1>4 DEF DirInv

LEMMA SignUpStep ==
  ASSUME DirInv, NEW r \in Request, NEW e \in Email, SignUp(r, e)
  PROVE  DirInv'
<1> DEFINE found == {m \in Registered : cac[m] = e}
           begun(m, at) == [NewDirJob EXCEPT !.op = "signUp", !.at = at, !.member = m, !.email = e]
<1>a. UNCHANGED <<org, user, cac, cacMembers>> BY DEF SignUp
<1>p. PICK m \in Member, at \in {"join", "save"} :
        /\ DirBegin(r, begun(m, at))
        /\ at = "join" => cac[m] # None
        /\ at = "save" => \A n \in Member : cac[n] # e
  BY NoneAssumption DEF SignUp, Registered, Unused
<1> DEFINE new == begun(m, at)
<1>0. /\ new \in DirJob /\ new.op = "signUp" /\ new.at = at /\ new.member = m /\ new.email = e
      /\ new.copy = None /\ new.out = "none"
  BY DEF DirJob, DirOp, NewDirJob, Outcome
<1>q. DirBegin(r, new) BY <1>p
<1> HIDE DEF new, begun
<1>b. dirJob' \in [Request -> DirJob] /\ Began(r, new) /\ dirJob[r].at = "new"
  BY <1>q, <1>0, DirBeginIs DEF DirInv
<1>c. Grows /\ DirMeet' BY <1>b, BeganGrows DEF DirInv
<1>1. DirTypeOK' BY <1>a, <1>b DEF DirInv, DirTypeOK
<1>2. DirInOrder'
  <2>1. DirOrdered(r)' BY <1>0, <1>a, <1>b DEF Began, DirOrdered
  <2> QED BY <2>1, <1>a, <1>b, BeganOrdered
<1>3. NamesWritten' /\ NameStands'
  <2>1. new.at # "users" BY <1>0
  <2> QED BY <2>1, <1>a, <1>b, NamesStayNew
<1>o. \A q \in Request : q # r => Kept(q) /\ dirJob'[q].at = dirJob[q].at /\ dirJob'[q].out = dirJob[q].out
  BY <1>b DEF Began
<1>4. Joining'
  <2> SUFFICES ASSUME NEW q \in Request, dirJob'[q].at = "join"
               PROVE  cac[dirJob'[q].member] # None \/ (Crossed(dirJob[q].member)' /\ dirJob'[q].member = dirJob[q].member)
    BY <1>a DEF Joining, Crossed
  <2>1. CASE q = r
    <3>1. at = "join" /\ dirJob'[r].member = m BY <2>1, <1>0, <1>b DEF Began
    <3> QED BY <2>1, <3>1, <1>p
  <2>2. CASE q # r BY <2>2, <1>o, <1>c, CrossedStays DEF DirInv, Joining, Kept
  <2> QED BY <2>1, <2>2
<1>5. Dropping'
  <2> SUFFICES ASSUME NEW q \in Request, dirJob'[q].at = "drop", dirJob'[q].member \in cacMembers
               PROVE  Crossed(dirJob[q].member)' /\ dirJob'[q].member = dirJob[q].member
    BY <1>a DEF Dropping, Crossed
  <2>1. q # r BY <1>0, <1>b DEF Began
  <2> QED BY <2>1, <1>o, <1>c, CrossedStays DEF DirInv, Dropping, Kept
<1>6. Unlisted' BY <1>a, <1>c, CrossedStays DEF DirInv, Unlisted
<1>7. LeftOver'
  <2>1. ~Remains(r) BY <1>b DEF Remains, DirInv, DirInOrder, DirOrdered
  <2>2. \A q \in Request : Remains(q) => Remains(q)' /\ dirJob'[q].member = dirJob[q].member
    BY <2>1, <1>o DEF Remains, Kept
  <2> QED BY <2>2, <1>a DEF DirInv, LeftOver
<1>8. OneEmail'
  <2>1. ASSUME NEW q \in Request, NEW n \in Member, dirJob'[q].at = "save", cac[n] = dirJob'[q].email
        PROVE  SignedTogether(dirJob[q].member, n)' /\ dirJob'[q].member = dirJob[q].member
    <3>1. q # r BY <2>1, <1>0, <1>b, <1>p DEF Began
    <3> QED BY <3>1, <2>1, <1>o, <1>c, TogetherStays DEF DirInv, OneEmail, Kept
  <2>2. \A n1, n2 \in Member : n1 # n2 /\ cac[n1] # None /\ cac[n1] = cac[n2] => SignedTogether(n1, n2)'
    BY <1>c, TogetherStays DEF DirInv, OneEmail
  <2> QED BY <2>1, <2>2, <1>a DEF OneEmail, SignedTogether
<1> QED BY <1>1, <1>2, <1>c, <1>3, <1>4, <1>5, <1>6, <1>7, <1>8 DEF DirInv

LEMMA FindMemberStep ==
  ASSUME DirInv, NEW r \in Request, NEW e \in Email, FindMember(r, e)
  PROVE  DirInv'
<1> DEFINE begun(m) == [NewDirJob EXCEPT !.op = "remove", !.at = "pull", !.member = m, !.email = e]
<1>a. UNCHANGED <<org, user, cac, cacMembers>> BY DEF FindMember
<1>p. \/ \E m \in Member : DirBegin(r, begun(m))
      \/ DirBegin(r, Answered(begun(None), "failed"))
  BY DEF FindMember, Registered
<1>0. PICK new \in DirJob :
        /\ DirBegin(r, new) /\ new.op = "remove" /\ new.copy = None
        /\ \/ new.at = "pull" /\ new.member \in Member /\ new.out = "none"
           \/ new.at = "done" /\ new.out = "failed"
  <2>1. ASSUME NEW m \in Member
        PROVE  /\ begun(m) \in DirJob /\ begun(m).op = "remove" /\ begun(m).at = "pull" /\ begun(m).member = m
               /\ begun(m).out = "none" /\ begun(m).copy = None
    BY DEF DirJob, DirOp, NewDirJob, Outcome
  <2> DEFINE none == Answered(begun(None), "failed")
  <2>2. /\ none \in DirJob /\ none.op = "remove" /\ none.at = "done" /\ none.out = "failed"
        /\ none.copy = None
    BY DEF DirJob, DirOp, NewDirJob, Outcome, Answered
  <2> HIDE DEF begun
  <2>3. CASE \E m \in Member : DirBegin(r, begun(m)) BY <2>1, <2>3
  <2>4. CASE DirBegin(r, none) BY <2>2, <2>4
  <2> QED BY <1>p, <2>3, <2>4
<1>b. dirJob' \in [Request -> DirJob] /\ Began(r, new) /\ dirJob[r].at = "new"
  BY <1>0, DirBeginIs DEF DirInv
<1>c. Grows /\ DirMeet' BY <1>b, BeganGrows DEF DirInv
<1>1. DirTypeOK' BY <1>a, <1>b DEF DirInv, DirTypeOK
<1>2. DirInOrder'
  <2>1. DirOrdered(r)' BY <1>0, <1>a, <1>b DEF Began, DirOrdered, Active
  <2> QED BY <2>1, <1>a, <1>b, BeganOrdered
<1>3. NamesWritten' /\ NameStands'
  <2>1. new.at # "users" BY <1>0
  <2> QED BY <2>1, <1>a, <1>b, NamesStayNew
<1>4. Joining' /\ Dropping' /\ Unlisted' /\ LeftOver' /\ OneEmail'
  <2>1. \A q \in Request :
           /\ dirJob'[q].at \in {"save", "join", "drop"} => dirJob'[q].at = dirJob[q].at
           /\ Remains(q) => Remains(q)'
    BY <1>0, <1>b DEF Began, DirInv, DirInOrder, DirOrdered, Remains
  <2> QED BY <1>a, <1>c, <2>1, CommitteeStays
<1> QED BY <1>1, <1>2, <1>c, <1>3, <1>4 DEF DirInv

LEMMA SaveMemberStep ==
  ASSUME DirInv, NEW r \in Request, SaveMember(r)
  PROVE  DirInv'
<1> DEFINE m == dirJob[r].member
           e == dirJob[r].email
<1>a. dirJob[r].at = "save" /\ UNCHANGED <<org, user, cacMembers>> BY DEF SaveMember
<1>0. /\ Active(dirJob[r]) /\ m \in Member /\ e \in Email /\ e # None
  BY <1>a, NoneAssumption DEF Active, DirInv, DirInOrder, DirOrdered
<1>s. dirJob[r].op = "signUp" /\ dirJob[r].out = "none"
  BY <1>a DEF Active, DirInv, DirInOrder, DirOrdered
<1>f. CASE cac' = cac /\ DirFinish(r, "failed")
  <2>c. dirJob' \in [Request -> DirJob] /\ WentOn(r, "done", "failed")
    BY <1>f, DirFinishIs DEF DirInv, Outcome
  <2>d. Grows /\ DirMeet' BY <1>0, <2>c, WentOnGrows DEF DirInv
  <2>1. DirTypeOK' BY <1>a, <1>f, <2>c DEF DirInv, DirTypeOK
  <2>2. DirInOrder' BY <1>0, <1>a, <2>c, WentOnOrdered
  <2>3. NamesWritten' /\ NameStands' BY <1>0, <1>a, <2>c, NamesStayOn
  <2>4. Joining' /\ Dropping' /\ Unlisted' /\ LeftOver' /\ OneEmail'
    BY <1>0, <1>a, <1>f, <2>c, CommitteeStaysOn
  <2> QED BY <2>1, <2>2, <2>d, <2>3, <2>4 DEF DirInv
<1>k. CASE cac' = [cac EXCEPT ![m] = e] /\ DirGo(r, "join")
  <2>c. dirJob' \in [Request -> DirJob] /\ WentOn(r, "join", "none")
    BY <1>k, <1>s, DirGoIs DEF DirInv, DirStage
  <2>d. Grows /\ DirMeet' BY <1>0, <2>c, WentOnGrows DEF DirInv
  <2>e. cac'[m] = e /\ \A n \in Member : n # m => cac'[n] = cac[n]
    BY <1>k, <1>0 DEF DirInv, DirTypeOK
  <2>1. DirTypeOK' BY <1>a, <1>k, <1>0, <2>c DEF DirInv, DirTypeOK
  <2>2. DirInOrder'
    <3>1. DirOrdered(r)' BY <1>0, <1>a, <2>c DEF WentOn, Kept, DirOrdered, Active, DirInv, DirInOrder
    <3> QED BY <3>1, <1>0, <1>a, <2>c, WentOnOrdered
  <2>3. NamesWritten' /\ NameStands' BY <1>0, <1>s, <1>a, <2>c, NamesStayOn
  <2>m. dirJob'[r].member = m /\ dirJob'[r].at = "join" /\ \A q \in Request : q # r => dirJob'[q] = dirJob[q]
    BY <2>c DEF WentOn, Kept
  <2> HIDE DEF m, e
  <2>4. Joining'
    <3> SUFFICES ASSUME NEW q \in Request, dirJob'[q].at = "join"
                 PROVE  cac'[dirJob'[q].member] # None \/ (Crossed(dirJob[q].member)' /\ dirJob'[q].member = dirJob[q].member)
      BY DEF Joining, Crossed
    <3>1. CASE q = r BY <3>1, <1>0, <2>e, <2>m
    <3>2. CASE q # r
      <4>1. dirJob'[q] = dirJob[q] /\ dirJob[q].member \in Member
        BY <3>2, <2>m DEF DirInv, DirInOrder, DirOrdered
      <4>2. cac[dirJob[q].member] # None \/ Crossed(dirJob[q].member) BY <4>1 DEF DirInv, Joining
      <4> QED BY <4>1, <4>2, <1>0, <2>e, <2>d, CrossedStays
    <3> QED BY <3>1, <3>2
  <2>5. Dropping'
    <3> SUFFICES ASSUME NEW q \in Request, dirJob'[q].at = "drop", dirJob'[q].member \in cacMembers
                 PROVE  Crossed(dirJob[q].member)' /\ dirJob'[q].member = dirJob[q].member
      BY <1>a DEF Dropping, Crossed
    <3>1. dirJob'[q] = dirJob[q] BY <2>m
    <3> QED BY <3>1, <2>d, CrossedStays DEF DirInv, Dropping
  <2>6. Unlisted'
    <3>1. \A n \in cacMembers : cac'[n] = None => cac[n] = None
      BY <1>0, <2>e DEF DirInv, DirTypeOK
    <3> QED BY <3>1, <1>a, <2>d, CrossedStays DEF DirInv, Unlisted
  <2>7. LeftOver'
    <3> SUFFICES ASSUME NEW n \in Member \ cacMembers, cac'[n] # None
                 PROVE  \E q \in Request : dirJob'[q].member = n /\ Remains(q)'
      BY <1>a DEF LeftOver
    <3>1. CASE n = m BY <3>1, <2>m DEF Remains
    <3>2. CASE n # m
      <4> PICK q \in Request : dirJob[q].member = n /\ Remains(q) BY <3>2, <2>e DEF DirInv, LeftOver
      <4>1. q # r BY <3>2 DEF m
      <4> QED BY <4>1, <2>m DEF Remains
    <3> QED BY <3>1, <3>2
  <2>8. OneEmail'
    <3>0. \A n \in Member : cac[n] = e => SignedTogether(m, n) BY <1>a DEF DirInv, OneEmail, m, e
    <3>1. ASSUME NEW n1 \in Member, NEW n2 \in Member, n1 # n2, cac'[n1] # None, cac'[n1] = cac'[n2]
          PROVE  SignedTogether(n1, n2)'
      <4>1. SignedTogether(n1, n2)
        <5>1. CASE n1 = m BY <3>0, <3>1, <5>1, <2>e
        <5>2. CASE n2 = m
          <6>1. SignedTogether(m, n1) BY <3>0, <3>1, <5>2, <2>e
          <6> QED BY <6>1, <5>2, TogetherBothWays DEF DirInv
        <5>3. CASE n1 # m /\ n2 # m BY <3>1, <5>3, <2>e DEF DirInv, OneEmail
        <5> QED BY <5>1, <5>2, <5>3
      <4> QED BY <4>1, <2>d, TogetherStays
    <3>2. ASSUME NEW q \in Request, NEW n \in Member, dirJob'[q].at = "save", cac'[n] = dirJob'[q].email
          PROVE  SignedTogether(dirJob[q].member, n)' /\ dirJob'[q].member = dirJob[q].member
      <4>1. q # r /\ dirJob'[q] = dirJob[q] /\ dirJob[q].at = "save" /\ dirJob[q].op = "signUp"
        BY <3>2, <2>m DEF DirInv, DirInOrder, DirOrdered
      <4>2. SignedTogether(dirJob[q].member, n)
        <5>1. CASE n = m
          <6>1. r \in dirJob[q].met BY <4>1, <1>0 DEF DirInv, DirMeet, Active
          <6> QED BY <5>1, <6>1, <4>1, <1>s DEF SignedTogether, m
        <5>2. CASE n # m BY <5>2, <3>2, <4>1, <2>e DEF DirInv, OneEmail
        <5> QED BY <5>1, <5>2
      <4> QED BY <4>1, <4>2, <2>d, TogetherStays
    <3> QED BY <3>1, <3>2 DEF OneEmail, SignedTogether
  <2> QED BY <2>1, <2>2, <2>d, <2>3, <2>4, <2>5, <2>6, <2>7, <2>8 DEF DirInv
<1> QED BY <1>f, <1>k DEF SaveMember

LEMMA JoinProjectStep ==
  ASSUME DirInv, NEW r \in Request, JoinProject(r)
  PROVE  DirInv'
<1>a. dirJob[r].at = "join" /\ UNCHANGED <<org, user, cac>> BY DEF JoinProject
<1>0. Active(dirJob[r]) /\ dirJob[r].member \in Member /\ dirJob[r].op = "signUp"
  BY <1>a DEF Active, DirInv, DirInOrder, DirOrdered
<1> PICK m \in Member : m = dirJob[r].member BY <1>0
<1>p. PICK out \in {"ok", "failed", "left"} :
        /\ DirFinish(r, out)
        /\ IF out = "left" THEN cacMembers' = cacMembers ELSE cacMembers' = cacMembers \cup {m}
  BY DEF JoinProject
<1>c. dirJob' \in [Request -> DirJob] /\ WentOn(r, "done", out)
  BY <1>p, DirFinishIs DEF DirInv, Outcome
<1>d. Grows /\ DirMeet' BY <1>0, <1>c, WentOnGrows DEF DirInv
<1>1. DirTypeOK' BY <1>a, <1>0, <1>p, <1>c DEF DirInv, DirTypeOK
<1>2. DirInOrder' BY <1>0, <1>a, <1>c, WentOnOrdered
<1>3. NamesWritten' /\ NameStands' BY <1>0, <1>a, <1>c, NamesStayOn
<1>4. Joining' /\ Dropping' /\ Unlisted' /\ LeftOver' /\ OneEmail'
  <2>1. CASE out = "left"
    <3>1. UNCHANGED <<cac, cacMembers>> BY <2>1, <1>a, <1>p
    <3> QED BY <2>1, <3>1, <1>0, <1>c, CommitteeStaysOn
  <2>2. CASE out # "left"
    <3>0. cacMembers' = cacMembers \cup {m} BY <2>2, <1>p
    <3>m. /\ \A q \in Request : q # r => dirJob'[q] = dirJob[q]
          /\ dirJob'[r].at = "done" /\ dirJob'[r].member = m
      BY <1>c DEF WentOn, Kept
    <3>h. m \in cacMembers' /\ \A n : n \in cacMembers' => n = m \/ n \in cacMembers BY <3>0
    <3>x. cac[m] = None => Crossed(m)' BY <1>a, <1>d, CrossedStays DEF DirInv, Joining
    <3>1. Joining'
      <4> SUFFICES ASSUME NEW q \in Request, dirJob'[q].at = "join"
                   PROVE  cac[dirJob'[q].member] # None \/ (Crossed(dirJob[q].member)' /\ dirJob'[q].member = dirJob[q].member)
        BY <1>a DEF Joining, Crossed
      <4>1. dirJob'[q] = dirJob[q] BY <3>m
      <4> QED BY <4>1, <1>d, CrossedStays DEF DirInv, Joining
    <3>2. Dropping'
      <4> SUFFICES ASSUME NEW q \in Request, dirJob'[q].at = "drop", dirJob'[q].member \in cacMembers'
                   PROVE  Crossed(dirJob[q].member)' /\ dirJob'[q].member = dirJob[q].member
        BY DEF Dropping, Crossed
      <4>1. q # r /\ dirJob'[q] = dirJob[q] /\ dirJob[q].op = "remove" BY <3>m DEF DirInv, DirInOrder, DirOrdered
      <4>2. CASE dirJob[q].member = m
        <5>1. q \in dirJob[r].met BY <4>1, <1>0 DEF DirInv, DirMeet, Active
        <5>2. Crossed(m) BY <5>1, <4>1, <4>2, <1>0 DEF Crossed
        <5> QED BY <5>2, <4>1, <4>2, <1>d, CrossedStays
      <4>3. CASE dirJob[q].member # m
        <5>1. dirJob[q].member \in cacMembers BY <4>1, <4>3, <3>h
        <5> QED BY <5>1, <4>1, <1>d, CrossedStays DEF DirInv, Dropping
      <4> QED BY <4>2, <4>3
    <3>3. Unlisted'
      <4> SUFFICES ASSUME NEW n \in cacMembers', cac[n] = None PROVE Crossed(n)'
        BY <1>a DEF Unlisted
      <4>1. CASE n = m BY <4>1, <3>x
      <4>2. CASE n # m
        <5>1. n \in cacMembers BY <4>2, <3>h
        <5> QED BY <5>1, <1>d, CrossedStays DEF DirInv, Unlisted
      <4> QED BY <4>1, <4>2
    <3>4. LeftOver'
      <4> SUFFICES ASSUME NEW n \in Member \ cacMembers', cac[n] # None
                   PROVE  \E q \in Request : dirJob'[q].member = n /\ Remains(q)'
        BY <1>a DEF LeftOver
      <4>1. n # m /\ n \notin cacMembers BY <3>0
      <4> PICK q \in Request : dirJob[q].member = n /\ Remains(q) BY <4>1 DEF DirInv, LeftOver
      <4>2. q # r BY <4>1
      <4> QED BY <4>2, <3>m DEF Remains
    <3>5. OneEmail'
      <4>1. \A n1, n2 \in Member : n1 # n2 /\ cac[n1] # None /\ cac[n1] = cac[n2] => SignedTogether(n1, n2)'
        BY <1>d, TogetherStays DEF DirInv, OneEmail
      <4>2. ASSUME NEW q \in Request, NEW n \in Member, dirJob'[q].at = "save", cac[n] = dirJob'[q].email
            PROVE  SignedTogether(dirJob[q].member, n)' /\ dirJob'[q].member = dirJob[q].member
        <5>1. dirJob'[q] = dirJob[q] BY <4>2, <3>m
        <5> QED BY <4>2, <5>1, <1>d, TogetherStays DEF DirInv, OneEmail
      <4> QED BY <4>1, <4>2, <1>a DEF OneEmail, SignedTogether
    <3> QED BY <3>1, <3>2, <3>3, <3>4, <3>5
  <2> QED BY <2>1, <2>2
<1> QED BY <1>1, <1>2, <1>d, <1>3, <1>4 DEF DirInv

LEMMA PullMemberStep ==
  ASSUME DirInv, NEW r \in Request, PullMember(r)
  PROVE  DirInv'
<1> DEFINE m == dirJob[r].member
<1>a. dirJob[r].at = "pull" /\ UNCHANGED <<org, user, cac>> BY DEF PullMember
<1>0. Active(dirJob[r]) /\ m \in Member /\ dirJob[r].op = "remove" /\ dirJob[r].out = "none"
  BY <1>a DEF Active, DirInv, DirInOrder, DirOrdered
<1>f. CASE cacMembers' = cacMembers /\ DirFinish(r, "failed")
  <2>c. dirJob' \in [Request -> DirJob] /\ WentOn(r, "done", "failed")
    BY <1>f, DirFinishIs DEF DirInv, Outcome
  <2>d. Grows /\ DirMeet' BY <1>0, <2>c, WentOnGrows DEF DirInv
  <2>1. DirTypeOK' BY <1>a, <1>f, <2>c DEF DirInv, DirTypeOK
  <2>2. DirInOrder' BY <1>0, <1>a, <2>c, WentOnOrdered
  <2>3. NamesWritten' /\ NameStands' BY <1>0, <1>a, <2>c, NamesStayOn
  <2>4. Joining' /\ Dropping' /\ Unlisted' /\ LeftOver' /\ OneEmail'
    BY <1>0, <1>a, <1>f, <2>c, CommitteeStaysOn
  <2> QED BY <2>1, <2>2, <2>d, <2>3, <2>4 DEF DirInv
<1>k. CASE cacMembers' = cacMembers \ {m} /\ DirGo(r, "drop")
  <2>c. dirJob' \in [Request -> DirJob] /\ WentOn(r, "drop", "none")
    BY <1>k, <1>0, DirGoIs DEF DirInv, DirStage
  <2>d. Grows /\ DirMeet' BY <1>0, <2>c, WentOnGrows DEF DirInv
  <2>1. DirTypeOK' BY <1>a, <1>k, <2>c DEF DirInv, DirTypeOK
  <2>2. DirInOrder'
    <3>1. DirOrdered(r)' BY <1>0, <1>a, <2>c DEF WentOn, Kept, DirOrdered, Active, DirInv, DirInOrder
    <3> QED BY <3>1, <1>0, <1>a, <2>c, WentOnOrdered
  <2>3. NamesWritten' /\ NameStands' BY <1>0, <1>a, <2>c, NamesStayOn
  <2>m. /\ dirJob'[r].member = m /\ dirJob'[r].at = "drop"
        /\ \A q \in Request : q # r => dirJob'[q] = dirJob[q]
    BY <2>c DEF WentOn, Kept
  <2>h. m \notin cacMembers' /\ \A n : n \in cacMembers' <=> n # m /\ n \in cacMembers BY <1>k
  <2> HIDE DEF m
  <2>4. Joining'
    <3> SUFFICES ASSUME NEW q \in Request, dirJob'[q].at = "join"
                 PROVE  cac[dirJob'[q].member] # None \/ (Crossed(dirJob[q].member)' /\ dirJob'[q].member = dirJob[q].member)
      BY <1>a DEF Joining, Crossed
    <3>1. dirJob'[q] = dirJob[q] BY <2>m
    <3> QED BY <3>1, <2>d, CrossedStays DEF DirInv, Joining
  <2>5. Dropping'
    <3> SUFFICES ASSUME NEW q \in Request, dirJob'[q].at = "drop", dirJob'[q].member \in cacMembers'
                 PROVE  Crossed(dirJob[q].member)' /\ dirJob'[q].member = dirJob[q].member
      BY DEF Dropping, Crossed
    <3>1. q # r /\ dirJob'[q] = dirJob[q] /\ dirJob[q].member \in cacMembers BY <2>m, <2>h
    <3> QED BY <3>1, <2>d, CrossedStays DEF DirInv, Dropping
  <2>6. Unlisted' BY <2>h, <1>a, <2>d, CrossedStays DEF DirInv, Unlisted
  <2>7. LeftOver'
    <3> SUFFICES ASSUME NEW n \in Member \ cacMembers', cac[n] # None
                 PROVE  \E q \in Request : dirJob'[q].member = n /\ Remains(q)'
      BY <1>a DEF LeftOver
    <3>1. CASE n = m BY <3>1, <2>m DEF Remains
    <3>2. CASE n # m
      <4>1. n \notin cacMembers BY <3>2, <2>h
      <4> PICK q \in Request : dirJob[q].member = n /\ Remains(q) BY <4>1 DEF DirInv, LeftOver
      <4>2. q # r BY <3>2 DEF m
      <4> QED BY <4>2, <2>m DEF Remains
    <3> QED BY <3>1, <3>2
  <2>8. OneEmail'
    <3>1. \A n1, n2 \in Member : n1 # n2 /\ cac[n1] # None /\ cac[n1] = cac[n2] => SignedTogether(n1, n2)'
      BY <2>d, TogetherStays DEF DirInv, OneEmail
    <3>2. ASSUME NEW q \in Request, NEW n \in Member, dirJob'[q].at = "save", cac[n] = dirJob'[q].email
          PROVE  SignedTogether(dirJob[q].member, n)' /\ dirJob'[q].member = dirJob[q].member
      <4>1. dirJob'[q] = dirJob[q] BY <3>2, <2>m
      <4> QED BY <3>2, <4>1, <2>d, TogetherStays DEF DirInv, OneEmail
    <3> QED BY <3>1, <3>2, <1>a DEF OneEmail, SignedTogether
  <2> QED BY <2>1, <2>2, <2>d, <2>3, <2>4, <2>5, <2>6, <2>7, <2>8 DEF DirInv
<1> QED BY <1>f, <1>k DEF PullMember

LEMMA DropMemberStep ==
  ASSUME DirInv, NEW r \in Request, DropMember(r)
  PROVE  DirInv'
<1> DEFINE m == dirJob[r].member
<1>a. dirJob[r].at = "drop" /\ UNCHANGED <<org, user, cacMembers>> BY DEF DropMember
<1>0. Active(dirJob[r]) /\ m \in Member /\ dirJob[r].op = "remove"
  BY <1>a DEF Active, DirInv, DirInOrder, DirOrdered
<1>p. PICK out \in {"ok", "left"} :
        /\ DirFinish(r, out)
        /\ IF out = "left" THEN cac' = cac ELSE cac' = [cac EXCEPT ![m] = None]
  BY DEF DropMember
<1>c. dirJob' \in [Request -> DirJob] /\ WentOn(r, "done", out)
  BY <1>p, DirFinishIs DEF DirInv, Outcome
<1>d. Grows /\ DirMeet' BY <1>0, <1>c, WentOnGrows DEF DirInv
<1>1. DirTypeOK' BY <1>a, <1>0, <1>p, <1>c DEF DirInv, DirTypeOK
<1>2. DirInOrder' BY <1>0, <1>a, <1>c, WentOnOrdered
<1>3. NamesWritten' /\ NameStands' BY <1>0, <1>a, <1>c, NamesStayOn
<1>4. Joining' /\ Dropping' /\ Unlisted' /\ LeftOver' /\ OneEmail'
  <2>1. CASE out = "left"
    <3>1. UNCHANGED <<cac, cacMembers>> BY <2>1, <1>a, <1>p
    <3> QED BY <2>1, <3>1, <1>0, <1>c, CommitteeStaysOn
  <2>2. CASE out # "left"
    <3>e. cac'[m] = None /\ \A n \in Member : n # m => cac'[n] = cac[n]
      BY <2>2, <1>p, <1>0 DEF DirInv, DirTypeOK
    <3>m. /\ \A q \in Request : q # r => dirJob'[q] = dirJob[q]
          /\ dirJob'[r].at = "done" /\ dirJob'[r].member = m
      BY <1>c DEF WentOn, Kept
    <3>1. Joining'
      <4> SUFFICES ASSUME NEW q \in Request, dirJob'[q].at = "join"
                   PROVE  cac'[dirJob'[q].member] # None \/ (Crossed(dirJob[q].member)' /\ dirJob'[q].member = dirJob[q].member)
        BY DEF Joining, Crossed
      <4>1. q # r /\ dirJob'[q] = dirJob[q] /\ dirJob[q].op = "signUp" /\ dirJob[q].member \in Member
        BY <3>m DEF DirInv, DirInOrder, DirOrdered
      <4>2. CASE dirJob[q].member = m
        <5>1. r \in dirJob[q].met BY <4>1, <1>0 DEF DirInv, DirMeet, Active
        <5>2. Crossed(m) BY <5>1, <4>1, <4>2, <1>0 DEF Crossed
        <5> QED BY <5>2, <4>1, <4>2, <1>d, CrossedStays
      <4>3. CASE dirJob[q].member # m
        <5>1. cac[dirJob[q].member] # None \/ Crossed(dirJob[q].member) BY <4>1 DEF DirInv, Joining
        <5> QED BY <5>1, <4>1, <4>3, <3>e, <1>d, CrossedStays
      <4> QED BY <4>2, <4>3
    <3>2. Dropping'
      <4> SUFFICES ASSUME NEW q \in Request, dirJob'[q].at = "drop", dirJob'[q].member \in cacMembers
                   PROVE  Crossed(dirJob[q].member)' /\ dirJob'[q].member = dirJob[q].member
        BY <1>a DEF Dropping, Crossed
      <4>1. dirJob'[q] = dirJob[q] BY <3>m
      <4> QED BY <4>1, <1>d, CrossedStays DEF DirInv, Dropping
    <3>3. Unlisted'
      <4> SUFFICES ASSUME NEW n \in cacMembers, cac'[n] = None PROVE Crossed(n)'
        BY <1>a DEF Unlisted
      <4>1. CASE n = m BY <4>1, <1>a, <1>d, CrossedStays DEF DirInv, Dropping
      <4>2. CASE n # m
        <5>1. cac[n] = None BY <4>2, <3>e DEF DirInv, DirTypeOK
        <5> QED BY <5>1, <1>d, CrossedStays DEF DirInv, Unlisted
      <4> QED BY <4>1, <4>2
    <3>4. LeftOver'
      <4> SUFFICES ASSUME NEW n \in Member \ cacMembers, cac'[n] # None
                   PROVE  \E q \in Request : dirJob'[q].member = n /\ Remains(q)'
        BY <1>a DEF LeftOver
      <4>1. n # m /\ cac[n] # None BY <3>e
      <4> PICK q \in Request : dirJob[q].member = n /\ Remains(q) BY <4>1 DEF DirInv, LeftOver
      <4>2. q # r BY <4>1
      <4> QED BY <4>2, <3>m DEF Remains
    <3>5. OneEmail'
      <4>0. \A n \in Member : cac'[n] # None => cac'[n] = cac[n] BY <3>e
      <4>1. \A n1, n2 \in Member : n1 # n2 /\ cac'[n1] # None /\ cac'[n1] = cac'[n2] => SignedTogether(n1, n2)'
        BY <4>0, <1>d, TogetherStays DEF DirInv, OneEmail
      <4>2. ASSUME NEW q \in Request, NEW n \in Member, dirJob'[q].at = "save", cac'[n] = dirJob'[q].email
            PROVE  SignedTogether(dirJob[q].member, n)' /\ dirJob'[q].member = dirJob[q].member
        <5>1. dirJob'[q] = dirJob[q] /\ cac[n] = dirJob[q].email
          BY <4>0, <4>2, <3>m, NoneAssumption DEF DirInv, DirInOrder, DirOrdered
        <5> QED BY <4>2, <5>1, <1>d, TogetherStays DEF DirInv, OneEmail
      <4> QED BY <4>1, <4>2 DEF OneEmail, SignedTogether
    <3> QED BY <3>1, <3>2, <3>3, <3>4, <3>5
  <2> QED BY <2>1, <2>2
<1> QED BY <1>1, <1>2, <1>d, <1>3, <1>4 DEF DirInv

LEMMA DirInvInit == DirInit => DirInv
<1> SUFFICES ASSUME DirInit PROVE DirInv
  OBVIOUS
<1>0. \A r \in Request : dirJob[r] = NewDirJob BY DEF DirInit
<1>1. /\ NewDirJob.at = "new" /\ NewDirJob.op = "none" /\ NewDirJob.out = "none" /\ NewDirJob.member = None
      /\ NewDirJob.met = {} /\ NewDirJob.copy = None
  BY DEF NewDirJob
<1>2. DirTypeOK BY NewDirJobIs DEF DirInit, DirTypeOK, OrgRow
<1>3. DirInOrder BY <1>0, <1>1 DEF DirInOrder, DirOrdered, Active
<1>4. DirMeet BY <1>0, <1>1 DEF DirMeet, Active
<1>5. NamesWritten BY DEF DirInit, NamesWritten
<1>6. NameStands /\ Joining /\ Dropping BY <1>0, <1>1 DEF NameStands, Joining, Dropping
<1>7. Unlisted /\ LeftOver BY DEF DirInit, Unlisted, LeftOver
<1>8. OneEmail BY <1>0, <1>1 DEF DirInit, OneEmail
<1> QED BY <1>2, <1>3, <1>4, <1>5, <1>6, <1>7, <1>8 DEF DirInv

LEMMA DirInvStep == DirInv /\ [DirNext]_dirVars => DirInv'
<1> SUFFICES ASSUME DirInv, [DirNext]_dirVars PROVE DirInv'
  OBVIOUS
<1>1. CASE UNCHANGED dirVars
  BY <1>1 DEF dirVars, DirInv, DirTypeOK, DirInOrder, DirOrdered, DirMeet, NamesWritten, NameStands,
              Joining, Dropping, Unlisted, LeftOver, OneEmail, CleanlyRenamed, Renaming, Crossed,
              Remains, SignedTogether, Active
<1>2. CASE AtOnce BY <1>2, PostOrgStep, WriteUserStep DEF AtOnce
<1>3. ASSUME NEW r \in Request, OrgStep(r) PROVE DirInv'
  BY <1>3, RenameOrgStep, LoadOrgStep, RenameUsersStep, SaveOrgStep DEF OrgStep
<1>4. ASSUME NEW r \in Request, CacStep(r) PROVE DirInv'
  BY <1>4, SignUpStep, FindMemberStep, SaveMemberStep, JoinProjectStep, PullMemberStep, DropMemberStep
     DEF CacStep
<1>5. ASSUME NEW r \in Request, StopDirectory(r) PROVE DirInv'
  BY <1>5, StopDirectoryStep
<1> QED BY <1>1, <1>2, <1>3, <1>4, <1>5 DEF DirNext

LEMMA DirInvImplies == DirInv => DirectoryAgrees
<1> SUFFICES ASSUME DirInv PROVE DirectoryAgrees
  OBVIOUS
<1>1. NamesFollow
  <2> SUFFICES ASSUME NEW u \in User, user[u] # None, ~user[u].typed, org[user[u].org] # None,
                      user[u].name # org[user[u].org].name
               PROVE  \E r \in Request :
                        /\ Renaming(r, user[u].org)
                        /\ \/ dirJob[r].out # "ok"
                           \/ dirJob[r].copy = None
                           \/ \E q \in dirJob[r].met : Renaming(q, user[u].org)
    BY DEF NamesFollow
  <2>1. ~CleanlyRenamed(user[u].org) BY DEF DirInv, NamesWritten
  <2> QED BY <2>1 DEF CleanlyRenamed
<1>2. \A m \in cacMembers \ Registered :
       \E r \in Request : \E q \in dirJob[r].met :
         /\ dirJob[r].op = "signUp" /\ dirJob[r].member = m
         /\ dirJob[q].op = "remove" /\ dirJob[q].member = m
  BY DEF DirInv, DirTypeOK, Unlisted, Registered, Crossed
<1>3. \A m \in Registered \ cacMembers :
       \E r \in Request : dirJob[r].member = m /\ dirJob[r].out \in {"none", "left", "stopped"}
  <2> SUFFICES ASSUME NEW m \in Member \ cacMembers, cac[m] # None
               PROVE  \E r \in Request : dirJob[r].member = m /\ dirJob[r].out \in {"none", "left", "stopped"}
    BY DEF Registered
  <2> PICK r \in Request : dirJob[r].member = m /\ Remains(r) BY DEF DirInv, LeftOver
  <2>1. dirJob[r].out \in {"none", "left", "stopped"}
    BY DEF Remains, DirInv, DirInOrder, DirOrdered, Active
  <2> QED BY <2>1
<1>4. \A m, n \in Registered :
       m # n /\ cac[m] = cac[n] =>
         \E r, q \in Request :
           /\ dirJob[r].op = "signUp" /\ dirJob[r].member = m
           /\ dirJob[q].op = "signUp" /\ dirJob[q].member = n
           /\ q \in dirJob[r].met
  BY DEF DirInv, OneEmail, Registered, SignedTogether
<1> QED BY <1>1, <1>2, <1>3, <1>4 DEF DirectoryAgrees, MembersExist

(***************************************************************************)
(* However many organizations, users, CACUsers and requests there are: the *)
(* name a rename wrote on a user is its organization's, and a project's    *)
(* list and the CACUsers stand for each other, but for what a request      *)
(* under way, failed, stopped or overlapped accounts for.                  *)
(***************************************************************************)
THEOREM DirectoryStaysInStep == DirSpec => [](DirTypeOK /\ DirectoryAgrees)
<1>1. DirSpec => []DirInv BY DirInvInit, DirInvStep, PTL DEF DirSpec
<1>2. DirInv => DirTypeOK BY DEF DirInv
<1> QED BY <1>1, <1>2, DirInvImplies, PTL

-----------------------------------------------------------------------------
\* DocumentStore.

FileKeys == {ObjectKey(k) : k \in File}
DepositKeys == {ObjectKey(k) : k \in Deposit}
LoadOps == DocOp \ {"none", "post", "stored"}

\* Where a request can be, and what it holds there.
StageOfOp(j) ==
  /\ j.at = "loaded" => j.op \in LoadOps
  /\ j.at = "counted" => j.op = "feature"
  /\ j.at = "second" => j.op \in {"publish", "unpublish"}
  /\ j.at = "save" => j.op \in {"post", "stored"}
  /\ j.at = "check" => j.op = "post"
  /\ j.at = "stat" => j.op = "stored"
  /\ j.at = "unlink" => j.op \in {"post", "delete"}

PostHolds(j) ==
  /\ j.key \in FileKeys
  /\ j.at = "save" => j.doc = NoDoc /\ ~j.late
  /\ j.at \in {"check", "unlink"} \/ j.out = "ok" => j.doc \in Doc
  /\ j.wrote # NoDoc => /\ j.doc \in Doc /\ j.out # "ok" /\ ~j.late
                        /\ j.wrote.key = j.key /\ ~j.wrote.featured
                        /\ j.wrote.hits = 0 /\ j.wrote.secureHits = 0
                        /\ j.wrote.status # "Rejected"
                        /\ j.wrote.status = "Published" => j.wrote.open

StoredHolds(j) == j.key \in DepositKeys /\ j.doc \in Doc

LoadHolds(j) ==
  /\ j.doc \in Doc
  /\ Active(j) => j.copy \in Row
  /\ j.at = "loaded" \/ j.op # "delete" => j.key = NoDoc
  /\ j.at = "unlink" => j.key \in Keys

DocOrdered(j) ==
  /\ j.at = "new" <=> j.op = "none"
  /\ j.at = "new" => j = NewJob
  /\ Active(j) => j.out = "none"
  /\ StageOfOp(j)
  /\ j.op # "post" => j.wrote = NoDoc /\ ~j.late
  /\ j.op = "post" => PostHolds(j)
  /\ j.op = "stored" => StoredHolds(j)
  /\ j.op \in LoadOps => LoadHolds(j)

DocsInOrder == \A r \in Request : DocOrdered(job[r])

DocMeet ==
  \A r, q \in Request :
    /\ q \in job[r].met => r \in job[q].met
    /\ r # q /\ Active(job[r]) /\ Active(job[q]) => q \in job[r].met

\* The name a post generates and the _id it makes are its own; until it
\* succeeds nobody else can register the _id.
PostsApart ==
  \A r, q \in Request :
    job[r].op = "post" =>
      /\ job[q].op = "post" /\ q # r => job[q].key # job[r].key
      /\ job[q].op = "post" /\ q # r /\ job[r].doc # NoDoc => job[q].doc # job[r].doc
      /\ job[q].op = "stored" /\ job[r].doc # NoDoc /\ job[r].out # "ok" => job[q].doc # job[r].doc

\* A row that is still to land: nobody has seen it.
NoLateRow ==
  \A r \in Request :
    job[r].wrote # NoDoc =>
      /\ row[job[r].doc] = NoDoc
      /\ \A q \in Request : job[q].op \in LoadOps /\ job[q].doc = job[r].doc => job[q].copy = NoDoc

\* The key of a post is on no row but its own, and its own row has it.
KeysOfPosts ==
  \A r \in Request :
    job[r].op = "post" =>
      /\ \A d \in Doc : row[d] # NoDoc /\ row[d].key = job[r].key => job[r].doc = d
      /\ job[r].out # "ok" /\ job[r].doc \in Doc /\ row[job[r].doc] # NoDoc
           => row[job[r].doc].key = job[r].key

\* A file is taken back when nothing is stored, but for a save still to land.
RollsBack ==
  \A r \in Request :
    job[r].op = "post" /\ job[r].at \in {"save", "check", "unlink"} =>
      /\ job[r].key \in bucket
      /\ job[r].at = "unlink" /\ row[job[r].doc] # NoDoc => job[r].late

DepositsStay == DepositKeys \subseteq bucket

\* What a publish or unpublish that nothing overlapped has of its document.
Turns == {"publish", "unpublish"}
Turned(op) == IF op = "publish" THEN "Published" ELSE "Rejected"

Stands(r) ==
  LET j == job[r] IN
  j.op \in Turns /\ Active(j) /\ row[j.doc] # NoDoc =>
    \/ Rewritten(r)
    \/ /\ row[j.doc].ver = j.copy.ver
       /\ j.at = "loaded" => row[j.doc].status = j.copy.status /\ row[j.doc].open = j.copy.open
       /\ j.at = "second" => row[j.doc].status = Turned(j.op)

CopyStands == \A r \in Request : Stands(r)

\* A publish or unpublish that may have left its document's two fields apart.
Parted(r) == job[r].at = "second" \/ job[r].out = "stopped" \/ Rewritten(r)

Agrees(x) == (x.status = "Published" => x.open) /\ (x.status = "Rejected" => ~x.open)

PartedBy(d) == \E r \in Request : job[r].doc = d /\ job[r].op \in Turns /\ Parted(r)

StatusesAgree == \A d \in Doc : row[d] # NoDoc => Agrees(row[d]) \/ PartedBy(d)

\* The requests that have counted and are still to feature theirs.
HaveCounted == {r \in Request : job[r].at = "counted"}
Rushed == {r \in Request : job[r].op = "feature" /\ Overlapped(r, {"feature"})}

FeaturesCounted ==
  \/ Cardinality(Featured) + Cardinality(HaveCounted) =< FeatureLimit
  \/ Cardinality(Featured) + Cardinality(HaveCounted) < FeatureLimit + Cardinality(Rushed)

\* Two registrations that overlapped, of d and of e.
StoredTogether(d, e) ==
  \E r \in Request : \E q \in job[r].met :
    job[r].op = "stored" /\ job[q].op = "stored" /\ job[r].doc = d /\ job[q].doc = e

KeysOnce ==
  /\ \A d, e \in Doc :
       d # e /\ row[d] # NoDoc /\ row[e] # NoDoc /\ row[d].key = row[e].key => StoredTogether(d, e)
  /\ \A r \in Request, e \in Doc :
       job[r].at \in {"stat", "save"} /\ job[r].op = "stored" /\ row[e] # NoDoc
         /\ row[e].key = job[r].key => StoredTogether(job[r].doc, e)

\* The requests that have counted a hit of a document.
Done(d, ops) == {r \in Request : job[r].op \in ops /\ job[r].doc = d /\ job[r].at = "done"}

HitsCounted ==
  /\ \A d \in Doc : row[d] # NoDoc =>
       /\ row[d].hits =< Cardinality(Done(d, {"download"}))
       /\ row[d].secureHits =< Cardinality(Done(d, {"secureDownload", "open"}))
  /\ \A r \in Request : job[r].at = "loaded" =>
       /\ job[r].copy.hits =< Cardinality(Done(job[r].doc, {"download"}))
       /\ job[r].copy.secureHits =< Cardinality(Done(job[r].doc, {"secureDownload", "open"}))

DocFiles ==
  /\ DocTypeOK /\ DocsInOrder /\ DocMeet /\ PostsApart /\ NoLateRow /\ KeysOfPosts /\ RollsBack
  /\ DepositsStay /\ RowsHaveFiles /\ FilesAreOwned /\ KeysOnce

DocInv == DocFiles /\ CopyStands /\ StatusesAgree /\ FeaturesCounted /\ HitsCounted

-----------------------------------------------------------------------------
\* How a step changes the requests: one of them goes on, or begins.
DocSame(q) ==
  /\ job'[q].op = job[q].op /\ job'[q].doc = job[q].doc /\ job'[q].key = job[q].key
  /\ job'[q].copy = job[q].copy /\ job'[q].wrote = job[q].wrote /\ job'[q].late = job[q].late

OthersStay(r) == \A q \in Request : q # r => job'[q] = job[q]

DocWent(r, at, out) ==
  /\ OthersStay(r) /\ DocSame(r) /\ job'[r].met = job[r].met
  /\ job'[r].at = at /\ job'[r].out = out

DocBegan(r, new) ==
  /\ job'[r].op = new.op /\ job'[r].at = new.at /\ job'[r].doc = new.doc /\ job'[r].key = new.key
  /\ job'[r].copy = new.copy /\ job'[r].wrote = new.wrote /\ job'[r].late = new.late
  /\ job'[r].out = new.out
  /\ job'[r].met = {q \in Request \ {r} : Active(job[q])}
  /\ \A q \in Request : q # r =>
       /\ DocSame(q) /\ job'[q].at = job[q].at /\ job'[q].out = job[q].out
       /\ job'[q].met = IF Active(job[q]) THEN job[q].met \cup {r} ELSE job[q].met

DocStage == {"new", "loaded", "counted", "second", "save", "check", "unlink", "stat", "done"}

LEMMA DocGoIs ==
  ASSUME DocTypeOK, NEW r \in Request, NEW at \in DocStage, Go(r, at)
  PROVE  job' \in [Request -> Job] /\ DocWent(r, at, job[r].out)
<1>1. job[r] \in Job BY DEF DocTypeOK
<1>2. [job[r] EXCEPT !.at = at] \in Job BY <1>1 DEF Job, DocStage
<1>3. job' = [job EXCEPT ![r] = [job[r] EXCEPT !.at = at]] BY DEF Go
<1>4. job' \in [Request -> Job] BY <1>2, <1>3 DEF DocTypeOK
<1>5. DocWent(r, at, job[r].out) BY <1>1, <1>3 DEF DocWent, OthersStay, DocSame, DocTypeOK, Job
<1> QED BY <1>4, <1>5

LEMMA DocFinishIs ==
  ASSUME DocTypeOK, NEW r \in Request, NEW out \in Outcome, Finish(r, out)
  PROVE  job' \in [Request -> Job] /\ DocWent(r, "done", out)
<1>1. job[r] \in Job BY DEF DocTypeOK
<1>2. Answered(job[r], out) \in Job BY <1>1 DEF Job, Answered, Outcome
<1>3. job' = [job EXCEPT ![r] = Answered(job[r], out)] BY DEF Finish
<1>4. job' \in [Request -> Job] BY <1>2, <1>3 DEF DocTypeOK
<1>5. DocWent(r, "done", out)
  BY <1>1, <1>3 DEF DocWent, OthersStay, DocSame, DocTypeOK, Job, Answered
<1> QED BY <1>4, <1>5

LEMMA DocBeginIs ==
  ASSUME DocTypeOK, NEW r \in Request, NEW new \in Job, job' = Begun(job, r, new)
  PROVE  job' \in [Request -> Job] /\ DocBegan(r, new)
<1> DEFINE running == {q \in Request \ {r} : Active(job[q])}
           next(q) == CASE q = r -> [new EXCEPT !.met = running]
                        [] q \in running -> [job[q] EXCEPT !.met = @ \cup {r}]
                        [] OTHER -> job[q]
<1>1. job' = [q \in Request |-> next(q)] BY DEF Begun
<1>2. \A q \in Request : job[q] \in Job BY DEF DocTypeOK
<1>3. running \in SUBSET Request /\ r \notin running OBVIOUS
<1>4. next(r) = [new EXCEPT !.met = running] OBVIOUS
<1>5. \A q \in running : next(q) = [job[q] EXCEPT !.met = @ \cup {r}] BY <1>3
<1>6. \A q \in Request : q # r /\ q \notin running => next(q) = job[q] OBVIOUS
<1>7. /\ next(r) \in Job /\ next(r).met = running
      /\ next(r).op = new.op /\ next(r).at = new.at /\ next(r).doc = new.doc /\ next(r).key = new.key
      /\ next(r).copy = new.copy /\ next(r).wrote = new.wrote /\ next(r).late = new.late
      /\ next(r).out = new.out
  <2> HIDE DEF next, running
  <2> QED BY <1>3, <1>4 DEF Job
<1>8. \A q \in running :
        /\ next(q) \in Job /\ next(q).met = job[q].met \cup {r}
        /\ next(q).op = job[q].op /\ next(q).at = job[q].at /\ next(q).doc = job[q].doc
        /\ next(q).key = job[q].key /\ next(q).copy = job[q].copy /\ next(q).wrote = job[q].wrote
        /\ next(q).late = job[q].late /\ next(q).out = job[q].out
  <2> HIDE DEF next
  <2> TAKE q \in running
  <2>1. job[q] \in Job /\ next(q) = [job[q] EXCEPT !.met = @ \cup {r}] BY <1>2, <1>5
  <2> HIDE DEF running
  <2> QED BY <2>1 DEF Job
<1>9. \A q \in Request : next(q) \in Job
  <2> HIDE DEF next
  <2> QED BY <1>2, <1>6, <1>7, <1>8
<1>10. \A q \in Request : job'[q] = next(q) BY <1>1
<1>11. job' \in [Request -> Job] BY <1>1, <1>9
<1>12. DocBegan(r, new)
  <2> HIDE DEF next
  <2>1. ASSUME NEW q \in Request, q # r
        PROVE  /\ DocSame(q) /\ job'[q].at = job[q].at /\ job'[q].out = job[q].out
               /\ job'[q].met = IF Active(job[q]) THEN job[q].met \cup {r} ELSE job[q].met
    <3>1. CASE Active(job[q]) BY <2>1, <3>1, <1>8, <1>10 DEF DocSame
    <3>2. CASE ~Active(job[q]) BY <2>1, <3>2, <1>6, <1>10 DEF DocSame
    <3> QED BY <3>1, <3>2
  <2> QED BY <2>1, <1>7, <1>10 DEF DocBegan
<1> QED BY <1>11, <1>12

LEMMA NewJobIs ==
  /\ NewJob \in Job /\ NewJob.op = "none" /\ NewJob.at = "new" /\ NewJob.doc = NoDoc
  /\ NewJob.key = NoDoc /\ NewJob.copy = NoDoc /\ NewJob.wrote = NoDoc /\ NewJob.late = FALSE
  /\ NewJob.met = {} /\ NewJob.out = "none"
BY DEF NewJob, Job, DocOp, Outcome

\* What was done stays done, and who has met has met.
DocGrows ==
  \A q \in Request :
    /\ job[q].met \subseteq job'[q].met
    /\ job[q].op # "none" => job'[q].op = job[q].op /\ job'[q].copy = job[q].copy
    /\ job[q].op \notin {"none", "post"} => job'[q].doc = job[q].doc
    /\ job[q].op \in {"post", "stored"} => job'[q].key = job[q].key
    /\ job[q].at = "done" => job'[q].at = "done" /\ job'[q].out = job[q].out

LEMMA DocWentGrows ==
  ASSUME NEW r \in Request, NEW at, NEW out, DocWent(r, at, out), Active(job[r])
  PROVE  DocGrows
BY DEF DocWent, OthersStay, DocGrows, DocSame, Active

LEMMA DocMeetOn ==
  ASSUME DocMeet, NEW r \in Request, OthersStay(r), job'[r].met = job[r].met,
         Active(job'[r]) => Active(job[r])
  PROVE  DocMeet'
<1>1. \A q \in Request : job'[q].met = job[q].met /\ (Active(job'[q]) => Active(job[q]))
  BY DEF OthersStay
<1> QED BY <1>1 DEF DocMeet

LEMMA DocBeganGrows ==
  ASSUME DocFiles, NEW r \in Request, NEW new, DocBegan(r, new), job[r].at = "new"
  PROVE  DocGrows /\ DocMeet'
<1>0. job[r].op = "none" /\ job[r].met = {} /\ \A q \in Request : r \notin job[q].met
  BY NewJobIs DEF DocFiles, DocsInOrder, DocOrdered, DocMeet
<1>1. DocGrows BY <1>0 DEF DocBegan, DocGrows, DocSame
<1>2. \A q \in Request : q # r => (Active(job'[q]) <=> Active(job[q]))
  BY DEF DocBegan, Active
<1>3. ASSUME NEW p \in Request, NEW q \in Request PROVE q \in job'[p].met => p \in job'[q].met
  <2>1. CASE p = r /\ q = r BY <2>1 DEF DocBegan
  <2>2. CASE p = r /\ q # r BY <2>2 DEF DocBegan
  <2>3. CASE p # r /\ q = r BY <2>3, <1>0 DEF DocBegan
  <2>4. CASE p # r /\ q # r
    <3>1. q \in job'[p].met => q \in job[p].met BY <2>4 DEF DocBegan
    <3>2. p \in job[q].met => p \in job'[q].met BY <2>4 DEF DocBegan
    <3> QED BY <3>1, <3>2 DEF DocFiles, DocMeet
  <2> QED BY <2>1, <2>2, <2>3, <2>4
<1>4. ASSUME NEW p \in Request, NEW q \in Request, p # q, Active(job'[p]), Active(job'[q])
      PROVE  q \in job'[p].met
  <2>1. CASE p = r BY <2>1, <1>4, <1>2 DEF DocBegan
  <2>2. CASE q = r BY <2>2, <1>4, <1>2 DEF DocBegan
  <2>3. CASE p # r /\ q # r BY <2>3, <1>4, <1>2 DEF DocBegan, DocFiles, DocMeet
  <2> QED BY <2>1, <2>2, <2>3
<1>5. DocMeet' BY <1>3, <1>4 DEF DocMeet
<1> QED BY <1>1, <1>5

LEMMA RewrittenStays ==
  ASSUME DocTypeOK, DocGrows, NEW r \in Request, job[r].op \in LoadOps, Rewritten(r)
  PROVE  Rewritten(r)'
<1> PICK q \in job[r].met : /\ job[q].doc = job[r].doc
                            /\ job[q].op \in {"publish", "unpublish", "put", "stored"}
  BY DEF Rewritten
<1>1. q \in Request /\ q \in job'[r].met BY DEF DocTypeOK, Job, DocGrows
<1>2. job'[q].doc = job[q].doc /\ job'[q].op = job[q].op /\ job'[r].doc = job[r].doc
  BY <1>1 DEF DocGrows, LoadOps
<1> QED BY <1>1, <1>2 DEF Rewritten

LEMMA StoredTogetherStays ==
  ASSUME DocTypeOK, DocGrows, NEW d, NEW e, StoredTogether(d, e) PROVE StoredTogether(d, e)'
<1> PICK r \in Request : \E q \in job[r].met :
    job[r].op = "stored" /\ job[q].op = "stored" /\ job[r].doc = d /\ job[q].doc = e
  BY DEF StoredTogether
<1> PICK q \in job[r].met :
    job[r].op = "stored" /\ job[q].op = "stored" /\ job[r].doc = d /\ job[q].doc = e
  OBVIOUS
<1>1. q \in Request /\ q \in job'[r].met BY DEF DocTypeOK, Job, DocGrows
<1>2. /\ job'[q].doc = e /\ job'[q].op = "stored"
      /\ job'[r].doc = d /\ job'[r].op = "stored"
  BY <1>1 DEF DocGrows
<1> QED BY <1>1, <1>2 DEF StoredTogether

LEMMA StoredBothWays ==
  ASSUME DocTypeOK, DocMeet, NEW d, NEW e, StoredTogether(d, e) PROVE StoredTogether(e, d)
BY DEF StoredTogether, DocMeet, DocTypeOK, Job

\* The rows keep their keys.
KeysKept ==
  \A d \in Doc : (row'[d] = NoDoc <=> row[d] = NoDoc) /\ (row[d] # NoDoc => row'[d].key = row[d].key)

\* Every object in the bucket is one of the project's, and named by a key.
LEMMA KeysAreNot ==
  /\ FileKeys \subseteq Keys /\ DepositKeys \subseteq Keys /\ NoDoc \notin Keys
  /\ FileKeys \cap DepositKeys = {}
  /\ \A k \in Keys : DeletedKey(k) \notin Keys
<1>1. FileKeys \cap DepositKeys = {}
  BY NameAssumption DEF FileKeys, DepositKeys, ObjectKey
<1>2. \A k \in Keys : DeletedKey(k) \notin Keys
  BY NameAssumption DEF Keys, DeletedKey, ObjectKey
<1> QED BY <1>1, <1>2, DocAssumption DEF FileKeys, DepositKeys, Keys

LEMMA DocRecordsOn ==
  ASSUME DocFiles, NEW r \in Request, NEW at \in DocStage, NEW out, DocWent(r, at, out),
         Active(job[r]), job' \in [Request -> Job], DocOrdered(job'[r]),
         row' \in [Doc -> Row \cup {NoDoc}], KeysKept, bucket' \subseteq Keys,
         at \in {"stat", "save"} => job[r].at \in {"stat", "save"},
         job[r].op = "post" => out # "ok"
  PROVE  DocTypeOK' /\ DocsInOrder' /\ DocMeet' /\ PostsApart' /\ NoLateRow' /\ KeysOfPosts' /\ KeysOnce'
<1>a. \A q \in Request : DocSame(q) /\ job'[q].met = job[q].met
  BY DEF DocWent, OthersStay, DocSame
<1>b. \A q \in Request : q # r => job'[q] = job[q]
  BY DEF DocWent, OthersStay
<1>c. job'[r].at = at /\ job'[r].out = out BY DEF DocWent
<1>d. DocOrdered(job[r]) /\ job[r].out = "none" BY DEF DocFiles, DocsInOrder, DocOrdered
<1>1. DocTypeOK' BY DEF DocFiles, DocTypeOK
<1>2. DocsInOrder' BY <1>b DEF DocFiles, DocsInOrder
<1>3. DocMeet' BY <1>a, <1>b, DocMeetOn DEF DocFiles, OthersStay
<1>4. PostsApart'
  <2>1. \A q \in Request : job[q].op = "post" /\ job'[q].out # "ok" => job[q].out # "ok"
    BY <1>b, <1>d
  <2> QED BY <1>a, <2>1 DEF DocFiles, PostsApart, DocSame
<1>5. NoLateRow'
  <2>1. \A q \in Request : job[q].wrote # NoDoc => job[q].doc \in Doc
    BY DEF DocFiles, DocsInOrder, DocOrdered, PostHolds
  <2> QED BY <1>a, <2>1 DEF DocFiles, NoLateRow, DocSame, KeysKept
<1>6. KeysOfPosts'
  <2>1. \A q \in Request : job[q].op = "post" /\ job'[q].out # "ok" => job[q].out # "ok"
    BY <1>b, <1>d
  <2> QED BY <1>a, <2>1 DEF DocFiles, KeysOfPosts, DocSame, KeysKept
<1>7. KeysOnce'
  <2>1. DocGrows /\ DocTypeOK BY DocWentGrows DEF DocFiles
  <2>2. \A d, e \in Doc : StoredTogether(d, e) => StoredTogether(d, e)' BY <2>1, StoredTogetherStays
  <2>3. \A q \in Request : job'[q].at \in {"stat", "save"} => job[q].at \in {"stat", "save"}
    BY <1>b, <1>c
  <2>4. \A q \in Request : job[q].op = "stored" => job[q].doc \in Doc
    BY DEF DocFiles, DocsInOrder, DocOrdered, StoredHolds
  <2>5. ASSUME NEW d \in Doc, NEW e \in Doc, d # e, row'[d] # NoDoc, row'[e] # NoDoc,
               row'[d].key = row'[e].key
        PROVE  StoredTogether(d, e)'
    BY <2>2, <2>5 DEF DocFiles, KeysOnce, KeysKept
  <2>6. ASSUME NEW q \in Request, NEW e \in Doc, job'[q].at \in {"stat", "save"},
               job'[q].op = "stored", row'[e] # NoDoc, row'[e].key = job'[q].key
        PROVE  StoredTogether(job[q].doc, e)' /\ job[q].doc = job'[q].doc
    BY <1>a, <2>2, <2>3, <2>4, <2>6 DEF DocFiles, KeysOnce, KeysKept, DocSame
  <2> QED BY <2>5, <2>6 DEF KeysOnce, StoredTogether
<1> QED BY <1>1, <1>2, <1>3, <1>4, <1>5, <1>6, <1>7

LEMMA DocFilesOn ==
  ASSUME DocFiles, NEW r \in Request, NEW at \in DocStage, NEW out, DocWent(r, at, out),
         Active(job[r]), job' \in [Request -> Job], DocOrdered(job'[r]),
         row' \in [Doc -> Row \cup {NoDoc}], KeysKept, bucket' = bucket,
         at \in {"stat", "save"} => job[r].at \in {"stat", "save"},
         job[r].op = "post" =>
           /\ out # "ok"
           /\ \/ at = "done" /\ out \in {"left", "stopped"}
              \/ at = "done" /\ job[r].doc \in Doc /\ row[job[r].doc] # NoDoc
              \/ at = "unlink" /\ row[job[r].doc] = NoDoc
  PROVE  DocFiles'
<1>a. \A q \in Request : DocSame(q) /\ job'[q].met = job[q].met
  BY DEF DocWent, OthersStay, DocSame
<1>b. \A q \in Request : q # r => job'[q] = job[q]
  BY DEF DocWent, OthersStay
<1>c. job'[r].at = at /\ job'[r].out = out BY DEF DocWent
<1>d. DocOrdered(job[r]) /\ job[r].out = "none" BY DEF DocFiles, DocsInOrder, DocOrdered
<1>k. Held' = Held /\ Present' = Present
  BY DEF KeysKept, Held, Present
<1>1. DocTypeOK' /\ DocsInOrder' /\ DocMeet' /\ PostsApart' /\ NoLateRow' /\ KeysOfPosts' /\ KeysOnce'
  <2>1. bucket' \subseteq Keys BY DEF DocFiles, DocTypeOK
  <2> QED BY <2>1, DocRecordsOn
<1>2. RollsBack'
  <2> SUFFICES ASSUME NEW q \in Request, job'[q].op = "post", job'[q].at \in {"save", "check", "unlink"}
               PROVE  /\ job'[q].key \in bucket
                      /\ job'[q].at = "unlink" /\ row'[job'[q].doc] # NoDoc => job'[q].late
    BY DEF RollsBack
  <2>0. job[q].op = "post" BY <1>a DEF DocSame
  <2>1. job[q].at \in {"save", "check", "unlink"}
    <3>1. CASE q # r BY <1>b, <3>1
    <3>2. CASE q = r
      <4>1. job[r] \in Job BY DEF DocFiles, DocTypeOK
      <4> QED BY <1>d, <2>0, <3>2, <4>1 DEF DocOrdered, StageOfOp, Active, Job, LoadOps
    <3> QED BY <3>1, <3>2
  <2>2. job'[q].at = "unlink" => job'[q].doc \in Doc /\ job[q].doc = job'[q].doc
    BY <1>a, <1>1 DEF DocsInOrder, DocOrdered, PostHolds, DocSame
  <2>3. CASE q = r BY <1>a, <1>c, <2>0, <2>1, <2>2, <2>3 DEF DocFiles, RollsBack, DocSame, KeysKept
  <2>4. CASE q # r BY <1>b, <2>0, <2>1, <2>2, <2>4 DEF DocFiles, RollsBack, KeysKept
  <2> QED BY <2>3, <2>4
<1>3. DepositsStay' BY DEF DocFiles, DepositsStay
<1>4. RowsHaveFiles'
  <2> SUFFICES ASSUME NEW d \in Present
               PROVE  \/ row'[d].key \in bucket
                      \/ \E q \in Request : job'[q].late /\ job'[q].doc = d /\ job'[q].key = row'[d].key
    BY <1>k DEF RowsHaveFiles
  <2>1. row'[d].key = row[d].key BY DEF KeysKept, Present
  <2> QED BY <1>a, <2>1 DEF DocFiles, RowsHaveFiles, DocSame
<1>5. FilesAreOwned'
  <2> SUFFICES ASSUME NEW o \in bucket \ (Held \cup DepositKeys)
               PROVE  \E q \in Request :
                        /\ job'[q].key = o
                        /\ job'[q].op = "delete" \/ Active(job'[q]) \/ job'[q].out \in {"left", "stopped"}
    BY <1>k DEF FilesAreOwned, DepositKeys
  <2>1. PICK q \in Request :
          /\ job[q].key = o
          /\ job[q].op = "delete" \/ Active(job[q]) \/ job[q].out \in {"left", "stopped"}
    BY DEF DocFiles, FilesAreOwned, DepositKeys
  <2>2. CASE q # r BY <1>b, <2>1, <2>2
  <2>3. CASE q = r /\ job[r].op = "delete" BY <1>a, <2>1, <2>3 DEF DocSame
  <2>4. CASE q = r /\ job[r].op # "delete"
    <3>1. o \in Keys /\ o # NoDoc BY KeysAreNot DEF DocFiles, DocTypeOK
    <3>2. job[r].op = "post"
      BY <1>d, <2>1, <2>4, <3>1, KeysAreNot
         DEF DocOrdered, StoredHolds, LoadHolds, LoadOps, Active, DocFiles, DocTypeOK, Job
    <3>3. ~(job[r].doc \in Doc /\ row[job[r].doc] # NoDoc)
      <4> SUFFICES ASSUME job[r].doc \in Doc, row[job[r].doc] # NoDoc PROVE FALSE
        OBVIOUS
      <4>1. row[job[r].doc].key = o BY <1>d, <2>1, <2>4, <3>2 DEF DocFiles, KeysOfPosts
      <4> QED BY <4>1 DEF Held, Present
    <3>4. Active(job'[r]) \/ job'[r].out \in {"left", "stopped"}
      BY <1>c, <3>2, <3>3 DEF Active
    <3> QED BY <1>a, <2>1, <2>4, <3>4 DEF DocSame
  <2> QED BY <2>2, <2>3, <2>4
<1> QED BY <1>1, <1>2, <1>3, <1>4, <1>5 DEF DocFiles

LEMMA BeganInOrder ==
  ASSUME DocFiles, NEW r \in Request, NEW new, DocBegan(r, new), job' \in [Request -> Job],
         DocOrdered(job'[r])
  PROVE  DocsInOrder'
<1>a. \A q \in Request : q # r => DocSame(q) /\ job'[q].at = job[q].at /\ job'[q].out = job[q].out
  BY DEF DocBegan
<1> SUFFICES ASSUME NEW q \in Request, q # r PROVE DocOrdered(job'[q])
  BY DEF DocsInOrder
<1>0. DocOrdered(job[q]) BY DEF DocFiles, DocsInOrder
<1>1. CASE job[q].at = "new"
  <2>1. job[q] = NewJob BY <1>0, <1>1 DEF DocOrdered
  <2>2. job'[q] = NewJob
    <3>1. job'[q] \in Job /\ job[q] \in Job BY DEF DocFiles, DocTypeOK
    <3>2. job'[q].met = job[q].met BY <1>1 DEF DocBegan, Active
    <3>3. job'[q] = job[q] BY <1>a, <3>1, <3>2 DEF DocSame, Job
    <3> QED BY <2>1, <3>3
  <2> QED BY <1>0, <2>1, <2>2
<1>2. CASE job[q].at # "new"
  <2>1. DocSame(q) /\ job'[q].at = job[q].at /\ job'[q].out = job[q].out BY <1>a
  <2> QED BY <1>0, <1>2, <2>1
          DEF DocSame, DocOrdered, StageOfOp, PostHolds, StoredHolds, LoadHolds, Active
<1> QED BY <1>1, <1>2

\* A request that begins by looking at Mongo.
LEMMA DocFilesNew ==
  ASSUME DocFiles, NEW r \in Request, NEW new, DocBegan(r, new), job[r].at = "new",
         job' \in [Request -> Job], DocOrdered(job'[r]), UNCHANGED <<row, bucket>>,
         new.op \in LoadOps \cup {"stored"},
         new.op \in LoadOps => new.copy = row[new.doc],
         new.op = "stored" =>
           /\ \A q \in Request : job[q].op = "post" /\ job[q].doc = new.doc => job[q].out = "ok"
           /\ new.at \in {"stat", "save"} => new.key \notin Held
  PROVE  DocFiles'
<1>a. \A q \in Request : q # r => DocSame(q) /\ job'[q].at = job[q].at /\ job'[q].out = job[q].out
  BY DEF DocBegan
<1>b. job[r].op = "none" /\ job[r].key = NoDoc /\ job[r].wrote = NoDoc /\ ~job[r].late
  BY NewJobIs DEF DocFiles, DocsInOrder, DocOrdered
<1>c. /\ job'[r].op = new.op /\ job'[r].doc = new.doc /\ job'[r].key = new.key /\ job'[r].copy = new.copy
      /\ job'[r].at = new.at
  BY DEF DocBegan
<1>e. DocGrows /\ DocMeet' BY DocBeganGrows
<1>f. job'[r].op \notin {"post", "none"} /\ job'[r].wrote = NoDoc /\ ~job'[r].late
  BY <1>c DEF DocOrdered, LoadOps
<1>1. DocTypeOK' BY DEF DocFiles, DocTypeOK
<1>2. DocsInOrder' BY BeganInOrder
<1>4. PostsApart' BY <1>a, <1>c, <1>f DEF DocFiles, PostsApart, DocSame
<1>5. NoLateRow'
  <2> SUFFICES ASSUME NEW q \in Request, job'[q].wrote # NoDoc
               PROVE  /\ row[job'[q].doc] = NoDoc
                      /\ \A p \in Request : job'[p].op \in LoadOps /\ job'[p].doc = job'[q].doc
                                              => job'[p].copy = NoDoc
    BY DEF NoLateRow
  <2>1. q # r /\ DocSame(q) BY <1>a, <1>f
  <2>2. row[job[q].doc] = NoDoc BY <2>1 DEF DocFiles, NoLateRow, DocSame
  <2>3. ASSUME NEW p \in Request, job'[p].op \in LoadOps, job'[p].doc = job'[q].doc
        PROVE  job'[p].copy = NoDoc
    <3>1. CASE p = r BY <1>c, <2>1, <2>2, <2>3, <3>1 DEF DocSame
    <3>2. CASE p # r BY <1>a, <2>1, <2>3, <3>2 DEF DocFiles, NoLateRow, DocSame
    <3> QED BY <3>1, <3>2
  <2> QED BY <2>1, <2>2, <2>3 DEF DocSame
<1>6. KeysOfPosts' BY <1>a, <1>f DEF DocFiles, KeysOfPosts, DocSame
<1>7. RollsBack' BY <1>a, <1>f DEF DocFiles, RollsBack, DocSame
<1>8. DepositsStay' BY DEF DocFiles, DepositsStay
<1>9. RowsHaveFiles'
  <2>1. \A q \in Request : job[q].late => q # r BY <1>b
  <2> QED BY <1>a, <2>1 DEF DocFiles, RowsHaveFiles, DocSame, Present
<1>10. FilesAreOwned'
  <2> SUFFICES ASSUME NEW o \in bucket \ (Held \cup DepositKeys)
               PROVE  \E q \in Request :
                        /\ job'[q].key = o
                        /\ job'[q].op = "delete" \/ Active(job'[q]) \/ job'[q].out \in {"left", "stopped"}
    BY DEF FilesAreOwned, DepositKeys, Held, Present
  <2>1. PICK q \in Request :
          /\ job[q].key = o
          /\ job[q].op = "delete" \/ Active(job[q]) \/ job[q].out \in {"left", "stopped"}
    BY DEF DocFiles, FilesAreOwned, DepositKeys
  <2>2. o # NoDoc BY KeysAreNot DEF DocFiles, DocTypeOK
  <2>3. q # r BY <1>b, <2>1, <2>2
  <2> QED BY <1>a, <2>1, <2>3 DEF DocSame, Active
<1>11. KeysOnce'
  <2>1. \A d, e \in Doc : StoredTogether(d, e) => StoredTogether(d, e)'
    BY <1>e, StoredTogetherStays DEF DocFiles
  <2>2. \A q \in Request : job[q].op = "stored" => job[q].doc \in Doc
    BY DEF DocFiles, DocsInOrder, DocOrdered, StoredHolds
  <2>3. ASSUME NEW d \in Doc, NEW e \in Doc, d # e, row[d] # NoDoc, row[e] # NoDoc,
               row[d].key = row[e].key
        PROVE  StoredTogether(d, e)'
    BY <2>1, <2>3 DEF DocFiles, KeysOnce
  <2>4. ASSUME NEW q \in Request, NEW e \in Doc, job'[q].at \in {"stat", "save"},
               job'[q].op = "stored", row[e] # NoDoc, row[e].key = job'[q].key
        PROVE  StoredTogether(job[q].doc, e)' /\ job[q].doc = job'[q].doc
    <3>1. q # r BY <1>c, <2>4 DEF Held, Present
    <3> QED BY <1>a, <2>1, <2>2, <2>4, <3>1 DEF DocFiles, KeysOnce, DocSame
  <2> QED BY <2>3, <2>4 DEF KeysOnce, StoredTogether
<1> QED BY <1>1, <1>2, <1>e, <1>4, <1>5, <1>6, <1>7, <1>8, <1>9, <1>10, <1>11 DEF DocFiles

\* A publish or unpublish finds its document as it was, or overlapped.
LEMMA StandsStays ==
  ASSUME DocFiles, DocGrows, NEW r \in Request, Stands(r), DocSame(r),
         job'[r].at = job[r].at,
         \/ row'[job[r].doc] = NoDoc
         \/ /\ row[job[r].doc] # NoDoc
            /\ row'[job[r].doc].status = row[job[r].doc].status
            /\ row'[job[r].doc].open = row[job[r].doc].open
            /\ row'[job[r].doc].ver = row[job[r].doc].ver
  PROVE  Stands(r)'
<1> SUFFICES ASSUME job[r].op \in Turns, Active(job[r]), row'[job[r].doc] # NoDoc, ~Rewritten(r)'
             PROVE  LET j == job[r] IN
                      /\ row'[j.doc].ver = j.copy.ver
                      /\ j.at = "loaded" => row'[j.doc].status = j.copy.status
                                              /\ row'[j.doc].open = j.copy.open
                      /\ j.at = "second" => row'[j.doc].status = Turned(j.op)
  BY DEF Stands, DocSame, Active
<1>1. job[r].op \in LoadOps BY DEF Turns, LoadOps, DocOp
<1>2. ~Rewritten(r) BY <1>1, RewrittenStays DEF DocFiles
<1> QED BY <1>2 DEF Stands

\* The requests that do not run stay so, when the document of the one that
\* does is not theirs, or has its status as it was.
LEMMA StandsMet ==
  ASSUME DocFiles, DocGrows, NEW r \in Request, NEW q \in Request, q # r,
         Active(job[r]), Active(job[q]), job'[q] = job[q],
         job[r].op \in {"publish", "unpublish", "put", "stored"}, job[r].doc = job[q].doc
  PROVE  Rewritten(q)'
<1>1. r \in job'[q].met BY DEF DocFiles, DocMeet, DocGrows
<1>2. job'[r].doc = job[r].doc /\ job'[r].op = job[r].op BY DEF DocGrows
<1> QED BY <1>1, <1>2 DEF Rewritten

\* One step of a status change by r: the others stand, whoever they are.
LEMMA OthersStand ==
  ASSUME DocFiles, DocGrows, CopyStands, NEW r \in Request, Active(job[r]), OthersStay(r),
         \A d \in Doc : d # job[r].doc => row'[d] = row[d],
         \/ job[r].op \in {"publish", "unpublish", "put", "stored"}
         \/ /\ row'[job[r].doc] = NoDoc
         \/ /\ row[job[r].doc] # NoDoc
            /\ row'[job[r].doc].status = row[job[r].doc].status
            /\ row'[job[r].doc].open = row[job[r].doc].open
            /\ row'[job[r].doc].ver = row[job[r].doc].ver
  PROVE  \A q \in Request : q # r => Stands(q)'
<1> SUFFICES ASSUME NEW q \in Request, q # r, job[q].op \in Turns, Active(job[q]) PROVE Stands(q)'
  BY DEF Stands, OthersStay
<1>1. job'[q] = job[q] BY DEF OthersStay
<1>2. job[q].doc \in Doc BY DEF DocFiles, DocsInOrder, DocOrdered, LoadHolds, LoadOps, Turns, DocOp
<1>3. CASE job[q].doc # job[r].doc
  <2>1. row'[job[q].doc] = row[job[q].doc] BY <1>2, <1>3
  <2> QED BY <1>1, <2>1, StandsStays DEF CopyStands, DocSame, Stands
<1>4. CASE job[q].doc = job[r].doc /\ job[r].op \in {"publish", "unpublish", "put", "stored"}
  <2>1. Rewritten(q)' BY <1>1, <1>4, StandsMet
  <2> QED BY <2>1 DEF Stands
<1>5. CASE job[q].doc = job[r].doc /\ job[r].op \notin {"publish", "unpublish", "put", "stored"}
  <2>1. Stands(q) BY DEF CopyStands
  <2> QED BY <1>1, <1>5, <2>1, StandsStays DEF DocSame
<1> QED BY <1>3, <1>4, <1>5

LEMMA PartedStays ==
  ASSUME DocFiles, DocGrows, NEW d, NEW q \in Request, job[q].doc = d, job[q].op \in Turns, Parted(q),
         job[q].at = "second" => job'[q].at = "second" \/ job'[q].out = "stopped"
  PROVE  PartedBy(d)'
<1>1. job[q].op \in LoadOps BY DEF Turns, LoadOps, DocOp
<1>2. job'[q].doc = d /\ job'[q].op \in Turns BY <1>1 DEF DocGrows, LoadOps
<1>3. CASE job[q].out = "stopped"
  <2>1. job[q].at = "done"
    BY <1>1, <1>3, NewJobIs DEF DocFiles, DocsInOrder, DocOrdered, Active, LoadOps
  <2> QED BY <1>2, <1>3, <2>1 DEF DocGrows, PartedBy, Parted
<1>4. CASE job[q].at = "second" BY <1>2, <1>4 DEF PartedBy, Parted
<1>5. CASE Rewritten(q)
  <2>1. Rewritten(q)' BY <1>1, <1>5, RewrittenStays DEF DocFiles
  <2> QED BY <1>2, <2>1 DEF PartedBy, Parted
<1> QED BY <1>3, <1>4, <1>5 DEF Parted

\* A step that changes no status or read[] of a row that was there, and ends
\* no second save but by the death of its process.
LEMMA AgreeStays ==
  ASSUME DocFiles, DocGrows, StatusesAgree,
         \A d \in Doc : row'[d] # NoDoc =>
           \/ Agrees(row'[d]) \/ PartedBy(d)'
           \/ row[d] # NoDoc /\ row'[d].status = row[d].status /\ row'[d].open = row[d].open,
         \A q \in Request, d \in Doc :
           job[q].op \in Turns /\ job[q].at = "second" /\ job[q].doc = d =>
             \/ job'[q].at = "second" \/ job'[q].out = "stopped"
             \/ row'[d] = NoDoc \/ Agrees(row'[d]) \/ PartedBy(d)'
  PROVE  StatusesAgree'
<1> SUFFICES ASSUME NEW d \in Doc, row'[d] # NoDoc, ~Agrees(row'[d]), ~PartedBy(d)'
             PROVE  FALSE
  BY DEF StatusesAgree, PartedBy
<1>1. row[d] # NoDoc /\ ~Agrees(row[d]) BY DEF Agrees
<1> PICK q \in Request : job[q].doc = d /\ job[q].op \in Turns /\ Parted(q)
  BY <1>1 DEF StatusesAgree, PartedBy
<1>2. job[q].at = "second" => job'[q].at = "second" \/ job'[q].out = "stopped"
  OBVIOUS
<1> QED BY <1>2, PartedStays

\* The requests and the documents are finitely many.
LEMMA RequestsFinite ==
  ASSUME NEW S \in SUBSET Request, NEW T, T \subseteq S
  PROVE  /\ IsFiniteSet(S) /\ IsFiniteSet(T)
         /\ Cardinality(S) \in Nat /\ Cardinality(T) \in Nat /\ Cardinality(T) =< Cardinality(S)
BY RequestAssumption, FS_Subset, FS_CardinalityType

LEMMA DocsFinite ==
  ASSUME NEW S \in SUBSET Doc, NEW T, T \subseteq S
  PROVE  /\ IsFiniteSet(S) /\ IsFiniteSet(T)
         /\ Cardinality(S) \in Nat /\ Cardinality(T) \in Nat /\ Cardinality(T) =< Cardinality(S)
BY DocAssumption, FS_Subset, FS_CardinalityType

LEMMA RushedGrows ==
  ASSUME DocTypeOK, DocGrows
  PROVE  /\ Rushed \subseteq Rushed'
         /\ Cardinality(Rushed) \in Nat /\ Cardinality(Rushed') \in Nat
         /\ Cardinality(Rushed) =< Cardinality(Rushed')
<1>1. ASSUME NEW r \in Rushed PROVE r \in Rushed'
  <2> PICK q \in job[r].met : job[q].op = "feature" BY DEF Rushed, Overlapped
  <2>1. r \in Request /\ job[r].op = "feature" BY DEF Rushed
  <2>2. q \in Request BY <2>1 DEF DocTypeOK, Job
  <2>3. job'[r].op = "feature" /\ job'[q].op = "feature" /\ q \in job'[r].met
    BY <2>1, <2>2 DEF DocGrows
  <2> QED BY <2>1, <2>3 DEF Rushed, Overlapped
<1>2. Rushed \subseteq Rushed' /\ Rushed' \in SUBSET Request BY <1>1 DEF Rushed
<1> HIDE DEF Rushed
<1> QED BY <1>2, RequestsFinite

\* A step that features nothing more, and counts for nobody else.
LEMMA FeaturesStay ==
  ASSUME DocTypeOK, DocGrows, FeaturesCounted, Featured' \subseteq Featured, HaveCounted' \subseteq HaveCounted
  PROVE  FeaturesCounted'
<1>1. /\ Cardinality(Featured) \in Nat /\ Cardinality(Featured') \in Nat
      /\ Cardinality(Featured') =< Cardinality(Featured)
  <2>1. Featured \in SUBSET Doc BY DEF Featured, Present
  <2> HIDE DEF Featured
  <2> QED BY <2>1, DocsFinite
<1>2. /\ Cardinality(HaveCounted) \in Nat /\ Cardinality(HaveCounted') \in Nat
      /\ Cardinality(HaveCounted') =< Cardinality(HaveCounted)
  <2>1. HaveCounted \in SUBSET Request BY DEF HaveCounted
  <2> HIDE DEF HaveCounted
  <2> QED BY <2>1, RequestsFinite
<1>3. /\ Cardinality(Rushed) \in Nat /\ Cardinality(Rushed') \in Nat
      /\ Cardinality(Rushed) =< Cardinality(Rushed')
  BY RushedGrows
<1>4. FeatureLimit \in Nat BY LimitAssumption
<1> HIDE DEF Featured, HaveCounted, Rushed
<1> QED BY <1>1, <1>2, <1>3, <1>4 DEF FeaturesCounted

LEMMA DoneGrows ==
  ASSUME DocGrows, NEW d, NEW ops, "none" \notin ops, "post" \notin ops
  PROVE  /\ Done(d, ops) \subseteq Done(d, ops)'
         /\ Cardinality(Done(d, ops)) \in Nat /\ Cardinality(Done(d, ops)') \in Nat
         /\ Cardinality(Done(d, ops)) =< Cardinality(Done(d, ops)')
<1>1. Done(d, ops) \subseteq Done(d, ops)' /\ Done(d, ops)' \in SUBSET Request
  BY DEF DocGrows, Done
<1> HIDE DEF Done
<1> QED BY <1>1, RequestsFinite

\* The hits of a row, or of a copy, were counted by requests that are done.
HitsOf(x, d) ==
  /\ x.hits =< Cardinality(Done(d, {"download"}))
  /\ x.secureHits =< Cardinality(Done(d, {"secureDownload", "open"}))

LEMMA HitsOfStays ==
  ASSUME DocGrows, NEW x \in Row, NEW d, HitsOf(x, d)
  PROVE  HitsOf(x, d)'
<1>1. x.hits \in Nat /\ x.secureHits \in Nat BY DEF Row
<1>2. /\ Cardinality(Done(d, {"download"})) \in Nat
      /\ Cardinality(Done(d, {"download"})') \in Nat
      /\ Cardinality(Done(d, {"download"})) =< Cardinality(Done(d, {"download"})')
  BY DoneGrows
<1>3. /\ Cardinality(Done(d, {"secureDownload", "open"})) \in Nat
      /\ Cardinality(Done(d, {"secureDownload", "open"})') \in Nat
      /\ Cardinality(Done(d, {"secureDownload", "open"})) =< Cardinality(Done(d, {"secureDownload", "open"})')
  BY DoneGrows
<1> HIDE DEF Done
<1> QED BY <1>1, <1>2, <1>3 DEF HitsOf

LEMMA HitsStay ==
  ASSUME DocFiles, DocGrows, HitsCounted,
         \A d \in Doc : row'[d] # NoDoc =>
           \/ row'[d].hits = 0 /\ row'[d].secureHits = 0
           \/ /\ row[d] # NoDoc
              /\ row'[d].hits = row[d].hits /\ row'[d].secureHits = row[d].secureHits
           \/ HitsOf(row[d], d)',
         \A q \in Request : job'[q].at = "loaded" =>
           \/ job[q].at = "loaded" /\ job'[q].doc = job[q].doc /\ job'[q].copy = job[q].copy
           \/ job'[q].doc \in Doc /\ row[job'[q].doc] # NoDoc /\ job'[q].copy = row[job'[q].doc]
  PROVE  HitsCounted'
<1>1. ASSUME NEW d \in Doc, row'[d] # NoDoc PROVE HitsOf(row[d], d)'
  <2>1. CASE row'[d].hits = 0 /\ row'[d].secureHits = 0
    <3>1. /\ Cardinality(Done(d, {"download"})') \in Nat
          /\ Cardinality(Done(d, {"secureDownload", "open"})') \in Nat
      BY DoneGrows
    <3> HIDE DEF Done
    <3> QED BY <2>1, <3>1 DEF HitsOf
  <2>2. CASE /\ row[d] # NoDoc
             /\ row'[d].hits = row[d].hits /\ row'[d].secureHits = row[d].secureHits
    <3>1. row[d] \in Row /\ HitsOf(row[d], d)
      BY <2>2 DEF DocFiles, DocTypeOK, HitsCounted, HitsOf
    <3> PICK x \in Row : x = row[d] BY <3>1
    <3>2. HitsOf(x, d)' BY <3>1, HitsOfStays
    <3> QED BY <2>2, <3>2 DEF HitsOf
  <2>3. CASE HitsOf(row[d], d)' BY <2>3
  <2> QED BY <1>1, <2>1, <2>2, <2>3
<1>2. ASSUME NEW q \in Request, job'[q].at = "loaded"
      PROVE  HitsOf(job[q].copy, job[q].doc)'
  <2>1. CASE job[q].at = "loaded" /\ job'[q].doc = job[q].doc /\ job'[q].copy = job[q].copy
    <3>1. job[q].copy \in Row
      BY <2>1 DEF DocFiles, DocsInOrder, DocOrdered, StageOfOp, LoadHolds, Active
    <3> PICK x \in Row : x = job[q].copy BY <3>1
    <3> PICK d : d = job[q].doc OBVIOUS
    <3>2. HitsOf(x, d) BY <2>1 DEF HitsCounted, HitsOf
    <3>3. HitsOf(x, d)' BY <3>2, HitsOfStays
    <3> QED BY <2>1, <3>3 DEF HitsOf
  <2>2. CASE job'[q].doc \in Doc /\ row[job'[q].doc] # NoDoc /\ job'[q].copy = row[job'[q].doc]
    <3> PICK d \in Doc : d = job'[q].doc BY <2>2
    <3>1. row[d] \in Row /\ HitsOf(row[d], d)
      BY <2>2 DEF DocFiles, DocTypeOK, HitsCounted, HitsOf
    <3> PICK x \in Row : x = row[d] BY <3>1
    <3>2. HitsOf(x, d)' BY <3>1, HitsOfStays
    <3> QED BY <2>2, <3>2 DEF HitsOf
  <2> QED BY <1>2, <2>1, <2>2
<1> QED BY <1>1, <1>2 DEF HitsCounted, HitsOf

\* A step that leaves the rows alone, and the status of none half written.
LEMMA DocValuesOn ==
  ASSUME DocInv, NEW r \in Request, NEW at, NEW out, DocWent(r, at, out), Active(job[r]),
         row' = row, at \notin {"new", "loaded", "counted"},
         job[r].op \in Turns => at = "done",
         job[r].at = "second" => out = "stopped" \/ row[job[r].doc] = NoDoc \/ Rewritten(r)
  PROVE  CopyStands' /\ StatusesAgree' /\ FeaturesCounted' /\ HitsCounted'
<1>0. DocFiles /\ DocTypeOK /\ CopyStands /\ StatusesAgree /\ FeaturesCounted /\ HitsCounted
  BY DEF DocInv, DocFiles
<1>1. DocGrows BY DocWentGrows
<1>2. OthersStay(r) /\ DocSame(r) /\ job'[r].at = at /\ job'[r].out = out BY DEF DocWent
<1>3. CopyStands'
  <2>1. ASSUME NEW q \in Request, q # r PROVE Stands(q)'
    <3>1. job'[q] = job[q] /\ Stands(q) BY <1>0, <1>2, <2>1 DEF OthersStay, CopyStands
    <3>2. CASE row[job[q].doc] = NoDoc BY <3>1, <3>2 DEF Stands
    <3>3. CASE row[job[q].doc] # NoDoc BY <1>0, <1>1, <3>1, <3>3, StandsStays DEF DocSame
    <3> QED BY <3>2, <3>3
  <2>2. Stands(r)' BY <1>2 DEF Stands, Active, DocSame
  <2> QED BY <2>1, <2>2 DEF CopyStands
<1>4. StatusesAgree'
  <2>1. ASSUME NEW q \in Request, NEW d \in Doc, job[q].op \in Turns, job[q].at = "second", job[q].doc = d
        PROVE  \/ job'[q].at = "second" \/ job'[q].out = "stopped"
               \/ row'[d] = NoDoc \/ Agrees(row'[d]) \/ PartedBy(d)'
    <3>1. CASE q # r BY <1>2, <2>1, <3>1 DEF OthersStay
    <3>2. CASE q = r /\ Rewritten(r)
      <4>1. Rewritten(r)' /\ job'[r].doc = d /\ job'[r].op \in Turns
        BY <1>0, <1>1, <1>2, <2>1, <3>2, RewrittenStays DEF DocSame, Turns, LoadOps, DocOp
      <4> QED BY <4>1 DEF PartedBy, Parted
    <3>3. CASE q = r /\ ~Rewritten(r) BY <1>2, <2>1, <3>3
    <3> QED BY <3>1, <3>2, <3>3
  <2>2. \A d \in Doc : row'[d] # NoDoc =>
           \/ Agrees(row'[d]) \/ PartedBy(d)'
           \/ row[d] # NoDoc /\ row'[d].status = row[d].status /\ row'[d].open = row[d].open
    OBVIOUS
  <2> HIDE DEF PartedBy, Agrees
  <2> QED BY <1>0, <1>1, <2>1, <2>2, AgreeStays
<1>5. FeaturesCounted'
  <2>1. Featured' = Featured BY DEF Featured, Present
  <2>2. HaveCounted' \subseteq HaveCounted BY <1>2 DEF HaveCounted, OthersStay
  <2> QED BY <1>0, <1>1, <2>1, <2>2, FeaturesStay
<1>6. HitsCounted'
  <2>1. \A q \in Request : job'[q].at = "loaded" => job'[q] = job[q]
    BY <1>2 DEF OthersStay
  <2>2. \A d \in Doc : row'[d] # NoDoc =>
              /\ row[d] # NoDoc
              /\ row'[d].hits = row[d].hits /\ row'[d].secureHits = row[d].secureHits
    OBVIOUS
  <2> QED BY <1>0, <1>1, <2>1, <2>2, HitsStay
<1> QED BY <1>3, <1>4, <1>5, <1>6

\* And the bucket too: the request goes on, or ends.
LEMMA DocStayOn ==
  ASSUME DocInv, NEW r \in Request, NEW at \in DocStage, NEW out, DocWent(r, at, out), Active(job[r]),
         job' \in [Request -> Job], UNCHANGED <<row, bucket>>, at \notin {"new", "loaded", "counted"},
         at # "done" => DocOrdered(job'[r]),
         at \in {"stat", "save"} => job[r].at \in {"stat", "save"},
         job[r].op = "post" =>
           /\ out # "ok"
           /\ \/ at = "done" /\ out \in {"left", "stopped"}
              \/ at = "done" /\ job[r].doc \in Doc /\ row[job[r].doc] # NoDoc
              \/ at = "unlink" /\ row[job[r].doc] = NoDoc,
         job[r].op \in Turns => at = "done",
         job[r].at = "second" => out = "stopped" \/ row[job[r].doc] = NoDoc \/ Rewritten(r)
  PROVE  DocInv'
<1>1. KeysKept BY DEF KeysKept
<1>2. row' \in [Doc -> Row \cup {NoDoc}] BY DEF DocInv, DocFiles, DocTypeOK
<1>3. DocOrdered(job'[r])
  <2> SUFFICES ASSUME at = "done" PROVE DocOrdered(job'[r])
    OBVIOUS
  <2>1. DocOrdered(job[r]) BY DEF DocInv, DocFiles, DocsInOrder
  <2>2. DocSame(r) /\ job'[r].at = "done" /\ job'[r].out = out BY DEF DocWent
  <2>3. job[r].at # "new" /\ job[r].op # "none" BY <2>1 DEF Active, DocOrdered
  <2> QED BY <2>1, <2>2, <2>3
          DEF DocOrdered, DocSame, StageOfOp, PostHolds, StoredHolds, LoadHolds, Active
<1>4. DocFiles' BY <1>1, <1>2, <1>3, DocFilesOn DEF DocInv
<1>5. CopyStands' /\ StatusesAgree' /\ FeaturesCounted' /\ HitsCounted' BY DocValuesOn
<1> QED BY <1>4, <1>5 DEF DocInv

LEMMA PostCheckStep ==
  ASSUME DocInv, NEW r \in Request, PostCheck(r)
  PROVE  DocInv'
<1>a. job[r].op = "post" /\ job[r].at = "check" /\ UNCHANGED <<row, bucket>>
  BY DEF PostCheck, DocUnchanged
<1>0. Active(job[r]) /\ DocOrdered(job[r]) /\ job[r].doc \in Doc
  BY <1>a DEF Active, DocInv, DocFiles, DocsInOrder, DocOrdered, PostHolds
<1>1. CASE row[job[r].doc] # NoDoc
  <2>1. job' \in [Request -> Job] /\ DocWent(r, "done", "failed")
    BY <1>1, DocFinishIs DEF PostCheck, DocInv, DocFiles, Outcome
  <2> QED BY <1>a, <1>0, <1>1, <2>1, DocStayOn DEF DocStage, Turns
<1>2. CASE row[job[r].doc] = NoDoc
  <2>1. job' \in [Request -> Job] /\ DocWent(r, "unlink", job[r].out)
    BY <1>2, DocGoIs DEF PostCheck, DocInv, DocFiles, DocStage
  <2>2. DocOrdered(job'[r])
    BY <1>0, <1>a, <2>1 DEF DocWent, DocSame, DocOrdered, StageOfOp, PostHolds, Active, LoadOps
  <2>3. job[r].out = "none" BY <1>0 DEF DocOrdered
  <2> QED BY <1>a, <1>0, <1>2, <2>1, <2>2, <2>3, DocStayOn DEF DocStage, Turns
<1> QED BY <1>1, <1>2

LEMMA PostRollbackFailsStep ==
  ASSUME DocInv, NEW r \in Request, PostRollbackFails(r)
  PROVE  DocInv'
<1>a. job[r].op = "post" /\ job[r].at \in {"check", "unlink"} /\ UNCHANGED <<row, bucket>>
  BY DEF PostRollbackFails, DocUnchanged
<1>1. job' \in [Request -> Job] /\ DocWent(r, "done", "left")
  BY DocFinishIs DEF PostRollbackFails, DocInv, DocFiles, Outcome
<1> QED BY <1>a, <1>1, DocStayOn DEF DocStage, Turns, Active

LEMMA StopStep ==
  ASSUME DocInv, NEW r \in Request, Stop(r)
  PROVE  DocInv'
<1>a. Active(job[r]) /\ UNCHANGED <<row, bucket>>
  BY DEF Stop, DocUnchanged
<1>1. job' \in [Request -> Job] /\ DocWent(r, "done", "stopped")
  BY DocFinishIs DEF Stop, DocInv, DocFiles, Outcome
<1> QED BY <1>a, <1>1, DocStayOn DEF DocStage

LEMMA StoredStatStep ==
  ASSUME DocInv, NEW r \in Request, StoredStat(r)
  PROVE  DocInv'
<1>a. job[r].op = "stored" /\ job[r].at = "stat" /\ UNCHANGED <<row, bucket>>
  BY DEF StoredStat, DocUnchanged
<1>0. Active(job[r]) /\ DocOrdered(job[r])
  BY <1>a DEF Active, DocInv, DocFiles, DocsInOrder
<1>1. CASE Go(r, "save")
  <2>1. job' \in [Request -> Job] /\ DocWent(r, "save", job[r].out)
    BY <1>1, DocGoIs DEF DocInv, DocFiles, DocStage
  <2>2. DocOrdered(job'[r])
    BY <1>0, <1>a, <2>1 DEF DocWent, DocSame, DocOrdered, StageOfOp, StoredHolds, Active, LoadOps
  <2> QED BY <1>a, <1>0, <2>1, <2>2, DocStayOn DEF DocStage, Turns
<1>2. CASE Finish(r, "failed")
  <2>1. job' \in [Request -> Job] /\ DocWent(r, "done", "failed")
    BY <1>2, DocFinishIs DEF DocInv, DocFiles, Outcome
  <2> QED BY <1>a, <1>0, <2>1, DocStayOn DEF DocStage, Turns
<1> QED BY <1>1, <1>2 DEF StoredStat

\* A handler that finds the row gone, or its file's row taken, ends there.
LEMMA DocFailsStep ==
  ASSUME DocInv, NEW r \in Request, job[r].op \notin {"none", "post"}, Active(job[r]),
         NEW out \in {"ok", "failed"}, Finish(r, out), UNCHANGED <<row, bucket>>,
         job[r].at = "second" => row[job[r].doc] = NoDoc \/ Rewritten(r)
  PROVE  DocInv'
<1>1. job' \in [Request -> Job] /\ DocWent(r, "done", out)
  BY DocFinishIs DEF DocInv, DocFiles, Outcome
<1> QED BY <1>1, DocStayOn DEF DocStage

\* A request that begins leaves what the rows say alone.
LEMMA DocValuesNew ==
  ASSUME DocInv, NEW r \in Request, NEW new, DocBegan(r, new), job[r].at = "new", row' = row,
         new.at \notin {"counted", "second"},
         new.op \in Turns => new.at \in {"loaded", "done"},
         new.at = "loaded" =>
           new.doc \in Doc /\ row[new.doc] # NoDoc /\ new.copy = row[new.doc]
  PROVE  CopyStands' /\ StatusesAgree' /\ FeaturesCounted' /\ HitsCounted'
<1>0. DocFiles /\ DocTypeOK /\ CopyStands /\ StatusesAgree /\ FeaturesCounted /\ HitsCounted
  BY DEF DocInv, DocFiles
<1>1. DocGrows BY <1>0, DocBeganGrows
<1>2. \A q \in Request : q # r => DocSame(q) /\ job'[q].at = job[q].at /\ job'[q].out = job[q].out
  BY DEF DocBegan
<1>3. /\ job'[r].at = new.at /\ job'[r].op = new.op /\ job'[r].doc = new.doc /\ job'[r].copy = new.copy
      /\ job[r].op = "none"
  BY <1>0 DEF DocBegan, DocFiles, DocsInOrder, DocOrdered
<1>4. CopyStands'
  <2>1. ASSUME NEW q \in Request, q # r PROVE Stands(q)'
    <3>1. DocSame(q) /\ job'[q].at = job[q].at /\ Stands(q) BY <1>0, <1>2, <2>1 DEF CopyStands
    <3>2. CASE row[job[q].doc] = NoDoc BY <3>1, <3>2 DEF Stands, DocSame
    <3>3. CASE row[job[q].doc] # NoDoc BY <1>0, <1>1, <3>1, <3>3, StandsStays
    <3> QED BY <3>2, <3>3
  <2>2. Stands(r)' BY <1>3 DEF Stands, Active
  <2> QED BY <2>1, <2>2 DEF CopyStands
<1>5. StatusesAgree'
  <2>1. ASSUME NEW q \in Request, job[q].op \in Turns, job[q].at = "second"
        PROVE  job'[q].at = "second"
    BY <1>2, <1>3, <2>1 DEF Turns
  <2>2. \A d \in Doc : row'[d] # NoDoc =>
           row[d] # NoDoc /\ row'[d].status = row[d].status /\ row'[d].open = row[d].open
    OBVIOUS
  <2> HIDE DEF PartedBy, Agrees
  <2> QED BY <1>0, <1>1, <2>1, <2>2, AgreeStays
<1>6. FeaturesCounted'
  <2>1. Featured' = Featured BY DEF Featured, Present
  <2>2. HaveCounted' \subseteq HaveCounted BY <1>2, <1>3 DEF HaveCounted
  <2> QED BY <1>0, <1>1, <2>1, <2>2, FeaturesStay
<1>7. HitsCounted'
  <2>1. ASSUME NEW q \in Request, job'[q].at = "loaded"
        PROVE  \/ job[q].at = "loaded" /\ job'[q].doc = job[q].doc /\ job'[q].copy = job[q].copy
               \/ job'[q].doc \in Doc /\ row[job'[q].doc] # NoDoc /\ job'[q].copy = row[job'[q].doc]
    BY <1>2, <1>3, <2>1 DEF DocSame
  <2>2. \A d \in Doc : row'[d] # NoDoc =>
              /\ row[d] # NoDoc
              /\ row'[d].hits = row[d].hits /\ row'[d].secureHits = row[d].secureHits
    OBVIOUS
  <2> QED BY <1>0, <1>1, <2>1, <2>2, HitsStay
<1> QED BY <1>4, <1>5, <1>6, <1>7

LEMMA LoadStep ==
  ASSUME DocInv, NEW r \in Request, NEW op \in DocOp, NEW d \in Doc, Load(r, op, d)
  PROVE  DocInv'
<1> DEFINE begun == [NewJob EXCEPT !.op = op, !.doc = d, !.at = "loaded", !.copy = row[d]]
           new == IF row[d] = NoDoc THEN Answered(begun, "failed") ELSE begun
<1>a. /\ job[r].at = "new" /\ op \in LoadOps /\ job' = Begun(job, r, new)
      /\ UNCHANGED <<row, bucket>>
  BY DEF Load, DocUnchanged, LoadOps
<1>0. row[d] \in Row \cup {NoDoc} BY DEF DocInv, DocFiles, DocTypeOK
<1>1. /\ begun \in Job /\ begun.op = op /\ begun.doc = d /\ begun.copy = row[d] /\ begun.at = "loaded"
      /\ begun.key = NoDoc /\ begun.wrote = NoDoc /\ ~begun.late /\ begun.out = "none"
  BY <1>0, NewJobIs DEF Job
<1>2. /\ new \in Job /\ new.op = op /\ new.doc = d /\ new.copy = row[d]
      /\ new.key = NoDoc /\ new.wrote = NoDoc /\ ~new.late
      /\ new.at = IF row[d] = NoDoc THEN "done" ELSE "loaded"
      /\ new.out = IF row[d] = NoDoc THEN "failed" ELSE "none"
  <2> HIDE DEF begun
  <2> QED BY <1>1 DEF Job, Answered, Outcome
<1> HIDE DEF new, begun
<1>3. job' \in [Request -> Job] /\ DocBegan(r, new)
  BY <1>a, <1>2, DocBeginIs DEF DocInv, DocFiles
<1>4. /\ job'[r].op = op /\ job'[r].doc = d /\ job'[r].copy = row[d]
      /\ job'[r].key = NoDoc /\ job'[r].wrote = NoDoc /\ ~job'[r].late
      /\ job'[r].at = IF row[d] = NoDoc THEN "done" ELSE "loaded"
      /\ job'[r].out = IF row[d] = NoDoc THEN "failed" ELSE "none"
  BY <1>2, <1>3 DEF DocBegan
<1>5. DocOrdered(job'[r])
  BY <1>0, <1>4, <1>a DEF DocOrdered, StageOfOp, LoadHolds, Active, LoadOps
<1>6. DocFiles'
  <2>1. new.op \in LoadOps /\ new.copy = row[new.doc] /\ new.op # "stored"
    BY <1>2, <1>a DEF LoadOps
  <2> QED BY <1>3, <1>5, <1>a, <2>1, DocFilesNew DEF DocInv
<1>7. CopyStands' /\ StatusesAgree' /\ FeaturesCounted' /\ HitsCounted'
  BY <1>2, <1>3, <1>a, DocValuesNew
<1> QED BY <1>6, <1>7 DEF DocInv

LEMMA StoredFindStep ==
  ASSUME DocInv, NEW r \in Request, NEW d \in Doc, NEW k \in Deposit, StoredFind(r, d, k)
  PROVE  DocInv'
<1> DEFINE begun == [NewJob EXCEPT !.op = "stored", !.at = "stat", !.doc = d, !.key = ObjectKey(k)]
           new == IF ObjectKey(k) \in Held THEN Answered(begun, "failed") ELSE begun
<1>a. /\ job[r].at = "new" /\ job' = Begun(job, r, new)
      /\ \A q \in Request : job[q].op = "post" /\ job[q].doc = d => job[q].out = "ok"
      /\ UNCHANGED <<row, bucket>>
  BY DEF StoredFind, DocUnchanged
<1>0. ObjectKey(k) \in DepositKeys /\ ObjectKey(k) \in Keys BY DEF DepositKeys, Keys
<1>1. /\ begun \in Job /\ begun.op = "stored" /\ begun.doc = d /\ begun.copy = NoDoc /\ begun.at = "stat"
      /\ begun.key = ObjectKey(k) /\ begun.wrote = NoDoc /\ ~begun.late /\ begun.out = "none"
  BY <1>0, NewJobIs DEF Job, DocOp
<1>2. /\ new \in Job /\ new.op = "stored" /\ new.doc = d /\ new.copy = NoDoc
      /\ new.key = ObjectKey(k) /\ new.wrote = NoDoc /\ ~new.late
      /\ new.at = IF ObjectKey(k) \in Held THEN "done" ELSE "stat"
      /\ new.out = IF ObjectKey(k) \in Held THEN "failed" ELSE "none"
  <2> HIDE DEF begun
  <2> QED BY <1>1 DEF Job, Answered, Outcome
<1> HIDE DEF new, begun
<1>3. job' \in [Request -> Job] /\ DocBegan(r, new)
  BY <1>a, <1>2, DocBeginIs DEF DocInv, DocFiles
<1>4. /\ job'[r].op = "stored" /\ job'[r].doc = d /\ job'[r].copy = NoDoc
      /\ job'[r].key = ObjectKey(k) /\ job'[r].wrote = NoDoc /\ ~job'[r].late
      /\ job'[r].at = IF ObjectKey(k) \in Held THEN "done" ELSE "stat"
      /\ job'[r].out = IF ObjectKey(k) \in Held THEN "failed" ELSE "none"
  BY <1>2, <1>3 DEF DocBegan
<1>5. DocOrdered(job'[r])
  BY <1>0, <1>4, <1>a DEF DocOrdered, StageOfOp, StoredHolds, Active, LoadOps
<1>6. DocFiles'
  <2>1. /\ new.op = "stored"
        /\ \A q \in Request : job[q].op = "post" /\ job[q].doc = new.doc => job[q].out = "ok"
        /\ new.at \in {"stat", "save"} => new.key \notin Held
    BY <1>2, <1>a
  <2>2. new.op \notin LoadOps BY <2>1 DEF LoadOps
  <2> QED BY <1>3, <1>5, <1>a, <2>1, <2>2, DocFilesNew DEF DocInv
<1>7. CopyStands' /\ StatusesAgree' /\ FeaturesCounted' /\ HitsCounted'
  BY <1>2, <1>3, <1>a, DocValuesNew DEF Turns
<1> QED BY <1>6, <1>7 DEF DocInv

LEMMA PostUploadStep ==
  ASSUME DocInv, NEW r \in Request, NEW k \in File, PostUpload(r, k)
  PROVE  DocInv'
<1> DEFINE new == [NewJob EXCEPT !.op = "post", !.at = "save", !.key = ObjectKey(k)]
<1> PICK key : key = ObjectKey(k) OBVIOUS
<1>a. /\ job[r].at = "new" /\ job' = Begun(job, r, new) /\ row' = row
      /\ key \notin bucket \cup Held /\ \A q \in Request : job[q].key # key
      /\ bucket' = bucket \cup {key}
  BY DEF PostUpload
<1>0. key \in FileKeys /\ key \in Keys /\ key # NoDoc /\ key \notin DepositKeys
  BY KeysAreNot DEF FileKeys, Keys
<1>1. /\ new \in Job /\ new.op = "post" /\ new.doc = NoDoc /\ new.copy = NoDoc /\ new.at = "save"
      /\ new.key = key /\ new.wrote = NoDoc /\ ~new.late /\ new.out = "none"
  BY <1>0, NewJobIs DEF Job, DocOp
<1> HIDE DEF new
<1>2. job' \in [Request -> Job] /\ DocBegan(r, new)
  BY <1>a, <1>1, DocBeginIs DEF DocInv, DocFiles
<1>3. /\ job'[r].op = "post" /\ job'[r].doc = NoDoc /\ job'[r].copy = NoDoc
      /\ job'[r].key = key /\ job'[r].wrote = NoDoc /\ ~job'[r].late
      /\ job'[r].at = "save" /\ job'[r].out = "none"
  BY <1>1, <1>2 DEF DocBegan
<1>f. DocFiles BY DEF DocInv
<1>g. DocGrows /\ DocMeet' BY <1>a, <1>f, <1>2, DocBeganGrows
<1>s. \A q \in Request : q # r => DocSame(q) /\ job'[q].at = job[q].at /\ job'[q].out = job[q].out
  BY <1>2 DEF DocBegan
<1>r. job[r].op = "none" /\ job[r].key = NoDoc /\ job[r].wrote = NoDoc /\ ~job[r].late
  BY <1>a, <1>f, NewJobIs DEF DocFiles, DocsInOrder, DocOrdered
<1>4. DocOrdered(job'[r])
  BY <1>0, <1>3 DEF DocOrdered, StageOfOp, PostHolds, Active, LoadOps
<1>5. DocTypeOK' BY <1>0, <1>2, <1>a, <1>f DEF DocFiles, DocTypeOK
<1>6. DocsInOrder' BY <1>2, <1>4, <1>f, BeganInOrder
<1>7. PostsApart'
  <2> SUFFICES ASSUME NEW p \in Request, NEW q \in Request, job'[p].op = "post"
               PROVE  /\ job'[q].op = "post" /\ q # p => job'[q].key # job'[p].key
                      /\ job'[q].op = "post" /\ q # p /\ job'[p].doc # NoDoc => job'[q].doc # job'[p].doc
                      /\ job'[q].op = "stored" /\ job'[p].doc # NoDoc /\ job'[p].out # "ok"
                           => job'[q].doc # job'[p].doc
    BY DEF PostsApart
  <2>1. CASE p = r BY <1>3, <1>a, <1>s, <2>1 DEF DocSame
  <2>2. CASE p # r /\ q = r BY <1>3, <1>a, <1>s, <2>2 DEF DocSame
  <2>3. CASE p # r /\ q # r BY <1>s, <1>f, <2>3 DEF DocSame, DocFiles, PostsApart
  <2> QED BY <2>1, <2>2, <2>3
<1>8. NoLateRow' BY <1>3, <1>a, <1>s, <1>f DEF DocFiles, NoLateRow, DocSame, LoadOps
<1>9. KeysOfPosts'
  <2> SUFFICES ASSUME NEW p \in Request, job'[p].op = "post"
               PROVE  /\ \A d \in Doc : row[d] # NoDoc /\ row[d].key = job'[p].key => job'[p].doc = d
                      /\ job'[p].out # "ok" /\ job'[p].doc \in Doc /\ row[job'[p].doc] # NoDoc
                           => row[job'[p].doc].key = job'[p].key
    BY <1>a DEF KeysOfPosts
  <2>1. CASE p = r BY <1>3, <1>a, <2>1, DocAssumption DEF Held, Present
  <2>2. CASE p # r BY <1>s, <1>f, <2>2 DEF DocSame, DocFiles, KeysOfPosts
  <2> QED BY <2>1, <2>2
<1>10. RollsBack' BY <1>3, <1>a, <1>s, <1>f DEF DocFiles, RollsBack, DocSame
<1>11. DepositsStay' BY <1>a, <1>f DEF DocFiles, DepositsStay
<1>12. RowsHaveFiles'
  <2>1. \A q \in Request : job[q].late => q # r BY <1>r
  <2> QED BY <1>s, <1>f, <1>a, <2>1 DEF DocFiles, RowsHaveFiles, DocSame, Present
<1>13. FilesAreOwned'
  <2> SUFFICES ASSUME NEW o \in bucket' \ (Held \cup DepositKeys)
               PROVE  \E q \in Request :
                        /\ job'[q].key = o
                        /\ job'[q].op = "delete" \/ Active(job'[q]) \/ job'[q].out \in {"left", "stopped"}
    BY <1>a DEF FilesAreOwned, DepositKeys, Held, Present
  <2>1. CASE o = key BY <1>3, <2>1 DEF Active
  <2>2. CASE o # key
    <3>1. PICK q \in Request :
            /\ job[q].key = o
            /\ job[q].op = "delete" \/ Active(job[q]) \/ job[q].out \in {"left", "stopped"}
      BY <1>a, <1>f, <2>2 DEF DocFiles, FilesAreOwned, DepositKeys
    <3>2. o # NoDoc BY <1>a, <1>f, <2>2, KeysAreNot DEF DocFiles, DocTypeOK
    <3>3. q # r BY <1>r, <3>1, <3>2
    <3> QED BY <1>s, <3>1, <3>3 DEF DocSame, Active
  <2> QED BY <2>1, <2>2
<1>14. KeysOnce'
  <2>1. \A d, e \in Doc : StoredTogether(d, e) => StoredTogether(d, e)'
    BY <1>f, <1>g, StoredTogetherStays DEF DocFiles
  <2>2. \A q \in Request : job[q].op = "stored" => job[q].doc \in Doc
    BY <1>f DEF DocFiles, DocsInOrder, DocOrdered, StoredHolds
  <2>3. ASSUME NEW d \in Doc, NEW e \in Doc, d # e, row[d] # NoDoc, row[e] # NoDoc,
               row[d].key = row[e].key
        PROVE  StoredTogether(d, e)'
    BY <1>f, <2>1, <2>3 DEF DocFiles, KeysOnce
  <2>4. ASSUME NEW q \in Request, NEW e \in Doc, job'[q].at \in {"stat", "save"},
               job'[q].op = "stored", row[e] # NoDoc, row[e].key = job'[q].key
        PROVE  StoredTogether(job[q].doc, e)' /\ job[q].doc = job'[q].doc
    <3>1. q # r BY <1>3, <2>4
    <3> QED BY <1>s, <1>f, <2>1, <2>2, <2>4, <3>1 DEF DocFiles, KeysOnce, DocSame
  <2> QED BY <1>a, <2>3, <2>4 DEF KeysOnce, StoredTogether
<1>15. CopyStands' /\ StatusesAgree' /\ FeaturesCounted' /\ HitsCounted'
  BY <1>1, <1>2, <1>a, DocValuesNew DEF Turns
<1> QED BY <1>5, <1>6, <1>g, <1>7, <1>8, <1>9, <1>10, <1>11, <1>12, <1>13, <1>14, <1>15 DEF DocInv, DocFiles

\* A request writes a new row for its document in the place of the old one.
RowIs(d, x) ==
  /\ row' \in [Doc -> Row \cup {NoDoc}]
  /\ row'[d] = x /\ \A e \in Doc : e # d => row'[e] = row[e]

LEMMA RowBecomes ==
  ASSUME DocTypeOK, NEW d \in Doc, NEW x \in Row \cup {NoDoc}, row' = [row EXCEPT ![d] = x]
  PROVE  RowIs(d, x)
BY DEF RowIs, DocTypeOK

LEMMA RowRemains ==
  ASSUME DocTypeOK, NEW d \in Doc, row' = row
  PROVE  RowIs(d, row[d])
BY DEF RowIs, DocTypeOK

LEMMA DocEdit ==
  ASSUME DocInv, NEW r \in Request, NEW at \in {"second", "done"}, NEW out,
         DocWent(r, at, out), Active(job[r]), job[r].op \in LoadOps,
         job' \in [Request -> Job], at = "second" => job[r].op \in Turns /\ out = "none",
         NEW x \in Row, NEW d \in Doc, d = job[r].doc, row[d] # NoDoc, RowIs(d, x),
         bucket' = bucket, x.key = row[d].key,
         \/ job[r].op \in {"publish", "unpublish", "put"}
         \/ x.status = row[d].status /\ x.open = row[d].open /\ x.ver = row[d].ver,
         Stands(r)',
         \/ Agrees(x) \/ PartedBy(d)'
         \/ job[r].at # "second" /\ x.status = row[d].status /\ x.open = row[d].open,
         (x.featured => row[d].featured) \/ FeaturesCounted',
         \/ x.hits = row[d].hits /\ x.secureHits = row[d].secureHits
         \/ HitsOf(x, d)'
  PROVE  DocInv'
<1>0. DocFiles /\ DocTypeOK /\ CopyStands /\ StatusesAgree /\ FeaturesCounted /\ HitsCounted
  BY DEF DocInv, DocFiles
<1>1. DocGrows BY DocWentGrows
<1>2. OthersStay(r) /\ DocSame(r) /\ job'[r].at = at /\ job'[r].out = out BY DEF DocWent
<1>3. row'[d] = x /\ \A e \in Doc : e # d => row'[e] = row[e] BY DEF RowIs
<1>4. DocFiles'
  <2>1. KeysKept BY <1>3, DocAssumption DEF KeysKept
  <2>2. DocOrdered(job[r]) BY <1>0 DEF DocFiles, DocsInOrder
  <2>3. DocOrdered(job'[r])
    BY <1>2, <2>2 DEF DocOrdered, DocSame, StageOfOp, LoadHolds, Active, LoadOps, Turns
  <2>4. row' \in [Doc -> Row \cup {NoDoc}] BY DEF RowIs
  <2>5. job[r].op # "post" BY DEF LoadOps
  <2>6. at \in DocStage /\ at \notin {"stat", "save"} BY DEF DocStage
  <2> QED BY <1>0, <2>1, <2>3, <2>4, <2>5, <2>6, DocFilesOn
<1>5. CopyStands'
  <2>1. \A q \in Request : q # r => Stands(q)'
    <3>1. \A e \in Doc : e # job[r].doc => row'[e] = row[e] BY <1>3
    <3>2. \/ job[r].op \in {"publish", "unpublish", "put", "stored"}
          \/ row'[job[r].doc] = NoDoc
          \/ /\ row[job[r].doc] # NoDoc
             /\ row'[job[r].doc].status = row[job[r].doc].status
             /\ row'[job[r].doc].open = row[job[r].doc].open
             /\ row'[job[r].doc].ver = row[job[r].doc].ver
      BY <1>3
    <3> HIDE DEF Stands
    <3> QED BY <1>0, <1>1, <1>2, <3>1, <3>2, OthersStand
  <2> QED BY <2>1 DEF CopyStands
<1>6. StatusesAgree'
  <2>1. \A e \in Doc : row'[e] # NoDoc =>
           \/ Agrees(row'[e]) \/ PartedBy(e)'
           \/ row[e] # NoDoc /\ row'[e].status = row[e].status /\ row'[e].open = row[e].open
    BY <1>3
  <2>2. ASSUME NEW q \in Request, NEW e \in Doc, job[q].op \in Turns, job[q].at = "second", job[q].doc = e
        PROVE  \/ job'[q].at = "second" \/ job'[q].out = "stopped"
               \/ row'[e] = NoDoc \/ Agrees(row'[e]) \/ PartedBy(e)'
    <3>1. CASE q # r BY <1>2, <2>2, <3>1 DEF OthersStay
    <3>2. CASE q = r BY <1>3, <2>2, <3>2
    <3> QED BY <3>1, <3>2
  <2> HIDE DEF PartedBy, Agrees
  <2> QED BY <1>0, <1>1, <2>1, <2>2, AgreeStays
<1>7. FeaturesCounted'
  <2> SUFFICES ASSUME x.featured => row[d].featured PROVE FeaturesCounted'
    OBVIOUS
  <2>1. Featured' \subseteq Featured BY <1>3 DEF Featured, Present
  <2>2. HaveCounted' \subseteq HaveCounted BY <1>2 DEF HaveCounted, OthersStay
  <2> QED BY <1>0, <1>1, <2>1, <2>2, FeaturesStay
<1>8. HitsCounted'
  <2>1. \A q \in Request : job'[q].at = "loaded" => job'[q] = job[q]
    BY <1>2 DEF OthersStay
  <2>2. ASSUME NEW e \in Doc, row'[e] # NoDoc
        PROVE  \/ /\ row[e] # NoDoc
                  /\ row'[e].hits = row[e].hits /\ row'[e].secureHits = row[e].secureHits
               \/ HitsOf(row[e], e)'
    <3>1. CASE e # d BY <1>3, <2>2, <3>1
    <3>2. CASE e = d BY <1>3, <3>2 DEF HitsOf
    <3> QED BY <3>1, <3>2
  <2> QED BY <1>0, <1>1, <2>1, <2>2, HitsStay
<1> QED BY <1>4, <1>5, <1>6, <1>7, <1>8 DEF DocInv

LEMMA LoadedIs ==
  ASSUME DocInv, NEW r \in Request, job[r].op \in LoadOps, Active(job[r])
  PROVE  /\ job[r].doc \in Doc /\ job[r].copy \in Row /\ job[r].out = "none"
         /\ row[job[r].doc] \in Row \cup {NoDoc} /\ DocOrdered(job[r]) /\ Stands(r)
BY DEF DocInv, DocFiles, DocTypeOK, DocsInOrder, DocOrdered, LoadHolds, LoadOps, CopyStands

\* A request that overlapped with another change leaves its document's fields
\* apart for that.
LEMMA RewrittenParts ==
  ASSUME DocInv, NEW r \in Request, DocGrows, job[r].op \in Turns, NEW d, job[r].doc = d,
         Rewritten(r)
  PROVE  PartedBy(d)' /\ Rewritten(r)'
<1>1. job[r].op \in LoadOps /\ DocTypeOK BY DEF Turns, LoadOps, DocOp, DocInv, DocFiles
<1>2. Rewritten(r)' BY <1>1, RewrittenStays
<1>3. job'[r].doc = d /\ job'[r].op \in Turns BY <1>1 DEF DocGrows, LoadOps
<1> QED BY <1>2, <1>3 DEF PartedBy, Parted

LEMMA SaveStatusStep ==
  ASSUME DocInv, NEW r \in Request, SaveStatus(r)
  PROVE  DocInv'
<1> PICK d : d = job[r].doc OBVIOUS
<1> DEFINE status == Turned(job[r].op)
           changed == job[r].copy.status # status
           more == job[r].copy.open # (job[r].op = "publish")
           x == IF changed THEN [row[d] EXCEPT !.status = status] ELSE row[d]
<1>a. /\ job[r].op \in Turns /\ job[r].at = "loaded" /\ bucket' = bucket
      /\ row[d] = NoDoc => row' = row /\ Finish(r, "failed")
      /\ row[d] # NoDoc =>
           /\ row' = IF changed THEN [row EXCEPT ![d] = [row[d] EXCEPT !.status = status]] ELSE row
           /\ IF more THEN Go(r, "second") ELSE Finish(r, "ok")
  BY DEF SaveStatus, SaveField, Turned, Turns
<1>0. job[r].op \in LoadOps /\ Active(job[r]) BY <1>a DEF Turns, LoadOps, DocOp, Active
<1>b. /\ d \in Doc /\ job[r].copy \in Row /\ job[r].out = "none" /\ Stands(r)
      /\ row[d] \in Row \cup {NoDoc}
  BY <1>0, LoadedIs
<1>t. DocTypeOK BY DEF DocInv, DocFiles
<1>1. CASE row[d] = NoDoc
  <2>1. Finish(r, "failed") /\ UNCHANGED <<row, bucket>> BY <1>1, <1>a
  <2>2. job[r].op \notin {"none", "post"} BY <1>a DEF Turns
  <2> QED BY <1>0, <1>a, <2>1, <2>2, DocFailsStep
<1>2. CASE row[d] # NoDoc
  <2>0. row[d] \in Row BY <1>2, <1>b
  <2>1. status \in Status BY DEF Turned, Status
  <2>2. /\ x \in Row /\ x.key = row[d].key /\ x.open = row[d].open /\ x.featured = row[d].featured
        /\ x.hits = row[d].hits /\ x.secureHits = row[d].secureHits /\ x.ver = row[d].ver
        /\ x.status = IF changed THEN status ELSE row[d].status
    <3> HIDE DEF changed, status
    <3> QED BY <2>0, <2>1 DEF Row
  <2>3. row' = [row EXCEPT ![d] = x]
    <3>1. CASE changed BY <1>2, <1>a, <3>1
    <3>2. CASE ~changed BY <1>2, <1>a, <1>b, <1>t, <3>2 DEF DocTypeOK
    <3> QED BY <3>1, <3>2
  <2> HIDE DEF x
  <2>4. RowIs(d, x) BY <1>b, <1>t, <2>2, <2>3, RowBecomes
  <2>5. ASSUME ~Rewritten(r)
        PROVE  /\ row[d].ver = job[r].copy.ver
               /\ row[d].status = job[r].copy.status /\ row[d].open = job[r].copy.open
    BY <1>0, <1>2, <1>a, <1>b, <2>5 DEF Stands
  <2>6. CASE more
    <3>1. job' \in [Request -> Job] /\ DocWent(r, "second", "none")
      BY <1>2, <1>a, <1>b, <1>t, <2>6, DocGoIs DEF DocStage
    <3>2. DocGrows BY <1>0, <3>1, DocWentGrows
    <3>s. DocSame(r) /\ job'[r].at = "second" BY <3>1 DEF DocWent
    <3>3. PartedBy(d)' BY <1>a, <3>s DEF PartedBy, Parted, DocSame
    <3>4. Stands(r)'
      <4>1. CASE Rewritten(r) BY <1>a, <3>2, <4>1, RewrittenParts DEF Stands
      <4>2. CASE ~Rewritten(r)
        <5>1. x.ver = job[r].copy.ver /\ x.status = status BY <2>2, <2>5, <4>2
        <5>2. row'[d] = x BY <2>4 DEF RowIs
        <5> QED BY <3>s, <5>1, <5>2 DEF Stands, DocSame
      <4> QED BY <4>1, <4>2
    <3>5. job[r].op \in {"publish", "unpublish", "put"} BY <1>a DEF Turns
    <3> HIDE DEF PartedBy, Stands
    <3> QED BY <1>0, <1>2, <1>a, <1>b, <2>2, <2>4, <3>1, <3>3, <3>4, <3>5, DocEdit
  <2>7. CASE ~more
    <3>1. job' \in [Request -> Job] /\ DocWent(r, "done", "ok")
      BY <1>2, <1>a, <1>b, <1>t, <2>7, DocFinishIs DEF Outcome
    <3>2. DocGrows BY <1>0, <3>1, DocWentGrows
    <3>3. Agrees(x) \/ PartedBy(d)'
      <4>1. CASE Rewritten(r) BY <1>a, <3>2, <4>1, RewrittenParts
      <4>2. CASE ~Rewritten(r)
        <5>1. x.status = status /\ x.open = (job[r].op = "publish") BY <2>2, <2>5, <2>7, <4>2
        <5> QED BY <1>a, <5>1 DEF Agrees, Turned, Turns
      <4> QED BY <4>1, <4>2
    <3>4. Stands(r)' BY <3>1 DEF Stands, DocWent, Active
    <3>5. job[r].op \in {"publish", "unpublish", "put"} BY <1>a DEF Turns
    <3> HIDE DEF PartedBy, Stands
    <3> QED BY <1>0, <1>2, <1>a, <1>b, <2>2, <2>4, <3>1, <3>3, <3>4, <3>5, DocEdit
  <2> QED BY <2>6, <2>7
<1> QED BY <1>1, <1>2

\* The second save of a publish or an unpublish.
LEMMA SecondSave ==
  ASSUME DocInv, NEW r \in Request, job[r].op \in Turns, job[r].at = "second", Finish(r, "ok"),
         bucket' = bucket, row[job[r].doc] # NoDoc,
         row' = [row EXCEPT ![job[r].doc].open = (job[r].op = "publish"), ![job[r].doc].ver = @ + 1]
  PROVE  DocInv'
<1> PICK d : d = job[r].doc OBVIOUS
<1> DEFINE open == job[r].op = "publish"
           x == [row[d] EXCEPT !.open = open, !.ver = row[d].ver + 1]
<1>0. job[r].op \in LoadOps /\ Active(job[r]) BY DEF Turns, LoadOps, DocOp, Active
<1>b. /\ d \in Doc /\ job[r].copy \in Row /\ Stands(r) /\ row[d] \in Row
  BY <1>0, LoadedIs
<1>t. DocTypeOK BY DEF DocInv, DocFiles
<1>1. row[d].ver + 1 \in Nat /\ open \in BOOLEAN BY <1>b DEF Row
<1>2. /\ x \in Row /\ x.key = row[d].key /\ x.open = open /\ x.featured = row[d].featured
      /\ x.hits = row[d].hits /\ x.secureHits = row[d].secureHits /\ x.status = row[d].status
  <2> HIDE DEF open
  <2> QED BY <1>b, <1>1 DEF Row
<1>3. row' = [row EXCEPT ![d] = x]
  <2>1. row \in [Doc -> Row \cup {NoDoc}] BY <1>t DEF DocTypeOK
  <2> QED BY <1>b, <2>1
<1> HIDE DEF x
<1>4. RowIs(d, x) BY <1>b, <1>t, <1>2, <1>3, RowBecomes
<1>5. job' \in [Request -> Job] /\ DocWent(r, "done", "ok")
  BY <1>t, DocFinishIs DEF Outcome
<1>6. DocGrows BY <1>0, <1>5, DocWentGrows
<1>7. Agrees(x) \/ PartedBy(d)'
  <2>1. CASE Rewritten(r) BY <1>6, <2>1, RewrittenParts
  <2>2. CASE ~Rewritten(r)
    <3>1. x.status = Turned(job[r].op) BY <1>0, <1>b, <1>2, <2>2 DEF Stands
    <3> QED BY <1>2, <3>1 DEF Agrees, Turned, Turns
  <2> QED BY <2>1, <2>2
<1>8. Stands(r)' BY <1>5 DEF Stands, DocWent, Active
<1>9. job[r].op \in {"publish", "unpublish", "put"} BY DEF Turns
<1> HIDE DEF PartedBy, Stands
<1> QED BY <1>0, <1>b, <1>2, <1>4, <1>5, <1>7, <1>8, <1>9, DocEdit

LEMMA SaveOpenStep ==
  ASSUME DocInv, NEW r \in Request, SaveOpen(r)
  PROVE  DocInv'
<1>a. /\ job[r].op = "publish" /\ job[r].at = "second" /\ bucket' = bucket
      /\ IF row[job[r].doc] = NoDoc
         THEN row' = row /\ Finish(r, "failed")
         ELSE /\ row' = [row EXCEPT ![job[r].doc].open = TRUE, ![job[r].doc].ver = @ + 1]
              /\ Finish(r, "ok")
  BY DEF SaveOpen
<1>0. Active(job[r]) /\ job[r].op \in Turns /\ job[r].op \notin {"none", "post"}
  BY <1>a DEF Active, Turns
<1>1. CASE row[job[r].doc] = NoDoc BY <1>a, <1>0, <1>1, DocFailsStep
<1>2. CASE row[job[r].doc] # NoDoc
  <2>1. row' = [row EXCEPT ![job[r].doc].open = (job[r].op = "publish"), ![job[r].doc].ver = @ + 1]
    BY <1>a, <1>2
  <2> QED BY <1>a, <1>0, <1>2, <2>1, SecondSave
<1> QED BY <1>1, <1>2

LEMMA SaveShutStep ==
  ASSUME DocInv, NEW r \in Request, SaveShut(r)
  PROVE  DocInv'
<1>a. /\ job[r].op = "unpublish" /\ job[r].at = "second" /\ bucket' = bucket
      /\ IF row[job[r].doc] = NoDoc \/ row[job[r].doc].ver # job[r].copy.ver
         THEN row' = row /\ Finish(r, "failed")
         ELSE /\ row' = [row EXCEPT ![job[r].doc].open = FALSE, ![job[r].doc].ver = @ + 1]
              /\ Finish(r, "ok")
  BY DEF SaveShut
<1>0. Active(job[r]) /\ job[r].op \in Turns /\ job[r].op \notin {"none", "post"}
  BY <1>a DEF Active, Turns
<1>1. CASE row[job[r].doc] = NoDoc \/ row[job[r].doc].ver # job[r].copy.ver
  <2>1. row[job[r].doc] = NoDoc \/ Rewritten(r)
    BY <1>0, <1>1 DEF DocInv, CopyStands, Stands
  <2> QED BY <1>a, <1>0, <1>1, <2>1, DocFailsStep
<1>2. CASE ~(row[job[r].doc] = NoDoc \/ row[job[r].doc].ver # job[r].copy.ver)
  <2>1. row' = [row EXCEPT ![job[r].doc].open = (job[r].op = "publish"), ![job[r].doc].ver = @ + 1]
    BY <1>a, <1>2
  <2> QED BY <1>a, <1>0, <1>2, <2>1, SecondSave
<1> QED BY <1>1, <1>2

LEMMA PutWriteStep ==
  ASSUME DocInv, NEW r \in Request, NEW status \in Status, PutWrite(r, status)
  PROVE  DocInv'
<1> PICK d : d = job[r].doc OBVIOUS
<1>a. /\ job[r].op = "put" /\ job[r].at = "loaded" /\ bucket' = bucket
      /\ IF row[d] = NoDoc
         THEN row' = row /\ Finish(r, "failed")
         ELSE row' = [row EXCEPT ![d] = Edited(row[d], status)] /\ Finish(r, "ok")
  BY LoadedIs DEF PutWrite, DocInv, DocFiles, DocTypeOK
<1>0. job[r].op \in LoadOps /\ Active(job[r]) BY <1>a DEF LoadOps, DocOp, Active
<1>b. d \in Doc /\ row[d] \in Row \cup {NoDoc}
  BY <1>0, LoadedIs
<1>t. DocTypeOK BY DEF DocInv, DocFiles
<1>1. CASE row[d] = NoDoc
  <2>1. job[r].op \notin {"none", "post"} /\ job[r].at # "second" BY <1>a
  <2> QED BY <1>0, <1>1, <1>a, <2>1, DocFailsStep
<1>2. CASE row[d] # NoDoc
  <2>0. row[d] \in Row BY <1>2, <1>b
  <2> DEFINE new == IF status = "none" THEN row[d].status ELSE status
             open == CASE status = "Published" -> TRUE
                       [] status = "Rejected" -> FALSE
                       [] OTHER -> row[d].open
             x == [row[d] EXCEPT !.status = new, !.open = open, !.ver = row[d].ver + 1]
  <2>1. new \in Status /\ open \in BOOLEAN /\ row[d].ver + 1 \in Nat
    <3>1. new \in Status /\ row[d].ver + 1 \in Nat /\ row[d].open \in BOOLEAN BY <2>0 DEF Row
    <3>2. CASE status = "Published" BY <3>1, <3>2
    <3>3. CASE status = "Rejected" BY <3>1, <3>3
    <3>4. CASE status \notin {"Published", "Rejected"} BY <3>1, <3>4
    <3> QED BY <3>2, <3>3, <3>4
  <2>2. x = Edited(row[d], status) BY DEF Edited
  <2>3. Agrees([status |-> new, open |-> open]) \/ (new = row[d].status /\ open = row[d].open)
    BY <2>0 DEF Agrees, Status
  <2>4. /\ x \in Row /\ x.key = row[d].key /\ x.featured = row[d].featured
        /\ x.hits = row[d].hits /\ x.secureHits = row[d].secureHits
        /\ x.status = new /\ x.open = open
    <3> HIDE DEF new, open
    <3> QED BY <2>0, <2>1 DEF Row
  <2>5. Agrees(x) \/ (x.status = row[d].status /\ x.open = row[d].open)
    BY <2>3, <2>4 DEF Agrees
  <2>6. row' = [row EXCEPT ![d] = x] BY <1>2, <1>a, <2>2
  <2> HIDE DEF x, new, open
  <2>7. RowIs(d, x) BY <1>b, <1>t, <2>4, <2>6, RowBecomes
  <2>8. job' \in [Request -> Job] /\ DocWent(r, "done", "ok")
    BY <1>2, <1>a, <1>t, DocFinishIs DEF Outcome
  <2>9. Stands(r)' BY <2>8 DEF Stands, DocWent, Active
  <2>10. job[r].at # "second" BY <1>a
  <2> HIDE DEF Stands, Agrees
  <2> QED BY <1>0, <1>2, <1>a, <1>b, <2>4, <2>5, <2>7, <2>8, <2>9, <2>10, DocEdit
<1> QED BY <1>1, <1>2

\* What one more feature may cost: those who counted before have all met.
LEMMA CountingMeets ==
  ASSUME DocFiles, NEW r \in Request, job[r].op = "feature", Active(job[r]), r \notin HaveCounted,
         DocGrows, HaveCounted # {}
  PROVE  Cardinality(HaveCounted) + 1 =< Cardinality(Rushed')
<1>1. ASSUME NEW q \in HaveCounted
      PROVE  job'[q].op = "feature" /\ q \in job'[r].met /\ r \in job'[q].met
  <2>1. q \in Request /\ job[q].at = "counted" /\ q # r BY DEF HaveCounted
  <2>2. job[q].op = "feature" /\ Active(job[q])
    BY <2>1 DEF DocFiles, DocsInOrder, DocOrdered, StageOfOp, Active
  <2>3. q \in job[r].met /\ r \in job[q].met BY <2>1, <2>2 DEF DocFiles, DocMeet
  <2> QED BY <2>1, <2>2, <2>3 DEF DocGrows
<1>2. job'[r].op = "feature" BY DEF DocGrows
<1>3. HaveCounted \cup {r} \subseteq Rushed'
  <2>1. r \in Rushed' BY <1>1, <1>2 DEF Rushed, Overlapped
  <2>2. ASSUME NEW q \in HaveCounted PROVE q \in Rushed'
    <3>1. q \in Request BY DEF HaveCounted
    <3> QED BY <1>1, <1>2, <3>1 DEF Rushed, Overlapped
  <2> QED BY <2>1, <2>2
<1>4. Rushed' \in SUBSET Request /\ HaveCounted \in SUBSET Request BY DEF Rushed, HaveCounted
<1> HIDE DEF Rushed, HaveCounted
<1>5. Cardinality(HaveCounted \cup {r}) =< Cardinality(Rushed') BY <1>3, <1>4, RequestsFinite
<1>6. IsFiniteSet(HaveCounted) BY <1>4, RequestsFinite
<1>7. Cardinality(HaveCounted \cup {r}) = Cardinality(HaveCounted) + 1 BY <1>6, FS_AddElement
<1> QED BY <1>5, <1>7

LEMMA FeatureCountStep ==
  ASSUME DocInv, NEW r \in Request, FeatureCount(r)
  PROVE  DocInv'
<1>a. job[r].op = "feature" /\ job[r].at = "loaded" /\ UNCHANGED <<row, bucket>>
  BY DEF FeatureCount, DocUnchanged
<1>0. Active(job[r]) /\ job[r].op \in LoadOps BY <1>a DEF Active, LoadOps, DocOp
<1>f. DocFiles /\ DocTypeOK /\ CopyStands /\ StatusesAgree /\ FeaturesCounted /\ HitsCounted
  BY DEF DocInv, DocFiles
<1>1. CASE Cardinality(Featured) < FeatureLimit
  <2>1. job' \in [Request -> Job] /\ DocWent(r, "counted", "none")
    BY <1>0, <1>1, <1>f, DocGoIs, LoadedIs DEF FeatureCount, DocStage
  <2>2. DocGrows BY <1>0, <2>1, DocWentGrows
  <2>3. OthersStay(r) /\ DocSame(r) /\ job'[r].at = "counted" /\ job'[r].out = "none"
    BY <2>1 DEF DocWent
  <2>4. DocFiles'
    <3>1. DocOrdered(job[r]) BY <1>0, LoadedIs
    <3>2. DocOrdered(job'[r])
      BY <1>a, <2>3, <3>1 DEF DocOrdered, DocSame, StageOfOp, LoadHolds, Active, LoadOps
    <3>3. KeysKept BY <1>a DEF KeysKept
    <3>4. row' \in [Doc -> Row \cup {NoDoc}] BY <1>a, <1>f DEF DocTypeOK
    <3> QED BY <1>a, <1>0, <1>f, <2>1, <3>2, <3>3, <3>4, DocFilesOn DEF DocStage
  <2>5. CopyStands'
    <3>1. ASSUME NEW q \in Request, q # r PROVE Stands(q)'
      <4>1. job'[q] = job[q] /\ Stands(q) BY <1>f, <2>3, <3>1 DEF OthersStay, CopyStands
      <4>2. CASE row[job[q].doc] = NoDoc BY <1>a, <4>1, <4>2 DEF Stands
      <4>3. CASE row[job[q].doc] # NoDoc BY <1>a, <1>f, <2>2, <4>1, <4>3, StandsStays DEF DocSame
      <4> QED BY <4>2, <4>3
    <3>2. Stands(r)' BY <1>a, <2>3 DEF Stands, DocSame, Turns
    <3> QED BY <3>1, <3>2 DEF CopyStands
  <2>6. StatusesAgree'
    <3>1. \A q \in Request : job[q].op \in Turns => job'[q] = job[q]
      BY <1>a, <2>3 DEF OthersStay, Turns
    <3> HIDE DEF PartedBy, Agrees
    <3> QED BY <1>a, <1>f, <2>2, <3>1, AgreeStays
  <2>7. FeaturesCounted'
    <3>1. Featured' = Featured BY <1>a DEF Featured, Present
    <3>2. HaveCounted' = HaveCounted \cup {r} /\ r \notin HaveCounted /\ HaveCounted \in SUBSET Request
      BY <1>a, <2>3 DEF HaveCounted, OthersStay
    <3>3. Cardinality(Featured) \in Nat /\ FeatureLimit \in Nat
      <4>1. Featured \in SUBSET Doc BY DEF Featured, Present
      <4> HIDE DEF Featured
      <4> QED BY <4>1, DocsFinite, LimitAssumption
    <3>4. IsFiniteSet(HaveCounted) /\ Cardinality(HaveCounted) \in Nat
      <4> HIDE DEF HaveCounted
      <4> QED BY <3>2, RequestsFinite
    <3>5. Cardinality(HaveCounted') = Cardinality(HaveCounted) + 1
      <4> HIDE DEF HaveCounted
      <4> QED BY <3>2, <3>4, FS_AddElement
    <3>6. Cardinality(Rushed') \in Nat BY <1>f, <2>2, RushedGrows
    <3>7. CASE HaveCounted = {}
      <4>1. Cardinality(HaveCounted) = 0 BY <3>7, FS_EmptySet
      <4> HIDE DEF HaveCounted, Featured, Rushed
      <4> QED BY <1>1, <3>1, <3>3, <3>5, <4>1 DEF FeaturesCounted
    <3>8. CASE HaveCounted # {}
      <4>1. Cardinality(HaveCounted) + 1 =< Cardinality(Rushed')
        BY <1>a, <1>0, <1>f, <2>2, <3>2, <3>8, CountingMeets
      <4> HIDE DEF HaveCounted, Featured, Rushed
      <4> QED BY <1>1, <3>1, <3>3, <3>4, <3>5, <3>6, <4>1 DEF FeaturesCounted
    <3> QED BY <3>7, <3>8
  <2>8. HitsCounted'
    <3>1. \A q \in Request : job'[q].at = "loaded" => job'[q] = job[q]
      BY <2>3 DEF OthersStay
    <3> QED BY <1>a, <1>f, <2>2, <3>1, HitsStay
  <2> QED BY <2>4, <2>5, <2>6, <2>7, <2>8 DEF DocInv
<1>2. CASE ~(Cardinality(Featured) < FeatureLimit)
  <2>1. Finish(r, "failed") BY <1>2 DEF FeatureCount
  <2> QED BY <1>a, <1>0, <2>1, DocFailsStep
<1> QED BY <1>1, <1>2

LEMMA FeatureSaveStep ==
  ASSUME DocInv, NEW r \in Request, FeatureSave(r)
  PROVE  DocInv'
<1> PICK d : d = job[r].doc OBVIOUS
<1> DEFINE on == job[r].op = "feature"
           changed == job[r].copy.featured # on
           x == IF changed THEN [row[d] EXCEPT !.featured = on] ELSE row[d]
<1>a. /\ \/ job[r].op = "feature" /\ job[r].at = "counted"
         \/ job[r].op = "unfeature" /\ job[r].at = "loaded"
      /\ bucket' = bucket
      /\ row[d] = NoDoc => row' = row /\ Finish(r, "failed")
      /\ row[d] # NoDoc =>
           /\ row' = IF changed THEN [row EXCEPT ![d] = [row[d] EXCEPT !.featured = on]] ELSE row
           /\ Finish(r, "ok")
  BY DEF FeatureSave, SaveField
<1>0. job[r].op \in LoadOps /\ Active(job[r]) /\ job[r].op \notin {"none", "post"} \cup Turns
  BY <1>a DEF LoadOps, DocOp, Active, Turns
<1>b. /\ d \in Doc /\ job[r].copy \in Row /\ row[d] \in Row \cup {NoDoc}
  BY <1>0, LoadedIs
<1>t. DocTypeOK /\ FeaturesCounted BY DEF DocInv, DocFiles
<1>1. CASE row[d] = NoDoc BY <1>1, <1>0, <1>a, DocFailsStep
<1>2. CASE row[d] # NoDoc
  <2>0. row[d] \in Row BY <1>2, <1>b
  <2>1. on \in BOOLEAN OBVIOUS
  <2>2. /\ x \in Row /\ x.key = row[d].key /\ x.open = row[d].open /\ x.status = row[d].status
        /\ x.hits = row[d].hits /\ x.secureHits = row[d].secureHits /\ x.ver = row[d].ver
        /\ x.featured = IF changed THEN on ELSE row[d].featured
    <3> HIDE DEF changed, on
    <3> QED BY <2>0, <2>1 DEF Row
  <2>3. row' = [row EXCEPT ![d] = x]
    <3>1. CASE changed BY <1>2, <1>a, <3>1
    <3>2. CASE ~changed BY <1>2, <1>a, <1>b, <1>t, <3>2 DEF DocTypeOK
    <3> QED BY <3>1, <3>2
  <2> HIDE DEF x, changed
  <2>4. RowIs(d, x) BY <1>b, <1>t, <2>2, <2>3, RowBecomes
  <2>5. job' \in [Request -> Job] /\ DocWent(r, "done", "ok")
    BY <1>2, <1>a, <1>t, DocFinishIs DEF Outcome
  <2>6. Stands(r)' BY <2>5 DEF Stands, DocWent, Active
  <2>7. (x.featured => row[d].featured) \/ FeaturesCounted'
    <3>1. CASE ~on BY <2>2, <3>1
    <3>2. CASE on
      <4>1. r \in HaveCounted /\ HaveCounted' = HaveCounted \ {r} /\ HaveCounted \in SUBSET Request
        BY <1>a, <2>5, <3>2 DEF HaveCounted, DocWent, OthersStay
      <4>2. Featured' \subseteq Featured \cup {d} /\ Featured \in SUBSET Doc
        BY <2>4 DEF Featured, Present, RowIs
      <4>3. DocGrows BY <1>0, <2>5, DocWentGrows
      <4>4. /\ Cardinality(Rushed) \in Nat /\ Cardinality(Rushed') \in Nat
            /\ Cardinality(Rushed) =< Cardinality(Rushed')
        BY <1>t, <4>3, RushedGrows
      <4> HIDE DEF HaveCounted, Featured, Rushed
      <4>5. /\ Cardinality(HaveCounted) \in Nat /\ Cardinality(HaveCounted') \in Nat
            /\ Cardinality(HaveCounted') = Cardinality(HaveCounted) - 1
        <5>1. IsFiniteSet(HaveCounted) /\ Cardinality(HaveCounted) \in Nat BY <4>1, RequestsFinite
        <5>2. IsFiniteSet(HaveCounted') /\ Cardinality(HaveCounted') = Cardinality(HaveCounted) - 1
          BY <4>1, <5>1, FS_RemoveElement
        <5> QED BY <5>1, <5>2, FS_CardinalityType
      <4>6. /\ Cardinality(Featured) \in Nat /\ Cardinality(Featured') \in Nat
            /\ Cardinality(Featured') =< Cardinality(Featured) + 1
        <5>1. IsFiniteSet(Featured) /\ Cardinality(Featured) \in Nat BY <4>2, DocsFinite
        <5>2. IsFiniteSet(Featured \cup {d}) /\ Cardinality(Featured \cup {d}) =< Cardinality(Featured) + 1
          <6>1. /\ IsFiniteSet(Featured \cup {d})
                /\ Cardinality(Featured \cup {d}) = IF d \in Featured THEN Cardinality(Featured)
                                                    ELSE Cardinality(Featured) + 1
            BY <5>1, FS_AddElement
          <6> QED BY <5>1, <6>1
        <5>3. /\ Cardinality(Featured \cup {d}) \in Nat /\ Cardinality(Featured') \in Nat
              /\ Cardinality(Featured') =< Cardinality(Featured \cup {d})
          <6>1. Featured \cup {d} \in SUBSET Doc BY <1>b, <4>2
          <6> QED BY <6>1, <4>2, DocsFinite
        <5> QED BY <5>1, <5>2, <5>3
      <4>7. FeatureLimit \in Nat BY LimitAssumption
      <4> QED BY <1>t, <4>4, <4>5, <4>6, <4>7 DEF FeaturesCounted
    <3> QED BY <3>1, <3>2
  <2>8. job[r].at # "second" BY <1>a
  <2> HIDE DEF PartedBy, Stands, Agrees
  <2> QED BY <1>0, <1>2, <1>a, <1>b, <2>2, <2>4, <2>5, <2>6, <2>7, <2>8, DocEdit
<1> QED BY <1>1, <1>2

\* A download that ends is one more done.
LEMMA OneMoreDone ==
  ASSUME NEW r \in Request, DocWent(r, "done", "ok") \/ DocWent(r, "done", "failed"),
         Active(job[r]), NEW ops, job[r].op \in ops, "none" \notin ops, "post" \notin ops,
         NEW d, d = job[r].doc
  PROVE  /\ Cardinality(Done(d, ops)) \in Nat /\ Cardinality(Done(d, ops)') \in Nat
         /\ Cardinality(Done(d, ops)) + 1 =< Cardinality(Done(d, ops)')
<1>1. DocGrows BY DocWentGrows
<1>2. r \in Done(d, ops)' BY DEF Done, DocWent, DocSame
<1>3. r \notin Done(d, ops) BY DEF Done, Active
<1>4. Done(d, ops) \subseteq Done(d, ops)' BY <1>1, DoneGrows
<1>5. Done(d, ops)' \in SUBSET Request BY DEF Done
<1> HIDE DEF Done
<1>6. Done(d, ops) \cup {r} \subseteq Done(d, ops)' /\ Done(d, ops) \subseteq Done(d, ops)'
  BY <1>2, <1>4
<1>7. /\ Cardinality(Done(d, ops) \cup {r}) =< Cardinality(Done(d, ops)')
      /\ Cardinality(Done(d, ops)') \in Nat
      /\ IsFiniteSet(Done(d, ops)) /\ Cardinality(Done(d, ops)) \in Nat
  BY <1>5, <1>6, RequestsFinite
<1>8. Cardinality(Done(d, ops) \cup {r}) = Cardinality(Done(d, ops)) + 1
  BY <1>3, <1>7, FS_AddElement
<1> QED BY <1>7, <1>8

LEMMA CountHitStep ==
  ASSUME DocInv, NEW r \in Request, CountHit(r)
  PROVE  DocInv'
<1> PICK d : d = job[r].doc OBVIOUS
<1>a. /\ job[r].op = "download" /\ job[r].at = "loaded" /\ bucket' = bucket
      /\ row' = IF row[d] = NoDoc THEN row ELSE [row EXCEPT ![d].hits = job[r].copy.hits + 1]
  BY DEF CountHit
<1>o. PICK out \in {"ok", "failed"} : Finish(r, out) BY DEF CountHit, Streamed
<1>0. job[r].op \in LoadOps /\ Active(job[r]) /\ job[r].op \notin {"none", "post"} \cup Turns
  BY <1>a DEF LoadOps, DocOp, Active, Turns
<1>b. /\ d \in Doc /\ job[r].copy \in Row /\ row[d] \in Row \cup {NoDoc}
  BY <1>0, LoadedIs
<1>t. DocTypeOK /\ HitsCounted BY DEF DocInv, DocFiles
<1>1. CASE row[d] = NoDoc
  <2>1. job[r].at # "second" /\ row' = row BY <1>1, <1>a
  <2> QED BY <1>0, <1>a, <1>o, <2>1, DocFailsStep
<1>2. CASE row[d] # NoDoc
  <2> PICK hits : hits = job[r].copy.hits + 1 OBVIOUS
  <2> PICK x : x = [row[d] EXCEPT !.hits = hits] OBVIOUS
  <2>0. row[d] \in Row BY <1>2, <1>b
  <2>1. hits \in Nat BY <1>b DEF Row
  <2>2. /\ x \in Row /\ x.key = row[d].key /\ x.open = row[d].open /\ x.status = row[d].status
        /\ x.hits = hits /\ x.secureHits = row[d].secureHits /\ x.ver = row[d].ver
        /\ x.featured = row[d].featured
    BY <2>0, <2>1 DEF Row
  <2>3. row' = [row EXCEPT ![d] = x]
    <3>1. row \in [Doc -> Row \cup {NoDoc}] BY <1>t DEF DocTypeOK
    <3> QED BY <1>2, <1>a, <1>b, <3>1
  <2>4. RowIs(d, x) BY <1>b, <1>t, <2>2, <2>3, RowBecomes
  <2>5. job' \in [Request -> Job] /\ DocWent(r, "done", out)
    BY <1>o, <1>t, DocFinishIs DEF Outcome
  <2>6. Stands(r)' BY <2>5 DEF Stands, DocWent, Active
  <2>7. HitsOf(x, d)'
    <3>1. /\ Cardinality(Done(d, {"download"})) \in Nat /\ Cardinality(Done(d, {"download"})') \in Nat
          /\ Cardinality(Done(d, {"download"})) + 1 =< Cardinality(Done(d, {"download"})')
      BY <1>0, <1>a, <2>5, OneMoreDone
    <3>2. job[r].copy.hits \in Nat /\ job[r].copy.hits =< Cardinality(Done(d, {"download"}))
      BY <1>a, <1>b, <1>t DEF HitsCounted, Row
    <3>3. hits =< Cardinality(Done(d, {"download"})') BY <3>1, <3>2
    <3>4. HitsOf(row[d], d) BY <1>2, <1>b, <1>t DEF HitsCounted, HitsOf
    <3> PICK y \in Row : y = row[d] BY <2>0
    <3>5. DocGrows BY <1>0, <2>5, DocWentGrows
    <3>6. HitsOf(y, d)' BY <3>4, <3>5, HitsOfStays
    <3> QED BY <2>2, <3>3, <3>6 DEF HitsOf
  <2>8. job[r].at # "second" BY <1>a
  <2> HIDE DEF PartedBy, Stands, Agrees, HitsOf
  <2> QED BY <1>0, <1>2, <1>a, <1>b, <2>2, <2>4, <2>5, <2>6, <2>7, <2>8, DocEdit
<1> QED BY <1>1, <1>2

LEMMA CountSecureStep ==
  ASSUME DocInv, NEW r \in Request, NEW op \in {"secureDownload", "open"}, CountSecure(r, op)
  PROVE  DocInv'
<1> PICK d : d = job[r].doc OBVIOUS
<1>a. /\ job[r].op = op /\ job[r].at = "loaded" /\ bucket' = bucket
      /\ row' = IF row[d] = NoDoc THEN row ELSE [row EXCEPT ![d].secureHits = job[r].copy.secureHits + 1]
  BY DEF CountSecure
<1>o. PICK out \in {"ok", "failed"} : Finish(r, out) BY DEF CountSecure, Streamed
<1>0. job[r].op \in LoadOps /\ Active(job[r]) /\ job[r].op \notin {"none", "post"} \cup Turns
  BY <1>a DEF LoadOps, DocOp, Active, Turns
<1>b. /\ d \in Doc /\ job[r].copy \in Row /\ row[d] \in Row \cup {NoDoc}
  BY <1>0, LoadedIs
<1>t. DocTypeOK /\ HitsCounted BY DEF DocInv, DocFiles
<1>1. CASE row[d] = NoDoc
  <2>1. job[r].at # "second" /\ row' = row BY <1>1, <1>a
  <2> QED BY <1>0, <1>a, <1>o, <2>1, DocFailsStep
<1>2. CASE row[d] # NoDoc
  <2> PICK hits : hits = job[r].copy.secureHits + 1 OBVIOUS
  <2> PICK x : x = [row[d] EXCEPT !.secureHits = hits] OBVIOUS
  <2>0. row[d] \in Row BY <1>2, <1>b
  <2>1. hits \in Nat BY <1>b DEF Row
  <2>2. /\ x \in Row /\ x.key = row[d].key /\ x.open = row[d].open /\ x.status = row[d].status
        /\ x.secureHits = hits /\ x.hits = row[d].hits /\ x.ver = row[d].ver
        /\ x.featured = row[d].featured
    BY <2>0, <2>1 DEF Row
  <2>3. row' = [row EXCEPT ![d] = x]
    <3>1. row \in [Doc -> Row \cup {NoDoc}] BY <1>t DEF DocTypeOK
    <3> QED BY <1>2, <1>a, <1>b, <3>1
  <2>4. RowIs(d, x) BY <1>b, <1>t, <2>2, <2>3, RowBecomes
  <2>5. job' \in [Request -> Job] /\ DocWent(r, "done", out)
    BY <1>o, <1>t, DocFinishIs DEF Outcome
  <2>6. Stands(r)' BY <2>5 DEF Stands, DocWent, Active
  <2>7. HitsOf(x, d)'
    <3>1. /\ Cardinality(Done(d, {"secureDownload", "open"})) \in Nat /\ Cardinality(Done(d, {"secureDownload", "open"})') \in Nat
          /\ Cardinality(Done(d, {"secureDownload", "open"})) + 1 =< Cardinality(Done(d, {"secureDownload", "open"})')
      BY <1>0, <1>a, <2>5, OneMoreDone
    <3>2. job[r].copy.secureHits \in Nat /\ job[r].copy.secureHits =< Cardinality(Done(d, {"secureDownload", "open"}))
      BY <1>a, <1>b, <1>t DEF HitsCounted, Row
    <3>3. hits =< Cardinality(Done(d, {"secureDownload", "open"})') BY <3>1, <3>2
    <3>4. HitsOf(row[d], d) BY <1>2, <1>b, <1>t DEF HitsCounted, HitsOf
    <3> PICK y \in Row : y = row[d] BY <2>0
    <3>5. DocGrows BY <1>0, <2>5, DocWentGrows
    <3>6. HitsOf(y, d)' BY <3>4, <3>5, HitsOfStays
    <3> QED BY <2>2, <3>3, <3>6 DEF HitsOf
  <2>8. job[r].at # "second" BY <1>a
  <2> HIDE DEF PartedBy, Stands, Agrees, HitsOf
  <2> QED BY <1>0, <1>2, <1>a, <1>b, <2>2, <2>4, <2>5, <2>6, <2>7, <2>8, DocEdit
<1> QED BY <1>1, <1>2

LEMMA DeleteObjectStep ==
  ASSUME DocInv, NEW r \in Request, DeleteObject(r)
  PROVE  DocInv'
<1>a. job[r].op = "delete" /\ job[r].at = "unlink" /\ row' = row
  BY DEF DeleteObject
<1>0. job[r].op \in LoadOps /\ Active(job[r]) BY <1>a DEF LoadOps, DocOp, Active
<1>1. job[r].key \in Keys BY <1>a, <1>0, LoadedIs DEF DocOrdered, LoadHolds
<1>2. DeletedKey(job[r].key) \notin bucket
  BY <1>1, KeysAreNot DEF DocInv, DocFiles, DocTypeOK
<1>3. PICK out \in {"ok", "failed"} : Finish(r, out) BY DEF DeleteObject
<1>4. bucket' = bucket BY <1>2 DEF DeleteObject
<1> QED BY <1>a, <1>0, <1>3, <1>4, DocFailsStep

LEMMA PostRollbackStep ==
  ASSUME DocInv, NEW r \in Request, PostRollback(r)
  PROVE  DocInv'
<1> PICK key : key = job[r].key OBVIOUS
<1>a. job[r].op = "post" /\ job[r].at = "unlink" /\ row' = row /\ bucket' = bucket \ {key}
  BY DEF PostRollback
<1>f. DocFiles BY DEF DocInv
<1>0. Active(job[r]) /\ DocOrdered(job[r]) /\ job[r].doc \in Doc /\ key \in FileKeys
  BY <1>a, <1>f DEF Active, DocFiles, DocsInOrder, DocOrdered, PostHolds
<1>1. job' \in [Request -> Job] /\ DocWent(r, "done", "failed")
  BY <1>f, DocFinishIs DEF PostRollback, DocFiles, Outcome
<1>2. OthersStay(r) /\ DocSame(r) /\ job'[r].at = "done" BY <1>1 DEF DocWent
<1>s. \A q \in Request : DocSame(q) BY <1>2 DEF OthersStay, DocSame
<1>3. DocTypeOK' /\ DocsInOrder' /\ DocMeet' /\ PostsApart' /\ NoLateRow' /\ KeysOfPosts' /\ KeysOnce'
  <2>1. DocOrdered(job'[r])
    BY <1>a, <1>0, <1>1 DEF DocWent, DocOrdered, DocSame, StageOfOp, PostHolds, Active, LoadOps
  <2>2. KeysKept BY <1>a DEF KeysKept
  <2>3. row' \in [Doc -> Row \cup {NoDoc}] /\ bucket' \subseteq Keys
    BY <1>a, <1>f DEF DocFiles, DocTypeOK
  <2> QED BY <1>f, <1>0, <1>1, <2>1, <2>2, <2>3, DocRecordsOn DEF DocStage
<1>4. RollsBack'
  <2> SUFFICES ASSUME NEW q \in Request, job'[q].op = "post", job'[q].at \in {"save", "check", "unlink"}
               PROVE  /\ job'[q].key \in bucket'
                      /\ job'[q].at = "unlink" /\ row[job'[q].doc] # NoDoc => job'[q].late
    BY <1>a DEF RollsBack
  <2>1. q # r /\ job'[q] = job[q] BY <1>2 DEF OthersStay
  <2>2. job[q].key # key BY <1>a, <1>f, <2>1 DEF DocFiles, PostsApart
  <2> QED BY <1>a, <1>f, <2>1, <2>2 DEF DocFiles, RollsBack
<1>5. DepositsStay' BY <1>a, <1>0, <1>f, KeysAreNot DEF DocFiles, DepositsStay
<1>6. RowsHaveFiles'
  <2> SUFFICES ASSUME NEW d \in Doc, row[d] # NoDoc
               PROVE  \/ row[d].key \in bucket'
                      \/ \E q \in Request : job'[q].late /\ job'[q].doc = d /\ job'[q].key = row[d].key
    BY <1>a DEF RowsHaveFiles, Present
  <2>1. CASE row[d].key = key
    <3>1. job[r].doc = d BY <1>a, <1>f, <2>1 DEF DocFiles, KeysOfPosts
    <3>2. job[r].late BY <1>a, <1>f, <3>1 DEF DocFiles, RollsBack
    <3> QED BY <1>s, <2>1, <3>1, <3>2 DEF DocSame
  <2>2. CASE row[d].key # key
    <3>1. \/ row[d].key \in bucket
          \/ \E q \in Request : job[q].late /\ job[q].doc = d /\ job[q].key = row[d].key
      BY <1>f DEF DocFiles, RowsHaveFiles, Present
    <3> QED BY <1>a, <1>s, <2>2, <3>1 DEF DocSame
  <2> QED BY <2>1, <2>2
<1>7. FilesAreOwned'
  <2> SUFFICES ASSUME NEW o \in bucket \ (Held \cup DepositKeys), o # key
               PROVE  \E q \in Request :
                        /\ job'[q].key = o
                        /\ job'[q].op = "delete" \/ Active(job'[q]) \/ job'[q].out \in {"left", "stopped"}
    BY <1>a DEF FilesAreOwned, DepositKeys, Held, Present
  <2>1. PICK q \in Request :
          /\ job[q].key = o
          /\ job[q].op = "delete" \/ Active(job[q]) \/ job[q].out \in {"left", "stopped"}
    BY <1>f DEF DocFiles, FilesAreOwned, DepositKeys
  <2>2. q # r /\ job'[q] = job[q] BY <1>2, <2>1 DEF OthersStay
  <2> QED BY <2>1, <2>2
<1>8. CopyStands' /\ StatusesAgree' /\ FeaturesCounted' /\ HitsCounted'
  BY <1>a, <1>0, <1>1, DocValuesOn DEF Turns
<1> QED BY <1>3, <1>4, <1>5, <1>6, <1>7, <1>8 DEF DocInv, DocFiles

\* A row that goes, or one that is new: it agrees, is not featured, and nobody
\* counted a hit of it.
Blank(x) == Agrees(x) /\ ~x.featured /\ x.hits = 0 /\ x.secureHits = 0

LEMMA BlankValues ==
  ASSUME DocInv, DocGrows, NEW r \in Request, OthersStay(r), job[r].op \notin Turns \cup {"none"},
         job'[r].at \notin {"loaded", "counted", "second"},
         NEW d \in Doc, NEW x \in Row \cup {NoDoc}, x # NoDoc => Blank(x), RowIs(d, x),
         \A q \in Request : q # r => Stands(q)'
  PROVE  CopyStands' /\ StatusesAgree' /\ FeaturesCounted' /\ HitsCounted'
<1>0. DocFiles /\ DocTypeOK /\ CopyStands /\ StatusesAgree /\ FeaturesCounted /\ HitsCounted
  BY DEF DocInv, DocFiles
<1>3. row'[d] = x /\ \A e \in Doc : e # d => row'[e] = row[e] BY DEF RowIs
<1>4. CopyStands'
  <2>1. Stands(r)' BY DEF Stands, DocGrows
  <2> QED BY <2>1 DEF CopyStands
<1>5. StatusesAgree'
  <2>1. \A q \in Request : job[q].op \in Turns => job'[q] = job[q] BY DEF OthersStay
  <2>2. \A e \in Doc : row'[e] # NoDoc =>
           \/ Agrees(row'[e])
           \/ row[e] # NoDoc /\ row'[e].status = row[e].status /\ row'[e].open = row[e].open
    BY <1>3 DEF Blank
  <2> HIDE DEF PartedBy, Agrees
  <2> QED BY <1>0, <2>1, <2>2, AgreeStays
<1>6. FeaturesCounted'
  <2>1. Featured' \subseteq Featured BY <1>3 DEF Featured, Present, Blank
  <2>2. HaveCounted' \subseteq HaveCounted BY DEF HaveCounted, OthersStay
  <2> QED BY <1>0, <2>1, <2>2, FeaturesStay
<1>7. HitsCounted'
  <2>1. \A q \in Request : job'[q].at = "loaded" => job'[q] = job[q]
    BY DEF OthersStay
  <2>2. \A e \in Doc : row'[e] # NoDoc =>
           \/ row'[e].hits = 0 /\ row'[e].secureHits = 0
           \/ /\ row[e] # NoDoc
              /\ row'[e].hits = row[e].hits /\ row'[e].secureHits = row[e].secureHits
    BY <1>3 DEF Blank
  <2> QED BY <1>0, <2>1, <2>2, HitsStay
<1> QED BY <1>4, <1>5, <1>6, <1>7

\* A publish or unpublish of a document that is not the one written.
LEMMA StandsElse ==
  ASSUME DocFiles, DocGrows, CopyStands, NEW q \in Request, job'[q] = job[q],
         row'[job[q].doc] = row[job[q].doc] \/ job[q].op \notin Turns \/ ~Active(job[q])
  PROVE  Stands(q)'
<1>1. CASE job[q].op \notin Turns \/ ~Active(job[q]) BY <1>1 DEF Stands
<1>2. CASE row'[job[q].doc] = row[job[q].doc]
  BY <1>2, StandsStays DEF CopyStands, DocSame
<1> QED BY <1>1, <1>2

LEMMA DeleteRowStep ==
  ASSUME DocInv, NEW r \in Request, DeleteRow(r)
  PROVE  DocInv'
<1> PICK d : d = job[r].doc OBVIOUS
<1>a. /\ job[r].op = "delete" /\ job[r].at = "loaded" /\ bucket' = bucket
      /\ row' = [row EXCEPT ![d] = NoDoc]
      /\ row[d] = NoDoc => Finish(r, "failed")
      /\ row[d] # NoDoc => job' = [job EXCEPT ![r].at = "unlink", ![r].key = row[d].key]
  BY DEF DeleteRow
<1>0. job[r].op \in LoadOps /\ Active(job[r]) /\ job[r].op \notin {"none", "post"} \cup Turns
  BY <1>a DEF LoadOps, DocOp, Active, Turns
<1>b. /\ d \in Doc /\ job[r].copy \in Row /\ row[d] \in Row \cup {NoDoc} /\ job[r].out = "none"
      /\ DocOrdered(job[r]) /\ job[r].key = NoDoc
  BY <1>a, <1>0, LoadedIs DEF DocOrdered, LoadHolds
<1>f. DocFiles /\ DocTypeOK /\ CopyStands BY DEF DocInv, DocFiles
<1>1. CASE row[d] = NoDoc
  <2>1. row' = row BY <1>1, <1>a, <1>f DEF DocTypeOK
  <2> QED BY <1>0, <1>1, <1>a, <2>1, DocFailsStep
<1>2. CASE row[d] # NoDoc
  <2> PICK key \in Keys : key = row[d].key
    <3>1. row[d] \in Row BY <1>2, <1>b
    <3> QED BY <3>1 DEF Row
  <2> DEFINE new == [job[r] EXCEPT !.at = "unlink", !.key = key]
  <2>1. job[r] \in Job BY <1>f DEF DocTypeOK
  <2>2. /\ new \in Job /\ new.op = job[r].op /\ new.doc = d /\ new.copy = job[r].copy /\ new.key = key
        /\ new.wrote = job[r].wrote /\ new.late = job[r].late /\ new.met = job[r].met
        /\ new.out = job[r].out /\ new.at = "unlink"
    BY <2>1 DEF Job
  <2>3. job' = [job EXCEPT ![r] = new]
    <3>1. job \in [Request -> Job] BY <1>f DEF DocTypeOK
    <3> QED BY <1>2, <1>a, <3>1
  <2> HIDE DEF new
  <2>4. OthersStay(r) /\ job'[r] = new /\ job' \in [Request -> Job]
    BY <1>f, <2>2, <2>3 DEF OthersStay, DocTypeOK
  <2>g. DocGrows BY <1>a, <2>2, <2>4 DEF OthersStay, DocGrows
  <2>o. \A q \in Request : q # r => job'[q] = job[q] BY <2>4 DEF OthersStay
  <2>5. RowIs(d, NoDoc) BY <1>a, <1>b, <1>f, RowBecomes
  <2>6. \A e \in Doc : row'[e] # NoDoc => e # d /\ row'[e] = row[e] BY <2>5 DEF RowIs
  <2>7. DocTypeOK' BY <1>a, <1>f, <2>4, <2>5 DEF DocTypeOK, RowIs
  <2>8. DocsInOrder'
    <3>1. DocOrdered(job'[r])
      BY <1>a, <1>b, <2>2, <2>4 DEF DocOrdered, StageOfOp, LoadHolds, Active, LoadOps
    <3> QED BY <1>f, <2>o, <3>1 DEF DocFiles, DocsInOrder
  <2>9. DocMeet' BY <1>0, <1>f, <2>2, <2>4, DocMeetOn DEF DocFiles
  <2>10. PostsApart' BY <1>a, <1>f, <2>o, <2>2, <2>4 DEF DocFiles, PostsApart
  <2>11. NoLateRow'
    <3>1. \A q \in Request : /\ job'[q].wrote = job[q].wrote /\ job'[q].doc = job[q].doc
                             /\ job'[q].op = job[q].op /\ job'[q].copy = job[q].copy
      BY <2>o, <2>2, <2>4
    <3>2. \A q \in Request : job[q].wrote # NoDoc => job[q].doc \in Doc
      BY <1>f DEF DocFiles, DocsInOrder, DocOrdered, PostHolds
    <3> QED BY <1>f, <2>6, <3>1, <3>2 DEF DocFiles, NoLateRow
  <2>12. KeysOfPosts' BY <1>a, <1>f, <2>o, <2>2, <2>4, <2>6 DEF DocFiles, KeysOfPosts
  <2>13. RollsBack'
    <3>1. \A q \in Request : job[q].op = "post" /\ job[q].at = "unlink" => job[q].doc \in Doc
      BY <1>f DEF DocFiles, DocsInOrder, DocOrdered, PostHolds
    <3> QED BY <1>a, <1>f, <2>o, <2>2, <2>4, <2>6, <3>1 DEF DocFiles, RollsBack
  <2>14. DepositsStay' BY <1>a, <1>f DEF DocFiles, DepositsStay
  <2>15. RowsHaveFiles'
    <3>1. ~job[r].late BY <1>a, <1>b DEF DocOrdered
    <3> QED BY <1>a, <1>f, <2>o, <2>6, <3>1 DEF DocFiles, RowsHaveFiles, Present
  <2>16. FilesAreOwned'
    <3> SUFFICES ASSUME NEW o \in bucket \ (Held' \cup DepositKeys)
                 PROVE  \E q \in Request :
                          /\ job'[q].key = o
                          /\ job'[q].op = "delete" \/ Active(job'[q]) \/ job'[q].out \in {"left", "stopped"}
      BY <1>a DEF FilesAreOwned, DepositKeys
    <3>1. CASE o = key BY <1>a, <2>2, <2>4, <3>1
    <3>2. CASE o # key
      <4>1. o \notin Held
        <5> SUFFICES ASSUME NEW e \in Doc, row[e] # NoDoc, o = row[e].key PROVE FALSE
          BY DEF Held, Present
        <5>1. e # d BY <3>2
        <5>2. row'[e] = row[e] BY <2>5, <5>1 DEF RowIs
        <5> QED BY <5>2 DEF Held, Present
      <4>2. PICK q \in Request :
              /\ job[q].key = o
              /\ job[q].op = "delete" \/ Active(job[q]) \/ job[q].out \in {"left", "stopped"}
        BY <1>f, <4>1 DEF DocFiles, FilesAreOwned, DepositKeys
      <4>3. q # r BY <1>b, <1>f, <4>2, KeysAreNot DEF DocTypeOK
      <4> QED BY <2>o, <4>2, <4>3
    <3> QED BY <3>1, <3>2
  <2>17. KeysOnce'
    <3>1. \A e1, e2 \in Doc : StoredTogether(e1, e2) => StoredTogether(e1, e2)'
      BY <1>f, <2>g, StoredTogetherStays
    <3>2. \A q \in Request : job[q].op = "stored" => job[q].doc \in Doc
      BY <1>f DEF DocFiles, DocsInOrder, DocOrdered, StoredHolds
    <3>3. ASSUME NEW e1 \in Doc, NEW e2 \in Doc, e1 # e2, row'[e1] # NoDoc, row'[e2] # NoDoc,
                 row'[e1].key = row'[e2].key
          PROVE  StoredTogether(e1, e2)'
      BY <1>f, <2>6, <3>1, <3>3 DEF DocFiles, KeysOnce
    <3>4. ASSUME NEW q \in Request, NEW e \in Doc, job'[q].at \in {"stat", "save"},
                 job'[q].op = "stored", row'[e] # NoDoc, row'[e].key = job'[q].key
          PROVE  StoredTogether(job[q].doc, e)' /\ job[q].doc = job'[q].doc
      <4>1. job'[q] = job[q] BY <2>o, <2>2, <2>4, <3>4
      <4> QED BY <1>f, <2>6, <3>1, <3>2, <3>4, <4>1 DEF DocFiles, KeysOnce
    <3> QED BY <3>3, <3>4 DEF KeysOnce, StoredTogether
  <2>18. CopyStands' /\ StatusesAgree' /\ FeaturesCounted' /\ HitsCounted'
    <3>1. \A q \in Request : q # r => Stands(q)'
      <4>1. \A e \in Doc : e # job[r].doc => row'[e] = row[e] BY <2>5 DEF RowIs
      <4>2. row'[job[r].doc] = NoDoc BY <2>5 DEF RowIs
      <4> HIDE DEF Stands
      <4> QED BY <1>0, <1>f, <2>g, <2>4, <4>1, <4>2, OthersStand
    <3>2. job'[r].at \notin {"loaded", "counted", "second"} BY <2>2, <2>4
    <3> HIDE DEF Stands
    <3> QED BY <1>0, <1>b, <2>g, <2>4, <2>5, <3>1, <3>2, BlankValues
  <2> QED BY <2>7, <2>8, <2>9, <2>10, <2>11, <2>12, <2>13, <2>14, <2>15, <2>16, <2>17, <2>18
          DEF DocInv, DocFiles
<1> QED BY <1>1, <1>2

\* A new row under the key of the request that saves it: of a post, whose _id
\* nobody else has, or of a registration.
Saves(r, d) ==
  \/ /\ job[r].op = "post"
     /\ \/ job[r].doc = d /\ job[r].out # "ok"
        \/ job[r].doc = NoDoc /\ \A q \in Request : job[q].doc # d
  \/ job[r].op = "stored" /\ job[r].at = "save" /\ job[r].doc = d

LEMMA DocInsert ==
  ASSUME DocInv, NEW r \in Request, NEW d \in Doc, NEW x \in Row, row[d] = NoDoc, RowIs(d, x),
         Blank(x), x.key = job[r].key, bucket' = bucket, Saves(r, d),
         job' \in [Request -> Job], OthersStay(r), DocOrdered(job'[r]),
         job'[r].op = job[r].op, job'[r].key = job[r].key, job'[r].copy = job[r].copy,
         job'[r].met = job[r].met, job'[r].doc = d, job'[r].wrote = NoDoc,
         Active(job'[r]) => Active(job[r]),
         job[r].at = "done" => job'[r].at = "done" /\ job'[r].out = job[r].out,
         job'[r].at \notin {"loaded", "counted", "second", "stat", "save"},
         x.key \in bucket \/ job'[r].late,
         job[r].op = "post" /\ job'[r].at \in {"check", "unlink"} =>
           job[r].key \in bucket /\ (job'[r].at = "unlink" => job'[r].late),
         \A q \in Request : q # r => Stands(q)'
  PROVE  DocInv'
<1>f. DocFiles /\ DocTypeOK BY DEF DocInv, DocFiles
<1>o. \A q \in Request : q # r => job'[q] = job[q] BY DEF OthersStay
<1>x. row'[d] = x /\ x # NoDoc /\ \A e \in Doc : e # d => row'[e] = row[e]
  BY DocAssumption DEF RowIs
<1>g. DocGrows BY <1>o DEF DocGrows, Saves
<1>e. \A e \in Doc : row[e] # NoDoc => e # d OBVIOUS
\* Whose document d is.
<1>m. \A q \in Request :
        /\ job[q].op = "post" /\ q # r /\ job[q].doc \in Doc /\ job[q].out # "ok" => job[q].doc # d
        /\ job[r].op = "post" /\ job[q].op = "post" /\ q # r => job[q].doc # d
        /\ job[r].op = "post" /\ job[q].op = "stored" /\ job'[r].out # "ok" => job[q].doc # d
  <2>1. d # NoDoc BY DocAssumption
  <2> QED BY <1>f, <2>1, DocAssumption DEF DocFiles, PostsApart, Saves
<1>k. /\ job[r].op = "post" => job[r].key \in FileKeys
      /\ job[r].op = "stored" => job[r].key \in DepositKeys
      /\ \A q \in Request : /\ job[q].op = "post" => job[q].key \in FileKeys
                            /\ job[q].op = "stored" => job[q].key \in DepositKeys /\ job[q].doc \in Doc
      /\ job[r].doc \in {d, NoDoc}
  BY <1>f DEF DocFiles, DocsInOrder, DocOrdered, PostHolds, StoredHolds, Saves
<1>p. job[r].op \in {"post", "stored"} BY DEF Saves
<1>1. DocTypeOK' BY <1>f DEF DocTypeOK, RowIs
<1>2. DocsInOrder' BY <1>f, <1>o DEF DocFiles, DocsInOrder
<1>3. DocMeet' BY <1>f, DocMeetOn DEF DocFiles
<1>4. PostsApart'
  <2> SUFFICES ASSUME NEW p \in Request, NEW q \in Request, job'[p].op = "post"
               PROVE  /\ job'[q].op = "post" /\ q # p => job'[q].key # job'[p].key
                      /\ job'[q].op = "post" /\ q # p /\ job'[p].doc # NoDoc => job'[q].doc # job'[p].doc
                      /\ job'[q].op = "stored" /\ job'[p].doc # NoDoc /\ job'[p].out # "ok"
                           => job'[q].doc # job'[p].doc
    BY DEF PostsApart
  <2>1. CASE p = r /\ q # r BY <1>f, <1>o, <1>m, <2>1 DEF DocFiles, PostsApart
  <2>2. CASE p = r /\ q = r BY <2>2
  <2>3. CASE p # r /\ q = r
    <3>1. job'[p] = job[p] /\ job[p].op = "post" BY <1>o, <2>3
    <3>2. job[r].op = "post" => job[p].doc # d BY <1>m, <2>3, <3>1
    <3>3. job[r].op = "stored" /\ job[p].doc # NoDoc /\ job[p].out # "ok" => job[p].doc # d
      BY <1>f, <3>1 DEF DocFiles, PostsApart, Saves
    <3> QED BY <1>f, <2>3, <3>1, <3>2, <3>3 DEF DocFiles, PostsApart
  <2>4. CASE p # r /\ q # r BY <1>f, <1>o, <2>4 DEF DocFiles, PostsApart
  <2> QED BY <2>1, <2>2, <2>3, <2>4
<1>5. NoLateRow'
  <2> SUFFICES ASSUME NEW p \in Request, job'[p].wrote # NoDoc
               PROVE  /\ row'[job'[p].doc] = NoDoc
                      /\ \A q \in Request : job'[q].op \in LoadOps /\ job'[q].doc = job'[p].doc
                                              => job'[q].copy = NoDoc
    BY DEF NoLateRow
  <2>1. p # r /\ job'[p] = job[p] BY <1>o
  <2>2. job[p].op = "post" /\ job[p].doc \in Doc /\ job[p].out # "ok"
    BY <1>f, <2>1 DEF DocFiles, DocsInOrder, DocOrdered, PostHolds
  <2>3. job[p].doc # d BY <1>m, <2>1, <2>2
  <2>4. row'[job[p].doc] = NoDoc BY <1>f, <1>x, <2>1, <2>2, <2>3 DEF DocFiles, NoLateRow
  <2>5. \A q \in Request : job'[q].op \in LoadOps => q # r /\ job'[q] = job[q]
    BY <1>o, <1>p DEF LoadOps
  <2> QED BY <1>f, <2>1, <2>4, <2>5 DEF DocFiles, NoLateRow
<1>6. KeysOfPosts'
  <2> SUFFICES ASSUME NEW p \in Request, job'[p].op = "post"
               PROVE  /\ \A e \in Doc : row'[e] # NoDoc /\ row'[e].key = job'[p].key => job'[p].doc = e
                      /\ job'[p].out # "ok" /\ job'[p].doc \in Doc /\ row'[job'[p].doc] # NoDoc
                           => row'[job'[p].doc].key = job'[p].key
    BY DEF KeysOfPosts
  <2>1. CASE p = r
    <3>1. ASSUME NEW e \in Doc, e # d, row[e] # NoDoc PROVE row[e].key # job[r].key
      BY <1>f, <1>k, <2>1, <3>1, DocAssumption DEF DocFiles, KeysOfPosts
    <3> QED BY <1>x, <2>1, <3>1
  <2>2. CASE p # r
    <3>1. job'[p] = job[p] /\ job[p].op = "post" BY <1>o, <2>2
    <3>2. x.key # job[p].key
      BY <1>f, <1>k, <1>p, <2>2, <3>1, KeysAreNot DEF DocFiles, PostsApart
    <3>3. job[p].out # "ok" /\ job[p].doc \in Doc => job[p].doc # d BY <1>m, <2>2, <3>1
    <3> QED BY <1>f, <1>x, <3>1, <3>2, <3>3 DEF DocFiles, KeysOfPosts
  <2> QED BY <2>1, <2>2
<1>7. RollsBack'
  <2> SUFFICES ASSUME NEW q \in Request, job'[q].op = "post", job'[q].at \in {"save", "check", "unlink"}
               PROVE  /\ job'[q].key \in bucket
                      /\ job'[q].at = "unlink" /\ row'[job'[q].doc] # NoDoc => job'[q].late
    BY DEF RollsBack
  <2>1. CASE q = r BY <2>1
  <2>2. CASE q # r
    <3>1. job'[q] = job[q] /\ Active(job[q]) BY <1>o, <2>2 DEF Active
    <3>2. job[q].out = "none" /\ (job[q].at = "unlink" => job[q].doc \in Doc)
      BY <1>f, <3>1 DEF DocFiles, DocsInOrder, DocOrdered, PostHolds
    <3>3. job[q].at = "unlink" => job[q].doc # d BY <1>m, <2>2, <3>1, <3>2
    <3> QED BY <1>f, <1>x, <3>1, <3>2, <3>3 DEF DocFiles, RollsBack
  <2> QED BY <2>1, <2>2
<1>8. DepositsStay' BY <1>f DEF DocFiles, DepositsStay
<1>9. RowsHaveFiles'
  <2> SUFFICES ASSUME NEW e \in Doc, row'[e] # NoDoc
               PROVE  \/ row'[e].key \in bucket
                      \/ \E q \in Request : job'[q].late /\ job'[q].doc = e /\ job'[q].key = row'[e].key
    BY DEF RowsHaveFiles, Present
  <2>1. CASE e = d BY <1>x, <2>1
  <2>2. CASE e # d
    <3>1. \/ row[e].key \in bucket
          \/ \E q \in Request : job[q].late /\ job[q].doc = e /\ job[q].key = row[e].key
      BY <1>f, <1>x, <2>2 DEF DocFiles, RowsHaveFiles, Present
    <3>2. job[r].doc # e BY <1>k, <2>2, DocAssumption
    <3> QED BY <1>o, <1>x, <2>2, <3>1, <3>2
  <2> QED BY <2>1, <2>2
<1>10. FilesAreOwned'
  <2> SUFFICES ASSUME NEW o \in bucket \ (Held' \cup DepositKeys)
               PROVE  \E q \in Request :
                        /\ job'[q].key = o
                        /\ job'[q].op = "delete" \/ Active(job'[q]) \/ job'[q].out \in {"left", "stopped"}
    BY DEF FilesAreOwned, DepositKeys
  <2>1. o # x.key BY <1>x DEF Held, Present
  <2>2. o \notin Held
    <3> SUFFICES ASSUME NEW e \in Doc, row[e] # NoDoc, o = row[e].key PROVE FALSE
      BY DEF Held, Present
    <3>1. row'[e] = row[e] BY <1>x
    <3> QED BY <3>1 DEF Held, Present
  <2>3. PICK q \in Request :
          /\ job[q].key = o
          /\ job[q].op = "delete" \/ Active(job[q]) \/ job[q].out \in {"left", "stopped"}
    BY <1>f, <2>2 DEF DocFiles, FilesAreOwned, DepositKeys
  <2>4. q # r BY <2>1, <2>3
  <2> QED BY <1>o, <2>3, <2>4
<1>11. KeysOnce'
  <2>1. \A e1, e2 \in Doc : StoredTogether(e1, e2) => StoredTogether(e1, e2)'
    BY <1>f, <1>g, StoredTogetherStays
  <2>2. \A e1, e2 \in Doc : StoredTogether(e1, e2) => StoredTogether(e2, e1)
    BY <1>f, StoredBothWays DEF DocFiles
  \* Another row under the key is a registration's that overlapped.
  <2>3. ASSUME NEW e \in Doc, e # d, row[e] # NoDoc, row[e].key = x.key PROVE StoredTogether(d, e)
    <3>1. job[r].op # "post"
      BY <1>f, <1>k, <2>3, DocAssumption DEF DocFiles, KeysOfPosts
    <3> QED BY <1>f, <2>3, <3>1 DEF DocFiles, KeysOnce, Saves
  <2>4. ASSUME NEW e1 \in Doc, NEW e2 \in Doc, e1 # e2, row'[e1] # NoDoc, row'[e2] # NoDoc,
               row'[e1].key = row'[e2].key
        PROVE  StoredTogether(e1, e2)'
    <3>1. CASE e1 = d BY <1>x, <2>1, <2>3, <2>4, <3>1
    <3>2. CASE e2 = d BY <1>x, <2>1, <2>2, <2>3, <2>4, <3>2
    <3>3. CASE e1 # d /\ e2 # d BY <1>f, <1>x, <2>1, <2>4, <3>3 DEF DocFiles, KeysOnce
    <3> QED BY <3>1, <3>2, <3>3
  <2>5. ASSUME NEW q \in Request, NEW e \in Doc, job'[q].at \in {"stat", "save"},
               job'[q].op = "stored", row'[e] # NoDoc, row'[e].key = job'[q].key
        PROVE  StoredTogether(job[q].doc, e)' /\ job[q].doc = job'[q].doc
    <3>0. q # r /\ job'[q] = job[q] BY <1>o, <2>5
    <3>1. CASE e # d BY <1>f, <1>k, <1>x, <2>1, <2>5, <3>0, <3>1 DEF DocFiles, KeysOnce
    <3>2. CASE e = d
      <4>1. x.key \in DepositKeys BY <1>k, <1>x, <2>5, <3>0, <3>2
      <4>2. job[r].op = "stored" /\ job[r].at = "save" /\ job[r].doc = d
        BY <1>k, <4>1, KeysAreNot DEF Saves
      <4>3. r \in job[q].met BY <1>f, <2>5, <3>0, <4>2 DEF DocFiles, DocMeet, Active
      <4>4. StoredTogether(job[q].doc, d) BY <2>5, <3>0, <4>2, <4>3 DEF StoredTogether
      <4> PICK y \in Doc : y = job[q].doc BY <1>k, <2>5, <3>0
      <4>5. StoredTogether(y, d)' BY <2>1, <4>4
      <4> QED BY <3>0, <3>2, <4>5 DEF StoredTogether
    <3> QED BY <3>1, <3>2
  <2> QED BY <2>4, <2>5 DEF KeysOnce, StoredTogether
<1>12. CopyStands' /\ StatusesAgree' /\ FeaturesCounted' /\ HitsCounted'
  <2>1. job[r].op \notin Turns \cup {"none"} BY <1>p DEF Turns
  <2> HIDE DEF Stands, Blank
  <2> QED BY <1>g, <2>1, BlankValues
<1> QED BY <1>1, <1>2, <1>3, <1>4, <1>5, <1>6, <1>7, <1>8, <1>9, <1>10, <1>11, <1>12
        DEF DocInv, DocFiles

LEMMA FreshIs ==
  ASSUME NEW key \in Keys, NEW status \in {"none", "Published"}, NEW shown \in BOOLEAN
  PROVE  LET x == Fresh(key, status, shown) IN
           /\ x \in Row /\ x # NoDoc /\ x.key = key /\ Blank(x)
           /\ x.status # "Rejected" /\ (x.status = "Published" => x.open)
<1> DEFINE open == shown \/ status = "Published"
           x == [key |-> key, open |-> open, status |-> status, featured |-> FALSE,
                 hits |-> 0, secureHits |-> 0, ver |-> 0]
<1>1. open \in BOOLEAN /\ status \in Status /\ status # "Rejected" BY DEF Status
<1>2. status = "Published" => open OBVIOUS
<1>3. x = Fresh(key, status, shown) BY DEF Fresh
<1> HIDE DEF open
<1>4. /\ x \in Row /\ x.key = key /\ x.status = status /\ x.open = open /\ ~x.featured
      /\ x.hits = 0 /\ x.secureHits = 0
  BY <1>1 DEF Row
<1> HIDE DEF x
<1>5. x # NoDoc BY <1>4, DocAssumption
<1> QED BY <1>1, <1>2, <1>3, <1>4, <1>5 DEF Blank, Agrees

LEMMA StoredSaveStep ==
  ASSUME DocInv, NEW r \in Request, StoredSave(r)
  PROVE  DocInv'
<1> PICK d : d = job[r].doc OBVIOUS
<1> DEFINE new == Fresh(job[r].key, "none", FALSE)
<1>a. /\ job[r].op = "stored" /\ job[r].at = "save" /\ bucket' = bucket
      /\ row[d] = NoDoc => row' = [row EXCEPT ![d] = new] /\ Finish(r, "ok")
      /\ row[d] # NoDoc => row' = row /\ Finish(r, "failed")
  BY DEF StoredSave
<1>f. DocFiles /\ DocTypeOK /\ CopyStands BY DEF DocInv, DocFiles
<1>0. Active(job[r]) /\ DocOrdered(job[r]) /\ d \in Doc /\ job[r].key \in DepositKeys
  BY <1>a, <1>f DEF Active, DocFiles, DocsInOrder, DocOrdered, StoredHolds
<1>1. CASE row[d] # NoDoc
  <2>1. job[r].op \notin {"none", "post"} /\ job[r].at # "second" BY <1>a
  <2> QED BY <1>0, <1>1, <1>a, <2>1, DocFailsStep
<1>2. CASE row[d] = NoDoc
  <2> PICK x : x = new OBVIOUS
  <2>1. x \in Row /\ x # NoDoc /\ x.key = job[r].key /\ Blank(x)
    BY <1>0, KeysAreNot, FreshIs
  <2> HIDE DEF new
  <2>2. RowIs(d, x) BY <1>0, <1>2, <1>a, <1>f, <2>1, RowBecomes
  <2>3. job' \in [Request -> Job] /\ DocWent(r, "done", "ok")
    BY <1>2, <1>a, <1>f, DocFinishIs DEF Outcome
  <2>4. OthersStay(r) /\ DocSame(r) /\ job'[r].met = job[r].met /\ job'[r].at = "done" /\ job'[r].out = "ok"
    BY <2>3 DEF DocWent
  <2>5. DocGrows BY <1>0, <2>3, DocWentGrows
  <2>6. \A q \in Request : q # r => Stands(q)'
    <3>1. \A e \in Doc : e # job[r].doc => row'[e] = row[e] BY <2>2 DEF RowIs
    <3>2. job[r].op \in {"publish", "unpublish", "put", "stored"} BY <1>a
    <3> HIDE DEF Stands
    <3> QED BY <1>0, <1>f, <2>4, <2>5, <3>1, <3>2, OthersStand
  <2>7. /\ job'[r].op = job[r].op /\ job'[r].key = job[r].key /\ job'[r].copy = job[r].copy
        /\ job'[r].doc = d /\ job'[r].wrote = NoDoc /\ ~Active(job'[r])
    BY <1>a, <1>0, <2>4 DEF DocSame, DocOrdered, Active
  <2>8. DocOrdered(job'[r])
    BY <1>a, <1>0, <2>4, <2>7 DEF DocOrdered, DocSame, StageOfOp, StoredHolds, Active, LoadOps
  <2>9. x.key \in bucket BY <1>0, <1>f, <2>1 DEF DocFiles, DepositsStay
  <2>10. Saves(r, d) BY <1>a DEF Saves
  <2> HIDE DEF Stands, Blank
  <2> QED BY <1>0, <1>2, <1>a, <2>1, <2>2, <2>3, <2>4, <2>6, <2>7, <2>8, <2>9, <2>10, DocInsert
<1> QED BY <1>1, <1>2

LEMMA LateSaveStep ==
  ASSUME DocInv, NEW r \in Request, LateSave(r)
  PROVE  DocInv'
<1> PICK d : d = job[r].doc OBVIOUS
<1> PICK x : x = job[r].wrote OBVIOUS
<1> PICK late \in BOOLEAN : late = (job[r].at # "check") OBVIOUS
<1>a. /\ job[r].op = "post" /\ job[r].at \in {"check", "unlink", "done"} /\ bucket' = bucket
      /\ x # NoDoc /\ row[d] = NoDoc /\ row' = [row EXCEPT ![d] = x]
      /\ job' = [job EXCEPT ![r].wrote = NoDoc, ![r].late = late]
  BY DEF LateSave
<1>f. DocFiles /\ DocTypeOK /\ CopyStands BY DEF DocInv, DocFiles
<1> DEFINE new == [job[r] EXCEPT !.wrote = NoDoc, !.late = late]
<1>1. job[r] \in Job BY <1>f DEF DocTypeOK
<1>2. /\ new \in Job /\ new.op = job[r].op /\ new.doc = job[r].doc /\ new.copy = job[r].copy
      /\ new.key = job[r].key /\ new.wrote = NoDoc /\ new.late = late /\ new.met = job[r].met
      /\ new.out = job[r].out /\ new.at = job[r].at
  BY <1>1 DEF Job
<1>3. job' = [job EXCEPT ![r] = new]
  <2>1. job \in [Request -> Job] BY <1>f DEF DocTypeOK
  <2> QED BY <1>a, <2>1
<1> HIDE DEF new
<1>4. OthersStay(r) /\ job'[r] = new /\ job' \in [Request -> Job]
  BY <1>f, <1>2, <1>3 DEF OthersStay, DocTypeOK
<1>5. /\ DocOrdered(job[r]) /\ d \in Doc /\ job[r].out # "ok" /\ x \in Row /\ x.key = job[r].key
      /\ job[r].key \in Keys
  BY <1>1, <1>a, <1>f, KeysAreNot DEF DocFiles, DocsInOrder, DocOrdered, PostHolds, Job
<1>6. Blank(x) BY <1>a, <1>5 DEF DocOrdered, PostHolds, Blank, Agrees
<1>7. RowIs(d, x) BY <1>a, <1>f, <1>5, RowBecomes
<1>8. DocOrdered(job'[r])
  BY <1>a, <1>2, <1>4, <1>5 DEF DocOrdered, StageOfOp, PostHolds, Active, LoadOps
<1>9. \A q \in Request : q # r => Stands(q)'
  <2> SUFFICES ASSUME NEW q \in Request, q # r PROVE Stands(q)'
    OBVIOUS
  <2>1. DocGrows BY <1>2, <1>4 DEF OthersStay, DocGrows
  <2>2. job'[q] = job[q] BY <1>4 DEF OthersStay
  <2>3. job[q].op \notin Turns \/ ~Active(job[q]) \/ row'[job[q].doc] = row[job[q].doc]
    <3> SUFFICES ASSUME job[q].op \in Turns, Active(job[q]) PROVE row'[job[q].doc] = row[job[q].doc]
      OBVIOUS
    <3>1. job[q].op \in LoadOps BY DEF Turns, LoadOps, DocOp
    <3>2. job[q].doc \in Doc /\ job[q].copy \in Row BY <3>1, LoadedIs
    <3>3. job[q].doc # d BY <1>a, <1>f, <3>1, <3>2, DocAssumption DEF DocFiles, NoLateRow
    <3> QED BY <1>7, <3>2, <3>3 DEF RowIs
  <2> QED BY <1>f, <2>1, <2>2, <2>3, StandsElse
<1>10. Saves(r, d) BY <1>a, <1>5 DEF Saves
<1>11. job'[r].at = "unlink" => job'[r].late BY <1>2, <1>4
<1>12. job[r].at \in {"check", "unlink"} => job[r].key \in bucket BY <1>a, <1>f DEF DocFiles, RollsBack
<1>13. x.key \in bucket \/ job'[r].late BY <1>a, <1>2, <1>4, <1>5, <1>12
<1>14. Active(job'[r]) => Active(job[r]) BY <1>2, <1>4 DEF Active
<1> HIDE DEF Stands, Blank
<1> QED BY <1>a, <1>2, <1>4, <1>5, <1>6, <1>7, <1>8, <1>9, <1>10, <1>11, <1>12, <1>13, <1>14, DocInsert

\* The save lands: with the answer, or with an error the handler looks into.
LEMMA PostLands ==
  ASSUME DocInv, NEW r \in Request, NEW d \in Doc, job[r].op = "post", job[r].at = "save",
         row[d] = NoDoc, \A q \in Request : job[q].doc # d, bucket' = bucket,
         NEW x \in Row, Blank(x), x.key = job[r].key, row' = [row EXCEPT ![d] = x],
         NEW new \in Job, job' = [job EXCEPT ![r] = new],
         new.op = job[r].op, new.doc = d, new.key = job[r].key, new.copy = job[r].copy,
         new.wrote = NoDoc, new.late = FALSE, new.met = job[r].met,
         \/ new.at = "done" /\ new.out = "ok"
         \/ new.at = "check" /\ new.out = "none"
  PROVE  DocInv'
<1>f. DocFiles /\ DocTypeOK /\ CopyStands BY DEF DocInv, DocFiles
<1>1. OthersStay(r) /\ job'[r] = new /\ job' \in [Request -> Job]
  BY <1>f DEF OthersStay, DocTypeOK
<1>2. Active(job[r]) /\ DocOrdered(job[r]) /\ job[r].doc = NoDoc /\ job[r].key \in bucket
  BY <1>f DEF Active, DocFiles, DocsInOrder, DocOrdered, PostHolds, RollsBack
<1>3. DocOrdered(job'[r])
  BY <1>1, <1>2 DEF DocOrdered, StageOfOp, PostHolds, Active, LoadOps
<1>4. RowIs(d, x) BY <1>f, RowBecomes
<1>5. \A q \in Request : q # r => Stands(q)'
  <2> SUFFICES ASSUME NEW q \in Request, q # r PROVE Stands(q)'
    OBVIOUS
  <2>1. DocGrows BY <1>1, <1>2 DEF OthersStay, DocGrows, Active
  <2>2. job'[q] = job[q] BY <1>1 DEF OthersStay
  <2>3. row'[job[q].doc] = row[job[q].doc] \/ job[q].op \notin Turns \/ ~Active(job[q])
    BY <1>4, LoadedIs DEF RowIs, LoadOps, Turns, DocOp
  <2> QED BY <1>f, <2>1, <2>2, <2>3, StandsElse
<1>6. Saves(r, d) BY <1>2 DEF Saves
<1> HIDE DEF Stands, Blank
<1> QED BY <1>1, <1>2, <1>3, <1>4, <1>5, <1>6, DocInsert

\* The save reports an error, and nothing has landed yet.
LEMMA PostFails ==
  ASSUME DocInv, NEW r \in Request, NEW d \in Doc, job[r].op = "post", job[r].at = "save",
         row[d] = NoDoc, \A q \in Request : job[q].doc # d, UNCHANGED <<row, bucket>>,
         NEW x \in Row \cup {NoDoc},
         x # NoDoc => /\ Blank(x) /\ x.key = job[r].key
                      /\ x.status # "Rejected" /\ (x.status = "Published" => x.open),
         NEW new \in Job, job' = [job EXCEPT ![r] = new],
         new.op = job[r].op, new.doc = d, new.key = job[r].key, new.copy = job[r].copy,
         new.wrote = x, new.late = FALSE, new.met = job[r].met, new.at = "check", new.out = "none"
  PROVE  DocInv'
<1>f. DocFiles /\ DocTypeOK /\ CopyStands BY DEF DocInv, DocFiles
<1>1. OthersStay(r) /\ job'[r] = new /\ job' \in [Request -> Job]
  BY <1>f DEF OthersStay, DocTypeOK
<1>o. \A q \in Request : q # r => job'[q] = job[q] BY <1>1 DEF OthersStay
<1>2. Active(job[r]) /\ DocOrdered(job[r]) /\ job[r].doc = NoDoc /\ job[r].key \in bucket
  BY <1>f DEF Active, DocFiles, DocsInOrder, DocOrdered, PostHolds, RollsBack
<1>d. d # NoDoc /\ NoDoc \notin Doc BY DocAssumption
<1>g. DocGrows BY <1>1, <1>2 DEF OthersStay, DocGrows, Active
<1>3. DocTypeOK' BY <1>1, <1>f DEF DocTypeOK
<1>4. DocsInOrder'
  <2>1. DocOrdered(job'[r])
    BY <1>1, <1>2 DEF DocOrdered, StageOfOp, PostHolds, Active, LoadOps, Blank
  <2> QED BY <1>f, <1>o, <2>1 DEF DocFiles, DocsInOrder
<1>5. DocMeet' BY <1>f, <1>1, <1>2, DocMeetOn DEF DocFiles
<1>6. PostsApart'
  <2> SUFFICES ASSUME NEW p \in Request, NEW q \in Request, job'[p].op = "post"
               PROVE  /\ job'[q].op = "post" /\ q # p => job'[q].key # job'[p].key
                      /\ job'[q].op = "post" /\ q # p /\ job'[p].doc # NoDoc => job'[q].doc # job'[p].doc
                      /\ job'[q].op = "stored" /\ job'[p].doc # NoDoc /\ job'[p].out # "ok"
                           => job'[q].doc # job'[p].doc
    BY DEF PostsApart
  <2>1. CASE p = r /\ q # r BY <1>f, <1>1, <1>o, <2>1 DEF DocFiles, PostsApart
  <2>2. CASE p = r /\ q = r BY <1>1, <2>2
  <2>3. CASE p # r /\ q = r BY <1>f, <1>1, <1>o, <2>3 DEF DocFiles, PostsApart
  <2>4. CASE p # r /\ q # r BY <1>f, <1>o, <2>4 DEF DocFiles, PostsApart
  <2> QED BY <2>1, <2>2, <2>3, <2>4
<1>7. NoLateRow' BY <1>f, <1>1, <1>o DEF DocFiles, NoLateRow, LoadOps
<1>8. KeysOfPosts'
  <2>1. \A e \in Doc : row[e] # NoDoc => row[e].key # job[r].key
    BY <1>f, <1>2, <1>d DEF DocFiles, KeysOfPosts
  <2> QED BY <1>f, <1>1, <1>o, <2>1 DEF DocFiles, KeysOfPosts
<1>9. RollsBack' BY <1>f, <1>1, <1>2, <1>o DEF DocFiles, RollsBack
<1>10. DepositsStay' BY <1>f DEF DocFiles, DepositsStay
<1>11. RowsHaveFiles'
  <2>1. \A q \in Request, e \in Doc : job[q].doc = e => q # r BY <1>2, <1>d
  <2> QED BY <1>f, <1>o, <2>1 DEF DocFiles, RowsHaveFiles, Present
<1>12. FilesAreOwned'
  <2> SUFFICES ASSUME NEW o \in bucket \ (Held \cup DepositKeys)
               PROVE  \E q \in Request :
                        /\ job'[q].key = o
                        /\ job'[q].op = "delete" \/ Active(job'[q]) \/ job'[q].out \in {"left", "stopped"}
    BY DEF FilesAreOwned, DepositKeys, Held, Present
  <2>1. PICK q \in Request :
          /\ job[q].key = o
          /\ job[q].op = "delete" \/ Active(job[q]) \/ job[q].out \in {"left", "stopped"}
    BY <1>f DEF DocFiles, FilesAreOwned, DepositKeys
  <2>2. CASE q = r BY <1>1, <2>1, <2>2 DEF Active
  <2>3. CASE q # r BY <1>o, <2>1, <2>3
  <2> QED BY <2>2, <2>3
<1>13. KeysOnce'
  <2>1. \A e1, e2 \in Doc : StoredTogether(e1, e2) => StoredTogether(e1, e2)'
    BY <1>f, <1>g, StoredTogetherStays
  <2>2. \A q \in Request : job[q].op = "stored" => job[q].doc \in Doc
    BY <1>f DEF DocFiles, DocsInOrder, DocOrdered, StoredHolds
  <2>3. \A e1, e2 \in Doc : e1 # e2 /\ row[e1] # NoDoc /\ row[e2] # NoDoc /\ row[e1].key = row[e2].key
                              => StoredTogether(e1, e2)'
    BY <1>f, <2>1 DEF DocFiles, KeysOnce
  <2>4. ASSUME NEW q \in Request, NEW e \in Doc, job'[q].at \in {"stat", "save"},
               job'[q].op = "stored", row[e] # NoDoc, row[e].key = job'[q].key
        PROVE  StoredTogether(job[q].doc, e)' /\ job[q].doc = job'[q].doc
    <3>1. q # r /\ job'[q] = job[q] BY <1>1, <1>o, <2>4
    <3> QED BY <1>f, <2>1, <2>2, <2>4, <3>1 DEF DocFiles, KeysOnce
  <2> QED BY <2>3, <2>4 DEF KeysOnce, StoredTogether
<1>14. CopyStands' /\ StatusesAgree' /\ FeaturesCounted' /\ HitsCounted'
  <2>1. RowIs(d, NoDoc) BY <1>f, RowRemains
  <2>2. \A q \in Request : q # r => Stands(q)'
    <3> SUFFICES ASSUME NEW q \in Request, q # r PROVE Stands(q)'
      OBVIOUS
    <3>1. job'[q] = job[q] /\ row'[job[q].doc] = row[job[q].doc] BY <1>o
    <3> QED BY <1>f, <1>g, <3>1, StandsElse
  <2>3. job[r].op \notin Turns \cup {"none"} BY DEF Turns
  <2>4. job'[r].at \notin {"loaded", "counted", "second"} BY <1>1
  <2> HIDE DEF Stands, Blank
  <2> QED BY <1>1, <1>g, <2>1, <2>2, <2>3, <2>4, BlankValues
<1> QED BY <1>3, <1>4, <1>5, <1>6, <1>7, <1>8, <1>9, <1>10, <1>11, <1>12, <1>13, <1>14
        DEF DocInv, DocFiles

LEMMA PostSaveStep ==
  ASSUME DocInv, NEW r \in Request, NEW d \in Doc, NEW status \in {"none", "Published"},
         NEW shown \in BOOLEAN, PostSave(r, d, status, shown)
  PROVE  DocInv'
<1> PICK x : x = Fresh(job[r].key, status, shown) OBVIOUS
<1>f. DocFiles /\ DocTypeOK BY DEF DocInv, DocFiles
<1>a. /\ job[r].op = "post" /\ job[r].at = "save" /\ bucket' = bucket
      /\ row[d] = NoDoc /\ \A q \in Request : job[q].doc # d
  BY DEF PostSave
<1>1. /\ job[r] \in Job /\ job[r].key \in Keys /\ job[r].out = "none" /\ ~job[r].late
      /\ job[r].wrote = NoDoc
  <2>1. job[r] \in Job BY <1>f DEF DocTypeOK
  <2>2. DocOrdered(job[r]) BY <1>f DEF DocFiles, DocsInOrder
  <2>3. PostHolds(job[r]) /\ job[r].out = "none" BY <1>a, <2>2 DEF DocOrdered, Active
  <2>4. job[r].key \in Keys BY <2>3 DEF PostHolds, FileKeys, Keys
  <2>5. job[r].doc = NoDoc /\ ~job[r].late BY <1>a, <2>3 DEF PostHolds
  <2>6. job[r].wrote = NoDoc BY <2>3, <2>5, DocAssumption DEF PostHolds
  <2> QED BY <2>1, <2>3, <2>4, <2>5, <2>6
<1>2. /\ x \in Row /\ x # NoDoc /\ x.key = job[r].key /\ Blank(x)
      /\ x.status # "Rejected" /\ (x.status = "Published" => x.open)
  BY <1>1, FreshIs
<1>3. job \in [Request -> Job] BY <1>f DEF DocTypeOK
<1>4. CASE /\ row' = [row EXCEPT ![d] = x]
           /\ job' = [job EXCEPT ![r] = Answered([job[r] EXCEPT !.doc = d], "ok")]
  <2>1. \E new \in Job :
          /\ job' = [job EXCEPT ![r] = new]
          /\ new.op = job[r].op /\ new.doc = d /\ new.key = job[r].key /\ new.copy = job[r].copy
          /\ new.wrote = NoDoc /\ new.late = FALSE /\ new.met = job[r].met
          /\ new.at = "done" /\ new.out = "ok"
    <3> DEFINE new == Answered([job[r] EXCEPT !.doc = d], "ok")
    <3>1. /\ new \in Job /\ new.op = job[r].op /\ new.doc = d /\ new.key = job[r].key
          /\ new.copy = job[r].copy /\ new.wrote = NoDoc /\ new.late = FALSE /\ new.met = job[r].met
          /\ new.at = "done" /\ new.out = "ok"
      BY <1>1 DEF Answered, Job, Outcome
    <3>2. job' = [job EXCEPT ![r] = new] BY <1>4
    <3> HIDE DEF new
    <3> QED BY <3>1, <3>2
  <2>2. PICK new \in Job :
          /\ job' = [job EXCEPT ![r] = new]
          /\ new.op = job[r].op /\ new.doc = d /\ new.key = job[r].key /\ new.copy = job[r].copy
          /\ new.wrote = NoDoc /\ new.late = FALSE /\ new.met = job[r].met
          /\ new.at = "done" /\ new.out = "ok"
    BY <2>1
  <2>3. row' = [row EXCEPT ![d] = x] BY <1>4
  <2>4. \/ new.at = "done" /\ new.out = "ok"
        \/ new.at = "check" /\ new.out = "none"
    BY <2>2
  <2> HIDE DEF Blank
  <2> QED BY <1>a, <1>2, <2>2, <2>3, <2>4, PostLands
<1>5. ASSUME NEW y \in {x, NoDoc}, job' = [job EXCEPT ![r].at = "check", ![r].doc = d, ![r].wrote = y]
      PROVE  \E new \in Job :
               /\ job' = [job EXCEPT ![r] = new]
               /\ new.op = job[r].op /\ new.doc = d /\ new.key = job[r].key /\ new.copy = job[r].copy
               /\ new.wrote = y /\ new.late = FALSE /\ new.met = job[r].met
               /\ new.at = "check" /\ new.out = "none"
  <2> DEFINE new == [job[r] EXCEPT !.at = "check", !.doc = d, !.wrote = y]
  <2>1. /\ new \in Job /\ new.op = job[r].op /\ new.doc = d /\ new.key = job[r].key
        /\ new.copy = job[r].copy /\ new.wrote = y /\ new.late = FALSE /\ new.met = job[r].met
        /\ new.at = "check" /\ new.out = "none"
    BY <1>1, <1>2 DEF Job
  <2>2. job' = [job EXCEPT ![r] = new] BY <1>3, <1>5
  <2> HIDE DEF new
  <2> QED BY <2>1, <2>2
<1>6. CASE job' = [job EXCEPT ![r].at = "check", ![r].doc = d] /\ row' \in {row, [row EXCEPT ![d] = x]}
  <2>1. job' = [job EXCEPT ![r].at = "check", ![r].doc = d, ![r].wrote = NoDoc]
    <3>1. [job[r] EXCEPT !.at = "check", !.doc = d]
            = [job[r] EXCEPT !.at = "check", !.doc = d, !.wrote = NoDoc]
      BY <1>1 DEF Job
    <3>2. job' = [job EXCEPT ![r] = [job[r] EXCEPT !.at = "check", !.doc = d]] BY <1>3, <1>6
    <3> QED BY <1>3, <3>1, <3>2
  <2>2. PICK new \in Job :
               /\ job' = [job EXCEPT ![r] = new]
               /\ new.op = job[r].op /\ new.doc = d /\ new.key = job[r].key /\ new.copy = job[r].copy
               /\ new.wrote = NoDoc /\ new.late = FALSE /\ new.met = job[r].met
               /\ new.at = "check" /\ new.out = "none"
    BY <1>5, <2>1
  <2> HIDE DEF Blank
  <2>3. CASE row' = row
    <3> PICK y \in Row \cup {NoDoc} : y = NoDoc OBVIOUS
    <3>1. new.wrote = y BY <2>2
    <3> QED BY <1>a, <2>2, <2>3, <3>1, PostFails
  <2>4. CASE row' = [row EXCEPT ![d] = x] BY <1>a, <1>2, <2>2, <2>4, PostLands
  <2> QED BY <1>6, <2>3, <2>4
<1>7. CASE row' = row /\ job' = [job EXCEPT ![r].at = "check", ![r].doc = d, ![r].wrote = x]
  <2>1. PICK new \in Job :
               /\ job' = [job EXCEPT ![r] = new]
               /\ new.op = job[r].op /\ new.doc = d /\ new.key = job[r].key /\ new.copy = job[r].copy
               /\ new.wrote = x /\ new.late = FALSE /\ new.met = job[r].met
               /\ new.at = "check" /\ new.out = "none"
    BY <1>5, <1>7
  <2>2. UNCHANGED <<row, bucket>> BY <1>7, <1>a
  <2>3. x \in Row \cup {NoDoc} BY <1>2
  <2>4. x # NoDoc => /\ Blank(x) /\ x.key = job[r].key
                     /\ x.status # "Rejected" /\ (x.status = "Published" => x.open)
    BY <1>2
  <2> HIDE DEF Blank
  <2> QED BY <1>a, <2>1, <2>2, <2>3, <2>4, PostFails
<1> QED BY <1>4, <1>6, <1>7 DEF PostSave

LEMMA DocInvInit == DocInit => DocInv
<1> SUFFICES ASSUME DocInit PROVE DocInv
  OBVIOUS
<1>0. \A r \in Request : job[r] = NewJob BY DEF DocInit
<1>1. \A d \in Doc : row[d] # NoDoc => row[d] \in Row /\ Blank(row[d])
  <2> TAKE d \in Doc
  <2> SUFFICES ASSUME row[d] # NoDoc PROVE row[d] \in Row /\ Blank(row[d])
    OBVIOUS
  <2> PICK x : x = row[d] OBVIOUS
  <2>1. \E k \in File, s \in {"none", "Published"} : x = Fresh(ObjectKey(k), s, FALSE)
    <3> DEFINE F(k, s) == Fresh(ObjectKey(k), s, FALSE)
    <3>1. row[d] \in {NoDoc} \cup {F(k, s) : k \in File, s \in {"none", "Published"}}
      BY DEF DocInit, Fresh, ObjectKey
    <3>2. \E k \in File, s \in {"none", "Published"} : x = F(k, s)
      <4> HIDE DEF F
      <4> QED BY <3>1
    <3> QED BY <3>2 DEF Fresh, ObjectKey
  <2>2. PICK k \in File, s \in {"none", "Published"} : x = Fresh(ObjectKey(k), s, FALSE)
    BY <2>1
  <2>3. ObjectKey(k) \in Keys BY DEF Keys
  <2>4. x \in Row /\ Blank(x)
    <3> HIDE DEF Fresh, Blank
    <3> QED BY <2>2, <2>3, FreshIs
  <2> HIDE DEF Blank
  <2> QED BY <2>4
<1>2. DocTypeOK
  <2>1. row \in [Doc -> Row \cup {NoDoc}] BY <1>1 DEF DocInit
  <2>2. bucket \subseteq Keys
    <3>1. \A d \in Doc : row[d] # NoDoc => row[d].key \in Keys BY <1>1 DEF Row
    <3> QED BY <3>1 DEF DocInit, Held, Present, Keys
  <2> QED BY <2>1, <2>2, NewJobIs DEF DocInit, DocTypeOK
<1>3. DocsInOrder BY <1>0, NewJobIs DEF DocsInOrder, DocOrdered, StageOfOp, Active, LoadOps
<1>4. DocMeet BY <1>0, NewJobIs DEF DocMeet, Active
<1>5. PostsApart /\ NoLateRow /\ KeysOfPosts /\ RollsBack
  BY <1>0, NewJobIs DEF PostsApart, NoLateRow, KeysOfPosts, RollsBack
<1>6. DepositsStay /\ RowsHaveFiles /\ FilesAreOwned
  BY DEF DocInit, DepositsStay, DepositKeys, RowsHaveFiles, FilesAreOwned, Held
<1>7. KeysOnce BY <1>0, NewJobIs DEF DocInit, KeysOnce, Present
<1>8. CopyStands BY <1>0, NewJobIs DEF CopyStands, Stands, Turns
<1>9. StatusesAgree BY <1>1 DEF StatusesAgree, Blank
<1>10. FeaturesCounted
  <2>1. Featured = {} BY <1>1 DEF Featured, Present, Blank
  <2>2. HaveCounted = {} BY <1>0, NewJobIs DEF HaveCounted
  <2> QED BY <2>1, <2>2, FS_EmptySet, LimitAssumption DEF FeaturesCounted
<1>11. HitsCounted
  <2>1. \A d, ops : Cardinality(Done(d, ops)) \in Nat
    <3>1. \A d, ops : Done(d, ops) \in SUBSET Request BY DEF Done
    <3> HIDE DEF Done
    <3> QED BY <3>1, RequestsFinite
  <2> HIDE DEF Done
  <2> QED BY <1>0, <1>1, <2>1, NewJobIs DEF HitsCounted, Blank
<1> QED BY <1>2, <1>3, <1>4, <1>5, <1>6, <1>7, <1>8, <1>9, <1>10, <1>11 DEF DocInv, DocFiles

LEMMA DocInvStep == DocInv /\ [DocNext]_docVars => DocInv'
<1> SUFFICES ASSUME DocInv, [DocNext]_docVars PROVE DocInv'
  OBVIOUS
<1>1. CASE UNCHANGED docVars
  <2>1. job' = job /\ row' = row /\ bucket' = bucket BY <1>1 DEF docVars
  <2>2. (DocTypeOK /\ DocsInOrder /\ DocMeet)'
    BY <2>1 DEF DocInv, DocFiles, DocTypeOK, DocsInOrder, DocMeet
  <2>3. (PostsApart /\ NoLateRow /\ KeysOfPosts /\ RollsBack)'
    BY <2>1 DEF DocInv, DocFiles, PostsApart, NoLateRow, KeysOfPosts, RollsBack
  <2>4. (DepositsStay /\ RowsHaveFiles /\ FilesAreOwned)'
    BY <2>1 DEF DocInv, DocFiles, DepositsStay, RowsHaveFiles, FilesAreOwned, Held, Present
  <2>5. KeysOnce' BY <2>1 DEF DocInv, DocFiles, KeysOnce, StoredTogether
  <2>6. CopyStands' BY <2>1 DEF DocInv, CopyStands, Stands, Rewritten
  <2>7. StatusesAgree' BY <2>1 DEF DocInv, StatusesAgree, PartedBy, Parted, Rewritten
  <2>8. FeaturesCounted'
    BY <2>1 DEF DocInv, FeaturesCounted, HaveCounted, Rushed, Overlapped, Featured, Present
  <2>9. HitsCounted' BY <2>1 DEF DocInv, HitsCounted, Done
  <2> QED BY <2>2, <2>3, <2>4, <2>5, <2>6, <2>7, <2>8, <2>9 DEF DocInv, DocFiles
<1>2. ASSUME NEW r \in Request, Posting(r) PROVE DocInv'
  BY <1>2, PostUploadStep, PostSaveStep, PostCheckStep, PostRollbackStep, PostRollbackFailsStep,
     LateSaveStep DEF Posting
<1>3. ASSUME NEW r \in Request, Registering(r) PROVE DocInv'
  BY <1>3, StoredFindStep, StoredStatStep, StoredSaveStep DEF Registering
<1>4. ASSUME NEW r \in Request, Editing(r) PROVE DocInv'
  BY <1>4, LoadStep, SaveStatusStep, SaveOpenStep, SaveShutStep, PutWriteStep, DeleteRowStep,
     DeleteObjectStep, FeatureCountStep, FeatureSaveStep, CountHitStep, CountSecureStep
     DEF Editing, SecureDownload, OpenFile
<1>5. ASSUME NEW r \in Request, Stop(r) PROVE DocInv'
  BY <1>5, StopStep
<1> QED BY <1>1, <1>2, <1>3, <1>4, <1>5 DEF DocNext, DocStep

LEMMA DocInvImplies == DocInv => DocTypeOK /\ FilesMatchRows /\ StatusAgrees /\ ChecksHold
<1> SUFFICES ASSUME DocInv PROVE DocTypeOK /\ FilesMatchRows /\ StatusAgrees /\ ChecksHold
  OBVIOUS
<1>f. DocFiles /\ DocTypeOK BY DEF DocInv, DocFiles
<1>1. FilesMatchRows BY <1>f DEF DocFiles, FilesMatchRows
<1>2. StatusAgrees
  <2> SUFFICES ASSUME NEW d \in Present, ~Agrees(row[d])
               PROVE  \E r \in Request :
                        /\ job[r].doc = d /\ job[r].op \in {"publish", "unpublish"}
                        /\ Active(job[r]) \/ job[r].out = "stopped" \/ Rewritten(r)
    BY DEF StatusAgrees, Agrees
  <2>1. PartedBy(d) BY DEF DocInv, StatusesAgree, Present
  <2> QED BY <2>1 DEF PartedBy, Parted, Turns, Active
<1>3. FeaturedBounded
  <2>1. /\ Cardinality(Rushed) \in Nat /\ IsFiniteSet(Rushed)
    <3>1. Rushed \in SUBSET Request BY DEF Rushed
    <3> HIDE DEF Rushed
    <3> QED BY <3>1, RequestsFinite
  <2>2. Cardinality(Featured) \in Nat /\ Cardinality(HaveCounted) \in Nat
    <3>1. Featured \in SUBSET Doc /\ HaveCounted \in SUBSET Request BY DEF Featured, Present, HaveCounted
    <3> HIDE DEF Featured, HaveCounted
    <3> QED BY <3>1, RequestsFinite, DocsFinite
  <2>3. Cardinality(Rushed) = 0 <=> Rushed = {}
    <3> HIDE DEF Rushed
    <3> QED BY <2>1, FS_EmptySet
  <2>4. Cardinality(Featured) =< FeatureLimit + IF Rushed = {} THEN 0 ELSE Cardinality(Rushed) - 1
    <3> HIDE DEF Rushed, Featured, HaveCounted
    <3>1. CASE Rushed = {} BY <2>1, <2>2, <2>3, <3>1, LimitAssumption DEF DocInv, FeaturesCounted
    <3>2. CASE Rushed # {} BY <2>1, <2>2, <2>3, <3>2, LimitAssumption DEF DocInv, FeaturesCounted
    <3> QED BY <3>1, <3>2
  <2> QED BY <2>4 DEF FeaturedBounded, Rushed
<1>4. OneRowPerKey
  <2> SUFFICES ASSUME NEW d \in Present, NEW e \in Present, d # e, row[d].key = row[e].key
               PROVE  \E r \in Request : \E q \in job[r].met :
                        /\ job[r].op = "stored" /\ job[q].op = "stored"
                        /\ {job[r].doc, job[q].doc} = {d, e}
    BY DEF OneRowPerKey
  <2>1. StoredTogether(d, e) BY <1>f DEF DocFiles, KeysOnce, Present
  <2> QED BY <2>1 DEF StoredTogether
<1>5. HitsBounded
  <2> DEFINE Asked(d, ops) == {r \in Request : job[r].op \in ops /\ job[r].doc = d}
  <2>1. ASSUME NEW d, NEW ops
        PROVE  /\ Cardinality(Asked(d, ops)) \in Nat /\ Cardinality(Done(d, ops)) \in Nat
               /\ Cardinality(Done(d, ops)) =< Cardinality(Asked(d, ops))
    <3>1. Asked(d, ops) \in SUBSET Request /\ Done(d, ops) \subseteq Asked(d, ops) BY DEF Done
    <3> HIDE DEF Asked, Done
    <3> QED BY <3>1, RequestsFinite
  <2>2. ASSUME NEW d \in Present
        PROVE  /\ row[d].hits =< Cardinality(Asked(d, {"download"}))
               /\ row[d].secureHits =< Cardinality(Asked(d, {"secureDownload", "open"}))
    <3>1. row[d].hits \in Nat /\ row[d].secureHits \in Nat BY <1>f DEF DocTypeOK, Present, Row
    <3>2. /\ row[d].hits =< Cardinality(Done(d, {"download"}))
          /\ row[d].secureHits =< Cardinality(Done(d, {"secureDownload", "open"}))
      BY DEF DocInv, HitsCounted, Present
    <3> HIDE DEF Asked, Done
    <3> QED BY <2>1, <3>1, <3>2
  <2> QED BY <2>2 DEF HitsBounded
<1> QED BY <1>f, <1>1, <1>2, <1>3, <1>4, <1>5 DEF ChecksHold

LEMMA DocInvHolds == DocSpec => []DocInv
BY DocInvInit, DocInvStep, PTL DEF DocSpec

(***************************************************************************)
(* However many documents and requests there are, and whichever save fails,*)
(* lands late or is cut off: a stored document has its file, but for a     *)
(* save that landed after the rollback looked, and a file has its row, its *)
(* request, or a reason to have been left.                                 *)
(***************************************************************************)
THEOREM FilesAlwaysMatch == DocSpec => [](DocTypeOK /\ FilesMatchRows)
<1>1. DocInv => DocTypeOK /\ FilesMatchRows BY DocInvImplies
<1> QED BY <1>1, DocInvHolds, PTL

(***************************************************************************)
(* And a document's status and its read[] agree, but where the two saves   *)
(* of a publish or unPublish were cut off or overlapped with another       *)
(* change of that document.                                                *)
(***************************************************************************)
THEOREM StatusesAlwaysAgree == DocSpec => []StatusAgrees
<1>1. DocInv => StatusAgrees BY DocInvImplies
<1> QED BY <1>1, DocInvHolds, PTL

(***************************************************************************)
(* The limit on featured documents, one row for a file, and hits that were *)
(* asked for: each passed only by requests that overlapped, and by no more *)
(* than those.                                                             *)
(***************************************************************************)
THEOREM ChecksAlwaysHold == DocSpec => []ChecksHold
<1>1. DocInv => ChecksHold BY DocInvImplies
<1> QED BY <1>1, DocInvHolds, PTL

-----------------------------------------------------------------------------
\* ReadPaths.

\* What the routes have in common.
RouteHolds(r) ==
  /\ r.gate \in {"none", "top", "period", "list"} /\ r.strict \in BOOLEAN
  /\ r.gate = "none" => r.hides = "nothing" /\ r.order # "rank"
  /\ r.gate = "period" => r.order # "rank"
  /\ r.pages => ~r.late

Reader == [at : {"idle", "top", "period", "rank", "query", "answered"},
           route : Route \cup {Plain}, caller : Caller, page : 0..LastPage,
           hidden : BOOLEAN, ids : SUBSET Item, ranks : [Label -> Label \cup {0}],
           total : 0..Cardinality(Item), shown : Seq(SUBSET Item), touched : BOOLEAN]

\* Where a request can be, and which page it is at.
ReaderInOrder ==
  /\ reader.at = "idle" => reader.shown = << >> /\ reader.page = 0 /\ ~reader.touched
  /\ reader.at = "top" => reader.route.gate # "none"
  /\ reader.at = "period" => reader.route.gate = "period"
  /\ Underway => Len(reader.shown) = reader.page
  /\ reader.at = "answered" => Len(reader.shown) = reader.page + 1

Within(a, b) ==
  /\ a.top => b.top
  /\ a.orphan => b.orphan
  /\ a.cp => b.cp
  /\ a.ids \subseteq b.ids /\ a.rows \subseteq b.rows

\* What is watched has the present between what always was and what ever was.
NowWatched ==
  Underway => /\ Within(watch.always, NowReadable(reader.route, reader.caller))
              /\ Within(NowReadable(reader.route, reader.caller), watch.ever)

\* A look found what was so at its moment.
LooksAreTrue ==
  /\ reader.at \in {"period", "rank", "query"} =>
       reader.ids \subseteq watch.ever.ids /\ watch.always.ids \subseteq reader.ids
  /\ reader.at = "period" => IF reader.hidden THEN ~watch.always.top ELSE watch.ever.top
  /\ reader.at \in {"rank", "query"} =>
       IF reader.hidden THEN ~Through(watch.always) ELSE Through(watch.ever)

\* The rows that a listing has when nobody writes.
HiddenNow ==
  LET topHidden == TopHides(reader.route, reader.caller)
  IN IF reader.route.gate = "period" THEN PeriodHides(reader.route, reader.caller, topHidden)
                                     ELSE topHidden
IdsNow == IF reader.route.gate = "list" THEN listed ELSE Item
RowsNow ==
  {i \in IdsNow : /\ ~HiddenNow /\ item[i].read # "gone"
                  /\ OwnPasses(reader.route, reader.caller, item[i].read)}

\* As long as nobody writes, every page is cut out of these rows.
PagesAreCut ==
  ~reader.touched =>
    /\ reader.at = "period" => /\ reader.hidden = TopHides(reader.route, reader.caller)
                               /\ reader.ids = IdsNow
    /\ reader.at \in {"rank", "query"} => reader.hidden = HiddenNow /\ reader.ids = IdsNow
    /\ (reader.at = "query" \/ reader.shown # << >>) /\ reader.route.order = "rank"
         => reader.ranks = rankOf
    /\ reader.route.pages =>
         /\ reader.shown # << >> => reader.total = Cardinality(RowsNow)
         /\ \A n \in DOMAIN reader.shown :
              \E s \in Orders(RowsNow) : reader.shown[n] = Cut(s, n - 1)

ReadInv ==
  /\ ReadTypeOK /\ reader \in Reader /\ ReaderInOrder
  /\ NowWatched /\ LooksAreTrue /\ AnswersTrue /\ PagesAreCut

\* A route is a record, and most have these fields alike.
RouteRec == [gate : {"none", "top", "period", "list"},
             hides : {"nothing", "parent", "project", "noProject", "pins", "group"},
             strict : BOOLEAN, own : BOOLEAN, adds : BOOLEAN, bare : SUBSET Read,
             order : {"none", "key", "id", "rank"}, tie : BOOLEAN, late : BOOLEAN,
             pages : BOOLEAN, callers : SUBSET Caller]
Mild(r) ==
  /\ r \in RouteRec /\ r.order # "rank" /\ ~r.late
  /\ r.gate = "none" => r.hides = "nothing"

LEMMA PlainIsMild == Mild(Plain)
BY DEF Plain, Mild, RouteRec, Read, Caller

LEMMA RoutesMade ==
  ASSUME NEW r, Mild(r)
  PROVE  /\ Mild(Public(r)) /\ Mild(SignedIn(r)) /\ Mild(Paged(r)) /\ Mild(Gated(r))
         /\ Mild(Sorted(r, "key")) /\ Mild(Sorted(r, "id"))
         /\ \A q \in Queried(r) : Mild(q)
         /\ \A q \in SearchOrders(r) : Mild(q)
         /\ \A strict \in BOOLEAN : Mild(ByPeriod(r, strict))
<1>1. Mild(Public(r)) BY DEF Mild, RouteRec, Public, Caller
<1>2. Mild(SignedIn(r)) BY DEF Mild, RouteRec, SignedIn, Caller
<1>3. Mild(Paged(r)) BY DEF Mild, RouteRec, Paged
<1>4. Mild(Gated(r)) BY DEF Mild, RouteRec, Gated
<1>5. Mild(Sorted(r, "key")) /\ Mild(Sorted(r, "id")) BY DEF Mild, RouteRec, Sorted
<1>6. \A q \in Queried(r) : Mild(q)
  <2> HIDE DEF Mild, Sorted
  <2> QED BY <1>5 DEF Queried
<1>7. \A q \in SearchOrders(r) : Mild(q)
  <2> HIDE DEF Mild, Sorted
  <2> QED BY <1>5 DEF SearchOrders
<1>8. \A strict \in BOOLEAN : Mild(ByPeriod(r, strict))
  <2> TAKE strict \in BOOLEAN
  <2> PICK g : g = Gated(r) OBVIOUS
  <2>1. Mild(g) BY <1>4
  <2>2. Mild([g EXCEPT !.gate = "period", !.strict = strict]) BY <2>1 DEF Mild, RouteRec
  <2> QED BY <2>2 DEF ByPeriod
<1> QED BY <1>1, <1>2, <1>3, <1>4, <1>5, <1>6, <1>7, <1>8

LEMMA MildHolds ==
  ASSUME NEW r, Mild(r)
  PROVE  RouteHolds(r)
BY DEF Mild, RouteHolds, RouteRec

LEMMA PlainRoutesHold ==
  \A r \in Projects \cup Organizations \cup Notifications \cup InspectionItems : RouteHolds(r)
<1> PICK p : p = Plain OBVIOUS
<1>1. Mild(p) BY PlainIsMild
<1> HIDE DEF Mild, RouteHolds
<1>2. \A r \in Queried(p) : Mild(r) BY <1>1, RoutesMade
<1>3. \A r \in Projects : Mild(r)
  <2>1. Mild(Public(Paged(p))) BY <1>1, RoutesMade
  <2>2. \A r \in Queried(p) : Mild(SignedIn(Paged(r))) BY <1>2, RoutesMade
  <2> QED BY <2>1, <2>2 DEF Projects
<1>4. \A r \in Organizations : Mild(r)
  <2>1. \A r \in Queried(p) : Mild(Public(r)) /\ Mild(SignedIn(r)) BY <1>2, RoutesMade
  <2> QED BY <2>1 DEF Organizations
<1>5. \A r \in Notifications : Mild(r)
  <2>1. \A r \in Queried(p) : Mild(SignedIn(Paged(r))) BY <1>2, RoutesMade
  <2> QED BY <2>1 DEF Notifications
<1>6. \A r \in InspectionItems : Mild(r)
  BY <1>1, RoutesMade DEF InspectionItems
<1> QED BY <1>3, <1>4, <1>5, <1>6, MildHolds

LEMMA GatedRoutesHold ==
  \A r \in Documents \cup Comments \cup Periods \cup Members : RouteHolds(r)
<1> PICK p : p = Plain OBVIOUS
<1>1. Mild(p) BY PlainIsMild
<1> HIDE DEF RouteHolds
<1>2. \A r \in Queried(p) : Mild(r)
  <2> HIDE DEF Mild
  <2> QED BY <1>1, RoutesMade
<1>3. \A r \in Documents : Mild(r)
  <2> HIDE DEF Mild
  <2>1. Mild(Gated(p)) BY <1>1, RoutesMade
  <2> QED BY <2>1, RoutesMade DEF Documents
<1>4. \A r \in Comments : Mild(r)
  <2> HIDE DEF Mild
  <2>1. \A r \in Queried(p) : Mild(ByPeriod(r, TRUE)) BY <1>2, RoutesMade
  <2>2. \A r \in Queried(p) : Mild(Paged(ByPeriod(r, TRUE))) BY <2>1, RoutesMade
  <2>3. \A r \in Queried(p) : Mild(Public(Paged(ByPeriod(r, TRUE)))) BY <2>2, RoutesMade
  <2>4. \A r \in Queried(p) : Mild(SignedIn(Paged(r))) BY <1>2, RoutesMade
  <2> QED BY <2>3, <2>4 DEF Comments
<1>5. \A r \in Periods : Mild(r)
  <2> HIDE DEF Mild
  <2>1. \A r \in Queried(p) : Mild(Gated(r)) BY <1>2, RoutesMade
  <2>2. \A r \in Queried(p) : Mild(Public(Gated(r))) /\ Mild(Paged(Gated(r))) BY <2>1, RoutesMade
  <2>3. \A r \in Queried(p) : Mild(SignedIn(Paged(Gated(r)))) BY <2>2, RoutesMade
  <2>4. Mild(SignedIn(p)) BY <1>1, RoutesMade
  <2> QED BY <2>2, <2>3, <2>4 DEF Periods
<1>6. \A r \in Members : Mild(r)
  <2>1. ASSUME NEW r \in Queried(p)
        PROVE  Mild([SignedIn(Paged(r)) EXCEPT !.gate = "list", !.hides = "group"])
    <3> PICK q : q = SignedIn(Paged(r)) OBVIOUS
    <3>1. Mild(q)
      <4> HIDE DEF Mild
      <4> QED BY <1>2, RoutesMade
    <3>2. Mild([q EXCEPT !.gate = "list", !.hides = "group"]) BY <3>1 DEF Mild, RouteRec
    <3> QED BY <3>2
  <2> HIDE DEF Mild
  <2> QED BY <2>1 DEF Members
<1> HIDE DEF Mild
<1> QED BY <1>3, <1>4, <1>5, <1>6, MildHolds

LEMMA ProjectRoutesHold ==
  \A r \in HomeUpdates \cup FeaturedDocuments \cup Pins : RouteHolds(r)
<1> PICK p : p = Plain OBVIOUS
<1> PICK g : g = Public(Gated(p)) OBVIOUS
<1> PICK q : q = SignedIn(p) OBVIOUS
<1> PICK m : m = Paged(p) OBVIOUS
<1>1. Mild(p) /\ Mild(q) /\ Mild(m) /\ Mild(Gated(p))
  <2>1. Mild(p) BY PlainIsMild
  <2> HIDE DEF Mild
  <2> QED BY <2>1, RoutesMade
<1>2. Mild(g)
  <2> HIDE DEF Mild
  <2> QED BY <1>1, RoutesMade
<1>3. g.gate = "top" /\ ~g.pages /\ g \in RouteRec
  <2>1. g.gate = "top" BY <1>1, <1>2 DEF Public, Gated, Mild, RouteRec
  <2>2. p.pages = FALSE BY DEF Plain
  <2>3. Gated(p).pages = FALSE BY <2>2, <1>1 DEF Gated, Mild, RouteRec
  <2>4. g.pages = FALSE BY <2>3, <1>1 DEF Public, Mild, RouteRec
  <2> QED BY <2>1, <2>4, <1>2 DEF Mild
<1>4. RouteHolds([g EXCEPT !.order = "key", !.late = TRUE]) BY <1>3 DEF RouteHolds, RouteRec
<1>5. RouteHolds([g EXCEPT !.hides = "project"]) BY <1>2, <1>3 DEF RouteHolds, RouteRec, Mild
<1>6. RouteHolds([q EXCEPT !.gate = "top", !.hides = "noProject", !.own = FALSE])
  BY <1>1 DEF RouteHolds, RouteRec, Mild
<1>7. \A o \in {"none", "key"} :
        RouteHolds([m EXCEPT !.gate = "list", !.hides = "pins", !.own = FALSE, !.order = o])
  BY <1>1 DEF RouteHolds, RouteRec, Mild
<1> HIDE DEF RouteHolds
<1>8. \A r \in HomeUpdates : RouteHolds(r) BY <1>4 DEF HomeUpdates
<1>9. \A r \in FeaturedDocuments : RouteHolds(r) BY <1>5, <1>6 DEF FeaturedDocuments
<1>10. \A r \in Pins : RouteHolds(r) BY <1>7 DEF Pins
<1> QED BY <1>8, <1>9, <1>10

LEMMA SearchRoutesHold ==
  \A r \in SearchOther \cup SearchGated \cup SearchList \cup SearchItem : RouteHolds(r)
<1> PICK p : p = Plain OBVIOUS
<1> PICK m : m = Paged(p) OBVIOUS
<1> PICK one : one = [p EXCEPT !.adds = TRUE] OBVIOUS
<1>1. Mild(p) BY PlainIsMild
<1>2. Mild(m)
  <2> HIDE DEF Mild
  <2> QED BY <1>1, RoutesMade
<1>3. Mild([m EXCEPT !.adds = TRUE, !.bare = {"absent"}]) BY <1>2 DEF Mild, RouteRec, Read
<1>4. Mild(Search) BY <1>3 DEF Search
<1>5. Mild([p EXCEPT !.adds = TRUE, !.bare = {"absent", "empty"}, !.order = "key"])
  BY <1>1 DEF Mild, RouteRec, Read
<1>6. Mild(one) BY <1>1 DEF Mild, RouteRec
<1> HIDE DEF Mild
<1>7. \A r \in SearchOther : Mild(r) BY <1>4, RoutesMade DEF SearchOther
<1>8. \A r \in SearchGated : Mild(r)
  <2>1. Mild(Gated(Search)) BY <1>4, RoutesMade
  <2> QED BY <2>1, RoutesMade DEF SearchGated
<1>9. \A r \in SearchList : Mild(r) BY <1>5 DEF SearchList
<1>10. \A r \in SearchItem : Mild(r)
  <2>1. Mild(Gated(one)) /\ Mild(ByPeriod(one, TRUE)) /\ Mild(ByPeriod(one, FALSE)) BY <1>6, RoutesMade
  <2>2. Mild(Public(ByPeriod(one, TRUE))) /\ Mild(SignedIn(ByPeriod(one, FALSE))) BY <2>1, RoutesMade
  <2> QED BY <1>6, <2>1, <2>2 DEF SearchItem
<1> QED BY <1>7, <1>8, <1>9, <1>10, MildHolds

LEMMA DocumentSearchHolds == \A r \in SearchDocuments : RouteHolds(r)
<1> PICK s : s = Search OBVIOUS
<1>1. Mild(s)
  <2> PICK m : m = Paged(Plain) OBVIOUS
  <2>1. Mild(m)
    <3> HIDE DEF Mild
    <3> QED BY PlainIsMild, RoutesMade
  <2>2. Mild([m EXCEPT !.adds = TRUE, !.bare = {"absent"}]) BY <2>1 DEF Mild, RouteRec, Read
  <2> QED BY <2>2 DEF Search
<1> PICK g : g = Gated(s) OBVIOUS
<1>2. Mild(g) /\ g.gate = "top"
  <2>1. Mild(g)
    <3> HIDE DEF Mild
    <3> QED BY <1>1, RoutesMade
  <2>2. g.gate = "top" BY <1>1 DEF Gated, Mild, RouteRec
  <2> QED BY <2>1, <2>2
<1> PICK a : a = Public(g) OBVIOUS
<1> PICK b : b = SignedIn(g) OBVIOUS
<1>3. Mild(a) /\ Mild(b)
  <2> HIDE DEF Mild
  <2> QED BY <1>2, RoutesMade
<1>4. a.gate = "top" /\ b.gate = "top" BY <1>2 DEF Public, SignedIn, Mild, RouteRec
<1> PICK x : x = [a EXCEPT !.bare = {}] OBVIOUS
<1> PICK y : y = [b EXCEPT !.bare = {"absent", "empty"}] OBVIOUS
<1>5. Mild(x) /\ Mild(y) /\ x.gate = "top" /\ y.gate = "top"
  BY <1>3, <1>4 DEF Mild, RouteRec, Read
<1>6. \A r : Mild(r) /\ r.gate = "top" => RouteHolds(Sorted(r, "rank"))
  BY DEF Mild, RouteRec, Sorted, RouteHolds
<1>7. RouteHolds(Sorted(x, "rank")) /\ RouteHolds(Sorted(y, "rank")) BY <1>5, <1>6
<1> HIDE DEF Mild, RouteHolds
<1>8. \A r \in SearchOrders(x) \cup SearchOrders(y) : RouteHolds(r) BY <1>5, RoutesMade, MildHolds
<1> QED BY <1>7, <1>8 DEF SearchDocuments

LEMMA RoutesHold == \A r \in Route \cup {Plain} : RouteHolds(r)
<1>1. RouteHolds(Plain) BY PlainIsMild, MildHolds
<1> HIDE DEF RouteHolds
<1> QED BY <1>1, PlainRoutesHold, GatedRoutesHold, ProjectRoutesHold, SearchRoutesHold,
           DocumentSearchHolds DEF Route

\* A sorted result has every row once.
LEMMA OrdersAre ==
  ASSUME NEW R \in SUBSET Item, NEW s \in Orders(R)
  PROVE  /\ IsFiniteSet(R) /\ Cardinality(R) \in Nat
         /\ DOMAIN s = 1..Cardinality(R)
         /\ \A n \in 1..Cardinality(R) : s[n] \in R
         /\ \A m, n \in 1..Cardinality(R) : m # n => s[m] # s[n]
         /\ \A i \in R : \E n \in 1..Cardinality(R) : s[n] = i
<1> DEFINE D == 1..Cardinality(R)
<1>1. IsFiniteSet(R) /\ Cardinality(R) \in Nat BY ItemAssumption, FS_Subset, FS_CardinalityType
<1>2. s \in [D -> R] /\ \A m, n \in D : m # n => s[m] # s[n] BY DEF Orders, SetToSeqs
<1>3. IsFiniteSet(D) /\ Cardinality(D) = Cardinality(R) BY <1>1, FS_Interval
<1>4. s \in Injection(D, R) BY <1>2 DEF Injection, IsInjective
<1>5. s \in Surjection(D, R) BY <1>1, <1>3, <1>4, FS_Injection
<1>6. \A i \in R : \E n \in D : s[n] = i BY <1>5 DEF Surjection
<1> QED BY <1>1, <1>2, <1>6

\* Rows at so many places are so many rows.
LEMMA AsManyRows ==
  ASSUME NEW R \in SUBSET Item, NEW s \in Orders(R), NEW D \in SUBSET (1..Cardinality(R))
  PROVE  /\ IsFiniteSet(D) /\ IsFiniteSet({s[n] : n \in D})
         /\ Cardinality({s[n] : n \in D}) = Cardinality(D) /\ Cardinality(D) \in Nat
<1> DEFINE T == {s[n] : n \in D}
           f == [n \in D |-> s[n]]
<1>1. Cardinality(R) \in Nat BY OrdersAre
<1>2. IsFiniteSet(1..Cardinality(R)) BY <1>1, FS_Interval
<1>3. IsFiniteSet(D) /\ Cardinality(D) \in Nat BY <1>2, FS_Subset, FS_CardinalityType
<1>4. \A m, n \in D : m # n => s[m] # s[n] BY OrdersAre
<1>5. f \in Surjection(D, T) BY DEF Surjection
<1>6. f \in Injection(D, T) BY <1>4 DEF Injection, IsInjective
<1>7. IsFiniteSet(T) /\ Cardinality(T) = Cardinality(D) BY <1>3, <1>5, <1>6, FS_Surjection
<1> QED BY <1>3, <1>7

LEMMA MinIs ==
  ASSUME NEW a \in Nat, NEW b \in Nat
  PROVE  Min({a, b}) = IF a =< b THEN a ELSE b
<1> PICK c : c = (IF a =< b THEN a ELSE b) OBVIOUS
<1>1. c \in {a, b} /\ \A y \in {a, b} : c =< y OBVIOUS
<1>2. \A x \in {a, b} : (\A y \in {a, b} : x =< y) => x = c OBVIOUS
<1> QED BY <1>1, <1>2 DEF Min

\* A page is full, or has the rows that are left.
LEMMA PageSizes ==
  ASSUME NEW R \in SUBSET Item, NEW s \in Orders(R), NEW page \in Nat
  PROVE  LET total == Cardinality(R)
             left == IF total > page * PageSize THEN total - page * PageSize ELSE 0
         IN /\ Cut(s, page) \subseteq R
            /\ Cardinality(Cut(s, page)) = Min({left, PageSize})
<1> DEFINE total == Cardinality(R)
           left == IF total > page * PageSize THEN total - page * PageSize ELSE 0
           D == {n \in DOMAIN s : page * PageSize < n /\ n =< (page + 1) * PageSize}
<1>1. /\ total \in Nat /\ DOMAIN s = 1..total
      /\ \A n \in 1..total : s[n] \in R
  BY OrdersAre
<1> PICK a : a = page * PageSize OBVIOUS
<1>2. a \in Nat /\ PageSize \in Nat /\ (page + 1) * PageSize = a + PageSize BY PageAssumption
<1> PICK b : b = (IF total =< a + PageSize THEN total ELSE a + PageSize) OBVIOUS
<1>3. b \in Nat BY <1>1, <1>2
<1>4. D = (a + 1)..b
  <2>1. D = {n \in 1..total : a < n /\ n =< a + PageSize} BY <1>1, <1>2
  <2> QED BY <2>1, <1>1, <1>2, <1>3
<1>5. D \in SUBSET (1..total) /\ Cut(s, page) = {s[n] : n \in D} BY <1>1 DEF Cut
<1> HIDE DEF D
<1>6. Cardinality(D) = (IF a + 1 > b THEN 0 ELSE b - (a + 1) + 1)
  <2>1. a + 1 \in Int /\ b \in Int BY <1>2, <1>3
  <2>2. Cardinality((a + 1)..b) = (IF a + 1 > b THEN 0 ELSE b - (a + 1) + 1) BY <2>1, FS_Interval
  <2> QED BY <2>2, <1>4
<1>7. Cardinality(D) = Min({left, PageSize})
  <2>1. left \in Nat /\ Min({left, PageSize}) = (IF left =< PageSize THEN left ELSE PageSize)
    BY <1>1, <1>2, MinIs
  <2> QED BY <2>1, <1>1, <1>2, <1>6
<1>8. Cardinality({s[n] : n \in D}) = Cardinality(D)
  <2>1. D \in SUBSET (1..Cardinality(R)) BY <1>5
  <2> QED BY <2>1, AsManyRows
<1>9. Cardinality(Cut(s, page)) = Cardinality(D) BY <1>5, <1>8
<1>10. Cut(s, page) \subseteq R BY <1>1, <1>5
<1> QED BY <1>7, <1>9, <1>10

LEMMA WeightsAre ==
  ASSUME ReadTypeOK, reader \in Reader, NEW i \in Item
  PROVE  /\ Weight(i) \in Nat
         /\ reader.route.order \notin {"key", "rank"} => Weight(i) = 0
<1>1. item[i].key \in Label BY DEF ReadTypeOK
<1>2. reader.ranks[item[i].key] \in Label \cup {0} BY <1>1 DEF Reader
<1>0. \A l \in Label \cup {0} : l \in Nat BY ItemAssumption
<1>3. item[i].key \in Nat /\ reader.ranks[item[i].key] \in Nat BY <1>0, <1>1, <1>2
<1> PICK o : o = reader.route.order OBVIOUS
<1>4. CASE o = "key" BY <1>3, <1>4 DEF Weight
<1>5. CASE o = "rank" BY <1>3, <1>5 DEF Weight
<1>6. CASE o \notin {"key", "rank"} BY <1>6 DEF Weight
<1> QED BY <1>4, <1>5, <1>6

\* Where _id breaks ties, of two rows one precedes the other.
LEMMA TiesAreBroken ==
  ASSUME ReadTypeOK, reader \in Reader, reader.route.tie, NEW i \in Item, NEW j \in Item
  PROVE  /\ i # j => Precedes(i, j) \/ Precedes(j, i)
         /\ ~Precedes(i, i)
<1>1. /\ Weight(i) \in Nat /\ Weight(j) \in Nat /\ i \in Nat /\ j \in Nat
      /\ reader.route.order \notin {"key", "rank"} => Weight(i) = 0 /\ Weight(j) = 0
  BY WeightsAre, ItemAssumption
<1> HIDE DEF Weight
<1> QED BY <1>1 DEF Precedes

\* Then a row's place is the number of those that precede it.
LEMMA PlacesAre ==
  ASSUME ReadTypeOK, reader \in Reader, reader.route.tie,
         NEW R \in SUBSET Item, NEW s \in Orders(R), NEW n \in 1..Cardinality(R)
  PROVE  Cardinality({i \in R : Precedes(i, s[n])}) = n - 1
<1>1. /\ Cardinality(R) \in Nat /\ DOMAIN s = 1..Cardinality(R)
      /\ \A m \in 1..Cardinality(R) : s[m] \in R
      /\ \A i \in R : \E m \in 1..Cardinality(R) : s[m] = i
      /\ \A l, m \in 1..Cardinality(R) : l # m => s[l] # s[m]
  BY OrdersAre
<1>2. \A k \in DOMAIN s : \A m \in 1..k - 1 : ~Precedes(s[k], s[m]) BY DEF Orders
<1> DEFINE D == 1..n - 1
<1>3. D \in SUBSET (1..Cardinality(R)) BY <1>1
<1>4. ASSUME NEW m \in D PROVE Precedes(s[m], s[n])
  <2>1. ~Precedes(s[n], s[m]) BY <1>1, <1>2
  <2>2. m \in 1..Cardinality(R) /\ m # n BY <1>3
  <2>3. s[m] \in Item /\ s[n] \in Item /\ s[m] # s[n] BY <1>1, <2>2
  <2> QED BY <2>1, <2>3, TiesAreBroken
<1>5. ASSUME NEW k \in 1..Cardinality(R), Precedes(s[k], s[n]) PROVE k \in D
  <2>1. s[n] \in Item BY <1>1
  <2>2. k # n BY <1>5, <2>1, TiesAreBroken
  <2>3. ~(n \in 1..k - 1) BY <1>1, <1>2, <1>5
  <2> QED BY <1>1, <2>2, <2>3
<1>6. {i \in R : Precedes(i, s[n])} = {s[m] : m \in D}
  <2>1. ASSUME NEW i \in R, Precedes(i, s[n]) PROVE i \in {s[m] : m \in D}
    <3> PICK k \in 1..Cardinality(R) : s[k] = i BY <1>1
    <3>1. k \in D BY <1>5, <2>1
    <3> QED BY <3>1
  <2>2. ASSUME NEW m \in D PROVE s[m] \in R /\ Precedes(s[m], s[n])
    BY <1>1, <1>3, <1>4
  <2> HIDE DEF D
  <2> QED BY <2>1, <2>2
<1>7. Cardinality(D) = n - 1
  <2>1. 1 \in Int /\ n - 1 \in Int /\ n >= 1 BY <1>1
  <2>2. Cardinality(1..n - 1) = (IF 1 > n - 1 THEN 0 ELSE (n - 1) - 1 + 1) BY <2>1, FS_Interval
  <2> QED BY <2>1, <2>2
<1> HIDE DEF D
<1>8. Cardinality({s[m] : m \in D}) = Cardinality(D) BY <1>3, AsManyRows
<1> QED BY <1>6, <1>7, <1>8

\* And two pages share no row, though each was sorted by a query of its own.
LEMMA PagesApart ==
  ASSUME ReadTypeOK, reader \in Reader, reader.route.tie,
         NEW R \in SUBSET Item, NEW s \in Orders(R), NEW t \in Orders(R),
         NEW m \in Nat, NEW n \in Nat, m # n
  PROVE  Cut(s, m) \cap Cut(t, n) = {}
<1> SUFFICES ASSUME NEW i \in Cut(s, m), i \in Cut(t, n) PROVE FALSE
  OBVIOUS
<1>1. DOMAIN s = 1..Cardinality(R) /\ DOMAIN t = 1..Cardinality(R) /\ Cardinality(R) \in Nat
  BY OrdersAre
<1> PICK a \in 1..Cardinality(R) : s[a] = i /\ m * PageSize < a /\ a =< (m + 1) * PageSize
  BY <1>1 DEF Cut
<1> PICK b \in 1..Cardinality(R) : t[b] = i /\ n * PageSize < b /\ b =< (n + 1) * PageSize
  BY <1>1 DEF Cut
<1>2. a - 1 = Cardinality({j \in R : Precedes(j, i)}) BY PlacesAre
<1>3. b - 1 = Cardinality({j \in R : Precedes(j, i)}) BY PlacesAre
<1>4. a = b /\ a \in Nat BY <1>1, <1>2, <1>3
<1>5. ASSUME NEW k \in Nat, NEW l \in Nat, k < l PROVE (k + 1) * PageSize =< l * PageSize
  <2> PICK d \in Nat : l = k + 1 + d
    <3>1. l - k - 1 \in Nat BY <1>5
    <3> QED BY <3>1
  <2> PICK p \in Nat : p = PageSize BY PageAssumption
  <2>1. d * p \in Nat /\ (k + 1) * p \in Nat OBVIOUS
  <2>2. l * p = (k + 1) * p + d * p OBVIOUS
  <2> QED BY <2>1, <2>2
<1>6. m * PageSize \in Nat /\ n * PageSize \in Nat /\ (m + 1) * PageSize \in Nat
      /\ (n + 1) * PageSize \in Nat
  BY PageAssumption
<1>7. m < n \/ n < m OBVIOUS
<1> QED BY <1>4, <1>5, <1>6, <1>7

\* What is readable now has its shape, and depends on the data alone.
LEMMA NowIsLevels ==
  ASSUME NEW r, NEW c
  PROVE  /\ listed \subseteq Item => NowReadable(r, c) \in Levels
         /\ listed' \subseteq Item => NowReadable(r, c)' \in Levels
<1>1. ASSUME listed \subseteq Item PROVE NowReadable(r, c) \in Levels
  <2> HIDE DEF TopHides, PeriodHides, OwnPasses
  <2> QED BY <1>1 DEF NowReadable, Levels
<1>2. ASSUME listed' \subseteq Item PROVE NowReadable(r, c)' \in Levels
  <2> HIDE DEF TopHides, PeriodHides, OwnPasses
  <2> QED BY <1>2 DEF NowReadable, Levels
<1> QED BY <1>1, <1>2

LEMMA NowStays ==
  ASSUME UNCHANGED <<top, cp, item, listed>>, NEW r, NEW c
  PROVE  /\ NowReadable(r, c)' = NowReadable(r, c) /\ TopHides(r, c)' = TopHides(r, c)
         /\ \A h : PeriodHides(r, c, h)' = PeriodHides(r, c, h)
<1>1. TopHides(r, c)' = TopHides(r, c) BY DEF TopHides
<1>2. \A h : PeriodHides(r, c, h)' = PeriodHides(r, c, h) BY DEF PeriodHides
<1>3. NowReadable(r, c)' = NowReadable(r, c)
  BY DEF NowReadable, TopHides, PeriodHides
<1> QED BY <1>1, <1>2, <1>3

LEMMA NowIs ==
  ASSUME NEW r, NEW c
  PROVE  LET now == NowReadable(r, c) IN
         /\ now.top <=> ~TopHides(r, c)
         /\ now.orphan <=> r.gate = "period" /\ ~r.strict /\ cp = "gone"
         /\ now.cp <=> (r.gate = "period" => ~PeriodHides(r, c, FALSE))
         /\ now.ids = IF r.gate = "list" THEN listed ELSE Item
         /\ now.rows = {i \in Item : OwnPasses(r, c, item[i].read)}
BY DEF NowReadable

\* What a listing has is the same as long as neither the data nor the request changes.
LEMMA ListingStays ==
  ASSUME UNCHANGED <<top, cp, item, listed>>,
         reader'.route = reader.route, reader'.caller = reader.caller
  PROVE  HiddenNow' = HiddenNow /\ IdsNow' = IdsNow /\ RowsNow' = RowsNow
<1> PICK r, c : r = reader.route /\ c = reader.caller OBVIOUS
<1>1. TopHides(r, c)' = TopHides(r, c) /\ (\A h : PeriodHides(r, c, h)' = PeriodHides(r, c, h))
  BY NowStays
<1>2. HiddenNow' = HiddenNow
  <2>1. HiddenNow = IF r.gate = "period" THEN PeriodHides(r, c, TopHides(r, c)) ELSE TopHides(r, c)
    BY DEF HiddenNow
  <2>2. HiddenNow' = IF r.gate = "period" THEN PeriodHides(r, c, TopHides(r, c))'
                                          ELSE TopHides(r, c)'
    BY DEF HiddenNow
  <2>3. PeriodHides(r, c, TopHides(r, c))' = PeriodHides(r, c, TopHides(r, c))
    BY <1>1 DEF PeriodHides, TopHides
  <2> QED BY <1>1, <2>1, <2>2, <2>3
<1>3. IdsNow' = IdsNow BY DEF IdsNow
<1>4. RowsNow' = RowsNow BY <1>2, <1>3 DEF RowsNow, OwnPasses
<1> QED BY <1>2, <1>3, <1>4

\* And so is the order of any rows.
LEMMA OrdersStay ==
  ASSUME item' = item, reader'.route = reader.route,
         reader'.ranks = reader.ranks \/ reader.route.order # "rank", NEW R
  PROVE  Orders(R)' = Orders(R)
<1>1. \A i, j : Precedes(i, j)' = Precedes(i, j)
  <2> TAKE i, j
  <2>1. Weight(i)' = Weight(i) /\ Weight(j)' = Weight(j) BY DEF Weight
  <2> QED BY <2>1 DEF Precedes
<1> QED BY <1>1 DEF Orders

\* A look at a level changes only what the request has found.
LEMMA LookKeeps ==
  ASSUME ReadInv, ReadOnly, reader' \in Reader,
         reader'.route = reader.route, reader'.caller = reader.caller,
         reader'.page = reader.page, reader'.total = reader.total,
         reader'.shown = reader.shown, reader'.touched = reader.touched,
         reader.at \in {"top", "period", "rank"}, reader'.at \in {"period", "rank", "query"}
  PROVE  /\ ReadTypeOK' /\ NowWatched' /\ AnswersTrue' /\ watch' = watch
         /\ (reader'.at = "period" => reader.route.gate = "period") => ReaderInOrder'
<1>1. watch' = watch /\ UNCHANGED <<top, cp, item, listed, rankOf, writes>> BY DEF ReadOnly
<1>2. ReadTypeOK'
  BY <1>1 DEF ReadInv, ReadTypeOK, Reader
<1>3. NowWatched'
  <2> PICK r, c : r = reader.route /\ c = reader.caller OBVIOUS
  <2>1. NowReadable(r, c)' = NowReadable(r, c) BY <1>1, NowStays
  <2>2. NowReadable(reader.route, reader.caller)' = NowReadable(r, c)'
    BY DEF NowReadable, TopHides, PeriodHides
  <2>3. Underway BY DEF Underway
  <2>4. Within(watch.always, NowReadable(r, c)) /\ Within(NowReadable(r, c), watch.ever)
    BY <2>3 DEF ReadInv, NowWatched
  <2> QED BY <1>1, <2>1, <2>2, <2>4 DEF NowWatched, Within
<1>4. AnswersTrue' BY DEF AnswersTrue
<1>5. (reader'.at = "period" => reader.route.gate = "period") => ReaderInOrder'
  BY DEF ReadInv, ReaderInOrder, Underway
<1> QED BY <1>1, <1>2, <1>3, <1>4, <1>5

\* The pages already shown stay cut out of the same rows.
LEMMA CutsStay ==
  ASSUME ReadInv, UNCHANGED <<top, cp, item, listed>>, ~reader.touched,
         reader'.route = reader.route, reader'.caller = reader.caller,
         reader'.total = reader.total, reader'.shown = reader.shown,
         \/ reader'.ranks = reader.ranks \/ reader.route.order # "rank"
         \/ reader.shown = << >>
  PROVE  (reader.route.pages =>
            /\ reader.shown # << >> => reader.total = Cardinality(RowsNow)
            /\ \A n \in DOMAIN reader.shown :
                 \E s \in Orders(RowsNow) : reader.shown[n] = Cut(s, n - 1))'
<1>1. CASE reader.shown = << >> BY <1>1
<1>2. CASE reader.shown # << >>
  <2>1. RowsNow' = RowsNow BY ListingStays
  <2>2. PICK R : R = RowsNow OBVIOUS
  <2>3. Orders(R)' = Orders(R) BY <1>2, OrdersStay
  <2>4. Orders(RowsNow)' = Orders(R)' BY <2>1, <2>2 DEF Orders, Precedes, Weight
  <2>5. reader.route.pages => /\ reader.total = Cardinality(R)
                              /\ \A n \in DOMAIN reader.shown :
                                   \E s \in Orders(R) : reader.shown[n] = Cut(s, n - 1)
    BY <1>2, <2>2 DEF ReadInv, PagesAreCut
  <2>6. ASSUME NEW n \in DOMAIN reader.shown, reader.route.pages
        PROVE  (\E s \in Orders(RowsNow) : reader.shown[n] = Cut(s, n - 1))'
    <3>1. PICK s \in Orders(R) : reader.shown[n] = Cut(s, n - 1) BY <2>5, <2>6
    <3>2. s \in Orders(RowsNow)' BY <3>1, <2>3, <2>4
    <3> QED BY <3>1, <3>2 DEF Cut
  <2> QED BY <2>1, <2>2, <2>5, <2>6
<1> QED BY <1>1, <1>2

\* What a look makes of a level that the route does not have.
LEMMA LevelMissing ==
  ASSUME ReadInv, reader.at \in {"top", "period", "rank"}, reader.route.gate # "period"
  PROVE  LET now == NowReadable(reader.route, reader.caller) IN now.cp /\ ~now.orphan
BY NowIs

LEMMA LookTopStep ==
  ASSUME ReadInv, LookTop
  PROVE  ReadInv'
<1> PICK r, c : r = reader.route /\ c = reader.caller OBVIOUS
<1> DEFINE now == NowReadable(r, c)
           found == reader'.ids
<1>0. RouteHolds(r) /\ reader \in Reader /\ ReadTypeOK
  BY RoutesHold DEF ReadInv, Reader
<1>1. /\ reader.at = "top" /\ ReadOnly
      /\ reader'.at = IF r.gate = "period" THEN "period"
                      ELSE IF r.order = "rank" THEN "rank" ELSE "query"
      /\ reader'.hidden = TopHides(r, c) /\ found = IF r.gate = "list" THEN listed ELSE Item
      /\ reader'.route = r /\ reader'.caller = c /\ reader'.page = reader.page
      /\ reader'.ranks = reader.ranks /\ reader'.total = reader.total
      /\ reader'.shown = reader.shown /\ reader'.touched = reader.touched
  BY <1>0 DEF LookTop, Reader
<1>2. TopHides(r, c) \in BOOLEAN BY DEF TopHides
<1>3. reader' \in Reader
  <2>1. reader' = [reader EXCEPT !.at = reader'.at, !.hidden = TopHides(r, c), !.ids = found]
    BY <1>1 DEF LookTop
  <2>2. found \subseteq Item BY <1>0, <1>1 DEF ReadTypeOK
  <2>3. reader'.at \in {"period", "rank", "query"} BY <1>1
  <2> HIDE DEF found
  <2> QED BY <1>0, <1>2, <2>1, <2>2, <2>3 DEF Reader
<1>4. /\ ReadTypeOK' /\ NowWatched' /\ AnswersTrue' /\ watch' = watch /\ ReaderInOrder'
  BY <1>1, <1>3, LookKeeps
<1>5. LooksAreTrue'
  <2>1. Within(watch.always, now) /\ Within(now, watch.ever)
    BY <1>1 DEF ReadInv, NowWatched, Underway
  <2>2. /\ now.top <=> ~TopHides(r, c)
        /\ now.ids = found
    BY <1>1, NowIs
  <2>3. found \subseteq watch'.ever.ids /\ watch'.always.ids \subseteq found
    BY <1>4, <2>1, <2>2 DEF Within
  <2>4. CASE r.gate = "period"
    <3>1. reader'.at = "period" BY <1>1, <2>4
    <3>2. IF reader'.hidden THEN ~watch'.always.top ELSE watch'.ever.top
      BY <1>1, <1>4, <2>1, <2>2 DEF Within
    <3> QED BY <2>3, <3>1, <3>2 DEF LooksAreTrue
  <2>5. CASE r.gate # "period"
    <3>1. reader'.at # "period" BY <1>1, <2>5
    <3>2. now.cp /\ ~now.orphan BY <1>1, <2>5, LevelMissing
    <3>3. IF reader'.hidden THEN ~Through(watch'.always) ELSE Through(watch'.ever)
      BY <1>1, <1>4, <2>1, <2>2, <3>2 DEF Within, Through
    <3> QED BY <2>3, <3>1, <3>3 DEF LooksAreTrue
  <2> QED BY <2>4, <2>5
<1>6. PagesAreCut'
  <2> SUFFICES ASSUME ~reader'.touched PROVE PagesAreCut' BY DEF PagesAreCut
  <2>1. UNCHANGED <<top, cp, item, listed, rankOf>> BY <1>1 DEF ReadOnly
  <2>2. HiddenNow' = HiddenNow /\ IdsNow' = IdsNow BY <1>1, <2>1, ListingStays
  <2>3. TopHides(reader.route, reader.caller)' = TopHides(r, c)
    BY <1>1, <2>1 DEF TopHides, Hides, PinsHide
  <2>4. found = IdsNow BY <1>1 DEF IdsNow
  <2>5. r.gate # "period" => HiddenNow = TopHides(r, c) BY DEF HiddenNow
  <2>6. /\ reader'.at = "period" => r.gate = "period"
        /\ reader'.at \in {"rank", "query"} => r.gate # "period"
        /\ reader'.at = "query" => r.order # "rank"
    BY <1>1
  <2>7. reader'.shown # << >> /\ r.order = "rank" => reader'.ranks = rankOf'
    BY <1>1, <2>1 DEF ReadInv, PagesAreCut
  <2>8. (reader.route.pages =>
            /\ reader.shown # << >> => reader.total = Cardinality(RowsNow)
            /\ \A n \in DOMAIN reader.shown :
                 \E s \in Orders(RowsNow) : reader.shown[n] = Cut(s, n - 1))'
    BY <1>1, <2>1, CutsStay
  <2>9. reader'.at = "period" => /\ reader'.hidden = TopHides(reader.route, reader.caller)'
                                 /\ reader'.ids = IdsNow'
    BY <1>1, <2>2, <2>3, <2>4
  <2>10. reader'.at \in {"rank", "query"} => reader'.hidden = HiddenNow' /\ reader'.ids = IdsNow'
    BY <1>1, <2>2, <2>4, <2>5, <2>6
  <2>11. (reader'.at = "query" \/ reader'.shown # << >>) /\ reader'.route.order = "rank"
           => reader'.ranks = rankOf'
    BY <1>1, <2>6, <2>7
  <2> QED BY <2>8, <2>9, <2>10, <2>11 DEF PagesAreCut
<1> QED BY <1>3, <1>4, <1>5, <1>6 DEF ReadInv

LEMMA LookPeriodStep ==
  ASSUME ReadInv, LookPeriod
  PROVE  ReadInv'
<1> PICK r, c, h : r = reader.route /\ c = reader.caller /\ h = reader.hidden OBVIOUS
<1> DEFINE now == NowReadable(r, c)
<1>0. RouteHolds(r) /\ reader \in Reader /\ r.gate = "period" /\ h \in BOOLEAN
  BY RoutesHold DEF ReadInv, Reader, LookPeriod, ReaderInOrder
<1>1. /\ reader.at = "period" /\ ReadOnly /\ reader'.at = "query"
      /\ reader'.hidden = PeriodHides(r, c, h) /\ reader'.ids = reader.ids
      /\ reader'.route = r /\ reader'.caller = c /\ reader'.page = reader.page
      /\ reader'.ranks = reader.ranks /\ reader'.total = reader.total
      /\ reader'.shown = reader.shown /\ reader'.touched = reader.touched
  BY <1>0 DEF LookPeriod, Reader
<1>2. PeriodHides(r, c, h) \in BOOLEAN
  <2>1. r.strict \in BOOLEAN BY <1>0 DEF RouteHolds
  <2> QED BY <1>0, <2>1 DEF PeriodHides
<1>3. reader' \in Reader
  <2>1. reader' = [reader EXCEPT !.at = "query", !.hidden = PeriodHides(r, c, h)]
    BY DEF LookPeriod
  <2> HIDE DEF PeriodHides
  <2> QED BY <1>0, <1>2, <2>1 DEF Reader
<1>4. /\ ReadTypeOK' /\ NowWatched' /\ AnswersTrue' /\ watch' = watch /\ ReaderInOrder'
  BY <1>1, <1>3, LookKeeps
<1>5. LooksAreTrue'
  <2>1. Within(watch.always, now) /\ Within(now, watch.ever)
    BY <1>1 DEF ReadInv, NowWatched, Underway
  <2>2. /\ now.orphan <=> ~r.strict /\ cp = "gone"
        /\ now.cp <=> ~PeriodHides(r, c, FALSE)
    BY <1>0, NowIs
  <2>3. /\ reader.ids \subseteq watch.ever.ids /\ watch.always.ids \subseteq reader.ids
        /\ IF h THEN ~watch.always.top ELSE watch.ever.top
    BY <1>1 DEF ReadInv, LooksAreTrue
  <2>4. IF reader'.hidden THEN ~Through(watch.always) ELSE Through(watch.ever)
    <3>1. CASE cp = "gone"
      <4>1. PeriodHides(r, c, h) = r.strict /\ PeriodHides(r, c, FALSE) = r.strict
        BY <3>1 DEF PeriodHides
      <4> QED BY <1>1, <2>1, <2>2, <3>1, <4>1 DEF Within, Through
    <3>2. CASE cp # "gone"
      <4>1. /\ PeriodHides(r, c, h) <=> cp \in UnreadableBy(c) \/ h
            /\ PeriodHides(r, c, FALSE) <=> cp \in UnreadableBy(c)
        BY <1>0, <3>2 DEF PeriodHides
      <4> QED BY <1>0, <1>1, <2>1, <2>2, <2>3, <3>2, <4>1 DEF Within, Through
    <3> QED BY <3>1, <3>2
  <2> QED BY <1>1, <1>4, <2>3, <2>4 DEF LooksAreTrue
<1>6. PagesAreCut'
  <2> SUFFICES ASSUME ~reader'.touched PROVE PagesAreCut' BY DEF PagesAreCut
  <2>1. UNCHANGED <<top, cp, item, listed, rankOf>> BY <1>1 DEF ReadOnly
  <2>2. HiddenNow' = HiddenNow /\ IdsNow' = IdsNow BY <1>1, <2>1, ListingStays
  <2>3. h = TopHides(r, c) /\ reader.ids = IdsNow BY <1>1 DEF ReadInv, PagesAreCut
  <2>4. reader'.hidden = HiddenNow BY <1>0, <1>1, <2>3 DEF HiddenNow
  <2>5. r.order # "rank" BY <1>0 DEF RouteHolds
  <2>6. (reader.route.pages =>
            /\ reader.shown # << >> => reader.total = Cardinality(RowsNow)
            /\ \A n \in DOMAIN reader.shown :
                 \E s \in Orders(RowsNow) : reader.shown[n] = Cut(s, n - 1))'
    BY <1>1, <2>1, CutsStay
  <2> QED BY <1>1, <2>2, <2>3, <2>4, <2>5, <2>6 DEF PagesAreCut
<1> QED BY <1>3, <1>4, <1>5, <1>6 DEF ReadInv

LEMMA LookRanksStep ==
  ASSUME ReadInv, LookRanks
  PROVE  ReadInv'
<1> PICK r, c : r = reader.route /\ c = reader.caller OBVIOUS
<1>0. reader \in Reader BY DEF ReadInv
<1>1. /\ reader.at = "rank" /\ ReadOnly /\ reader'.at = "query"
      /\ reader'.hidden = reader.hidden /\ reader'.ids = reader.ids
      /\ reader'.route = r /\ reader'.caller = c /\ reader'.page = reader.page
      /\ reader'.ranks = rankOf /\ reader'.total = reader.total
      /\ reader'.shown = reader.shown /\ reader'.touched = reader.touched
  BY <1>0 DEF LookRanks, Reader
<1>2. reader' \in Reader
  <2>1. reader' = [reader EXCEPT !.at = "query", !.ranks = rankOf] BY DEF LookRanks
  <2>2. rankOf \in [Label -> Label \cup {0}] BY DEF ReadInv, ReadTypeOK
  <2> QED BY <1>0, <2>1, <2>2 DEF Reader
<1>3. /\ ReadTypeOK' /\ NowWatched' /\ AnswersTrue' /\ watch' = watch /\ ReaderInOrder'
  BY <1>1, <1>2, LookKeeps
<1>4. LooksAreTrue' BY <1>1, <1>3 DEF ReadInv, LooksAreTrue
<1>5. PagesAreCut'
  <2> SUFFICES ASSUME ~reader'.touched PROVE PagesAreCut' BY DEF PagesAreCut
  <2>1. UNCHANGED <<top, cp, item, listed, rankOf>> BY <1>1 DEF ReadOnly
  <2>2. HiddenNow' = HiddenNow /\ IdsNow' = IdsNow BY <1>1, <2>1, ListingStays
  <2>3. reader.hidden = HiddenNow /\ reader.ids = IdsNow BY <1>1 DEF ReadInv, PagesAreCut
  <2>4. reader.shown = << >> \/ reader.route.order # "rank" \/ reader'.ranks = reader.ranks
    BY <1>1 DEF ReadInv, PagesAreCut
  <2>5. (reader.route.pages =>
            /\ reader.shown # << >> => reader.total = Cardinality(RowsNow)
            /\ \A n \in DOMAIN reader.shown :
                 \E s \in Orders(RowsNow) : reader.shown[n] = Cut(s, n - 1))'
    BY <1>1, <2>1, <2>4, CutsStay
  <2> QED BY <1>1, <2>1, <2>2, <2>3, <2>5 DEF PagesAreCut
<1> QED BY <1>2, <1>3, <1>4, <1>5 DEF ReadInv

\* A request asks: for a first page, or for the next of the same listing.
LEMMA AskStep ==
  ASSUME ReadInv, NEW r \in Route \cup {Plain}, NEW c \in Caller, NEW page \in 0..LastPage,
         Ask(r, c, page), reader.at \in {"idle", "answered"}, Len(reader.shown) = page,
         reader.shown = << >> \/ (r = reader.route /\ c = reader.caller)
  PROVE  ReadInv'
<1> DEFINE now == NowReadable(r, c)
<1>0. RouteHolds(r) /\ reader \in Reader BY RoutesHold DEF ReadInv
<1>1. /\ reader'.at = IF r.gate = "none" THEN "query" ELSE "top"
      /\ reader'.route = r /\ reader'.caller = c /\ reader'.page = page
      /\ reader'.hidden = FALSE /\ reader'.ids = Item
      /\ reader'.ranks = reader.ranks /\ reader'.total = reader.total
      /\ reader'.shown = reader.shown /\ reader'.touched = reader.touched
      /\ UNCHANGED <<top, cp, item, listed, rankOf, writes>>
      /\ watch' = [ever |-> now, always |-> now]
  BY <1>0 DEF Ask, Reader, Watched
<1>2. reader' \in Reader
  <2>1. reader' = [reader EXCEPT !.at = reader'.at, !.route = r, !.caller = c, !.page = page,
                                 !.hidden = FALSE, !.ids = Item]
    BY <1>1 DEF Ask
  <2>2. reader'.at \in {"query", "top"} BY <1>1
  <2> QED BY <1>0, <2>1, <2>2 DEF Reader
<1>3. ReadTypeOK'
  <2>1. now \in Levels BY NowIsLevels DEF ReadInv, ReadTypeOK
  <2>2. watch' \in [ever : Levels, always : Levels]
    <3> HIDE DEF now
    <3> QED BY <1>1, <2>1
  <2>3. Len(reader'.shown) =< LastPage + 1 BY <1>1 DEF ReadInv, ReadTypeOK
  <2> HIDE DEF now
  <2> QED BY <1>1, <1>2, <2>2, <2>3 DEF ReadInv, ReadTypeOK, Reader
<1>4. ReaderInOrder' BY <1>1 DEF ReaderInOrder, Underway
<1>5. NowWatched'
  <2>1. NowReadable(r, c)' = now BY <1>1, NowStays
  <2>2. NowReadable(reader.route, reader.caller)' = NowReadable(r, c)'
    BY <1>1 DEF NowReadable, TopHides, PeriodHides
  <2>3. watch'.ever = now /\ watch'.always = now BY <1>1
  <2>4. Within(now, now) BY DEF Within
  <2> HIDE DEF now
  <2> QED BY <2>1, <2>2, <2>3, <2>4 DEF NowWatched, Within
<1>6. r.gate = "none" => /\ ~TopHides(r, c) /\ now.cp /\ now.top /\ now.ids = Item
  <2> HAVE r.gate = "none"
  <2>1. r.hides = "nothing" BY <1>0 DEF RouteHolds
  <2>2. ~TopHides(r, c) BY <2>1 DEF TopHides, Hides
  <2> QED BY <2>2 DEF NowReadable
<1>7. LooksAreTrue'
  <2>1. reader'.at # "query" => LooksAreTrue' BY <1>1 DEF LooksAreTrue
  <2>2. watch'.ever = now /\ watch'.always = now BY <1>1
  <2> HIDE DEF now
  <2>3. r.gate = "none" => Through(watch'.ever) BY <1>6, <2>2 DEF Through
  <2> QED BY <1>1, <1>6, <2>1, <2>2, <2>3 DEF LooksAreTrue
<1>8. AnswersTrue' BY <1>1 DEF AnswersTrue
<1>9. PagesAreCut'
  <2> SUFFICES ASSUME ~reader'.touched PROVE PagesAreCut' BY DEF PagesAreCut
  <2>1. reader'.at = "query" => r.gate = "none" BY <1>1
  <2>2. r.gate = "none" => HiddenNow' = FALSE /\ IdsNow' = Item
    <3> HAVE r.gate = "none"
    <3>1. ~TopHides(r, c)' BY <1>1, <1>6, NowStays
    <3>2. TopHides(reader.route, reader.caller)' = TopHides(r, c)'
      BY <1>1 DEF TopHides, Hides, PinsHide
    <3> QED BY <1>1, <3>1, <3>2 DEF HiddenNow, IdsNow
  <2>3. reader'.at = "query" => reader'.hidden = HiddenNow' /\ reader'.ids = IdsNow'
    BY <1>1, <2>1, <2>2
  <2>4. (reader'.at = "query" \/ reader'.shown # << >>) /\ reader'.route.order = "rank"
           => reader'.ranks = rankOf'
    <3>1. r.gate = "none" => r.order # "rank" BY <1>0 DEF RouteHolds
    <3>2. reader.shown # << >> /\ r.order = "rank" => reader.ranks = rankOf
      BY <1>1 DEF ReadInv, PagesAreCut
    <3> QED BY <1>1, <2>1, <3>1, <3>2
  <2>5. (reader.route.pages =>
            /\ reader.shown # << >> => reader.total = Cardinality(RowsNow)
            /\ \A n \in DOMAIN reader.shown :
                 \E s \in Orders(RowsNow) : reader.shown[n] = Cut(s, n - 1))'
    <3>1. CASE reader.shown = << >> BY <1>1, <3>1
    <3>2. CASE reader.shown # << >> BY <1>1, <3>2, CutsStay
    <3> QED BY <3>1, <3>2
  <2>6. reader'.at \notin {"period", "rank"} BY <1>1
  <2> QED BY <2>3, <2>4, <2>5, <2>6 DEF PagesAreCut
<1> QED BY <1>2, <1>3, <1>4, <1>5, <1>7, <1>8, <1>9 DEF ReadInv

LEMMA BeginStep ==
  ASSUME ReadInv, NEW r \in Route, NEW c \in Caller, Begin(r, c)
  PROVE  ReadInv'
<1>1. /\ reader.at = "idle" /\ Ask(r, c, 0) BY DEF Begin
<1>2. reader.shown = << >> /\ 0 \in 0..LastPage
  BY <1>1, PageAssumption DEF ReadInv, ReaderInOrder
<1>3. Len(reader.shown) = 0 BY <1>2
<1> QED BY <1>1, <1>2, <1>3, AskStep

LEMMA NextPageStep ==
  ASSUME ReadInv, NextPage
  PROVE  ReadInv'
<1>1. /\ reader.at = "answered" /\ reader.page < LastPage
      /\ Ask(reader.route, reader.caller, reader.page + 1)
  BY DEF NextPage
<1>2. /\ reader.route \in Route \cup {Plain} /\ reader.caller \in Caller
      /\ reader.page \in 0..LastPage
  BY DEF ReadInv, ReadTypeOK
<1>3. reader.page + 1 \in 0..LastPage BY <1>1, <1>2, PageAssumption
<1>4. Len(reader.shown) = reader.page + 1 BY <1>1 DEF ReadInv, ReaderInOrder
<1> QED BY <1>1, <1>2, <1>3, <1>4, AskStep

\* What the query matches lies between the rows that every level let through all
\* the time and those that each let through at some moment.
LEMMA MatchedIs ==
  ASSUME ReadInv, reader.at = "query"
  PROVE  LET always == watch.always
             ever == watch.ever
         IN /\ Matched \subseteq Item
            /\ Passing(Matched) \subseteq ever.ids \cap ever.rows
            /\ Matched # {} => Through(ever)
            /\ Through(always) => always.ids \cap always.rows \subseteq Passing(Matched)
<1> PICK r, c : r = reader.route /\ c = reader.caller OBVIOUS
<1> DEFINE now == NowReadable(r, c)
<1>1. Within(watch.always, now) /\ Within(now, watch.ever)
  BY DEF ReadInv, NowWatched, Underway
<1>2. now.rows = {i \in Item : OwnPasses(r, c, item[i].read)} BY DEF NowReadable
<1>3. /\ reader.ids \subseteq watch.ever.ids /\ watch.always.ids \subseteq reader.ids
      /\ IF reader.hidden THEN ~Through(watch.always) ELSE Through(watch.ever)
  BY DEF ReadInv, LooksAreTrue
<1>4. reader.ids \subseteq Item BY DEF ReadInv, ReadTypeOK
<1>5. Matched \subseteq Item /\ Matched \subseteq reader.ids /\ (Matched # {} => ~reader.hidden)
  BY <1>4 DEF Matched
<1>6. Passing(Matched) \subseteq now.rows BY <1>2, <1>5 DEF Passing
<1>7. ASSUME Through(watch.always)
      PROVE  watch.always.ids \cap watch.always.rows \subseteq Passing(Matched)
  <2> SUFFICES ASSUME NEW i \in watch.always.ids, i \in watch.always.rows
               PROVE  i \in Passing(Matched)
    OBVIOUS
  <2>1. i \in now.rows BY <1>1 DEF Within
  <2>2. OwnPasses(r, c, item[i].read) BY <1>2, <2>1
  <2>3. item[i].read # "gone" BY <2>2 DEF OwnPasses
  <2>4. i \in reader.ids /\ ~reader.hidden BY <1>3, <1>7
  <2> QED BY <2>2, <2>3, <2>4 DEF Passing, Matched
<1>8. Passing(Matched) \subseteq Matched BY DEF Passing
<1> HIDE DEF now
<1>9. now.rows \subseteq watch.ever.rows BY <1>1 DEF Within
<1> QED BY <1>3, <1>5, <1>6, <1>7, <1>8, <1>9

LEMMA QueryStep ==
  ASSUME ReadInv, Query
  PROVE  ReadInv'
<1> PICK r, c : r = reader.route /\ c = reader.caller OBVIOUS
<1> DEFINE rows == IF r.late THEN Matched ELSE Passing(Matched)
           page(s) == IF r.pages \/ r.late THEN Cut(s, reader.page) ELSE rows
<1>0. /\ RouteHolds(r) /\ reader \in Reader /\ reader.page \in Nat
      /\ reader.at = "query" /\ ReadOnly
  BY RoutesHold DEF ReadInv, Reader, Query
<1>1. PICK s \in Orders(rows) :
        reader' = [reader EXCEPT !.at = "answered", !.total = Cardinality(rows),
                                 !.shown = Append(@, Passing(page(s)))]
  BY DEF Query
<1> PICK answer : answer = Passing(page(s)) OBVIOUS
<1>2. Passing(Matched) \subseteq rows /\ rows \subseteq Matched /\ rows \subseteq Item
  BY <1>0, MatchedIs DEF Passing
<1>3. IsFiniteSet(rows) /\ Cardinality(rows) \in 0..Cardinality(Item)
  <2>1. IsFiniteSet(rows) /\ Cardinality(rows) =< Cardinality(Item)
    BY <1>2, ItemAssumption, FS_Subset
  <2>2. Cardinality(rows) \in Nat /\ Cardinality(Item) \in Nat
    BY <2>1, ItemAssumption, FS_CardinalityType
  <2> QED BY <2>1, <2>2
<1>4. page(s) \subseteq rows /\ answer \subseteq Passing(Matched) /\ answer \subseteq Item
  <2>1. Cut(s, reader.page) \subseteq rows BY <1>0, <1>1, <1>2, PageSizes
  <2>2. page(s) \subseteq rows BY <2>1
  <2> HIDE DEF rows, page
  <2>3. answer \subseteq Passing(rows) BY <2>2 DEF Passing
  <2> QED BY <1>2, <2>2, <2>3 DEF Passing
<1> HIDE DEF rows, page
<1>5. /\ reader'.at = "answered" /\ reader'.total = Cardinality(rows)
      /\ reader'.shown = Append(reader.shown, answer)
      /\ reader'.route = r /\ reader'.caller = c /\ reader'.page = reader.page
      /\ reader'.ranks = reader.ranks /\ reader'.touched = reader.touched
      /\ reader'.hidden = reader.hidden /\ reader'.ids = reader.ids
      /\ UNCHANGED <<top, cp, item, listed, rankOf, watch, writes>>
  BY <1>0, <1>1 DEF Reader, ReadOnly
<1>6. /\ reader.shown \in Seq(SUBSET Item) /\ reader'.shown \in Seq(SUBSET Item)
      /\ Len(reader.shown) = reader.page /\ Len(reader'.shown) = reader.page + 1
      /\ reader'.shown[reader.page + 1] = answer
      /\ \A n \in 1..reader.page : reader'.shown[n] = reader.shown[n]
  <2>1. reader.shown \in Seq(SUBSET Item) BY <1>0 DEF Reader
  <2>2. Len(reader.shown) = reader.page BY <1>0 DEF ReadInv, ReaderInOrder, Underway
  <2> QED BY <1>4, <1>5, <2>1, <2>2
<1>7. reader' \in Reader
  <2>1. reader' = [reader EXCEPT !.at = "answered", !.total = Cardinality(rows),
                                 !.shown = reader'.shown]
    BY <1>1, <1>5
  <2> QED BY <1>0, <1>3, <1>6, <2>1 DEF Reader
<1>8. ReadTypeOK'
  <2>1. reader.page =< LastPage /\ LastPage \in Nat BY <1>0, PageAssumption DEF Reader
  <2> QED BY <1>5, <1>6, <1>7, <2>1 DEF ReadInv, ReadTypeOK, Reader
<1>9. ReaderInOrder' BY <1>5, <1>6 DEF ReaderInOrder, Underway
<1>10. NowWatched' /\ LooksAreTrue' BY <1>5 DEF NowWatched, LooksAreTrue, Underway
<1>11. AnswersTrue'
  <2> DEFINE always == watch.always
             ever == watch.ever
  <2>1. Last(reader'.shown) = answer BY <1>6 DEF Last
  <2>2. answer # {} => Through(ever) BY <1>0, <1>4, MatchedIs DEF Passing
  <2>3. answer \subseteq ever.ids \cap ever.rows BY <1>0, <1>4, MatchedIs
  <2>4. Through(always) => Cardinality(rows) >= Cardinality(always.ids \cap always.rows)
    <3> HAVE Through(always)
    <3>1. always.ids \cap always.rows \subseteq rows BY <1>0, <1>2, MatchedIs
    <3>2. Cardinality(always.ids \cap always.rows) =< Cardinality(rows)
      BY <1>3, <3>1, FS_Subset
    <3>3. IsFiniteSet(always.ids \cap always.rows) BY <1>3, <3>1, FS_Subset
    <3>4. Cardinality(always.ids \cap always.rows) \in Nat BY <3>3, FS_CardinalityType
    <3> QED BY <1>3, <3>2, <3>4
  <2>5. r.late \/ Cardinality(rows) =< Cardinality(ever.ids \cap ever.rows)
    <3> SUFFICES ASSUME ~r.late
                 PROVE  Cardinality(rows) =< Cardinality(ever.ids \cap ever.rows)
      OBVIOUS
    <3>1. rows \subseteq ever.ids \cap ever.rows BY <1>0, MatchedIs DEF rows
    <3>2. ever \in Levels BY DEF ReadInv, ReadTypeOK
    <3>3. ever.ids \cap ever.rows \subseteq Item BY <3>2 DEF Levels
    <3>4. IsFiniteSet(ever.ids \cap ever.rows) BY <3>3, ItemAssumption, FS_Subset
    <3> QED BY <3>1, <3>4, FS_Subset
  <2>6. watch' = watch BY <1>5
  <2> HIDE DEF always, ever
  <2>7. Through(watch.always)' = Through(always) /\ Through(watch.ever)' = Through(ever)
    BY <2>6 DEF Through, always, ever
  <2> QED BY <1>5, <2>1, <2>2, <2>3, <2>4, <2>5, <2>6, <2>7 DEF AnswersTrue, always, ever
<1>12. PagesAreCut'
  <2> SUFFICES ASSUME ~reader'.touched PROVE PagesAreCut' BY DEF PagesAreCut
  <2>1. reader.hidden = HiddenNow /\ reader.ids = IdsNow BY <1>0, <1>5 DEF ReadInv, PagesAreCut
  <2>2. r.order = "rank" => reader.ranks = rankOf BY <1>0, <1>5 DEF ReadInv, PagesAreCut
  <2>3. RowsNow = Passing(Matched) BY <2>1 DEF RowsNow, Passing, Matched
  <2>4. RowsNow' = RowsNow BY <1>5, ListingStays
  <2>5. ASSUME r.pages
        PROVE  /\ (reader.total = Cardinality(RowsNow))'
               /\ (\A n \in DOMAIN reader.shown :
                     \E t \in Orders(RowsNow) : reader.shown[n] = Cut(t, n - 1))'
    <3>1. RowsNow = rows BY <1>0, <2>3, <2>5 DEF RouteHolds, rows
    <3>2. Orders(rows)' = Orders(rows)
      <4> PICK R : R = rows OBVIOUS
      <4>1. Orders(R)' = Orders(R) BY <1>5, OrdersStay
      <4>2. rows' = rows
        BY <1>5 DEF rows, Matched, Passing
      <4> QED BY <4>1, <4>2 DEF Orders, Precedes, Weight
    <3>3. rows' = rows BY <1>5 DEF rows, Matched, Passing
    <3>4. Orders(RowsNow)' = Orders(rows)
      BY <2>4, <3>1, <3>2, <3>3 DEF Orders, Precedes, Weight
    <3>5. answer = Cut(s, reader.page)
      <4>1. Cut(s, reader.page) \subseteq Passing(Matched) BY <1>4, <2>3, <2>5, <3>1 DEF page
      <4>2. answer = Passing(Cut(s, reader.page)) BY <2>5 DEF page
      <4> QED BY <4>1, <4>2 DEF Passing
    <3>6. ASSUME NEW n \in DOMAIN reader'.shown
          PROVE  \E t \in Orders(rows) : reader'.shown[n] = Cut(t, n - 1)
      <4>1. n \in 1..reader.page + 1 BY <1>6, <3>6
      <4>2. CASE n = reader.page + 1
        <5>1. n - 1 = reader.page BY <1>0, <4>2
        <5> QED BY <1>1, <1>6, <3>5, <4>2, <5>1
      <4>3. CASE n # reader.page + 1
        <5>1. n \in 1..reader.page /\ n \in DOMAIN reader.shown BY <1>0, <1>6, <4>1, <4>3
        <5>2. \E t \in Orders(RowsNow) : reader.shown[n] = Cut(t, n - 1)
          BY <1>5, <2>5, <5>1 DEF ReadInv, PagesAreCut
        <5> QED BY <1>6, <3>1, <5>1, <5>2
      <4> QED BY <4>2, <4>3
    <3>7. (\A n \in DOMAIN reader.shown :
             \E t \in Orders(RowsNow) : reader.shown[n] = Cut(t, n - 1))'
      BY <3>4, <3>6 DEF Cut
    <3> QED BY <1>5, <2>4, <3>1, <3>7
  <2>6. (reader.route.order = "rank" => reader.ranks = rankOf)' BY <1>5, <2>2
  <2>7. reader'.at = "answered" /\ reader'.route = r BY <1>5
  <2> QED BY <2>5, <2>6, <2>7 DEF PagesAreCut
<1> QED BY <1>7, <1>8, <1>9, <1>10, <1>11, <1>12 DEF ReadInv

\* A write of another request, whatever it writes: what was readable at some
\* moment grows with it, what was readable all the time shrinks.
LEMMA OthersStep ==
  ASSUME ReadInv, NEW level, NEW kind, Others(level, kind),
         top' \in Kind, cp' \in Kind, item' \in [Item -> [read : Kind, key : Label]],
         listed' \subseteq Item, rankOf' \in [Label -> Label \cup {0}]
  PROVE  ReadInv'
<1> PICK r, c : r = reader.route /\ c = reader.caller OBVIOUS
<1> PICK now : now = NowReadable(r, c)' OBVIOUS
<1> DEFINE ever == watch.ever
           always == watch.always
<1>0. /\ reader \in Reader /\ now \in Levels /\ ever \in Levels /\ always \in Levels
  BY NowIsLevels DEF ReadInv, ReadTypeOK
<1>1. /\ reader' = [reader EXCEPT !.touched = reader.touched \/ reader.at # "idle"]
      /\ writes < MaxWrites /\ writes' = writes + 1
  BY DEF Others
<1>2. /\ reader' \in Reader /\ reader'.at = reader.at
      /\ reader'.route = r /\ reader'.caller = c /\ reader'.page = reader.page
      /\ reader'.hidden = reader.hidden /\ reader'.ids = reader.ids
      /\ reader'.ranks = reader.ranks /\ reader'.total = reader.total
      /\ reader'.shown = reader.shown
      /\ reader'.touched <=> reader.touched \/ reader.at # "idle"
  BY <1>0, <1>1 DEF Reader
<1>3. NowReadable(reader.route, reader.caller)' = now
  BY <1>2 DEF NowReadable, TopHides, PeriodHides
<1>4. ~Underway => watch' = watch BY DEF Others
<1>5. Underway =>
        watch' = [ever |-> [top |-> ever.top \/ now.top, orphan |-> ever.orphan \/ now.orphan,
                            cp |-> ever.cp \/ now.cp,
                            ids |-> ever.ids \cup now.ids, rows |-> ever.rows \cup now.rows],
                  always |-> [top |-> always.top /\ now.top,
                              orphan |-> always.orphan /\ now.orphan, cp |-> always.cp /\ now.cp,
                              ids |-> always.ids \cap now.ids, rows |-> always.rows \cap now.rows]]
  BY <1>3 DEF Others
<1>6. /\ watch'.ever \in Levels /\ watch'.always \in Levels
      /\ watch' \in [ever : Levels, always : Levels]
      /\ Within(ever, watch'.ever) /\ Within(watch'.always, always)
      /\ Underway => Within(now, watch'.ever) /\ Within(watch'.always, now)
  <2>1. CASE ~Underway
    <3>1. watch \in [ever : Levels, always : Levels] BY DEF ReadInv, ReadTypeOK
    <3> QED BY <1>4, <2>1, <3>1 DEF Within
  <2>2. CASE Underway
    <3>1. PICK e \in Levels, a \in Levels :
            /\ watch' = [ever |-> e, always |-> a]
            /\ Within(ever, e) /\ Within(a, always) /\ Within(now, e) /\ Within(a, now)
      <4> DEFINE e == [top |-> ever.top \/ now.top, orphan |-> ever.orphan \/ now.orphan,
                       cp |-> ever.cp \/ now.cp,
                       ids |-> ever.ids \cup now.ids, rows |-> ever.rows \cup now.rows]
                 a == [top |-> always.top /\ now.top, orphan |-> always.orphan /\ now.orphan,
                       cp |-> always.cp /\ now.cp, ids |-> always.ids \cap now.ids,
                       rows |-> always.rows \cap now.rows]
      <4>1. e \in Levels /\ Within(ever, e) /\ Within(now, e) BY <1>0 DEF Levels, Within
      <4>2. a \in Levels /\ Within(a, always) /\ Within(a, now) BY <1>0 DEF Levels, Within
      <4>3. watch' = [ever |-> e, always |-> a] BY <1>5, <2>2
      <4> HIDE DEF e, a
      <4> QED BY <4>1, <4>2, <4>3
    <3> QED BY <3>1
  <2> QED BY <2>1, <2>2
<1> HIDE DEF ever, always
<1>7. ReadTypeOK'
  <2>1. writes' \in 0..MaxWrites BY <1>1, PageAssumption DEF ReadInv, ReadTypeOK
  <2>2. Len(reader'.shown) =< LastPage + 1 BY <1>2 DEF ReadInv, ReadTypeOK
  <2> QED BY <1>2, <1>6, <2>1, <2>2 DEF ReadTypeOK, Reader
<1>8. ReaderInOrder' BY <1>2 DEF ReadInv, ReaderInOrder, Underway
<1>9. NowWatched'
  <2>1. Underway' <=> Underway BY <1>2 DEF Underway
  <2> QED BY <1>3, <1>6, <2>1 DEF NowWatched, Within
<1>10. LooksAreTrue'
  <2>1. /\ Through(watch.always)' => Through(always)
        /\ Through(ever) => Through(watch.ever)'
    BY <1>6 DEF Through, Within
  <2> QED BY <1>2, <1>6, <2>1 DEF ReadInv, LooksAreTrue, Within, ever, always
<1>11. AnswersTrue'
  <2> SUFFICES ASSUME reader'.at = "answered" PROVE AnswersTrue' BY DEF AnswersTrue
  <2>1. watch' = watch BY <1>2, <1>4 DEF Underway
  <2> QED BY <1>2, <2>1 DEF ReadInv, AnswersTrue, Through
<1>12. PagesAreCut'
  <2> SUFFICES ASSUME ~reader'.touched PROVE PagesAreCut' BY DEF PagesAreCut
  <2>1. reader'.at = "idle" /\ reader'.shown = << >>
    BY <1>2 DEF ReadInv, ReaderInOrder
  <2> QED BY <2>1 DEF PagesAreCut
<1> QED BY <1>2, <1>7, <1>8, <1>9, <1>10, <1>11, <1>12 DEF ReadInv

LEMMA ReadInvStep ==
  ASSUME ReadInv, [ReadNext]_readVars
  PROVE  ReadInv'
<1>0. ReadTypeOK BY DEF ReadInv
<1>1. ASSUME NEW r \in Route, NEW c \in Caller, Begin(r, c) PROVE ReadInv'
  BY <1>1, BeginStep
<1>2. CASE NextPage BY <1>2, NextPageStep
<1>3. CASE LookTop BY <1>3, LookTopStep
<1>4. CASE LookPeriod BY <1>4, LookPeriodStep
<1>5. CASE LookRanks BY <1>5, LookRanksStep
<1>6. CASE Query BY <1>6, QueryStep
<1>7. ASSUME NEW kind \in Kind, WriteTop(kind) PROVE ReadInv'
  <2>1. /\ Others(top, kind) /\ top' \in Kind /\ cp' \in Kind /\ listed' \subseteq Item
        /\ item' \in [Item -> [read : Kind, key : Label]] /\ rankOf' \in [Label -> Label \cup {0}]
    BY <1>0, <1>7 DEF WriteTop, ReadTypeOK
  <2> QED BY <2>1, OthersStep
<1>8. ASSUME NEW kind \in Kind, WritePeriod(kind) PROVE ReadInv'
  <2>1. /\ Others(cp, kind) /\ top' \in Kind /\ cp' \in Kind /\ listed' \subseteq Item
        /\ item' \in [Item -> [read : Kind, key : Label]] /\ rankOf' \in [Label -> Label \cup {0}]
    BY <1>0, <1>8 DEF WritePeriod, ReadTypeOK
  <2> QED BY <2>1, OthersStep
<1>9. ASSUME NEW i \in Item, NEW kind \in Kind, WriteItem(i, kind) PROVE ReadInv'
  <2>1. /\ Others(item[i].read, kind) /\ top' \in Kind /\ cp' \in Kind /\ listed' \subseteq Item
        /\ item' \in [Item -> [read : Kind, key : Label]] /\ rankOf' \in [Label -> Label \cup {0}]
    BY <1>0, <1>9 DEF WriteItem, ReadTypeOK
  <2> QED BY <2>1, OthersStep
<1>10. ASSUME NEW ids \in SUBSET Item, WriteList(ids) PROVE ReadInv'
  <2>1. /\ Others(listed, ids) /\ top' \in Kind /\ cp' \in Kind /\ listed' \subseteq Item
        /\ item' \in [Item -> [read : Kind, key : Label]] /\ rankOf' \in [Label -> Label \cup {0}]
    BY <1>0, <1>10 DEF WriteList, ReadTypeOK
  <2> QED BY <2>1, OthersStep
<1>11. ASSUME NEW l \in Label, NEW n \in Label \cup {0}, RenameLabel(l, n) PROVE ReadInv'
  <2>1. /\ Others(rankOf[l], n) /\ top' \in Kind /\ cp' \in Kind /\ listed' \subseteq Item
        /\ item' \in [Item -> [read : Kind, key : Label]] /\ rankOf' \in [Label -> Label \cup {0}]
    BY <1>0, <1>11 DEF RenameLabel, ReadTypeOK
  <2> QED BY <2>1, OthersStep
<1>12. CASE UNCHANGED readVars
  <2>1. UNCHANGED <<top, cp, item, listed, rankOf, reader, watch, writes>>
    BY <1>12 DEF readVars
  <2>2. ReadTypeOK' /\ ReaderInOrder' /\ LooksAreTrue' /\ AnswersTrue' /\ reader' \in Reader
    BY <2>1 DEF ReadInv, ReadTypeOK, ReaderInOrder, Underway, LooksAreTrue, AnswersTrue, Through
  <2>3. NowWatched'
    BY <2>1 DEF ReadInv, NowWatched, Underway, Within, NowReadable, TopHides, PeriodHides
  <2>4. PagesAreCut'
    <3> SUFFICES ASSUME ~reader'.touched PROVE PagesAreCut' BY DEF PagesAreCut
    <3>1. HiddenNow' = HiddenNow /\ IdsNow' = IdsNow BY <2>1, ListingStays
    <3>2. TopHides(reader.route, reader.caller)' = TopHides(reader.route, reader.caller)
      BY <2>1 DEF TopHides
    <3>3. (reader.route.pages =>
            /\ reader.shown # << >> => reader.total = Cardinality(RowsNow)
            /\ \A n \in DOMAIN reader.shown :
                 \E s \in Orders(RowsNow) : reader.shown[n] = Cut(s, n - 1))'
      BY <2>1, CutsStay
    <3> QED BY <2>1, <3>1, <3>2, <3>3 DEF ReadInv, PagesAreCut
  <2> QED BY <2>2, <2>3, <2>4 DEF ReadInv
<1> QED
  BY <1>1, <1>2, <1>3, <1>4, <1>5, <1>6, <1>7, <1>8, <1>9, <1>10, <1>11, <1>12 DEF ReadNext

LEMMA ReadInvInit == ReadInit => ReadInv
<1> SUFFICES ASSUME ReadInit PROVE ReadInv OBVIOUS
<1> DEFINE now == NowReadable(Plain, "public")
<1>1. /\ top = "open" /\ cp = "open" /\ listed = Item /\ rankOf = [l \in Label |-> l]
      /\ item \in [Item -> [read : {"open"}, key : Label]] /\ writes = 0
      /\ watch = [ever |-> now, always |-> now]
      /\ reader = [at |-> "idle", route |-> Plain, caller |-> "public", page |-> 0,
                   hidden |-> FALSE, ids |-> Item, ranks |-> rankOf, total |-> 0,
                   shown |-> << >>, touched |-> FALSE]
  BY DEF ReadInit, Watched
<1>2. rankOf \in [Label -> Label \cup {0}] BY <1>1
<1>3. Cardinality(Item) \in Nat BY ItemAssumption, FS_CardinalityType
<1>4. now \in Levels BY <1>1, NowIsLevels
<1> HIDE DEF now
<1>5. watch \in [ever : Levels, always : Levels] BY <1>1, <1>4
<1>6. /\ reader.at = "idle" /\ reader.route = Plain /\ reader.caller = "public"
      /\ reader.page = 0 /\ reader.hidden = FALSE /\ reader.ids = Item /\ reader.ranks = rankOf
      /\ reader.total = 0 /\ reader.shown = << >> /\ reader.touched = FALSE
  BY <1>1
<1>7. reader \in Reader
  <2>1. "public" \in Caller /\ << >> \in Seq(SUBSET Item) BY DEF Caller
  <2> HIDE DEF Plain
  <2> QED BY <1>1, <1>2, <1>3, <2>1, PageAssumption DEF Reader
<1>8. ReadTypeOK
  <2>1. item \in [Item -> [read : Kind, key : Label]] BY <1>1 DEF Kind, Read
  <2>2. Len(reader.shown) =< LastPage + 1 BY <1>6, PageAssumption
  <2> QED BY <1>1, <1>2, <1>5, <1>7, <2>1, <2>2, PageAssumption DEF ReadTypeOK, Reader, Kind, Read
<1>9. ReaderInOrder /\ NowWatched /\ LooksAreTrue /\ AnswersTrue
  BY <1>6 DEF ReaderInOrder, NowWatched, LooksAreTrue, AnswersTrue, Underway
<1>10. PagesAreCut BY <1>6 DEF PagesAreCut, Plain
<1> QED BY <1>7, <1>8, <1>9, <1>10 DEF ReadInv

\* The pages of a listing that nobody writes: each is as full as it can be, and
\* no row is on two.
LEMMA ReadInvPages == ReadInv => PagesPartition
<1> SUFFICES ASSUME ReadInv, reader.at = "answered", reader.route.pages, ~reader.touched
             PROVE  PagesPartition
  BY DEF PagesPartition
<1> DEFINE Left(n) == IF reader.total > (n - 1) * PageSize
                      THEN reader.total - (n - 1) * PageSize ELSE 0
<1> PICK R : R = RowsNow OBVIOUS
<1>1. /\ reader \in Reader /\ ReadTypeOK /\ R \in SUBSET Item
  BY DEF ReadInv, RowsNow, IdsNow, ReadTypeOK
<1>2. reader.shown \in Seq(SUBSET Item) /\ Len(reader.shown) = reader.page + 1
  BY <1>1 DEF ReadInv, ReaderInOrder, Reader
<1>3. reader.shown # << >> BY <1>1, <1>2 DEF Reader
<1>4. /\ reader.total = Cardinality(R)
      /\ \A n \in DOMAIN reader.shown : \E s \in Orders(R) : reader.shown[n] = Cut(s, n - 1)
  BY <1>3 DEF ReadInv, PagesAreCut
<1>5. ASSUME NEW n \in DOMAIN reader.shown
      PROVE  n - 1 \in Nat /\ Cardinality(reader.shown[n]) = Min({Left(n), PageSize})
  <2>1. n - 1 \in Nat BY <1>2
  <2>2. PICK s \in Orders(R) : reader.shown[n] = Cut(s, n - 1) BY <1>4
  <2>3. Cardinality(Cut(s, n - 1)) = Min({Left(n), PageSize})
    BY <1>1, <1>4, <2>1, PageSizes
  <2> QED BY <2>1, <2>2, <2>3
<1>6. ASSUME reader.route.tie, NEW m \in DOMAIN reader.shown, NEW n \in DOMAIN reader.shown,
             m # n
      PROVE  reader.shown[m] \cap reader.shown[n] = {}
  <2>1. PICK s \in Orders(R) : reader.shown[m] = Cut(s, m - 1) BY <1>4
  <2>2. PICK t \in Orders(R) : reader.shown[n] = Cut(t, n - 1) BY <1>4
  <2>3. m - 1 \in Nat /\ n - 1 \in Nat /\ m - 1 # n - 1 BY <1>2, <1>6
  <2>4. Cut(s, m - 1) \cap Cut(t, n - 1) = {} BY <1>1, <1>6, <2>3, PagesApart
  <2> QED BY <2>1, <2>2, <2>4
<1> QED BY <1>5, <1>6 DEF PagesPartition

\* For any data, routes, page size and number of pages: what a read answers was
\* readable at each of its levels at some moment of the request, though it looks
\* at them one after the other and others write meanwhile.
THEOREM AnswersAreTrue == ReadSpec => [](ReadTypeOK /\ AnswersTrue)
<1>1. ReadInv => ReadTypeOK /\ AnswersTrue BY DEF ReadInv
<1> QED BY ReadInvInit, ReadInvStep, <1>1, PTL DEF ReadSpec

\* And the pages of data that nobody writes are a partition of it.
THEOREM PagesArePartition == ReadSpec => []PagesPartition
<1> QED BY ReadInvInit, ReadInvStep, ReadInvPages, PTL DEF ReadSpec


-----------------------------------------------------------------------------
(* The handlers together, as MCApi has them. *)

\* A request of MCApi takes its steps in turn, but they are those of its module.
LEMMA HandlersStep ==
  ASSUME [ApiNext]_apiVars
  PROVE  /\ [DocNext]_docVars /\ [ActNext]_actVars /\ [CmtNext]_cmtVars
         /\ [DirNext]_dirVars /\ [RenameNext]_renameVars /\ [ReadNext]_readVars
<1>0. ASSUME NEW jobs, NEW few PROVE Ready(jobs, few) \subseteq Request BY DEF Ready
<1>1. CASE UNCHANGED apiVars BY <1>1 DEF apiVars
<1>2. CASE DocumentsStep BY <1>0, <1>2 DEF DocumentsStep, DocNext
<1>3. CASE ProjectsStep
  <2>1. ActNext BY <1>0, <1>3 DEF ProjectsStep, ActNext, ChangeProject
  <2> QED BY <1>3, <2>1 DEF ProjectsStep
<1>4. CASE CommentsStep BY <1>0, <1>4 DEF CommentsStep, CmtNext
<1>5. CASE DirectoryStep BY <1>0, <1>5 DEF DirectoryStep, DirNext
<1>6. CASE RenamesStep BY <1>6 DEF RenamesStep
<1>7. CASE ReadsStep BY <1>7 DEF ReadsStep
<1> QED BY <1>1, <1>2, <1>3, <1>4, <1>5, <1>6, <1>7 DEF ApiNext

\* What MCApi leaves out, so that TLC can explore it, adds nothing to its
\* modules: every behaviour of it is one of each of them, so whatever is proved
\* of a module's own specification holds in it.
THEOREM HandlersKeepToThemselves ==
  ApiSpec => DocSpec /\ ActSpec /\ CmtSpec /\ DirSpec /\ RenameSpec /\ ReadSpec
<1>1. ApiInit => DocInit /\ ActInit /\ CmtInit /\ DirInit /\ RenameInit /\ ReadInit
  BY DEF ApiInit
<1>2. [ApiNext]_apiVars =>
        /\ [DocNext]_docVars /\ [ActNext]_actVars /\ [CmtNext]_cmtVars
        /\ [DirNext]_dirVars /\ [RenameNext]_renameVars /\ [ReadNext]_readVars
  BY HandlersStep
<1> QED BY <1>1, <1>2, PTL
        DEF ApiSpec, DocSpec, ActSpec, CmtSpec, DirSpec, RenameSpec, ReadSpec

\* Documents and their files, organizations with their users and committees,
\* pushes and reads, side by side: each keeps what it keeps by itself.
THEOREM HandlersHold ==
  ApiSpec => [](/\ FilesMatchRows /\ StatusAgrees /\ ChecksHold /\ DirectoryAgrees
                /\ UsersMirroredOrOwed /\ AnswersTrue /\ PagesPartition)
BY HandlersKeepToThemselves, FilesAlwaysMatch, StatusesAlwaysAgree, ChecksAlwaysHold,
   DirectoryStaysInStep, RenamesAreMirrored, AnswersAreTrue, PagesArePartition, PTL
=============================================================================
