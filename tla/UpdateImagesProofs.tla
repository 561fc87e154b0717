------------------------- MODULE UpdateImagesProofs -------------------------
(***************************************************************************)
(* Proofs, for any requests, Updates, images and contents and any faults,  *)
(* that the variables keep their shape, that no published Update is left   *)
(* with a private image of its project, and that no image is left public   *)
(* unshown but for the strays.                                             *)
(***************************************************************************)
EXTENDS UpdateImages, TLAPS

-----------------------------------------------------------------------------
(* The inductive invariant. *)

Releasing == {"public", "shown", "unpublish", "recheck", "putback"}

\* A release works on the images it was asked to release, and has unpublished none before its
\* loop; only a request that saved goes on to publish after one.
InOrder(place, j) ==
  /\ place \in Releasing \ {"public"} => j.todo \cup j.unpublished \subseteq j.ids
  /\ place \in {"public", "shown"} => j.unpublished = {}
  /\ j.then = "find" => j.saved
JobsInOrder == \A r \in Request : InOrder(pc[r], job[r])

\* r will publish d for the Update u it saved, or put back what it took.
Owes(r, u, d) ==
  \/ /\ job[r].upd = u /\ d \in Own(u, job[r].shows)
     /\ \/ pc[r] \in Releasing /\ job[r].then = "find"
        \/ pc[r] = "find" /\ job[r].saved
  \/ pc[r] = "publish" /\ job[r].saved /\ d \in job[r].todo
  \/ pc[r] \in {"unpublish", "recheck"} /\ d \in job[r].unpublished
  \/ pc[r] = "putback" /\ d \in job[r].todo

\* A private image of a published Update is still owed, or its error was logged.
PublicOrOwed ==
  \A u \in Update : update[u].status = "published" =>
    \A d \in Own(u, update[u].shows) :
      image[d].pub \/ d \in logged \/ \E r \in Request : Owes(r, u, d)

Inv == TypeOK /\ JobsInOrder /\ PublicOrOwed

-----------------------------------------------------------------------------
(* Types *)

\* What a content shows are images.
LEMMA ShowsImages ==
  ASSUME NEW shows \in Content \cup {Nothing}
  PROVE  shows.images \in SUBSET Image /\ shows.attached \in SUBSET Image
BY ContentAssumption DEF Nothing

\* A request that asks for nothing has a job of the right shape.
LEMMA NoJobType == NoJob \in Job
<1>1. (CHOOSE u \in Update : TRUE) \in Update
  BY UpdateAssumption
<1>2. [d \in Image |-> 0] \in [Image -> Nat]
  OBVIOUS
<1>. QED BY <1>1, <1>2 DEF NoJob, Job, Status, Row

\* What publishing publishes are images.
LEMMA OwnTypes ==
  ASSUME NEW u \in Update, NEW shows \in Content \cup {Nothing}
  PROVE  Own(u, shows) \in SUBSET Image
BY ShowsImages DEF Own

\* What the published Updates show are images.
LEMMA ShownImages ==
  ASSUME TypeOK
  PROVE  Shown \subseteq Image
<1>1. ASSUME NEW u \in Update
      PROVE  update[u].shows.images \cup update[u].shows.attached \in SUBSET Image
  <2>1. update[u].shows \in Content \cup {Nothing}
    BY DEF TypeOK, Row, Absent
  <2>. QED BY <2>1, ShowsImages
<1>. QED BY <1>1 DEF Shown, ShownIn

\* Starting a release.
LEMMA StartTypes ==
  ASSUME TypeOK, NEW r \in Request, NEW j \in Job, NEW ids \in SUBSET Image,
         NEW then \in {"find", "done"}, StartRelease(r, j, ids, then)
  PROVE  pc' \in [Request -> Place] /\ job' \in [Request -> Job]
<1>. DEFINE k == [j EXCEPT !.ids = ids, !.then = then, !.todo = {}, !.published = {}, !.unpublished = {}]
<1>1. k \in Job
  BY DEF Job
<1>2. CASE ids # {}
  <2>1. pc' = [pc EXCEPT ![r] = "public"] /\ job' = [job EXCEPT ![r] = k]
    BY <1>2 DEF StartRelease, Go
  <2>. QED BY <1>1, <2>1 DEF TypeOK, Place
<1>3. CASE ids = {} /\ then = "done"
  BY <1>3, NoJobType DEF StartRelease, Go, Close, TypeOK, Place
<1>4. CASE ids = {} /\ then # "done"
  <2>1. pc' = [pc EXCEPT ![r] = then] /\ job' = [job EXCEPT ![r] = k]
    BY <1>4 DEF StartRelease, Go
  <2>. QED BY <1>1, <2>1 DEF TypeOK, Place
<1>. QED BY <1>2, <1>3, <1>4

\* Ending one.
LEMMA EndTypes ==
  ASSUME TypeOK, NEW r \in Request, EndRelease(r)
  PROVE  pc' \in [Request -> Place] /\ job' \in [Request -> Job]
<1>. DEFINE k == [job[r] EXCEPT !.ids = {}, !.todo = {}, !.held = NoJob.held, !.unpublished = {}]
<1>0. job[r] \in Job /\ NoJob.held \in [Image -> Nat]
  BY NoJobType DEF TypeOK, Job
<1>1. k \in Job
  BY <1>0 DEF Job
<1>2. CASE job[r].then = "done"
  BY <1>2, NoJobType DEF EndRelease, Go, Close, TypeOK, Place
<1>3. CASE job[r].then # "done"
  <2>1. pc' = [pc EXCEPT ![r] = job[r].then] /\ job' = [job EXCEPT ![r] = k]
    BY <1>3 DEF EndRelease, Go
  <2>2. job[r].then = "find"
    BY <1>0, <1>3 DEF Job
  <2>. QED BY <1>1, <2>1, <2>2 DEF TypeOK, Place
<1>. QED BY <1>2, <1>3

\* Going on with some images, or ending the release.
LEMMA GoOnTypes ==
  ASSUME TypeOK, NEW r \in Request, NEW at \in {"unpublish", "putback"}, NEW docs \in SUBSET Image,
         GoOn(r, at, docs)
  PROVE  pc' \in [Request -> Place] /\ job' \in [Request -> Job]
<1>1. CASE docs = {}
  BY <1>1, EndTypes DEF GoOn
<1>2. CASE docs # {}
  <2>1. job[r] \in Job /\ [job[r] EXCEPT !.todo = docs] \in Job
    BY DEF TypeOK, Job
  <2>. QED BY <1>2, <2>1 DEF GoOn, Go, TypeOK, Place
<1>. QED BY <1>1, <1>2

\* One image is dealt with.
LEMMA AfterTypes ==
  ASSUME TypeOK, NEW r \in Request, NEW d \in Image, NEW unpublished \in SUBSET Image,
         AfterUnpublish(r, d, unpublished)
  PROVE  pc' \in [Request -> Place] /\ job' \in [Request -> Job]
<1>0. job[r] \in Job
  BY DEF TypeOK
<1>1. CASE job[r].todo # {d}
  <2>1. [job[r] EXCEPT !.todo = job[r].todo \ {d}, !.unpublished = unpublished] \in Job
    BY <1>0 DEF Job
  <2>. QED BY <1>1, <2>1 DEF AfterUnpublish, TypeOK
<1>2. CASE job[r].todo = {d} /\ unpublished = {}
  BY <1>2, EndTypes DEF AfterUnpublish
<1>3. CASE job[r].todo = {d} /\ unpublished # {}
  <2>1. [job[r] EXCEPT !.todo = {}, !.unpublished = unpublished] \in Job
    BY <1>0 DEF Job
  <2>. QED BY <1>3, <2>1 DEF AfterUnpublish, Go, TypeOK, Place
<1>. QED BY <1>1, <1>2, <1>3

\* What a request is asked makes a job, which holds the row as it was loaded.
LEMMA BeginTypes ==
  ASSUME TypeOK, NEW r \in Request, Begin(r)
  PROVE  \E k \in Job :
           /\ k.then = "done" /\ job' = [job EXCEPT ![r] = k]
           /\ ~k.saved /\ k.published = {}
           /\ \/ k.kind = "post" /\ k.loaded = 0 /\ k.was = Absent
              \/ k.kind = "put" /\ k.loaded <= k.was.ver /\ k.was = update[k.upd]
<1>0. update \in [Update -> Row]
  BY DEF TypeOK
<1>1. PICK kind \in {"post", "put"}, u \in Update, want \in Status, shows \in Content :
        \E loaded \in 0..update[u].ver :
          /\ kind = "put" => Exists(u) /\ loaded > 0
          /\ kind = "post" => loaded = 0
          /\ job' = [job EXCEPT ![r] = [NoJob EXCEPT
               !.kind = kind, !.upd = u, !.want = want, !.shows = shows, !.loaded = loaded,
               !.was = IF kind = "put" THEN update[u] ELSE Absent]]
  BY Zenon DEF Begin
<1>2. PICK loaded \in 0..update[u].ver :
        /\ kind = "post" => loaded = 0
        /\ job' = [job EXCEPT ![r] = [NoJob EXCEPT
             !.kind = kind, !.upd = u, !.want = want, !.shows = shows, !.loaded = loaded,
             !.was = IF kind = "put" THEN update[u] ELSE Absent]]
  BY <1>1, Zenon
<1>. DEFINE was == IF kind = "put" THEN update[u] ELSE Absent
<1>3. was \in Row /\ update[u].ver \in Nat
  BY <1>0 DEF Row, Absent
<1>4. loaded \in Nat
  BY <1>3
<1>. HIDE DEF was
<1>. DEFINE k == [NoJob EXCEPT !.kind = kind, !.upd = u, !.want = want, !.shows = shows, !.loaded = loaded,
                               !.was = was]
<1>5. k \in Job /\ k.then = "done" /\ ~k.saved /\ k.published = {}
  <2>1. k.then = "done" /\ ~k.saved /\ k.published = {}
    BY DEF NoJob
  <2>2. k \in Job
    BY <1>3, <1>4, NoJobType DEF Job
  <2>. QED BY <2>1, <2>2
<1>7. k.kind = kind /\ k.upd = u /\ k.loaded = loaded /\ k.was = was
  BY NoJobType DEF Job
<1>8. \/ k.kind = "post" /\ k.loaded = 0 /\ k.was = Absent
      \/ k.kind = "put" /\ k.loaded <= k.was.ver /\ k.was = update[k.upd]
  <2>1. CASE kind = "post"
    <3>1. loaded = 0 /\ was = Absent
      BY <1>2, <2>1 DEF was
    <3>. QED BY <1>7, <2>1, <3>1
  <2>2. CASE kind = "put"
    BY <1>3, <1>7, <2>2 DEF was
  <2>. QED BY <2>1, <2>2
<1>6. job' = [job EXCEPT ![r] = k]
  BY <1>2 DEF was
<1>. HIDE DEF k
<1>. QED BY <1>5, <1>6, <1>8

\* Every step keeps the types.
LEMMA TypeStep == TypeOK /\ [Next]_vars => TypeOK'
<1>. SUFFICES ASSUME TypeOK, [Next]_vars PROVE TypeOK'
  OBVIOUS
<1>0. /\ update \in [Update -> Row] /\ image \in [Image -> [pub: BOOLEAN, ver: Nat]]
      /\ pc \in [Request -> Place] /\ job \in [Request -> Job]
      /\ logged \subseteq Image /\ strays \subseteq Image
  BY DEF TypeOK
<1>1. ASSUME NEW r \in Request, Begin(r) PROVE TypeOK'
  <2>1. PICK k \in Job : k.then = "done" /\ job' = [job EXCEPT ![r] = k]
    BY <1>1, BeginTypes
  <2>. QED BY <1>0, <1>1, <2>1 DEF Begin, Go, TypeOK, Place
<1>2. ASSUME NEW r \in Request, Check(r) PROVE TypeOK'
  BY <1>0, <1>2, NoJobType DEF Check, Go, Close, TypeOK, Place
<1>3. ASSUME NEW r \in Request, FindPrivate(r) PROVE TypeOK'
  <2>. DEFINE private == {d \in Own(job[r].upd, job[r].shows) : ~image[d].pub}
  <2>1. private \in SUBSET Image
    BY <1>0, OwnTypes DEF Job
  <2>2. [job[r] EXCEPT !.todo = private] \in Job
    BY <1>0, <2>1 DEF Job
  <2>. QED BY <1>0, <1>3, <2>2, NoJobType DEF FindPrivate, Go, Close, TypeOK, Place
<1>4. ASSUME NEW r \in Request, Publish(r) PROVE TypeOK'
  <2>1. PICK d \in job[r].todo :
          /\ MakePublic(d)
          /\ strays' = IF job[r].saved /\ d \notin Shown THEN strays \cup {d} ELSE strays
          /\ IF job[r].todo # {d}
             THEN job' = [job EXCEPT ![r].todo = @ \ {d}, ![r].published = @ \cup {d}] /\ UNCHANGED pc
             ELSE IF job[r].saved THEN Close(r)
             ELSE job' = [job EXCEPT ![r].todo = {}, ![r].published = @ \cup {d}] /\ Go(r, "save")
    BY <1>4 DEF Publish
  <2>2. d \in Image
    BY <1>0 DEF Job
  <2>3. image' \in [Image -> [pub: BOOLEAN, ver: Nat]]
    BY <1>0, <2>1, <2>2 DEF MakePublic
  <2>4. /\ [job[r] EXCEPT !.todo = job[r].todo \ {d}, !.published = job[r].published \cup {d}] \in Job
        /\ [job[r] EXCEPT !.todo = {}, !.published = job[r].published \cup {d}] \in Job
    <3>1. ASSUME NEW todo \in SUBSET Image, NEW published \in SUBSET Image
          PROVE  [job[r] EXCEPT !.todo = todo, !.published = published] \in Job
      <4>1. job[r] \in Job
        BY <1>0
      <4>. QED BY <4>1 DEF Job
    <3>2. job[r].todo \ {d} \in SUBSET Image /\ job[r].published \cup {d} \in SUBSET Image
      BY <1>0, <2>2 DEF Job
    <3>. QED BY <3>1, <3>2
  <2>5. pc' \in [Request -> Place] /\ job' \in [Request -> Job]
    BY <1>0, <2>1, <2>4, NoJobType DEF Go, Close, Place
  <2>. QED BY <1>0, <1>4, <2>1, <2>2, <2>3, <2>5 DEF Publish, TypeOK
<1>5. ASSUME NEW r \in Request, PublishFails(r) PROVE TypeOK'
  <2>1. job[r].todo \in SUBSET Image /\ job[r].published \in SUBSET Image
    BY <1>0 DEF Job
  <2>2. pc' \in [Request -> Place] /\ job' \in [Request -> Job]
    BY <1>0, <1>5, <2>1, StartTypes DEF PublishFails, Revert
  <2>. QED BY <1>0, <1>5, <2>1, <2>2 DEF PublishFails, TypeOK
<1>6. ASSUME NEW r \in Request, Save(r) PROVE TypeOK'
  <2>1. CASE Saved(r, IF job[r].want = "published" THEN "find" ELSE "done")
    <3>. DEFINE j == job[r]
                k == [j EXCEPT !.saved = TRUE]
                then == IF job[r].want = "published" THEN "find" ELSE "done"
    <3>0. j \in Job /\ k \in Job /\ then \in {"find", "done"}
      BY <1>0 DEF Job
    <3>1. j.upd \in Update /\ j.was \in Row /\ j.want \in Status /\ j.shows \in Content \cup {Nothing}
      BY <1>0 DEF Job
    <3>2. Released(j) \in SUBSET Image
      <4>1. j.was.shows \in Content \cup {Nothing}
        BY <3>1 DEF Row, Absent
      <4>. QED BY <3>1, <4>1, ShowsImages DEF Released
    <3>3. Stored(j) \in Row
      <4>1. update[j.upd].ver + 1 \in Nat \ {0}
        BY <1>0, <3>1 DEF Row, Absent
      <4>. QED BY <3>1, <4>1 DEF Stored, Row
    <3>4. /\ update' = [update EXCEPT ![j.upd] = Stored(j)]
          /\ strays' = strays \cup LeftAttached(update')
          /\ StartRelease(r, k, Released(j), then)
      BY <2>1 DEF Saved
    <3>. HIDE DEF j, k, then
    <3>5. pc' \in [Request -> Place] /\ job' \in [Request -> Job]
      BY <3>0, <3>2, <3>4, StartTypes
    <3>6. update' \in [Update -> Row]
      BY <1>0, <3>3, <3>4
    <3>7. strays' \subseteq Image
      BY <1>0, <3>4, ShownImages DEF LeftAttached
    <3>. QED BY <1>0, <1>6, <3>5, <3>6, <3>7 DEF Save, TypeOK
  <2>2. CASE Revert(r) /\ UNCHANGED <<update, strays>>
    <3>1. job[r].published \in SUBSET Image
      BY <1>0 DEF Job
    <3>2. pc' \in [Request -> Place] /\ job' \in [Request -> Job]
      BY <1>0, <2>2, <3>1, StartTypes DEF Revert
    <3>. QED BY <1>0, <1>6, <2>2, <3>2 DEF Save, TypeOK
  <2>. QED BY <1>6, <2>1, <2>2 DEF Save
<1>7. ASSUME NEW r \in Request, Archive(r) PROVE TypeOK'
  <2>1. PICK u \in {v \in Update : Exists(v)} :
          /\ update' = [update EXCEPT ![u].status = "archived", ![u].ver = @ + 1]
          /\ strays' = strays \cup LeftAttached(update')
          /\ StartRelease(r, [NoJob EXCEPT !.kind = "archive", !.upd = u, !.want = "archived", !.saved = TRUE],
                          update[u].shows.images, "done")
    BY <1>7 DEF Archive
  <2>2. [NoJob EXCEPT !.kind = "archive", !.upd = u, !.want = "archived", !.saved = TRUE] \in Job
    BY NoJobType DEF Job, Status
  <2>3. update[u] \in [status: Status, shows: Content \cup {Nothing}, ver: Nat \ {0}]
    BY <1>0 DEF Exists, Row, Absent
  <2>4. update[u].shows.images \in SUBSET Image
    BY <2>3, ShowsImages
  <2>5. pc' \in [Request -> Place] /\ job' \in [Request -> Job]
    BY <2>1, <2>2, <2>4, StartTypes
  <2>6. update' \in [Update -> Row]
    <3>. DEFINE ver == update[u].ver + 1
    <3>0. ver \in Nat \ {0}
      BY <2>3
    <3>. HIDE DEF ver
    <3>1. [update[u] EXCEPT !.status = "archived", !.ver = ver] \in Row
      BY <2>3, <3>0 DEF Row, Status
    <3>. USE DEF ver
    <3>. QED BY <1>0, <2>1, <3>1
  <2>7. strays' \subseteq Image
    BY <1>0, <2>1, ShownImages DEF LeftAttached
  <2>. QED BY <1>0, <1>7, <2>5, <2>6, <2>7 DEF Archive, TypeOK
<1>8. ASSUME NEW r \in Request, Release(r) PROVE TypeOK'
  <2>0. /\ job[r] \in Job /\ job[r].todo \in SUBSET Image /\ job[r].ids \in SUBSET Image
        /\ job[r].unpublished \in SUBSET Image
    BY <1>0 DEF Job
  <2>1. CASE FindPublic(r)
    <3>. DEFINE docs == {d \in job[r].ids : image[d].pub}
                held == [d \in Image |-> IF d \in docs THEN image[d].ver ELSE 0]
    <3>1. docs \in SUBSET Image /\ held \in [Image -> Nat]
      BY <1>0, <2>0
    <3>2. CASE docs = {}
      <4>1. EndRelease(r)
        BY <2>1, <3>2 DEF FindPublic
      <4>. QED BY <1>0, <2>1, <4>1, EndTypes DEF FindPublic, TypeOK
    <3>3. CASE docs # {}
      <4>1. pc' = [pc EXCEPT ![r] = "shown"] /\ job' = [job EXCEPT ![r].todo = docs, ![r].held = held]
        BY <2>1, <3>3 DEF FindPublic, Go
      <4>2. [job[r] EXCEPT !.todo = docs, !.held = held] \in Job
        BY <2>0, <3>1 DEF Job
      <4>. HIDE DEF docs, held
      <4>3. pc' \in [Request -> Place] /\ job' \in [Request -> Job]
        BY <1>0, <4>1, <4>2 DEF Place
      <4>. QED BY <1>0, <2>1, <4>3 DEF FindPublic, TypeOK
    <3>. QED BY <3>2, <3>3
  <2>2. CASE CheckShown(r)
    <3>1. pc' \in [Request -> Place] /\ job' \in [Request -> Job]
      BY <2>0, <2>2, GoOnTypes DEF CheckShown
    <3>. QED BY <1>0, <2>2, <3>1 DEF CheckShown, TypeOK
  <2>3. CASE Unpublish(r)
    <3>1. PICK d \in job[r].todo :
       IF image[d].ver = job[r].held[d]
       THEN /\ image' = [image EXCEPT ![d] = [pub |-> FALSE, ver |-> @.ver + 1]]
            /\ strays' = strays \ {d}
            /\ AfterUnpublish(r, d, job[r].unpublished \cup {d})
       ELSE /\ AfterUnpublish(r, d, job[r].unpublished)
            /\ UNCHANGED <<image, strays>>
      BY <2>3 DEF Unpublish
    <3>2. d \in Image /\ job[r].unpublished \cup {d} \in SUBSET Image
      BY <2>0
    <3>3. pc' \in [Request -> Place] /\ job' \in [Request -> Job]
      BY <2>0, <3>1, <3>2, AfterTypes
    <3>4. image' \in [Image -> [pub: BOOLEAN, ver: Nat]] /\ strays' \subseteq Image
      <4>1. CASE image[d].ver = job[r].held[d]
        <5>1. image' = [image EXCEPT ![d] = [pub |-> FALSE, ver |-> image[d].ver + 1]]
              /\ strays' = strays \ {d}
          BY <3>1, <4>1
        <5>. QED BY <1>0, <3>2, <5>1
      <4>2. CASE image[d].ver # job[r].held[d]
        BY <1>0, <3>1, <4>2
      <4>. QED BY <4>1, <4>2
    <3>. QED BY <1>0, <2>3, <3>3, <3>4 DEF Unpublish, TypeOK
  <2>4. CASE Recheck(r)
    <3>1. pc' \in [Request -> Place] /\ job' \in [Request -> Job]
      BY <2>0, <2>4, GoOnTypes DEF Recheck
    <3>. QED BY <1>0, <2>4, <3>1 DEF Recheck, TypeOK
  <2>5. CASE PutBack(r)
    <3>1. PICK d \in job[r].todo :
       /\ MakePublic(d)
       /\ strays' = IF d \notin Shown THEN strays \cup {d} ELSE strays
       /\ GoOn(r, "putback", job[r].todo \ {d})
      BY <2>5 DEF PutBack
    <3>2. d \in Image /\ job[r].todo \ {d} \in SUBSET Image
      BY <2>0
    <3>3. pc' \in [Request -> Place] /\ job' \in [Request -> Job]
      BY <3>1, <3>2, GoOnTypes
    <3>4. image' \in [Image -> [pub: BOOLEAN, ver: Nat]] /\ strays' \subseteq Image
      BY <1>0, <3>1, <3>2 DEF MakePublic
    <3>. QED BY <1>0, <2>5, <3>3, <3>4 DEF PutBack, TypeOK
  <2>6. CASE ReleaseFails(r)
    <3>1. CASE logged' = logged \cup job[r].ids /\ EndRelease(r)
      BY <1>0, <2>0, <2>6, <3>1, EndTypes DEF ReleaseFails, TypeOK
    <3>2. ASSUME NEW d \in job[r].todo, logged' = logged \cup {d},
                 AfterUnpublish(r, d, job[r].unpublished)
          PROVE  TypeOK'
      <4>1. d \in Image
        BY <2>0
      <4>2. pc' \in [Request -> Place] /\ job' \in [Request -> Job]
        BY <2>0, <3>2, <4>1, AfterTypes
      <4>. QED BY <1>0, <2>6, <3>2, <4>1, <4>2 DEF ReleaseFails, TypeOK
    <3>. QED BY <2>6, <3>1, <3>2 DEF ReleaseFails
  <2>. QED BY <1>8, <2>1, <2>2, <2>3, <2>4, <2>5, <2>6 DEF Release
<1>9. CASE UNCHANGED vars
  BY <1>0, <1>9 DEF vars, TypeOK
<1>. QED BY <1>1, <1>2, <1>3, <1>4, <1>5, <1>6, <1>7, <1>8, <1>9 DEF Next

-----------------------------------------------------------------------------
(* Where a helper leaves the request, and that it leaves the others alone. *)

OthersKept(r) == \A q \in Request \ {r} : pc'[q] = pc[q] /\ job'[q] = job[q]
SameUpdate(j, k) == j.upd = k.upd /\ j.shows = k.shows /\ j.saved = k.saved
Closed(r) == pc'[r] = "done" /\ job'[r] = NoJob

\* The answered request owes nothing.
LEMMA CloseEnds ==
  ASSUME TypeOK, NEW r \in Request, Close(r)
  PROVE  OthersKept(r) /\ Closed(r)
BY DEF TypeOK, Close, Go, OthersKept, Closed

\* A release begins, or what comes after it does.
LEMMA StartLeads ==
  ASSUME TypeOK, NEW r \in Request, NEW j \in Job, NEW ids, NEW then, StartRelease(r, j, ids, then)
  PROVE  /\ OthersKept(r)
         /\ \/ then = "done" /\ Closed(r)
            \/ /\ pc'[r] = "public" \/ (then # "done" /\ pc'[r] = then)
               /\ SameUpdate(job'[r], j) /\ job'[r].then = then
               /\ job'[r].unpublished = {}
<1>. DEFINE k == [j EXCEPT !.ids = ids, !.then = then, !.todo = {}, !.published = {}, !.unpublished = {}]
<1>1. SameUpdate(k, j) /\ k.then = then /\ k.unpublished = {}
  BY DEF Job, SameUpdate
<1>2. CASE ids = {} /\ then = "done"
  BY <1>2, CloseEnds DEF StartRelease
<1>3. ASSUME NEW place, pc' = [pc EXCEPT ![r] = place], job' = [job EXCEPT ![r] = k]
      PROVE  OthersKept(r) /\ pc'[r] = place /\ SameUpdate(job'[r], j)
             /\ job'[r].then = then /\ job'[r].unpublished = {}
  <2>1. pc'[r] = place /\ job'[r] = k
    BY <1>3 DEF TypeOK
  <2>2. OthersKept(r)
    BY <1>3 DEF TypeOK, OthersKept
  <2>. QED BY <1>1, <2>1, <2>2
<1>4. CASE ids # {}
  BY <1>3, <1>4 DEF StartRelease, Go
<1>5. CASE ids = {} /\ then # "done"
  BY <1>3, <1>5 DEF StartRelease, Go
<1>. QED BY <1>2, <1>4, <1>5

\* A release ends in the second publishFor or in the answer.
LEMMA EndLeads ==
  ASSUME TypeOK, NEW r \in Request, EndRelease(r)
  PROVE  /\ OthersKept(r)
         /\ \/ job[r].then = "done" /\ Closed(r)
            \/ /\ job[r].then = "find" /\ pc'[r] = "find"
               /\ SameUpdate(job'[r], job[r]) /\ job'[r].then = "find"
<1>0. job[r] \in Job /\ job[r].then \in {"find", "done"}
  BY DEF TypeOK, Job
<1>1. CASE job[r].then = "done"
  BY <1>1, CloseEnds DEF EndRelease
<1>2. CASE job[r].then = "find"
  <2>. DEFINE k == [job[r] EXCEPT !.ids = {}, !.todo = {}, !.held = NoJob.held, !.unpublished = {}]
  <2>1. SameUpdate(k, job[r]) /\ k.then = "find"
    BY <1>0, <1>2 DEF Job, SameUpdate
  <2>2. pc' = [pc EXCEPT ![r] = "find"] /\ job' = [job EXCEPT ![r] = k]
    BY <1>2 DEF EndRelease, Go
  <2>3. pc'[r] = "find" /\ job'[r] = k /\ OthersKept(r)
    BY <2>2 DEF TypeOK, OthersKept
  <2>. QED BY <1>2, <2>1, <2>3
<1>. QED BY <1>0, <1>1, <1>2

\* The job goes on with some images left, and its unpublished ones.
GoesOn(r, at, todo, unpublished) ==
  /\ pc'[r] = at
  /\ SameUpdate(job'[r], job[r]) /\ job'[r].then = job[r].then /\ job'[r].ids = job[r].ids
  /\ job'[r].todo = todo /\ job'[r].unpublished = unpublished

\* A release goes on with the images left.
LEMMA GoOnLeads ==
  ASSUME TypeOK, NEW r \in Request, NEW at \in {"unpublish", "putback"}, NEW docs, GoOn(r, at, docs), docs # {}
  PROVE  OthersKept(r) /\ GoesOn(r, at, docs, job[r].unpublished)
<1>. DEFINE k == [job[r] EXCEPT !.todo = docs]
<1>0. job[r] \in Job
  BY DEF TypeOK
<1>1. SameUpdate(k, job[r]) /\ k.then = job[r].then /\ k.ids = job[r].ids /\ k.todo = docs
      /\ k.unpublished = job[r].unpublished
  BY <1>0 DEF Job, SameUpdate
<1>2. pc' = [pc EXCEPT ![r] = at] /\ job' = [job EXCEPT ![r] = k]
  BY DEF GoOn, Go
<1>3. pc'[r] = at /\ job'[r] = k /\ OthersKept(r)
  BY <1>2 DEF TypeOK, OthersKept
<1>. QED BY <1>1, <1>3 DEF GoesOn

\* With one image dealt with, a release goes on or ends.
LEMMA AfterLeads ==
  ASSUME TypeOK, NEW r \in Request, pc[r] = "unpublish", NEW d, NEW unpublished, AfterUnpublish(r, d, unpublished)
  PROVE  \/ OthersKept(r) /\ GoesOn(r, "unpublish", job[r].todo \ {d}, unpublished)
         \/ OthersKept(r) /\ GoesOn(r, "recheck", {}, unpublished)
         \/ unpublished = {} /\ EndRelease(r)
<1>0. job[r] \in Job
  BY DEF TypeOK
<1>1. CASE job[r].todo # {d}
  <2>. DEFINE k == [job[r] EXCEPT !.todo = job[r].todo \ {d}, !.unpublished = unpublished]
  <2>1. SameUpdate(k, job[r]) /\ k.then = job[r].then /\ k.ids = job[r].ids
        /\ k.todo = job[r].todo \ {d} /\ k.unpublished = unpublished
    BY <1>0 DEF Job, SameUpdate
  <2>2. job' = [job EXCEPT ![r] = k] /\ UNCHANGED pc
    BY <1>1 DEF AfterUnpublish
  <2>3. pc'[r] = "unpublish" /\ job'[r] = k /\ OthersKept(r)
    BY <2>2 DEF TypeOK, OthersKept
  <2>. QED BY <2>1, <2>3 DEF GoesOn
<1>2. CASE job[r].todo = {d} /\ unpublished # {}
  <2>. DEFINE k == [job[r] EXCEPT !.todo = {}, !.unpublished = unpublished]
  <2>1. SameUpdate(k, job[r]) /\ k.then = job[r].then /\ k.ids = job[r].ids
        /\ k.todo = {} /\ k.unpublished = unpublished
    BY <1>0 DEF Job, SameUpdate
  <2>2. pc' = [pc EXCEPT ![r] = "recheck"] /\ job' = [job EXCEPT ![r] = k]
    BY <1>2 DEF AfterUnpublish, Go
  <2>3. pc'[r] = "recheck" /\ job'[r] = k /\ OthersKept(r)
    BY <2>2 DEF TypeOK, OthersKept
  <2>. QED BY <2>1, <2>3 DEF GoesOn
<1>3. CASE job[r].todo = {d} /\ unpublished = {}
  BY <1>3 DEF AfterUnpublish
<1>. QED BY <1>1, <1>2, <1>3

-----------------------------------------------------------------------------
(* Jobs stay in order. *)

\* A step of r alone.
LEMMA OneInOrder ==
  ASSUME JobsInOrder, NEW r \in Request, OthersKept(r), InOrder(pc'[r], job'[r])
  PROVE  JobsInOrder'
BY DEF JobsInOrder, OthersKept

\* An answered request is in order.
LEMMA ClosedInOrder == InOrder("done", NoJob)
<1>1. NoJob.then = "done"
  BY DEF NoJob
<1>. QED BY <1>1 DEF InOrder, Releasing

\* So is one whose release ends,
LEMMA EndInOrder ==
  ASSUME TypeOK, JobsInOrder, NEW r \in Request, EndRelease(r)
  PROVE  JobsInOrder'
<1>1. InOrder(pc'[r], job'[r])
  <2>1. CASE Closed(r)
    BY <2>1, ClosedInOrder DEF Closed
  <2>2. CASE /\ job[r].then = "find" /\ pc'[r] = "find"
             /\ SameUpdate(job'[r], job[r]) /\ job'[r].then = "find"
    BY <2>2 DEF JobsInOrder, InOrder, Releasing, SameUpdate
  <2>. QED BY <2>1, <2>2, EndLeads
<1>. QED BY <1>1, EndLeads, OneInOrder

\* one that starts a release,
LEMMA StartInOrder ==
  ASSUME TypeOK, JobsInOrder, NEW r \in Request, NEW j \in Job, NEW ids, NEW then \in {"find", "done"},
         StartRelease(r, j, ids, then), then = "find" => j.saved
  PROVE  JobsInOrder'
<1>1. InOrder(pc'[r], job'[r])
  <2>1. CASE Closed(r)
    BY <2>1, ClosedInOrder DEF Closed
  <2>2. CASE /\ pc'[r] = "public" \/ (then # "done" /\ pc'[r] = then)
             /\ SameUpdate(job'[r], j) /\ job'[r].then = then
             /\ job'[r].unpublished = {}
    BY <2>2 DEF InOrder, Releasing, SameUpdate
  <2>. QED BY <2>1, <2>2, StartLeads
<1>. QED BY <1>1, StartLeads, OneInOrder

\* one that is answered,
LEMMA CloseInOrder ==
  ASSUME TypeOK, JobsInOrder, NEW r \in Request, Close(r)
  PROVE  JobsInOrder'
<1>1. InOrder(pc'[r], job'[r])
  BY CloseEnds, ClosedInOrder DEF Closed
<1>. QED BY <1>1, CloseEnds, OneInOrder

\* one that dealt with an image,
LEMMA AfterInOrder ==
  ASSUME TypeOK, JobsInOrder, NEW r \in Request, pc[r] = "unpublish", NEW d \in job[r].todo,
         NEW unpublished, unpublished \subseteq job[r].unpublished \cup {d},
         AfterUnpublish(r, d, unpublished)
  PROVE  JobsInOrder'
<1>0. InOrder(pc[r], job[r]) /\ job[r].todo \cup unpublished \subseteq job[r].ids
  BY DEF JobsInOrder, InOrder, Releasing
<1>1. CASE OthersKept(r) /\ GoesOn(r, "unpublish", job[r].todo \ {d}, unpublished)
  <2>1. InOrder(pc'[r], job'[r])
    BY <1>0, <1>1 DEF InOrder, GoesOn, SameUpdate
  <2>. QED BY <1>1, <2>1, OneInOrder
<1>2. CASE OthersKept(r) /\ GoesOn(r, "recheck", {}, unpublished)
  <2>1. InOrder(pc'[r], job'[r])
    BY <1>0, <1>2 DEF InOrder, GoesOn, SameUpdate
  <2>. QED BY <1>2, <2>1, OneInOrder
<1>3. CASE EndRelease(r)
  BY <1>3, EndInOrder
<1>. QED BY <1>1, <1>2, <1>3, AfterLeads

\* and one that goes on with some.
LEMMA GoOnInOrder ==
  ASSUME TypeOK, JobsInOrder, NEW r \in Request, pc[r] \in Releasing \ {"public"},
         NEW at \in {"unpublish", "putback"}, NEW docs, docs \subseteq job[r].ids, GoOn(r, at, docs)
  PROVE  JobsInOrder'
<1>0. InOrder(pc[r], job[r])
  BY DEF JobsInOrder
<1>1. CASE docs = {}
  BY <1>1, EndInOrder DEF GoOn
<1>2. CASE docs # {}
  <2>1. OthersKept(r) /\ GoesOn(r, at, docs, job[r].unpublished)
    BY <1>2, GoOnLeads
  <2>2. InOrder(pc'[r], job'[r])
    BY <1>0, <2>1 DEF InOrder, GoesOn, SameUpdate, Releasing
  <2>. QED BY <2>1, <2>2, OneInOrder
<1>. QED BY <1>1, <1>2

\* Every step keeps jobs in order.
LEMMA OrderStep == Inv /\ [Next]_vars => JobsInOrder'
<1>. SUFFICES ASSUME Inv, [Next]_vars PROVE JobsInOrder'
  OBVIOUS
<1>. TypeOK /\ JobsInOrder
  BY DEF Inv
<1>0. ASSUME NEW r \in Request
      PROVE  /\ job[r] \in Job /\ InOrder(pc[r], job[r])
             /\ job[r].todo \cup job[r].unpublished \subseteq Image
  BY DEF TypeOK, JobsInOrder, Job
<1>1. ASSUME NEW r \in Request, Begin(r) PROVE JobsInOrder'
  <2>1. PICK k \in Job : k.then = "done" /\ pc' = [pc EXCEPT ![r] = "check"] /\ job' = [job EXCEPT ![r] = k]
    BY <1>1, BeginTypes DEF Begin, Go
  <2>2. OthersKept(r) /\ InOrder(pc'[r], job'[r])
    BY <2>1 DEF TypeOK, OthersKept, InOrder, Releasing
  <2>. QED BY <2>2, OneInOrder
<1>2. ASSUME NEW r \in Request, Check(r) PROVE JobsInOrder'
  <2>1. CASE Close(r)
    BY <2>1, CloseInOrder
  <2>2. CASE (Go(r, "save") \/ Go(r, "find")) /\ UNCHANGED job
    <3>1. OthersKept(r) /\ pc'[r] \in {"save", "find"} /\ job'[r] = job[r]
      BY <2>2 DEF Go, TypeOK, OthersKept
    <3>2. InOrder(pc'[r], job'[r])
      BY <1>0, <3>1 DEF InOrder, Releasing
    <3>. QED BY <3>1, <3>2, OneInOrder
  <2>. QED BY <1>2, <2>1, <2>2 DEF Check
<1>3. ASSUME NEW r \in Request, FindPrivate(r) PROVE JobsInOrder'
  <2>1. CASE Close(r)
    BY <2>1, CloseInOrder
  <2>2. CASE Go(r, "save") /\ UNCHANGED job
    <3>1. OthersKept(r) /\ pc'[r] = "save" /\ job'[r] = job[r]
      BY <2>2 DEF Go, TypeOK, OthersKept
    <3>2. InOrder(pc'[r], job'[r])
      BY <1>0, <3>1 DEF InOrder, Releasing
    <3>. QED BY <3>1, <3>2, OneInOrder
  <2>3. ASSUME NEW private, Go(r, "publish"), job' = [job EXCEPT ![r].todo = private] PROVE JobsInOrder'
    <3>1. OthersKept(r) /\ pc'[r] = "publish" /\ job'[r] = [job[r] EXCEPT !.todo = private]
      BY <2>3 DEF Go, TypeOK, OthersKept
    <3>2. InOrder(pc'[r], job'[r])
      BY <1>0, <3>1 DEF InOrder, Releasing, Job
    <3>. QED BY <3>1, <3>2, OneInOrder
  <2>. QED BY <1>3, <2>1, <2>2, <2>3 DEF FindPrivate
<1>4. ASSUME NEW r \in Request, Publish(r) PROVE JobsInOrder'
  <2>1. CASE Close(r)
    BY <2>1, CloseInOrder
  <2>2. ASSUME NEW todo, NEW published, pc' = pc \/ Go(r, "save"),
               job' = [job EXCEPT ![r].todo = todo, ![r].published = published]
        PROVE  JobsInOrder'
    <3>1. pc[r] = "publish"
      BY <1>4 DEF Publish
    <3>2. /\ OthersKept(r) /\ pc'[r] \in {"publish", "save"}
          /\ job'[r] = [job[r] EXCEPT !.todo = todo, !.published = published]
      BY <2>2, <3>1 DEF Go, TypeOK, OthersKept
    <3>3. InOrder(pc'[r], job'[r])
      BY <1>0, <3>2 DEF InOrder, Releasing, Job
    <3>. QED BY <3>2, <3>3, OneInOrder
  <2>. QED BY <1>4, <2>1, <2>2 DEF Publish
<1>5. ASSUME NEW r \in Request, PublishFails(r) PROVE JobsInOrder'
  BY <1>0, <1>5, StartInOrder DEF PublishFails, Revert
<1>6. ASSUME NEW r \in Request, Save(r) PROVE JobsInOrder'
  <2>1. CASE Saved(r, IF job[r].want = "published" THEN "find" ELSE "done")
    <3>1. [job[r] EXCEPT !.saved = TRUE] \in Job /\ [job[r] EXCEPT !.saved = TRUE].saved
      BY <1>0 DEF Job
    <3>. QED BY <2>1, <3>1, StartInOrder DEF Saved
  <2>2. CASE Revert(r)
    BY <1>0, <2>2, StartInOrder DEF Revert
  <2>. QED BY <1>6, <2>1, <2>2 DEF Save
<1>7. ASSUME NEW r \in Request, Archive(r) PROVE JobsInOrder'
  <2>1. PICK u \in Update :
          StartRelease(r, [NoJob EXCEPT !.kind = "archive", !.upd = u, !.want = "archived", !.saved = TRUE],
                       update[u].shows.images, "done")
    BY <1>7 DEF Archive
  <2>2. [NoJob EXCEPT !.kind = "archive", !.upd = u, !.want = "archived", !.saved = TRUE] \in Job
    BY NoJobType DEF Job, Status
  <2>. QED BY <2>1, <2>2, StartInOrder
<1>8. ASSUME NEW r \in Request, FindPublic(r) PROVE JobsInOrder'
  <2>1. CASE EndRelease(r)
    BY <2>1, EndInOrder
  <2>2. ASSUME NEW docs, NEW held, docs \subseteq job[r].ids, Go(r, "shown"),
               job' = [job EXCEPT ![r].todo = docs, ![r].held = held]
        PROVE  JobsInOrder'
    <3>1. /\ OthersKept(r) /\ pc'[r] = "shown"
          /\ job'[r] = [job[r] EXCEPT !.todo = docs, !.held = held]
      BY <2>2 DEF Go, TypeOK, OthersKept
    <3>2. pc[r] = "public"
      BY <1>8 DEF FindPublic
    <3>3. job[r].unpublished = {} /\ (job[r].then = "find" => job[r].saved)
      BY <1>0, <3>2 DEF InOrder
    <3>4. /\ job'[r].todo = docs /\ job'[r].unpublished = job[r].unpublished /\ job'[r].ids = job[r].ids
          /\ job'[r].then = job[r].then /\ job'[r].saved = job[r].saved
      BY <1>0, <3>1 DEF Job
    <3>5. InOrder(pc'[r], job'[r])
      BY <2>2, <3>1, <3>3, <3>4 DEF InOrder, Releasing
    <3>. QED BY <3>1, <3>5, OneInOrder
  <2>3. {d \in job[r].ids : image[d].pub} \subseteq job[r].ids
    OBVIOUS
  <2>. QED BY <1>8, <2>1, <2>2, <2>3 DEF FindPublic
<1>9. ASSUME NEW r \in Request, CheckShown(r) \/ Recheck(r) \/ PutBack(r) PROVE JobsInOrder'
  <2>1. /\ pc[r] \in Releasing \ {"public"}
        /\ \E at \in {"unpublish", "putback"}, docs \in SUBSET (job[r].todo \cup job[r].unpublished) :
             GoOn(r, at, docs)
    BY <1>9 DEF CheckShown, Recheck, PutBack, Releasing
  <2>2. job[r].todo \cup job[r].unpublished \subseteq job[r].ids
    BY <1>0, <2>1 DEF InOrder
  <2>. QED BY <2>1, <2>2, GoOnInOrder
<1>10. ASSUME NEW r \in Request, Unpublish(r) PROVE JobsInOrder'
  BY <1>10, AfterInOrder DEF Unpublish
<1>11. ASSUME NEW r \in Request, ReleaseFails(r) PROVE JobsInOrder'
  <2>1. CASE EndRelease(r)
    BY <2>1, EndInOrder
  <2>2. CASE pc[r] = "unpublish" /\ \E d \in job[r].todo : AfterUnpublish(r, d, job[r].unpublished)
    BY <2>2, AfterInOrder
  <2>. QED BY <1>11, <2>1, <2>2 DEF ReleaseFails
<1>12. CASE UNCHANGED vars
  BY <1>12 DEF vars, JobsInOrder
<1>. QED BY <1>1, <1>2, <1>3, <1>4, <1>5, <1>6, <1>7, <1>8, <1>9, <1>10, <1>11, <1>12 DEF Next, Release

-----------------------------------------------------------------------------
(* A private image of a published Update stays owed. *)

\* What r still owes, and what the others owe, stays owed.
LEMMA OweKept ==
  ASSUME PublicOrOwed, NEW r \in Request, OthersKept(r),
         NEW u \in Update, update[u].status = "published",
         NEW d \in Own(u, update[u].shows), ~image[d].pub, d \notin logged,
         Owes(r, u, d) => Owes(r, u, d)'
  PROVE  \E q \in Request : Owes(q, u, d)'
<1>1. PICK q \in Request : Owes(q, u, d)
  BY DEF PublicOrOwed
<1>2. CASE q = r
  BY <1>1, <1>2
<1>3. CASE q # r
  <2>1. pc'[q] = pc[q] /\ job'[q] = job[q]
    BY <1>3 DEF OthersKept
  <2>. QED BY <1>1, <2>1 DEF Owes, Own
<1>. QED BY <1>2, <1>3

\* Where a release ends and its request goes on, what it owes to its own Update stays.
LEMMA EndOwes ==
  ASSUME TypeOK, JobsInOrder, NEW r \in Request, EndRelease(r), NEW u, NEW d,
         job[r].then = "find", job[r].upd = u, d \in Own(u, job[r].shows)
  PROVE  Owes(r, u, d)'
<1>1. job[r].saved
  BY DEF JobsInOrder, InOrder
<1>2. pc'[r] = "find" /\ SameUpdate(job'[r], job[r])
  BY EndLeads
<1>. QED BY <1>1, <1>2 DEF Owes, Own, SameUpdate

\* The same where the release goes on.
LEMMA GoesOnOwes ==
  ASSUME NEW r \in Request, NEW at \in Releasing, NEW todo, NEW unpublished, GoesOn(r, at, todo, unpublished),
         NEW u, NEW d, job[r].then = "find", job[r].upd = u, d \in Own(u, job[r].shows)
  PROVE  Owes(r, u, d)'
BY DEF GoesOn, Owes, Own, SameUpdate

\* Dealing with one image keeps what is owed.
LEMMA AfterOwes ==
  ASSUME TypeOK, JobsInOrder, NEW r \in Request, pc[r] = "unpublish", NEW e, NEW unpublished,
         job[r].unpublished \subseteq unpublished, AfterUnpublish(r, e, unpublished),
         NEW u, NEW d, Owes(r, u, d)
  PROVE  Owes(r, u, d)'
<1>1. CASE d \in job[r].unpublished
  BY <1>1, AfterLeads DEF GoesOn, Owes
<1>2. CASE job[r].then = "find" /\ job[r].upd = u /\ d \in Own(u, job[r].shows)
  <2>1. "unpublish" \in Releasing /\ "recheck" \in Releasing
    BY DEF Releasing
  <2>. QED BY <1>2, <2>1, AfterLeads, GoesOnOwes, EndOwes
<1>. QED BY <1>1, <1>2 DEF Owes

\* A step that leaves the Updates alone: r keeps what it owes, or it is settled or logged.
LEMMA OwedFor ==
  ASSUME PublicOrOwed, NEW r \in Request, OthersKept(r), update' = update, logged \subseteq logged',
         \A u \in Update : update[u].status = "published" =>
           \A d \in Own(u, update[u].shows) : ~image'[d].pub /\ d \notin logged' =>
             \/ Owes(r, u, d)'
             \/ ~image[d].pub /\ (Owes(r, u, d) => Owes(r, u, d)')
  PROVE  PublicOrOwed'
<1>. SUFFICES ASSUME NEW u \in Update, update[u].status = "published",
                     NEW d \in Own(u, update[u].shows), ~image'[d].pub, d \notin logged'
              PROVE  \E q \in Request : Owes(q, u, d)'
  BY DEF PublicOrOwed, Own
<1>1. CASE Owes(r, u, d)'
  BY <1>1
<1>2. CASE ~image[d].pub /\ (Owes(r, u, d) => Owes(r, u, d)')
  BY <1>2, OweKept
<1>. QED BY <1>1, <1>2

\* A step that writes the row of one Update, which r then owes its images if it is published.
LEMMA OwedAfterWrite ==
  ASSUME TypeOK, PublicOrOwed, NEW r \in Request, OthersKept(r), image' = image, logged' = logged,
         NEW v \in Update, NEW row, update' = [update EXCEPT ![v] = row],
         \A u, d : ~Owes(r, u, d),
         row.status = "published" => \A d \in Own(v, row.shows) : Owes(r, v, d)'
  PROVE  PublicOrOwed'
<1>. SUFFICES ASSUME NEW u \in Update, update'[u].status = "published",
                     NEW d \in Own(u, update'[u].shows), ~image[d].pub, d \notin logged
              PROVE  \E q \in Request : Owes(q, u, d)'
  BY DEF PublicOrOwed, Own
<1>1. CASE u = v
  <2>1. update'[v] = row
    BY DEF TypeOK
  <2>. QED BY <1>1, <2>1
<1>2. CASE u # v
  <2>1. update'[u] = update[u]
    BY <1>2 DEF TypeOK
  <2>. QED BY <2>1, OweKept
<1>. QED BY <1>1, <1>2

\* What an Update publishes are images it shows.
LEMMA OwnIsImage ==
  ASSUME TypeOK, NEW u \in Update, NEW d \in Own(u, update[u].shows)
  PROVE  d \in Image /\ d \in update[u].shows.images
<1>1. update[u].shows \in Content \cup {Nothing}
  BY DEF TypeOK, Row, Absent
<1>. QED BY <1>1, ShowsImages DEF Own

\* Every step keeps private images of published Updates owed.
LEMMA OwedStep == Inv /\ [Next]_vars => PublicOrOwed'
<1>. SUFFICES ASSUME Inv, [Next]_vars PROVE PublicOrOwed'
  OBVIOUS
<1>. TypeOK /\ JobsInOrder /\ PublicOrOwed
  BY DEF Inv
<1>0. ASSUME NEW r \in Request PROVE job[r] \in Job /\ InOrder(pc[r], job[r])
  BY DEF TypeOK, JobsInOrder
<1>1. ASSUME NEW r \in Request, Begin(r) PROVE PublicOrOwed'
  <2>1. pc[r] = "idle" /\ update' = update /\ image' = image /\ logged' = logged
    BY <1>1 DEF Begin
  <2>2. OthersKept(r)
    BY <1>1, BeginTypes DEF Begin, Go, TypeOK, OthersKept
  <2>3. \A u, d : ~Owes(r, u, d)
    BY <2>1 DEF Owes, Releasing
  <2>. QED BY <2>1, <2>2, <2>3, OwedFor
<1>2. ASSUME NEW r \in Request, Check(r) PROVE PublicOrOwed'
  <2>1. pc[r] = "check" /\ update' = update /\ image' = image /\ logged' = logged
    BY <1>2 DEF Check
  <2>2. OthersKept(r)
    BY <1>2, CloseEnds DEF Check, Go, TypeOK, OthersKept
  <2>3. \A u, d : ~Owes(r, u, d)
    BY <2>1 DEF Owes, Releasing
  <2>. QED BY <2>1, <2>2, <2>3, OwedFor
<1>3. ASSUME NEW r \in Request, FindPrivate(r) PROVE PublicOrOwed'
  <2>. DEFINE private == {d \in Own(job[r].upd, job[r].shows) : ~image[d].pub}
  <2>1. pc[r] = "find" /\ update' = update /\ image' = image /\ logged' = logged
    BY <1>3 DEF FindPrivate
  <2>2. CASE private = {}
    <3>1. OthersKept(r)
      BY <1>3, <2>2, CloseEnds DEF FindPrivate, Go, TypeOK, OthersKept
    <3>2. \A u, d : ~image[d].pub => ~Owes(r, u, d)
      BY <2>1, <2>2 DEF Owes, Releasing
    <3>. QED BY <2>1, <3>1, <3>2, OwedFor
  <2>3. CASE private # {}
    <3>1. pc' = [pc EXCEPT ![r] = "publish"] /\ job' = [job EXCEPT ![r].todo = private]
      BY <1>3, <2>3 DEF FindPrivate, Go
    <3>. HIDE DEF private
    <3>2. OthersKept(r) /\ pc'[r] = "publish" /\ job'[r] = [job[r] EXCEPT !.todo = private]
      BY <3>1 DEF TypeOK, OthersKept
    <3>3. job'[r].todo = private /\ job'[r].saved = job[r].saved
      BY <1>0, <3>2 DEF Job
    <3>4. ASSUME NEW u, NEW d, ~image[d].pub, Owes(r, u, d) PROVE Owes(r, u, d)'
      <4>1. job[r].saved /\ job[r].upd = u /\ d \in Own(u, job[r].shows)
        BY <2>1, <3>4 DEF Owes, Releasing
      <4>2. d \in private
        BY <3>4, <4>1 DEF private
      <4>. QED BY <3>2, <3>3, <4>1, <4>2 DEF Owes
    <3>. QED BY <2>1, <3>2, <3>4, OwedFor
  <2>. QED BY <2>2, <2>3
<1>4. ASSUME NEW r \in Request, Publish(r) PROVE PublicOrOwed'
  <2>1. PICK e \in job[r].todo :
          /\ MakePublic(e)
          /\ IF job[r].todo # {e}
             THEN job' = [job EXCEPT ![r].todo = @ \ {e}, ![r].published = @ \cup {e}] /\ UNCHANGED pc
             ELSE IF job[r].saved THEN Close(r)
             ELSE job' = [job EXCEPT ![r].todo = {}, ![r].published = @ \cup {e}] /\ Go(r, "save")
    BY <1>4 DEF Publish
  <2>2. pc[r] = "publish" /\ update' = update /\ logged' = logged
    BY <1>4 DEF Publish
  <2>3. OthersKept(r)
    BY <2>1, CloseEnds DEF Go, TypeOK, OthersKept
  <2>4. ASSUME NEW u \in Update, NEW d \in Own(u, update[u].shows), ~image'[d].pub
        PROVE  ~image[d].pub /\ d # e
    BY <2>1, <2>4, OwnIsImage DEF MakePublic, TypeOK
  <2>5. ASSUME NEW u, NEW d, d # e, Owes(r, u, d) PROVE Owes(r, u, d)'
    <3>1. job[r].saved /\ d \in job[r].todo
      BY <2>2, <2>5 DEF Owes, Releasing
    <3>2. UNCHANGED pc /\ job' = [job EXCEPT ![r].todo = job[r].todo \ {e}, ![r].published = job[r].published \cup {e}]
      BY <2>1, <2>5, <3>1
    <3>3. job'[r] = [job[r] EXCEPT !.todo = job[r].todo \ {e}, !.published = job[r].published \cup {e}]
      BY <3>2 DEF TypeOK
    <3>4. job'[r].todo = job[r].todo \ {e} /\ job'[r].saved = job[r].saved
      BY <1>0, <3>3 DEF Job
    <3>. QED BY <2>2, <2>5, <3>1, <3>2, <3>4 DEF Owes
  <2>. QED BY <2>2, <2>3, <2>4, <2>5, OwedFor
<1>5. ASSUME NEW r \in Request, PublishFails(r) PROVE PublicOrOwed'
  <2>1. /\ pc[r] = "publish" /\ update' = update /\ image' = image
        /\ logged' = IF job[r].saved THEN logged \cup job[r].todo ELSE logged
    BY <1>5 DEF PublishFails
  <2>2. OthersKept(r)
    BY <1>0, <1>5, StartLeads DEF PublishFails, Revert
  <2>3. \A u, d : d \notin logged' => ~Owes(r, u, d)
    BY <2>1 DEF Owes, Releasing
  <2>. QED BY <2>1, <2>2, <2>3, OwedFor
<1>6. ASSUME NEW r \in Request, Save(r) PROVE PublicOrOwed'
  <2>1. pc[r] = "save" /\ image' = image /\ logged' = logged
    BY <1>6 DEF Save, Saved
  <2>2. \A u, d : ~Owes(r, u, d)
    BY <2>1 DEF Owes, Releasing
  <2>3. CASE Saved(r, IF job[r].want = "published" THEN "find" ELSE "done")
    <3>. PICK v \in Update : v = job[r].upd
      BY <1>0 DEF Job
    <3>. DEFINE k == [job[r] EXCEPT !.saved = TRUE]
                then == IF job[r].want = "published" THEN "find" ELSE "done"
    <3>1. k \in Job /\ k.saved /\ k.upd = v /\ k.shows = job[r].shows
      BY <1>0 DEF Job
    <3>2. update' = [update EXCEPT ![v] = Stored(job[r])] /\ StartRelease(r, k, Released(job[r]), then)
      BY <2>3 DEF Saved
    <3>. HIDE DEF k
    <3>3. OthersKept(r)
      BY <3>1, <3>2, StartLeads
    <3>4. CASE job[r].want = "published"
      <4>1. /\ pc'[r] = "public" \/ pc'[r] = "find"
            /\ SameUpdate(job'[r], k) /\ job'[r].then = "find"
        BY <3>1, <3>2, <3>4, StartLeads
      <4>2. ASSUME NEW d \in Own(v, job[r].shows) PROVE Owes(r, v, d)'
        BY <3>1, <4>1 DEF Owes, Own, SameUpdate, Releasing
      <4>3. Stored(job[r]).shows = job[r].shows
        BY DEF Stored
      <4>4. \A d \in Own(v, Stored(job[r]).shows) : Owes(r, v, d)'
        BY <4>2, <4>3
      <4>. QED BY <2>1, <2>2, <3>1, <3>2, <3>3, <4>4, OwedAfterWrite
    <3>5. CASE job[r].want # "published"
      BY <2>1, <2>2, <3>1, <3>2, <3>3, <3>5, OwedAfterWrite DEF Stored
    <3>. QED BY <3>4, <3>5
  <2>4. CASE Revert(r) /\ UNCHANGED <<update, strays>>
    <3>1. OthersKept(r)
      BY <1>0, <2>4, StartLeads DEF Revert
    <3>. QED BY <2>1, <2>2, <2>4, <3>1, OwedFor
  <2>. QED BY <1>6, <2>3, <2>4 DEF Save
<1>7. ASSUME NEW r \in Request, Archive(r) PROVE PublicOrOwed'
  <2>1. pc[r] = "idle" /\ image' = image /\ logged' = logged
    BY <1>7 DEF Archive
  <2>2. \A u, d : ~Owes(r, u, d)
    BY <2>1 DEF Owes, Releasing
  <2>3. PICK v \in Update :
          /\ update' = [update EXCEPT ![v].status = "archived", ![v].ver = @ + 1]
          /\ StartRelease(r, [NoJob EXCEPT !.kind = "archive", !.upd = v, !.want = "archived", !.saved = TRUE],
                          update[v].shows.images, "done")
          /\ Exists(v)
    BY <1>7 DEF Archive
  <2>4. [NoJob EXCEPT !.kind = "archive", !.upd = v, !.want = "archived", !.saved = TRUE] \in Job
    BY NoJobType DEF Job, Status
  <2>5. OthersKept(r)
    BY <2>3, <2>4, StartLeads
  <2>. DEFINE row == [update[v] EXCEPT !.status = "archived", !.ver = update[v].ver + 1]
  <2>6. update' = [update EXCEPT ![v] = row]
    BY <2>3
  <2>7. row.status # "published"
    BY DEF TypeOK, Row, Absent
  <2>. HIDE DEF row
  <2>. QED BY <2>1, <2>2, <2>5, <2>6, <2>7, OwedAfterWrite
<1>8. ASSUME NEW r \in Request, FindPublic(r) PROVE PublicOrOwed'
  <2>. DEFINE docs == {d \in job[r].ids : image[d].pub}
              held == [d \in Image |-> IF d \in docs THEN image[d].ver ELSE 0]
  <2>1. pc[r] = "public" /\ update' = update /\ image' = image /\ logged' = logged
    BY <1>8 DEF FindPublic
  <2>2. ASSUME NEW u, NEW d, Owes(r, u, d)
        PROVE  job[r].then = "find" /\ job[r].upd = u /\ d \in Own(u, job[r].shows)
    BY <2>1, <2>2 DEF Owes
  <2>3. CASE EndRelease(r)
    BY <2>1, <2>2, <2>3, EndOwes, EndLeads, OwedFor
  <2>4. CASE Go(r, "shown") /\ job' = [job EXCEPT ![r].todo = docs, ![r].held = held]
    <3>. HIDE DEF docs, held
    <3>1. OthersKept(r) /\ pc'[r] = "shown" /\ job'[r] = [job[r] EXCEPT !.todo = docs, !.held = held]
      BY <2>4 DEF Go, TypeOK, OthersKept
    <3>2. SameUpdate(job'[r], job[r]) /\ job'[r].then = job[r].then
      BY <1>0, <3>1 DEF Job, SameUpdate
    <3>3. ASSUME NEW u, NEW d, Owes(r, u, d) PROVE Owes(r, u, d)'
      BY <2>2, <3>1, <3>2, <3>3 DEF Owes, Own, SameUpdate, Releasing
    <3>. QED BY <2>1, <3>1, <3>3, OwedFor
  <2>. QED BY <1>8, <2>3, <2>4 DEF FindPublic
<1>9. ASSUME NEW r \in Request, CheckShown(r) PROVE PublicOrOwed'
  <2>1. pc[r] = "shown" /\ update' = update /\ image' = image /\ logged' = logged
    BY <1>9 DEF CheckShown
  <2>2. ASSUME NEW u, NEW d, Owes(r, u, d)
        PROVE  job[r].then = "find" /\ job[r].upd = u /\ d \in Own(u, job[r].shows)
    BY <2>1, <2>2 DEF Owes
  <2>3. CASE EndRelease(r)
    BY <2>1, <2>2, <2>3, EndOwes, EndLeads, OwedFor
  <2>4. CASE job[r].todo \ Shown # {}
    <3>1. OthersKept(r) /\ GoesOn(r, "unpublish", job[r].todo \ Shown, job[r].unpublished)
      BY <1>9, <2>4, GoOnLeads DEF CheckShown
    <3>2. "unpublish" \in Releasing
      BY DEF Releasing
    <3>. QED BY <2>1, <2>2, <3>1, <3>2, GoesOnOwes, OwedFor
  <2>. QED BY <1>9, <2>3, <2>4 DEF CheckShown, GoOn
<1>10. ASSUME NEW r \in Request, Unpublish(r) PROVE PublicOrOwed'
  <2>1. pc[r] = "unpublish" /\ update' = update /\ logged' = logged
    BY <1>10 DEF Unpublish
  <2>2. PICK e \in job[r].todo :
       IF image[e].ver = job[r].held[e]
       THEN /\ image' = [image EXCEPT ![e] = [pub |-> FALSE, ver |-> @.ver + 1]]
            /\ AfterUnpublish(r, e, job[r].unpublished \cup {e})
       ELSE /\ AfterUnpublish(r, e, job[r].unpublished)
            /\ UNCHANGED image
    BY <1>10 DEF Unpublish
  <2>3. CASE image[e].ver = job[r].held[e]
    <3>1. /\ image' = [image EXCEPT ![e] = [pub |-> FALSE, ver |-> image[e].ver + 1]]
          /\ AfterUnpublish(r, e, job[r].unpublished \cup {e})
      BY <2>2, <2>3
    <3>2. OthersKept(r)
      BY <2>1, <3>1, AfterLeads
    <3>3. ASSUME NEW u \in Update, NEW d \in Own(u, update[u].shows), ~image'[d].pub
          PROVE  Owes(r, u, d)' \/ (~image[d].pub /\ (Owes(r, u, d) => Owes(r, u, d)'))
      <4>1. CASE d = e
        BY <2>1, <3>1, <4>1, AfterLeads DEF GoesOn, Owes
      <4>2. CASE d # e
        <5>1. ~image[d].pub
          BY <3>1, <3>3, <4>2, OwnIsImage DEF TypeOK
        <5>. QED BY <2>1, <3>1, <5>1, AfterOwes
      <4>. QED BY <4>1, <4>2
    <3>. QED BY <2>1, <3>2, <3>3, OwedFor
  <2>4. CASE image[e].ver # job[r].held[e]
    <3>1. AfterUnpublish(r, e, job[r].unpublished) /\ image' = image
      BY <2>2, <2>4
    <3>2. OthersKept(r)
      BY <2>1, <3>1, AfterLeads, EndLeads
    <3>3. ASSUME NEW u, NEW d, Owes(r, u, d) PROVE Owes(r, u, d)'
      BY <2>1, <3>1, <3>3, AfterOwes
    <3>. QED BY <2>1, <3>1, <3>2, <3>3, OwedFor
  <2>. QED BY <2>3, <2>4
<1>11. ASSUME NEW r \in Request, Recheck(r) PROVE PublicOrOwed'
  <2>1. pc[r] = "recheck" /\ update' = update /\ image' = image /\ logged' = logged
    BY <1>11 DEF Recheck
  <2>2. ASSUME NEW u \in Update, update[u].status = "published", NEW d \in Own(u, update[u].shows)
        PROVE  d \in Shown
    BY <2>2, OwnIsImage DEF Shown, ShownIn
  <2>3. CASE job[r].unpublished \cap Shown = {}
    <3>1. EndRelease(r)
      BY <1>11, <2>3 DEF Recheck, GoOn
    <3>2. ASSUME NEW u \in Update, update[u].status = "published", NEW d \in Own(u, update[u].shows),
                 Owes(r, u, d)
          PROVE  Owes(r, u, d)'
      <4>1. job[r].then = "find" /\ job[r].upd = u /\ d \in Own(u, job[r].shows)
        BY <2>1, <2>2, <2>3, <3>2 DEF Owes
      <4>. QED BY <3>1, <4>1, EndOwes
    <3>. QED BY <2>1, <3>1, <3>2, EndLeads, OwedFor
  <2>4. CASE job[r].unpublished \cap Shown # {}
    <3>1. OthersKept(r) /\ GoesOn(r, "putback", job[r].unpublished \cap Shown, job[r].unpublished)
      BY <1>11, <2>4, GoOnLeads DEF Recheck
    <3>2. ASSUME NEW u \in Update, update[u].status = "published", NEW d \in Own(u, update[u].shows),
                 Owes(r, u, d)
          PROVE  Owes(r, u, d)'
      <4>1. CASE d \in job[r].unpublished
        BY <2>2, <3>1, <3>2, <4>1 DEF Owes, GoesOn
      <4>2. CASE job[r].then = "find" /\ job[r].upd = u /\ d \in Own(u, job[r].shows)
        <5>1. "putback" \in Releasing
          BY DEF Releasing
        <5>. QED BY <3>1, <4>2, <5>1, GoesOnOwes
      <4>. QED BY <2>1, <3>2, <4>1, <4>2 DEF Owes
    <3>. QED BY <2>1, <3>1, <3>2, OwedFor
  <2>. QED BY <2>3, <2>4
<1>12. ASSUME NEW r \in Request, PutBack(r) PROVE PublicOrOwed'
  <2>1. pc[r] = "putback" /\ update' = update /\ logged' = logged
    BY <1>12 DEF PutBack
  <2>2. PICK e \in job[r].todo : MakePublic(e) /\ GoOn(r, "putback", job[r].todo \ {e})
    BY <1>12 DEF PutBack
  <2>3. ASSUME NEW u \in Update, NEW d \in Own(u, update[u].shows), ~image'[d].pub
        PROVE  ~image[d].pub /\ d # e
    BY <2>2, <2>3, OwnIsImage DEF MakePublic, TypeOK
  <2>4. CASE job[r].todo = {e}
    <3>1. EndRelease(r)
      BY <2>2, <2>4 DEF GoOn
    <3>2. ASSUME NEW u, NEW d, d # e, Owes(r, u, d) PROVE Owes(r, u, d)'
      <4>1. job[r].then = "find" /\ job[r].upd = u /\ d \in Own(u, job[r].shows)
        BY <2>1, <2>4, <3>2 DEF Owes
      <4>. QED BY <3>1, <4>1, EndOwes
    <3>. QED BY <2>1, <2>3, <3>1, <3>2, EndLeads, OwedFor
  <2>5. CASE job[r].todo \ {e} # {}
    <3>1. OthersKept(r) /\ GoesOn(r, "putback", job[r].todo \ {e}, job[r].unpublished)
      BY <2>2, <2>5, GoOnLeads
    <3>2. ASSUME NEW u, NEW d, d # e, Owes(r, u, d) PROVE Owes(r, u, d)'
      <4>1. CASE d \in job[r].todo
        BY <3>1, <3>2, <4>1 DEF Owes, GoesOn
      <4>2. CASE job[r].then = "find" /\ job[r].upd = u /\ d \in Own(u, job[r].shows)
        <5>1. "putback" \in Releasing
          BY DEF Releasing
        <5>. QED BY <3>1, <4>2, <5>1, GoesOnOwes
      <4>. QED BY <2>1, <3>2, <4>1, <4>2 DEF Owes
    <3>. QED BY <2>1, <2>3, <3>1, <3>2, OwedFor
  <2>. QED BY <2>4, <2>5
<1>13. ASSUME NEW r \in Request, ReleaseFails(r) PROVE PublicOrOwed'
  <2>1. update' = update /\ image' = image
    BY <1>13 DEF ReleaseFails
  <2>2. CASE /\ pc[r] \in {"public", "shown", "recheck", "putback"}
             /\ logged' = logged \cup job[r].ids
             /\ EndRelease(r)
    <3>1. ASSUME NEW u, NEW d, d \notin logged', Owes(r, u, d) PROVE Owes(r, u, d)'
      <4>1. d \notin job[r].ids
        BY <2>2, <3>1
      <4>2. job[r].then = "find" /\ job[r].upd = u /\ d \in Own(u, job[r].shows)
        BY <1>0, <2>2, <3>1, <4>1 DEF Owes, InOrder, Releasing
      <4>. QED BY <2>2, <4>2, EndOwes
    <3>. QED BY <2>1, <2>2, <3>1, EndLeads, OwedFor
  <2>3. ASSUME NEW e \in job[r].todo, pc[r] = "unpublish", logged' = logged \cup {e},
               AfterUnpublish(r, e, job[r].unpublished)
        PROVE  PublicOrOwed'
    <3>1. OthersKept(r)
      BY <2>3, AfterLeads, EndLeads
    <3>2. ASSUME NEW u, NEW d, Owes(r, u, d) PROVE Owes(r, u, d)'
      BY <2>3, <3>2, AfterOwes
    <3>. QED BY <2>1, <2>3, <3>1, <3>2, OwedFor
  <2>. QED BY <1>13, <2>2, <2>3 DEF ReleaseFails
<1>14. CASE UNCHANGED vars
  BY <1>14 DEF vars, PublicOrOwed, Owes, Own
<1>. QED BY <1>1, <1>2, <1>3, <1>4, <1>5, <1>6, <1>7, <1>8, <1>9, <1>10, <1>11, <1>12, <1>13, <1>14
     DEF Next, Release

-----------------------------------------------------------------------------
(* The theorems. *)

\* The invariant holds at first,
LEMMA InitInv == Init => Inv
<1>. SUFFICES ASSUME Init PROVE Inv
  OBVIOUS
<1>1. update \in [Update -> Row]
  BY DEF Init, Row
<1>2. TypeOK
  BY <1>1, NoJobType DEF Init, TypeOK, Place
<1>3. JobsInOrder
  <2>1. NoJob.then = "done"
    BY DEF NoJob
  <2>. QED BY <2>1 DEF Init, JobsInOrder, InOrder, Releasing
<1>4. PublicOrOwed
  <2>. SUFFICES ASSUME NEW u \in Update, update[u].status = "published", NEW d \in Own(u, update[u].shows)
                PROVE  image[d].pub
    BY DEF PublicOrOwed
  <2>1. d \in Image /\ d \in Shown
    BY <1>2, OwnIsImage DEF Shown, ShownIn
  <2>. QED BY <2>1 DEF Init
<1>. QED BY <1>2, <1>3, <1>4 DEF Inv

\* and always.
LEMMA Invariance == Spec => []Inv
<1>1. Inv /\ [Next]_vars => Inv'
  BY TypeStep, OrderStep, OwedStep DEF Inv
<1>. QED BY <1>1, InitInv, PTL DEF Spec

\* The variables keep their shape: in particular a row is absent exactly while it has no version.
THEOREM TypeCorrect == Spec => []TypeOK
<1>1. Inv => TypeOK
  BY DEF Inv
<1>. QED BY <1>1, Invariance, PTL

\* However many requests save, archive and release at once, and whichever of their steps fail:
\* when they are answered, a published Update's images of its project are public, or an error
\* was logged about them.
THEOREM LiveImagesStayPublic == Spec => []LiveImagesArePublic
<1>1. Inv => LiveImagesArePublic
  <2>. SUFFICES ASSUME Inv, Quiet, NEW u \in Update, update[u].status = "published",
                       NEW d \in Own(u, update[u].shows)
                PROVE  image[d].pub \/ d \in logged
    BY DEF LiveImagesArePublic
  <2>1. \A r \in Request : ~Owes(r, u, d)
    BY DEF Quiet, Owes, Releasing
  <2>. QED BY <2>1 DEF Inv, PublicOrOwed
<1>. QED BY <1>1, Invariance, PTL

-----------------------------------------------------------------------------
(* Nothing else is left public. *)

\* Until it saves, a request holds the row it changes as it was when it was loaded, and has
\* published images of its content only.
AsLoaded(place, j, row) ==
  /\ place \in {"check", "save"} => ~j.saved
  /\ place \in {"check", "find", "publish", "save"} /\ ~j.saved =>
       /\ \/ j.kind = "post" /\ j.loaded = 0 /\ j.was = Absent
          \/ /\ j.kind = "put" /\ j.loaded <= j.was.ver /\ j.was.ver <= row.ver
             /\ row.ver = j.was.ver => row = j.was
       /\ place \in {"find", "publish"} => j.want = "published"
       /\ place \in {"check", "find"} => j.published = {}
       /\ j.want # "published" => j.published = {}
       /\ place = "publish" => j.todo \subseteq j.shows.images
       /\ j.published \subseteq j.shows.images
JobsAsLoaded == \A r \in Request : AsLoaded(pc[r], job[r], update[job[r].upd])

\* r will look at d, which is public, again: it is releasing it as it is now, or published it and
\* is not saved.
Deals(r, d) ==
  \/ pc[r] \in {"publish", "save"} /\ ~job[r].saved /\ d \in job[r].published
  \/ pc[r] = "public" /\ d \in job[r].ids
  \/ pc[r] \in {"shown", "unpublish"} /\ d \in job[r].todo /\ job[r].held[d] = image[d].ver

\* A public image is shown, logged or a stray, or a request deals with it.
ShownOrDealt ==
  \A d \in Image : image[d].pub =>
    d \in Shown \cup logged \cup strays \/ \E r \in Request : Deals(r, d)

OrphanInv == Inv /\ JobsAsLoaded /\ ShownOrDealt

\* The versions of a row: none while it is absent.
LEMMA RowVersion ==
  ASSUME NEW row \in Row
  PROVE  row.ver \in Nat /\ (row.ver = 0 <=> row.status = "absent") /\ (row.ver = 0 => row = Absent)
BY DEF Row, Absent, Status

\* A step of r that leaves the Updates alone, or gives one a new version.
LEMMA OneAsLoaded ==
  ASSUME TypeOK, JobsAsLoaded, NEW r \in Request, OthersKept(r),
         \/ update' = update
         \/ \E v \in Update, row \in Row : row.ver = update[v].ver + 1 /\ update' = [update EXCEPT ![v] = row],
         AsLoaded(pc'[r], job'[r], update'[job'[r].upd])
  PROVE  JobsAsLoaded'
<1>. SUFFICES ASSUME NEW q \in Request, q # r
              PROVE  AsLoaded(pc[q], job[q], update'[job[q].upd])
  BY DEF JobsAsLoaded, OthersKept
<1>0. AsLoaded(pc[q], job[q], update[job[q].upd]) /\ job[q].upd \in Update /\ job[q].was \in Row
  BY DEF JobsAsLoaded, TypeOK, Job
<1>1. CASE update' = update
  BY <1>0, <1>1
<1>2. ASSUME NEW v \in Update, NEW row \in Row, row.ver = update[v].ver + 1, update' = [update EXCEPT ![v] = row]
      PROVE  AsLoaded(pc[q], job[q], update'[job[q].upd])
  <2>1. CASE v = job[q].upd
    <3>1. update'[job[q].upd] = row /\ update[v] \in Row
      BY <1>0, <1>2, <2>1 DEF TypeOK
    <3>2. update[v].ver \in Nat /\ job[q].was.ver \in Nat
      BY <1>0, <3>1, RowVersion
    <3>3. job[q].was.ver <= update[v].ver => job[q].was.ver <= row.ver /\ row.ver # job[q].was.ver
      BY <1>2, <3>2
    <3>. QED BY <1>0, <2>1, <3>1, <3>3 DEF AsLoaded
  <2>2. CASE v # job[q].upd
    <3>1. update'[job[q].upd] = update[job[q].upd]
      BY <1>0, <1>2, <2>2 DEF TypeOK
    <3>. QED BY <1>0, <3>1
  <2>. QED BY <2>1, <2>2
<1>. QED BY <1>1, <1>2

\* A request at work on a release, or answered, has saved before it publishes again.
LEMMA PastAsLoaded ==
  ASSUME NEW place, NEW j, NEW row,
         place \notin {"check", "find", "publish", "save"} \/ (place = "find" /\ j.saved)
  PROVE  AsLoaded(place, j, row)
BY DEF AsLoaded

\* The end of a release, or a step of one, comes to no save.
LEMMA EndAsLoaded ==
  ASSUME TypeOK, JobsInOrder, JobsAsLoaded, NEW r \in Request, EndRelease(r), update' = update
  PROVE  JobsAsLoaded'
<1>1. CASE Closed(r)
  BY <1>1, EndLeads, PastAsLoaded, OneAsLoaded DEF Closed
<1>2. CASE job[r].then = "find" /\ pc'[r] = "find" /\ SameUpdate(job'[r], job[r])
  <2>1. job'[r].saved
    BY <1>2 DEF JobsInOrder, InOrder, SameUpdate
  <2>. QED BY <1>2, <2>1, EndLeads, PastAsLoaded, OneAsLoaded
<1>. QED BY <1>1, <1>2, EndLeads

\* So does the beginning of one.
LEMMA StartAsLoaded ==
  ASSUME TypeOK, JobsAsLoaded, NEW r \in Request, NEW j \in Job, NEW ids, NEW then \in {"find", "done"},
         StartRelease(r, j, ids, then), then = "find" => j.saved,
         \/ update' = update
         \/ \E v \in Update, row \in Row : row.ver = update[v].ver + 1 /\ update' = [update EXCEPT ![v] = row]
  PROVE  JobsAsLoaded'
<1>1. AsLoaded(pc'[r], job'[r], update'[job'[r].upd])
  <2>1. CASE Closed(r)
    BY <2>1, PastAsLoaded DEF Closed
  <2>2. CASE /\ pc'[r] = "public" \/ (then # "done" /\ pc'[r] = then)
             /\ SameUpdate(job'[r], j)
    BY <2>2, PastAsLoaded DEF SameUpdate
  <2>. QED BY <2>1, <2>2, StartLeads
<1>. QED BY <1>1, StartLeads, OneAsLoaded

\* Archiving gives the row a new version.
LEMMA ArchivedRow ==
  ASSUME TypeOK, NEW v \in Update, Exists(v)
  PROVE  LET row == [update[v] EXCEPT !.status = "archived", !.ver = update[v].ver + 1]
         IN row \in Row /\ row.ver = update[v].ver + 1 /\ row.status # "published"
<1>1. update[v] \in [status: Status, shows: Content \cup {Nothing}, ver: Nat \ {0}]
  BY DEF TypeOK, Row, Absent, Exists
<1>2. "archived" \in Status /\ update[v].ver + 1 \in Nat \ {0}
  BY <1>1 DEF Status
<1>. QED BY <1>1, <1>2 DEF Row

\* So does a save.
LEMMA StoredRow ==
  ASSUME TypeOK, NEW j \in Job
  PROVE  /\ j.upd \in Update /\ Stored(j) \in Row /\ Stored(j).ver = update[j.upd].ver + 1
         /\ Stored(j).status = j.want /\ Stored(j).shows = j.shows
<1>1. j.upd \in Update /\ j.want \in Status /\ j.shows \in Content \cup {Nothing}
  BY DEF Job
<1>2. update[j.upd].ver \in Nat
  BY <1>1, RowVersion DEF TypeOK
<1>. QED BY <1>1, <1>2 DEF Stored, Row

\* Every step keeps what a request holds of the row it changes.
LEMMA LoadedStep == Inv /\ JobsAsLoaded /\ [Next]_vars => JobsAsLoaded'
<1>. SUFFICES ASSUME Inv, JobsAsLoaded, [Next]_vars PROVE JobsAsLoaded'
  OBVIOUS
<1>. TypeOK /\ JobsInOrder
  BY DEF Inv
<1>0. ASSUME NEW r \in Request
      PROVE  job[r] \in Job /\ InOrder(pc[r], job[r]) /\ AsLoaded(pc[r], job[r], update[job[r].upd])
  BY DEF TypeOK, JobsInOrder, JobsAsLoaded
<1>1. ASSUME NEW r \in Request, Begin(r) PROVE JobsAsLoaded'
  <2>1. PICK k \in Job :
          /\ job' = [job EXCEPT ![r] = k] /\ ~k.saved /\ k.published = {}
          /\ \/ k.kind = "post" /\ k.loaded = 0 /\ k.was = Absent
             \/ k.kind = "put" /\ k.loaded <= k.was.ver /\ k.was = update[k.upd]
    BY <1>1, BeginTypes
  <2>2. /\ OthersKept(r) /\ pc'[r] = "check" /\ job'[r] = k /\ update' = update
    BY <1>1, <2>1 DEF Begin, Go, TypeOK, OthersKept
  <2>3. update[k.upd].ver \in Nat
    BY RowVersion DEF TypeOK, Job
  <2>4. AsLoaded("check", k, update[k.upd])
    BY <2>1, <2>3 DEF AsLoaded
  <2>. QED BY <2>2, <2>4, OneAsLoaded
<1>2. ASSUME NEW r \in Request, Check(r) PROVE JobsAsLoaded'
  <2>1. update' = update /\ pc[r] = "check"
    BY <1>2 DEF Check
  <2>2. CASE Close(r)
    BY <2>1, <2>2, CloseEnds, PastAsLoaded, OneAsLoaded DEF Closed
  <2>3. CASE /\ UNCHANGED job
             /\ Go(r, "save") \/ (job[r].want = "published" /\ Go(r, "find"))
    <3>1. /\ OthersKept(r) /\ job'[r] = job[r]
          /\ pc'[r] = "save" \/ (job[r].want = "published" /\ pc'[r] = "find")
      BY <2>3 DEF Go, TypeOK, OthersKept
    <3>2. AsLoaded(pc'[r], job[r], update[job[r].upd])
      BY <1>0, <2>1, <3>1 DEF AsLoaded
    <3>. QED BY <2>1, <3>1, <3>2, OneAsLoaded
  <2>. QED BY <1>2, <2>2, <2>3 DEF Check
<1>3. ASSUME NEW r \in Request, FindPrivate(r) PROVE JobsAsLoaded'
  <2>. DEFINE private == {d \in Own(job[r].upd, job[r].shows) : ~image[d].pub}
  <2>1. update' = update /\ pc[r] = "find"
    BY <1>3 DEF FindPrivate
  <2>2. CASE Close(r)
    BY <2>1, <2>2, CloseEnds, PastAsLoaded, OneAsLoaded DEF Closed
  <2>3. CASE ~job[r].saved /\ Go(r, "save") /\ UNCHANGED job
    <3>1. OthersKept(r) /\ pc'[r] = "save" /\ job'[r] = job[r] /\ ~job[r].saved
      BY <2>3 DEF Go, TypeOK, OthersKept
    <3>2. AsLoaded("save", job[r], update[job[r].upd])
      BY <1>0, <2>1, <3>1 DEF AsLoaded
    <3>. QED BY <2>1, <3>1, <3>2, OneAsLoaded
  <2>4. CASE Go(r, "publish") /\ job' = [job EXCEPT ![r].todo = private]
    <3>1. private \subseteq job[r].shows.images
      BY DEF Own
    <3>. HIDE DEF private
    <3>2. OthersKept(r) /\ pc'[r] = "publish" /\ job'[r] = [job[r] EXCEPT !.todo = private]
      BY <2>4 DEF Go, TypeOK, OthersKept
    <3>3. AsLoaded("publish", [job[r] EXCEPT !.todo = private], update[job[r].upd])
      BY <1>0, <2>1, <3>1 DEF AsLoaded, Job
    <3>4. [job[r] EXCEPT !.todo = private].upd = job[r].upd
      BY <1>0 DEF Job
    <3>. QED BY <2>1, <3>2, <3>3, <3>4, OneAsLoaded
  <2>. QED BY <1>3, <2>2, <2>3, <2>4 DEF FindPrivate
<1>4. ASSUME NEW r \in Request, Publish(r) PROVE JobsAsLoaded'
  <2>1. update' = update /\ pc[r] = "publish"
    BY <1>4 DEF Publish
  <2>2. CASE Close(r)
    BY <2>1, <2>2, CloseEnds, PastAsLoaded, OneAsLoaded DEF Closed
  <2>3. ASSUME NEW e \in job[r].todo, NEW todo, todo \subseteq job[r].todo,
               UNCHANGED pc \/ (~job[r].saved /\ Go(r, "save")),
               job' = [job EXCEPT ![r].todo = todo, ![r].published = job[r].published \cup {e}]
        PROVE  JobsAsLoaded'
    <3>. DEFINE k == [job[r] EXCEPT !.todo = todo, !.published = job[r].published \cup {e}]
    <3>1. /\ OthersKept(r) /\ job'[r] = k
          /\ pc'[r] = "publish" \/ (pc'[r] = "save" /\ ~job[r].saved)
      BY <2>1, <2>3 DEF Go, TypeOK, OthersKept
    <3>2. /\ k.upd = job[r].upd /\ k.kind = job[r].kind /\ k.was = job[r].was
          /\ k.loaded = job[r].loaded /\ k.want = job[r].want /\ k.shows = job[r].shows
          /\ k.saved = job[r].saved /\ k.todo = todo /\ k.published = job[r].published \cup {e}
      BY <1>0 DEF Job
    <3>. HIDE DEF k
    <3>3. AsLoaded(pc'[r], k, update[k.upd])
      BY <1>0, <2>1, <2>3, <3>1, <3>2 DEF AsLoaded
    <3>. QED BY <2>1, <3>1, <3>3, OneAsLoaded
  <2>. QED BY <1>4, <2>2, <2>3 DEF Publish
<1>5. ASSUME NEW r \in Request, PublishFails(r) PROVE JobsAsLoaded'
  BY <1>0, <1>5, StartAsLoaded DEF PublishFails, Revert
<1>6. ASSUME NEW r \in Request, Save(r) PROVE JobsAsLoaded'
  <2>1. CASE Saved(r, IF job[r].want = "published" THEN "find" ELSE "done")
    <3>1. [job[r] EXCEPT !.saved = TRUE] \in Job /\ [job[r] EXCEPT !.saved = TRUE].saved
      BY <1>0 DEF Job
    <3>2. /\ job[r].upd \in Update /\ Stored(job[r]) \in Row
          /\ Stored(job[r]).ver = update[job[r].upd].ver + 1
      BY <1>0, StoredRow
    <3>. QED BY <2>1, <3>1, <3>2, StartAsLoaded DEF Saved
  <2>2. CASE Revert(r) /\ UNCHANGED <<update, strays>>
    BY <1>0, <2>2, StartAsLoaded DEF Revert
  <2>. QED BY <1>6, <2>1, <2>2 DEF Save
<1>7. ASSUME NEW r \in Request, Archive(r) PROVE JobsAsLoaded'
  <2>1. PICK v \in Update :
          /\ Exists(v)
          /\ update' = [update EXCEPT ![v].status = "archived", ![v].ver = @ + 1]
          /\ StartRelease(r, [NoJob EXCEPT !.kind = "archive", !.upd = v, !.want = "archived", !.saved = TRUE],
                          update[v].shows.images, "done")
    BY <1>7 DEF Archive
  <2>2. [NoJob EXCEPT !.kind = "archive", !.upd = v, !.want = "archived", !.saved = TRUE] \in Job
    BY NoJobType DEF Job, Status
  <2>. DEFINE row == [update[v] EXCEPT !.status = "archived", !.ver = update[v].ver + 1]
  <2>3. update' = [update EXCEPT ![v] = row] /\ row \in Row /\ row.ver = update[v].ver + 1
    BY <2>1, ArchivedRow
  <2>. HIDE DEF row
  <2>. QED BY <2>1, <2>2, <2>3, StartAsLoaded
<1>8. ASSUME NEW r \in Request, FindPublic(r) PROVE JobsAsLoaded'
  <2>1. update' = update
    BY <1>8 DEF FindPublic
  <2>2. CASE EndRelease(r)
    BY <2>1, <2>2, EndAsLoaded
  <2>3. ASSUME NEW k, Go(r, "shown"), job' = [job EXCEPT ![r] = k] PROVE JobsAsLoaded'
    <3>1. OthersKept(r) /\ pc'[r] = "shown"
      BY <2>3 DEF Go, TypeOK, OthersKept
    <3>. QED BY <2>1, <3>1, PastAsLoaded, OneAsLoaded
  <2>. QED BY <1>8, <2>2, <2>3 DEF FindPublic
<1>9. ASSUME NEW r \in Request, CheckShown(r) \/ Recheck(r) \/ PutBack(r) PROVE JobsAsLoaded'
  <2>1. update' = update
    BY <1>9 DEF CheckShown, Recheck, PutBack
  <2>2. PICK at \in {"unpublish", "putback"}, docs \in SUBSET (job[r].todo \cup job[r].unpublished) :
          GoOn(r, at, docs)
    BY <1>9 DEF CheckShown, Recheck, PutBack
  <2>3. CASE docs = {}
    BY <2>1, <2>2, <2>3, EndAsLoaded DEF GoOn
  <2>4. CASE docs # {}
    BY <2>1, <2>2, <2>4, GoOnLeads, PastAsLoaded, OneAsLoaded DEF GoesOn
  <2>. QED BY <2>3, <2>4
<1>10. ASSUME NEW r \in Request, Unpublish(r) \/ ReleaseFails(r) PROVE JobsAsLoaded'
  <2>1. update' = update
    BY <1>10 DEF Unpublish, ReleaseFails
  <2>2. CASE EndRelease(r)
    BY <2>1, <2>2, EndAsLoaded
  <2>3. ASSUME NEW d, NEW unpublished, pc[r] = "unpublish", AfterUnpublish(r, d, unpublished)
        PROVE  JobsAsLoaded'
    <3>1. EndRelease(r) \/ (OthersKept(r) /\ pc'[r] \in {"unpublish", "recheck"})
      BY <2>3, AfterLeads DEF GoesOn
    <3>. QED BY <2>1, <2>2, <3>1, PastAsLoaded, OneAsLoaded
  <2>. QED BY <1>10, <2>2, <2>3 DEF Unpublish, ReleaseFails
<1>11. CASE UNCHANGED vars
  BY <1>11 DEF vars, JobsAsLoaded
<1>. QED BY <1>1, <1>2, <1>3, <1>4, <1>5, <1>6, <1>7, <1>8, <1>9, <1>10, <1>11 DEF Next, Release

\* What r does not deal with, and what the others deal with, is still dealt with.
LEMMA DealKept ==
  ASSUME ShownOrDealt, NEW r \in Request, OthersKept(r), NEW d \in Image, image[d].pub,
         d \notin Shown \cup logged \cup strays, image'[d] = image[d],
         Deals(r, d) => Deals(r, d)'
  PROVE  \E q \in Request : Deals(q, d)'
<1>1. PICK q \in Request : Deals(q, d)
  BY DEF ShownOrDealt
<1>2. CASE q = r
  BY <1>1, <1>2
<1>3. CASE q # r
  <2>1. pc'[q] = pc[q] /\ job'[q] = job[q]
    BY <1>3 DEF OthersKept
  <2>. QED BY <1>1, <2>1 DEF Deals
<1>. QED BY <1>2, <1>3

\* A step that leaves the Updates alone.
LEMMA DealtFor ==
  ASSUME ShownOrDealt, NEW r \in Request, OthersKept(r), update' = update, logged \subseteq logged',
         \A d \in Image : image'[d].pub /\ d \notin Shown \cup logged' \cup strays' =>
           \/ Deals(r, d)'
           \/ image'[d] = image[d] /\ d \notin strays /\ (Deals(r, d) => Deals(r, d)')
  PROVE  ShownOrDealt'
<1>. SUFFICES ASSUME NEW d \in Image, image'[d].pub, d \notin Shown \cup logged' \cup strays'
              PROVE  \E q \in Request : Deals(q, d)'
  BY DEF ShownOrDealt, Shown, ShownIn
<1>1. CASE Deals(r, d)'
  BY <1>1
<1>2. CASE image'[d] = image[d] /\ d \notin strays /\ (Deals(r, d) => Deals(r, d)')
  BY <1>2, DealKept
<1>. QED BY <1>1, <1>2

\* A release that begins deals with all it was given.
LEMMA StartDeals ==
  ASSUME TypeOK, NEW r \in Request, NEW j \in Job, NEW ids, NEW then, StartRelease(r, j, ids, then),
         NEW d \in ids
  PROVE  Deals(r, d)'
<1>. DEFINE k == [j EXCEPT !.ids = ids, !.then = then, !.todo = {}, !.published = {}, !.unpublished = {}]
<1>1. k.ids = ids
  BY DEF Job
<1>2. pc' = [pc EXCEPT ![r] = "public"] /\ job' = [job EXCEPT ![r] = k]
  BY DEF StartRelease, Go
<1>3. pc'[r] = "public" /\ job'[r] = k
  BY <1>2 DEF TypeOK
<1>. QED BY <1>1, <1>3 DEF Deals

\* What leaves the public's sight with the write of one Update was shown by it: as an attachment
\* alone, or among its images.
LEMMA LeavesSight ==
  ASSUME TypeOK, NEW v \in Update, NEW row, update' = [update EXCEPT ![v] = row], image' = image,
         NEW d \in Image, image[d].pub, d \in Shown, d \notin Shown', d \notin LeftAttached(update')
  PROVE  /\ update[v].status = "published" /\ d \in update[v].shows.images
         /\ row.status = "published" => d \notin row.shows.images
<1>1. PICK w \in Update : /\ update[w].status = "published"
                          /\ d \in update[w].shows.images \cup update[w].shows.attached
  BY DEF Shown, ShownIn
<1>2. w = v
  <2>. SUFFICES ASSUME w # v PROVE FALSE
    OBVIOUS
  <2>1. update'[w] = update[w]
    BY DEF TypeOK
  <2>. QED BY <1>1, <2>1 DEF Shown, ShownIn
<1>3. d \in update[v].shows.images
  BY <1>1, <1>2 DEF LeftAttached, Shown
<1>4. update'[v] = row
  BY DEF TypeOK
<1>5. row.status = "published" => d \notin row.shows.images
  BY <1>4 DEF Shown, ShownIn
<1>. QED BY <1>1, <1>2, <1>3, <1>5

\* A save that goes through releases the images that leave the public's sight, and shows the
\* ones its request published.
LEMMA SaveDeals ==
  ASSUME TypeOK, JobsInOrder, JobsAsLoaded, ShownOrDealt, NEW r \in Request, image' = image, logged' = logged,
         pc[r] = "save", Saved(r, IF job[r].want = "published" THEN "find" ELSE "done")
  PROVE  ShownOrDealt'
<1>. DEFINE j == job[r]
            k == [j EXCEPT !.saved = TRUE]
            v == j.upd
            then == IF j.want = "published" THEN "find" ELSE "done"
<1>0. /\ j \in Job /\ k \in Job /\ v \in Update /\ update[v] \in Row
      /\ AsLoaded("save", j, update[v])
  BY DEF TypeOK, Job, JobsAsLoaded
<1>1. /\ update[v].ver = j.loaded /\ update' = [update EXCEPT ![v] = Stored(j)]
      /\ strays' = strays \cup LeftAttached(update') /\ StartRelease(r, k, Released(j), then)
  BY DEF Saved, Unchanged
<1>2. Stored(j).status = j.want /\ Stored(j).shows = j.shows
  BY DEF Stored
<1>. HIDE DEF k
<1>3. OthersKept(r)
  BY <1>0, <1>1, StartLeads
<1>. SUFFICES ASSUME NEW d \in Image, image[d].pub, d \notin Shown', d \notin logged, d \notin strays'
              PROVE  \E q \in Request : Deals(q, d)'
  BY DEF ShownOrDealt
<1>4. CASE d \in Shown
  <2>1. /\ update[v].status = "published" /\ d \in update[v].shows.images
        /\ j.want = "published" => d \notin j.shows.images
    <3>1. PICK row : row = Stored(j) /\ update' = [update EXCEPT ![v] = row]
      BY <1>1
    <3>2. d \notin LeftAttached(update')
      BY <1>1
    <3>3. /\ update[v].status = "published" /\ d \in update[v].shows.images
          /\ row.status = "published" => d \notin row.shows.images
      BY <1>0, <1>4, <3>1, <3>2, LeavesSight
    <3>. QED BY <1>2, <3>1, <3>3
  <2>2. j.kind = "put" /\ update[v] = j.was
    <3>1. update[v].ver \in Nat \ {0}
      BY <1>0, <2>1, RowVersion
    <3>2. /\ \/ j.kind = "post" /\ j.loaded = 0
             \/ /\ j.kind = "put" /\ j.loaded <= j.was.ver /\ j.was.ver <= update[v].ver
                /\ update[v].ver = j.was.ver => update[v] = j.was
      BY <1>0 DEF AsLoaded
    <3>3. j.was.ver \in Nat /\ j.loaded \in Nat
      BY <1>0, RowVersion DEF Job
    <3>. QED BY <1>1, <3>1, <3>2, <3>3
  <2>3. d \in Released(j)
    BY <2>1, <2>2 DEF Released
  <2>. QED BY <1>0, <1>1, <2>3, StartDeals
<1>5. CASE d \notin Shown
  <2>1. ~Deals(r, d)
    <3>. SUFFICES ASSUME Deals(r, d) PROVE FALSE
      OBVIOUS
    <3>1. ~j.saved /\ d \in j.published
      BY DEF Deals
    <3>2. j.want = "published" /\ d \in j.shows.images
      BY <1>0, <3>1 DEF AsLoaded
    <3>3. update'[v] = Stored(j)
      BY <1>0, <1>1 DEF TypeOK
    <3>. QED BY <1>0, <1>2, <3>2, <3>3 DEF Shown, ShownIn
  <2>2. d \notin strays
    BY <1>1
  <2>. QED BY <1>3, <1>5, <2>1, <2>2, DealKept
<1>. QED BY <1>4, <1>5

\* A release that goes on with some images deals with those.
LEMMA GoOnDeals ==
  ASSUME TypeOK, NEW r \in Request, NEW docs, GoOn(r, "unpublish", docs), image' = image,
         NEW d \in docs, job[r].held[d] = image[d].ver
  PROVE  Deals(r, d)'
<1>. DEFINE k == [job[r] EXCEPT !.todo = docs]
<1>1. pc' = [pc EXCEPT ![r] = "unpublish"] /\ job' = [job EXCEPT ![r] = k]
  BY DEF GoOn, Go
<1>2. k.todo = docs /\ k.held = job[r].held
  BY DEF TypeOK, Job
<1>3. pc'[r] = "unpublish" /\ job'[r] = k
  BY <1>1 DEF TypeOK
<1>. QED BY <1>2, <1>3 DEF Deals

\* With one image done, a release deals with the others as before.
LEMMA AfterDeals ==
  ASSUME TypeOK, NEW r \in Request, pc[r] = "unpublish", NEW e, NEW unpublished,
         AfterUnpublish(r, e, unpublished), NEW d, d # e, image'[d] = image[d], Deals(r, d)
  PROVE  Deals(r, d)'
<1>. DEFINE k == [job[r] EXCEPT !.todo = job[r].todo \ {e}, !.unpublished = unpublished]
<1>1. d \in job[r].todo /\ job[r].held[d] = image[d].ver
  BY DEF Deals
<1>2. job' = [job EXCEPT ![r] = k] /\ UNCHANGED pc
  BY <1>1 DEF AfterUnpublish
<1>3. k.todo = job[r].todo \ {e} /\ k.held = job[r].held
  BY DEF TypeOK, Job
<1>4. pc'[r] = "unpublish" /\ job'[r] = k
  BY <1>2 DEF TypeOK
<1>. QED BY <1>1, <1>3, <1>4 DEF Deals

\* Every step leaves each public image shown, dealt with, logged or a stray.
LEMMA DealtStep == Inv /\ JobsAsLoaded /\ ShownOrDealt /\ [Next]_vars => ShownOrDealt'
<1>. SUFFICES ASSUME Inv, JobsAsLoaded, ShownOrDealt, [Next]_vars PROVE ShownOrDealt'
  OBVIOUS
<1>. TypeOK /\ JobsInOrder
  BY DEF Inv
<1>0. ASSUME NEW r \in Request
      PROVE  job[r] \in Job /\ InOrder(pc[r], job[r])
  BY DEF TypeOK, JobsInOrder
<1>1. ASSUME NEW r \in Request, Begin(r) \/ Check(r) \/ FindPrivate(r) PROVE ShownOrDealt'
  <2>1. /\ pc[r] \in {"idle", "check", "find"} /\ update' = update /\ image' = image
        /\ logged' = logged /\ strays' = strays
    BY <1>1 DEF Begin, Check, FindPrivate
  <2>2. OthersKept(r)
    <3>1. CASE Begin(r)
      BY <3>1, BeginTypes DEF Begin, Go, TypeOK, OthersKept
    <3>2. CASE Check(r)
      BY <3>2, CloseEnds DEF Check, Go, TypeOK, OthersKept
    <3>3. CASE FindPrivate(r)
      BY <3>3, CloseEnds DEF FindPrivate, Go, TypeOK, OthersKept
    <3>. QED BY <1>1, <3>1, <3>2, <3>3
  <2>3. \A d : ~Deals(r, d)
    BY <2>1 DEF Deals
  <2>. QED BY <2>1, <2>2, <2>3, DealtFor
<1>2. ASSUME NEW r \in Request, Publish(r) PROVE ShownOrDealt'
  <2>1. PICK e \in job[r].todo :
          /\ MakePublic(e)
          /\ strays' = IF job[r].saved /\ e \notin Shown THEN strays \cup {e} ELSE strays
          /\ IF job[r].todo # {e}
             THEN job' = [job EXCEPT ![r].todo = @ \ {e}, ![r].published = @ \cup {e}] /\ UNCHANGED pc
             ELSE IF job[r].saved THEN Close(r)
             ELSE job' = [job EXCEPT ![r].todo = {}, ![r].published = @ \cup {e}] /\ Go(r, "save")
    BY <1>2 DEF Publish
  <2>2. pc[r] = "publish" /\ update' = update /\ logged' = logged
    BY <1>2 DEF Publish
  <2>3. OthersKept(r)
    BY <2>1, CloseEnds DEF Go, TypeOK, OthersKept
  <2>4. ASSUME ~job[r].saved
        PROVE  /\ pc'[r] \in {"publish", "save"} /\ ~job'[r].saved
               /\ job'[r].published = job[r].published \cup {e}
    <3>1. PICK todo : /\ job' = [job EXCEPT ![r].todo = todo, ![r].published = job[r].published \cup {e}]
                      /\ UNCHANGED pc \/ Go(r, "save")
      BY <2>1, <2>4
    <3>2. /\ job'[r] = [job[r] EXCEPT !.todo = todo, !.published = job[r].published \cup {e}]
          /\ pc'[r] \in {"publish", "save"}
      BY <2>2, <3>1 DEF Go, TypeOK
    <3>. QED BY <1>0, <2>4, <3>2 DEF Job
  <2>5. ASSUME NEW d \in Image, image'[d].pub, d \notin Shown \cup logged' \cup strays'
        PROVE  \/ Deals(r, d)'
               \/ image'[d] = image[d] /\ d \notin strays /\ (Deals(r, d) => Deals(r, d)')
    <3>1. CASE d = e
      BY <2>1, <2>4, <2>5, <3>1 DEF Deals
    <3>2. CASE d # e
      <4>1. image'[d] = image[d] /\ d \notin strays
        BY <2>1, <2>5, <3>2 DEF MakePublic, TypeOK
      <4>2. Deals(r, d) => Deals(r, d)'
        BY <2>2, <2>4 DEF Deals
      <4>. QED BY <4>1, <4>2
    <3>. QED BY <3>1, <3>2
  <2>. QED BY <2>2, <2>3, <2>5, DealtFor
<1>3. ASSUME NEW r \in Request, PublishFails(r) \/ (pc[r] = "save" /\ Revert(r) /\ UNCHANGED <<update, strays, image, logged>>)
      PROVE  ShownOrDealt'
  <2>1. /\ pc[r] \in {"publish", "save"} /\ update' = update /\ image' = image /\ strays' = strays
        /\ logged \subseteq logged' /\ StartRelease(r, job[r], job[r].published, "done")
    BY <1>3 DEF PublishFails, Revert
  <2>2. OthersKept(r)
    BY <1>0, <2>1, StartLeads
  <2>3. ASSUME NEW d, Deals(r, d) PROVE Deals(r, d)'
    <3>1. d \in job[r].published
      BY <2>1, <2>3 DEF Deals
    <3>. QED BY <1>0, <2>1, <3>1, StartDeals
  <2>. QED BY <2>1, <2>2, <2>3, DealtFor
<1>4. ASSUME NEW r \in Request, Save(r) PROVE ShownOrDealt'
  <2>1. CASE Saved(r, IF job[r].want = "published" THEN "find" ELSE "done")
    BY <1>4, <2>1, SaveDeals DEF Save, Saved
  <2>2. CASE pc[r] = "save" /\ Revert(r) /\ UNCHANGED <<update, strays>>
    BY <1>3, <1>4, <2>2 DEF Save
  <2>. QED BY <1>4, <2>1, <2>2 DEF Save
<1>5. ASSUME NEW r \in Request, Archive(r) PROVE ShownOrDealt'
  <2>1. PICK v \in Update :
          /\ Exists(v)
          /\ update' = [update EXCEPT ![v].status = "archived", ![v].ver = @ + 1]
          /\ strays' = strays \cup LeftAttached(update')
          /\ StartRelease(r, [NoJob EXCEPT !.kind = "archive", !.upd = v, !.want = "archived", !.saved = TRUE],
                          update[v].shows.images, "done")
    BY <1>5 DEF Archive
  <2>2. [NoJob EXCEPT !.kind = "archive", !.upd = v, !.want = "archived", !.saved = TRUE] \in Job
    BY NoJobType DEF Job, Status
  <2>3. PICK row : update' = [update EXCEPT ![v] = row]
    BY <2>1
  <2>4. pc[r] = "idle" /\ image' = image /\ logged' = logged
    BY <1>5 DEF Archive
  <2>5. OthersKept(r)
    BY <2>1, <2>2, StartLeads
  <2>. SUFFICES ASSUME NEW d \in Image, image[d].pub, d \notin Shown', d \notin logged, d \notin strays'
                PROVE  \E q \in Request : Deals(q, d)'
    BY <2>4 DEF ShownOrDealt
  <2>6. d \notin LeftAttached(update') /\ d \notin strays
    BY <2>1
  <2>7. CASE d \in Shown
    <3>1. d \in update[v].shows.images
      BY <2>3, <2>4, <2>6, <2>7, LeavesSight
    <3>. QED BY <2>1, <2>2, <3>1, StartDeals
  <2>8. CASE d \notin Shown
    <3>1. ~Deals(r, d)
      BY <2>4 DEF Deals
    <3>. QED BY <2>4, <2>5, <2>6, <2>8, <3>1, DealKept
  <2>. QED BY <2>7, <2>8
<1>6. ASSUME NEW r \in Request, FindPublic(r) PROVE ShownOrDealt'
  <2>. DEFINE docs == {d \in job[r].ids : image[d].pub}
              held == [d \in Image |-> IF d \in docs THEN image[d].ver ELSE 0]
  <2>1. /\ pc[r] = "public" /\ update' = update /\ image' = image /\ logged' = logged
        /\ strays' = strays
    BY <1>6 DEF FindPublic
  <2>2. ASSUME NEW d \in Image, image[d].pub, Deals(r, d) PROVE d \in docs
    BY <2>1, <2>2 DEF Deals
  <2>3. CASE docs = {}
    <3>1. EndRelease(r)
      BY <1>6, <2>3 DEF FindPublic
    <3>2. OthersKept(r)
      BY <3>1, EndLeads
    <3>. QED BY <2>1, <2>2, <2>3, <3>2, DealtFor
  <2>4. CASE docs # {}
    <3>1. Go(r, "shown") /\ job' = [job EXCEPT ![r].todo = docs, ![r].held = held]
      BY <1>6, <2>4 DEF FindPublic
    <3>2. \A d \in Image : d \in docs => held[d] = image[d].ver
      OBVIOUS
    <3>. HIDE DEF docs, held
    <3>3. OthersKept(r) /\ pc'[r] = "shown" /\ job'[r] = [job[r] EXCEPT !.todo = docs, !.held = held]
      BY <3>1 DEF Go, TypeOK, OthersKept
    <3>4. job'[r].todo = docs /\ job'[r].held = held
      BY <1>0, <3>3 DEF Job
    <3>5. ASSUME NEW d \in Image, image[d].pub, Deals(r, d) PROVE Deals(r, d)'
      BY <2>1, <2>2, <3>2, <3>3, <3>4, <3>5 DEF Deals
    <3>. QED BY <2>1, <3>3, <3>5, DealtFor
  <2>. QED BY <2>3, <2>4
<1>7. ASSUME NEW r \in Request, CheckShown(r) PROVE ShownOrDealt'
  <2>1. /\ pc[r] = "shown" /\ update' = update /\ image' = image /\ logged' = logged
        /\ strays' = strays /\ GoOn(r, "unpublish", job[r].todo \ Shown)
    BY <1>7 DEF CheckShown
  <2>2. OthersKept(r)
    BY <2>1, GoOnLeads, EndLeads DEF GoOn
  <2>3. ASSUME NEW d, d \notin Shown, Deals(r, d) PROVE Deals(r, d)'
    <3>1. d \in job[r].todo \ Shown /\ job[r].held[d] = image[d].ver
      BY <2>1, <2>3 DEF Deals
    <3>. QED BY <2>1, <3>1, GoOnDeals
  <2>. QED BY <2>1, <2>2, <2>3, DealtFor
<1>8. ASSUME NEW r \in Request, Unpublish(r) PROVE ShownOrDealt'
  <2>1. pc[r] = "unpublish" /\ update' = update /\ logged' = logged
    BY <1>8 DEF Unpublish
  <2>2. PICK e \in job[r].todo :
       IF image[e].ver = job[r].held[e]
       THEN /\ image' = [image EXCEPT ![e] = [pub |-> FALSE, ver |-> @.ver + 1]]
            /\ strays' = strays \ {e}
            /\ AfterUnpublish(r, e, job[r].unpublished \cup {e})
       ELSE /\ AfterUnpublish(r, e, job[r].unpublished)
            /\ UNCHANGED <<image, strays>>
    BY <1>8 DEF Unpublish
  <2>3. PICK unpublished : AfterUnpublish(r, e, unpublished)
    BY <2>2
  <2>4. OthersKept(r)
    BY <2>1, <2>3, AfterLeads, EndLeads
  <2>5. ASSUME NEW d \in Image, image'[d].pub, d \notin strays'
        PROVE  image'[d] = image[d] /\ d \notin strays /\ (Deals(r, d) => Deals(r, d)')
    <3>1. image'[d] = image[d] /\ d \notin strays /\ (d = e => image[e].ver # job[r].held[e])
      BY <2>2, <2>5 DEF TypeOK
    <3>2. Deals(r, d) => d # e
      BY <2>1, <3>1 DEF Deals
    <3>. QED BY <2>1, <2>3, <3>1, <3>2, AfterDeals
  <2>. QED BY <2>1, <2>4, <2>5, DealtFor
<1>9. ASSUME NEW r \in Request, Recheck(r) PROVE ShownOrDealt'
  <2>1. /\ pc[r] = "recheck" /\ update' = update /\ image' = image /\ logged' = logged
        /\ strays' = strays /\ GoOn(r, "putback", job[r].unpublished \cap Shown)
    BY <1>9 DEF Recheck
  <2>2. OthersKept(r)
    BY <2>1, GoOnLeads, EndLeads DEF GoOn
  <2>3. \A d : ~Deals(r, d)
    BY <2>1 DEF Deals
  <2>. QED BY <2>1, <2>2, <2>3, DealtFor
<1>10. ASSUME NEW r \in Request, PutBack(r) PROVE ShownOrDealt'
  <2>1. pc[r] = "putback" /\ update' = update /\ logged' = logged
    BY <1>10 DEF PutBack
  <2>2. PICK e \in job[r].todo :
          /\ MakePublic(e) /\ GoOn(r, "putback", job[r].todo \ {e})
          /\ strays' = IF e \notin Shown THEN strays \cup {e} ELSE strays
    BY <1>10 DEF PutBack
  <2>3. OthersKept(r)
    BY <2>2, GoOnLeads, EndLeads DEF GoOn
  <2>4. \A d : ~Deals(r, d)
    BY <2>1 DEF Deals
  <2>5. ASSUME NEW d \in Image, d \notin Shown \cup strays'
        PROVE  image'[d] = image[d] /\ d \notin strays
    BY <2>2, <2>5 DEF MakePublic, TypeOK
  <2>. QED BY <2>1, <2>3, <2>4, <2>5, DealtFor
<1>11. ASSUME NEW r \in Request, ReleaseFails(r) PROVE ShownOrDealt'
  <2>1. update' = update /\ image' = image /\ strays' = strays
    BY <1>11 DEF ReleaseFails
  <2>2. CASE /\ pc[r] \in {"public", "shown", "recheck", "putback"}
             /\ logged' = logged \cup job[r].ids
             /\ EndRelease(r)
    <3>1. ASSUME NEW d, Deals(r, d) PROVE d \in logged'
      BY <1>0, <2>2, <3>1 DEF Deals, InOrder, Releasing
    <3>. QED BY <2>1, <2>2, <3>1, EndLeads, DealtFor
  <2>3. ASSUME NEW e \in job[r].todo, pc[r] = "unpublish", logged' = logged \cup {e},
               AfterUnpublish(r, e, job[r].unpublished)
        PROVE  ShownOrDealt'
    <3>1. OthersKept(r)
      BY <2>3, AfterLeads, EndLeads
    <3>2. ASSUME NEW d, d \notin logged', Deals(r, d) PROVE Deals(r, d)'
      BY <2>1, <2>3, <3>2, AfterDeals
    <3>. QED BY <2>1, <2>3, <3>1, <3>2, DealtFor
  <2>. QED BY <1>11, <2>2, <2>3 DEF ReleaseFails
<1>12. CASE UNCHANGED vars
  BY <1>12 DEF vars, ShownOrDealt, Deals, Shown, ShownIn
<1>. QED BY <1>1, <1>2, <1>3, <1>4, <1>5, <1>6, <1>7, <1>8, <1>9, <1>10, <1>11, <1>12 DEF Next, Release

\* When the requests are answered, an image that is public and not shown was logged or is a
\* stray: no refused save, no failed one and no overlap of releases leaves another.
THEOREM NoOtherOrphans == Spec => []OrphansAreStrays
<1>1. Init => OrphanInv
  <2>. SUFFICES ASSUME Init PROVE OrphanInv
    OBVIOUS
  <2>1. Inv
    BY InitInv
  <2>2. JobsAsLoaded /\ ShownOrDealt
    BY PastAsLoaded DEF Init, JobsAsLoaded, ShownOrDealt
  <2>. QED BY <2>1, <2>2 DEF OrphanInv
<1>2. OrphanInv /\ [Next]_vars => OrphanInv'
  BY TypeStep, OrderStep, OwedStep, LoadedStep, DealtStep DEF OrphanInv, Inv
<1>3. OrphanInv => OrphansAreStrays
  <2>. SUFFICES ASSUME OrphanInv, Quiet PROVE \A r \in Request, d \in Image : ~Deals(r, d)
    BY DEF OrphanInv, ShownOrDealt, OrphansAreStrays
  <2>. QED BY DEF Quiet, Deals
<1>. QED BY <1>1, <1>2, <1>3, PTL DEF Spec
=============================================================================
