---------------------------- MODULE UpdateImages ----------------------------
(***************************************************************************)
(* The images uploaded from the Update form go public and private with the *)
(* Updates that show them.  A request that saves an Update as published    *)
(* publishes its images first, and again once it is saved; one that takes  *)
(* an image out of the public's sight releases it, unless another          *)
(* published Update shows it, and looks a second time after that.  No step *)
(* locks anything: an edit is refused if the Update changed since it was   *)
(* loaded, and making an image private if the image did.                   *)
(*                                                                         *)
(* An Update's project and its documents' are fixed.                       *)
(***************************************************************************)
EXTENDS Integers, FiniteSets

CONSTANTS Request,  \* staff requests
          Update,   \* RecentActivity ids
          Image,    \* documents with source UPDATE
          Project,  \* the project of each Update and image
          Content,  \* what an Update may show: its images, and uploads it attaches
          Fault     \* the faults the environment may cause

ASSUME UpdateAssumption == Update # {}
ASSUME ContentAssumption == Content \subseteq [images: SUBSET Image, attached: SUBSET Image]
ASSUME ProjectAssumption == Update \cup Image \subseteq DOMAIN Project
ASSUME FaultAssumption ==
  Fault \subseteq {"publish",  \* saving an image public fails
                  "save",     \* saving the Update fails
                  "release"}  \* a step of a release fails

VARIABLES
  update,  \* the rows: status, content, and a version for dateUpdated
  image,   \* whether each image is public, and its __v
  pc,      \* where each request stands
  job,     \* what it was asked and has done
  logged,  \* images an error was logged about
  strays   \* images a request made or left public that no published Update shows

vars == <<update, image, pc, job, logged, strays>>

-----------------------------------------------------------------------------
Status == {"draft", "published", "archived"}
Nothing == [images |-> {}, attached |-> {}]
Absent == [status |-> "absent", shows |-> Nothing, ver |-> 0]
NoJob == [kind |-> "none", upd |-> CHOOSE u \in Update : TRUE, want |-> "draft", shows |-> Nothing,
          loaded |-> 0, was |-> Absent, saved |-> FALSE, published |-> {}, ids |-> {}, todo |-> {},
          held |-> [d \in Image |-> 0], unpublished |-> {}, then |-> "done"]

Row == {Absent} \cup [status: Status, shows: Content \cup {Nothing}, ver: Nat \ {0}]
Place == {"idle", "check", "find", "publish", "save", "public", "shown",
          "unpublish", "recheck", "putback", "done"}
Job == [kind: {"none", "post", "put", "archive"}, upd: Update, want: Status,
        shows: Content \cup {Nothing}, loaded: Nat, was: Row, saved: BOOLEAN,
        published: SUBSET Image, ids: SUBSET Image, todo: SUBSET Image,
        held: [Image -> Nat], unpublished: SUBSET Image, then: {"find", "done"}]

\* One type invariant: every variable keeps its shape.
TypeOK ==
  /\ update \in [Update -> Row]
  /\ image \in [Image -> [pub: BOOLEAN, ver: Nat]]
  /\ pc \in [Request -> Place]
  /\ job \in [Request -> Job]
  /\ logged \subseteq Image /\ strays \subseteq Image

\* shownIds: what the published Updates show as image or attachment.
ShownIn(rows) ==
  UNION {rows[u].shows.images \cup rows[u].shows.attached : u \in {v \in Update : rows[v].status = "published"}}
Shown == ShownIn(update)

\* Uploads that were attached alone, and by no published Update any more: no release names them.
LeftAttached(rows) ==
  LET before == UNION {update[u].shows.attached \ update[u].shows.images : u \in Update}
  IN {d \in (Shown \cap before) \ ShownIn(rows) : image[d].pub}

\* The images of a content that publishing the Update publishes: its own project's.
Own(u, shows) == {d \in shows.images : Project[d] = Project[u]}

\* The images start out in step: public if, and only if, a published Update shows them.
Init ==
  /\ update \in [Update -> {Absent} \cup [status: Status, shows: Content, ver: {1}]]
  /\ image = [d \in Image |-> [pub |-> d \in Shown, ver |-> 0]]
  /\ pc = [r \in Request |-> "idle"]
  /\ job = [r \in Request |-> NoJob]
  /\ logged = {} /\ strays = {}

Go(r, at) == pc' = [pc EXCEPT ![r] = at]
\* The request is answered.
Close(r) == Go(r, "done") /\ job' = [job EXCEPT ![r] = NoJob]
Exists(u) == update[u].status # "absent"

-----------------------------------------------------------------------------
(* protectedPost, protectedPut: reading, checking, publishing the images *)

\* A request to create an Update, or to change one from what the client loaded.
Begin(r) ==
  /\ pc[r] = "idle"
  /\ \E kind \in {"post", "put"}, u \in Update, want \in Status, shows \in Content :
       \E loaded \in 0..update[u].ver :
         /\ kind = "put" => Exists(u) /\ loaded > 0
         /\ kind = "post" => loaded = 0
         /\ job' = [job EXCEPT ![r] = [NoJob EXCEPT
              !.kind = kind, !.upd = u, !.want = want, !.shows = shows, !.loaded = loaded,
              !.was = IF kind = "put" THEN update[u] ELSE Absent]]
  /\ Go(r, "check")
  /\ UNCHANGED <<update, image, logged, strays>>

\* nonPublicDocumentIds: what the public cannot read and publishing will not change.
Hidden(u, shows) ==
  {d \in shows.images \cup shows.attached : ~image[d].pub /\ d \notin Own(u, shows)}

\* isPinToggle may hold: published before and after, with the same documents.
MayBePinToggle(j) == j.was.status = "published" /\ j.want = "published" /\
  j.was.shows.images \cup j.was.shows.attached = j.shows.images \cup j.shows.attached

\* updateRules.check: an Update that goes out must show public documents only.
Check(r) ==
  LET j == job[r] IN
  /\ pc[r] = "check"
  /\ \/ j.want # "published" /\ Go(r, "save") /\ UNCHANGED job
     \/ /\ j.want = "published" /\ (Hidden(j.upd, j.shows) = {} \/ MayBePinToggle(j))
        /\ Go(r, "find") /\ UNCHANGED job
     \/ /\ j.want = "published" /\ Hidden(j.upd, j.shows) # {}
        /\ Close(r)
  /\ UNCHANGED <<update, image, logged, strays>>

\* publishFor's query: the Update's own images that are still private.
FindPrivate(r) ==
  /\ pc[r] = "find"
  /\ LET private == {d \in Own(job[r].upd, job[r].shows) : ~image[d].pub}
     IN IF private # {}
        THEN Go(r, "publish") /\ job' = [job EXCEPT ![r].todo = private]
        ELSE IF job[r].saved THEN Close(r) ELSE Go(r, "save") /\ UNCHANGED job
  /\ UNCHANGED <<update, image, logged, strays>>

\* documentPublish.publish: a $push, which asks for no version.
MakePublic(d) == image' = [image EXCEPT ![d] = [pub |-> TRUE, ver |-> @.ver + 1]]

Publish(r) ==
  /\ pc[r] = "publish"
  /\ \E d \in job[r].todo :
       /\ MakePublic(d)
       /\ strays' = IF job[r].saved /\ d \notin Shown THEN strays \cup {d} ELSE strays
       /\ IF job[r].todo # {d}
          THEN job' = [job EXCEPT ![r].todo = @ \ {d}, ![r].published = @ \cup {d}] /\ UNCHANGED pc
          ELSE IF job[r].saved THEN Close(r)
          ELSE job' = [job EXCEPT ![r].todo = {}, ![r].published = @ \cup {d}] /\ Go(r, "save")
  /\ UNCHANGED <<update, logged>>

\* A release of some images, and what comes after it.
StartRelease(r, j, ids, then) ==
  LET k == [j EXCEPT !.ids = ids, !.then = then, !.todo = {}, !.published = {}, !.unpublished = {}]
  IN IF ids # {} THEN Go(r, "public") /\ job' = [job EXCEPT ![r] = k]
     ELSE IF then = "done" THEN Close(r)
     ELSE Go(r, then) /\ job' = [job EXCEPT ![r] = k]

\* revert: what this request published goes private again unless it is shown by now.
Revert(r) == StartRelease(r, job[r], job[r].published, "done")

\* publishFor fails: before the save the request ends with it, after it the failure is logged.
PublishFails(r) ==
  /\ "publish" \in Fault
  /\ pc[r] = "publish"
  /\ logged' = IF job[r].saved THEN logged \cup job[r].todo ELSE logged
  /\ Revert(r)
  /\ UNCHANGED <<update, image, strays>>

-----------------------------------------------------------------------------
(* Saving *)

\* A new id, or the version the client loaded.
Unchanged(j) == update[j.upd].ver = j.loaded

\* Images that may go private: those a live Update dropped, all of one that is not live.
Released(j) ==
  IF j.want = "published" THEN j.was.shows.images \ j.shows.images
  ELSE IF j.kind = "put" THEN j.was.shows.images \cup j.shows.images ELSE {}

\* The row as saved: status and active agree, dateUpdated is new.
Stored(j) == [status |-> j.want, shows |-> j.shows, ver |-> update[j.upd].ver + 1]
Saved(r, then) ==
  LET j == job[r] IN
  /\ pc[r] = "save" /\ Unchanged(j)
  /\ update' = [update EXCEPT ![j.upd] = Stored(j)]
  /\ strays' = strays \cup LeftAttached(update')
  /\ StartRelease(r, [j EXCEPT !.saved = TRUE], Released(j), then)

\* Mutants of Save: no second publishFor; a refused save keeps the images it published.
SaveOnce(r) ==
  /\ \/ Saved(r, "done")
     \/ pc[r] = "save" /\ (~Unchanged(job[r]) \/ "save" \in Fault) /\ Revert(r) /\ UNCHANGED <<update, strays>>
  /\ UNCHANGED <<image, logged>>
SaveOrLeave(r) ==
  /\ \/ Saved(r, IF job[r].want = "published" THEN "find" ELSE "done")
     \/ pc[r] = "save" /\ (~Unchanged(job[r]) \/ "save" \in Fault) /\ Close(r) /\ UNCHANGED <<update, strays>>
  /\ UNCHANGED <<image, logged>>

\* The save; a published Update's images are published again after it.  Refused or failed, it is undone.
Save(r) ==
  /\ \/ Saved(r, IF job[r].want = "published" THEN "find" ELSE "done")
     \/ pc[r] = "save" /\ (~Unchanged(job[r]) \/ "save" \in Fault) /\ Revert(r) /\ UNCHANGED <<update, strays>>
  /\ UNCHANGED <<image, logged>>

\* protectedDelete archives the row whatever version it is at.
Archive(r) ==
  /\ pc[r] = "idle"
  /\ \E u \in {v \in Update : Exists(v)} :
       /\ update' = [update EXCEPT ![u].status = "archived", ![u].ver = @ + 1]
       /\ strays' = strays \cup LeftAttached(update')
       /\ StartRelease(r, [NoJob EXCEPT !.kind = "archive", !.upd = u, !.want = "archived", !.saved = TRUE],
                       update[u].shows.images, "done")
  /\ UNCHANGED <<image, logged>>

-----------------------------------------------------------------------------
(* release *)

EndRelease(r) ==
  IF job[r].then = "done" THEN Close(r)
  ELSE Go(r, job[r].then) /\
       job' = [job EXCEPT ![r].ids = {}, ![r].todo = {}, ![r].held = NoJob.held, ![r].unpublished = {}]

\* Each query leaves the documents to go on with, or ends the release.
GoOn(r, at, docs) ==
  IF docs = {} THEN EndRelease(r) ELSE Go(r, at) /\ job' = [job EXCEPT ![r].todo = docs]

\* The images to release that are public, at the versions they are loaded with.
FindPublic(r) ==
  /\ pc[r] = "public"
  /\ LET docs == {d \in job[r].ids : image[d].pub}
     IN IF docs = {} THEN EndRelease(r)
        ELSE /\ Go(r, "shown")
             /\ job' = [job EXCEPT ![r].todo = docs,
                                   ![r].held = [d \in Image |-> IF d \in docs THEN image[d].ver ELSE 0]]
  /\ UNCHANGED <<update, image, logged, strays>>

\* Those a published Update shows are left alone.
CheckShown(r) ==
  /\ pc[r] = "shown"
  /\ GoOn(r, "unpublish", job[r].todo \ Shown)
  /\ UNCHANGED <<update, image, logged, strays>>

\* One image is dealt with: the next, the second look, or the end.
AfterUnpublish(r, d, unpublished) ==
  IF job[r].todo # {d}
  THEN job' = [job EXCEPT ![r].todo = @ \ {d}, ![r].unpublished = unpublished] /\ UNCHANGED pc
  ELSE IF unpublished = {} THEN EndRelease(r)
  ELSE Go(r, "recheck") /\ job' = [job EXCEPT ![r].todo = {}, ![r].unpublished = unpublished]

\* documentPublish.unPublish sets the whole read list, which asks for the version loaded;
\* on another one the image stays public.
Unpublish(r) ==
  /\ pc[r] = "unpublish"
  /\ \E d \in job[r].todo :
       IF image[d].ver = job[r].held[d]
       THEN /\ image' = [image EXCEPT ![d] = [pub |-> FALSE, ver |-> @.ver + 1]]
            /\ strays' = strays \ {d}
            /\ AfterUnpublish(r, d, job[r].unpublished \cup {d})
       ELSE /\ AfterUnpublish(r, d, job[r].unpublished)
            /\ UNCHANGED <<image, strays>>
  /\ UNCHANGED <<update, logged>>

\* Mutant of Recheck: no second look.
RecheckNothing(r) ==
  /\ pc[r] = "recheck"
  /\ EndRelease(r)
  /\ UNCHANGED <<update, image, logged, strays>>

\* The second look: an Update saved as published meanwhile took these for public.
Recheck(r) ==
  /\ pc[r] = "recheck"
  /\ GoOn(r, "putback", job[r].unpublished \cap Shown)
  /\ UNCHANGED <<update, image, logged, strays>>

PutBack(r) ==
  /\ pc[r] = "putback"
  /\ \E d \in job[r].todo :
       /\ MakePublic(d)
       /\ strays' = IF d \notin Shown THEN strays \cup {d} ELSE strays
       /\ GoOn(r, "putback", job[r].todo \ {d})
  /\ UNCHANGED <<update, logged>>

\* A query or a save of a release fails: it is logged, and the release ends or leaves the image out.
ReleaseFails(r) ==
  /\ "release" \in Fault
  /\ \/ /\ pc[r] \in {"public", "shown", "recheck", "putback"}
        /\ logged' = logged \cup job[r].ids
        /\ EndRelease(r)
     \/ /\ pc[r] = "unpublish"
        /\ \E d \in job[r].todo :
             /\ logged' = logged \cup {d}
             /\ AfterUnpublish(r, d, job[r].unpublished)
  /\ UNCHANGED <<update, image, strays>>

-----------------------------------------------------------------------------
Release(r) ==
  FindPublic(r) \/ CheckShown(r) \/ Unpublish(r) \/ Recheck(r) \/ PutBack(r) \/ ReleaseFails(r)

Next == \E r \in Request :
  \/ Begin(r) \/ Check(r) \/ FindPrivate(r) \/ Publish(r) \/ PublishFails(r)
  \/ Save(r) \/ Archive(r) \/ Release(r)

Spec == Init /\ [][Next]_vars

-----------------------------------------------------------------------------
(* Properties *)

Quiet == \A r \in Request : pc[r] \in {"idle", "done"}

\* Once the requests are answered, no published Update is left with a private image of its
\* project, unless the error was logged: whatever releases and saves overlapped.
LiveImagesArePublic ==
  Quiet => \A u \in Update : update[u].status = "published" =>
             \A d \in Own(u, update[u].shows) : image[d].pub \/ d \in logged

\* Once the requests are answered, an image is public only while a published Update shows it,
\* unless the error was logged.
PublicOnlyWhileShown ==
  Quiet => \A d \in Image : image[d].pub => d \in Shown \cup logged

\* There are two other ways to leave one public: publishing it again, after a save or a release,
\* for an Update that by then was changed, and an attachment that goes with its last Update.
\* Refused saves, failed ones and releases that overlap leave none.
OrphansAreStrays ==
  Quiet => \A d \in Image : image[d].pub => d \in Shown \cup logged \cup strays
=============================================================================
