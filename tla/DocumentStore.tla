--------------------------- MODULE DocumentStore ---------------------------
(***************************************************************************)
(* Documents: a row in Mongo and a file in the bucket, written in separate *)
(* steps by the document handlers.  A handler loads a row, and writes what *)
(* it makes of that copy later.  Mongoose writes a changed scalar without  *)
(* looking at the row's version, and a whole read[] only over the version  *)
(* it loaded; an unchanged document is not written at all.                 *)
(***************************************************************************)
EXTENDS Requests

CONSTANTS Doc,          \* documents, all of one project
          File,         \* random names putDocument generates
          Deposit,      \* keys of files DEMI put into the bucket itself
          FeatureLimit, \* MAX_FEATURE_DOCS
          Prefix,       \* the project's id, which begins every object key
          NoDoc

ASSUME LimitAssumption == FeatureLimit \in Nat
ASSUME NameAssumption ==
  /\ File \cap Deposit = {}
  /\ \A k \in File \cup Deposit : <<Prefix, k>> \notin File \cup Deposit

VARIABLES row,     \* the documents in Mongo
          bucket,  \* the objects in storage
          job      \* the document requests

docVars == <<row, bucket, job>>

Status == {"none", "Published", "Rejected", "Pending"}

\* putDocument's path: the project, then the name.  It is what internalURL holds.
ObjectKey(name) == <<Prefix, name>>
Keys == {ObjectKey(k) : k \in File \cup Deposit}

Row == [key : Keys, open : BOOLEAN, status : Status, featured : BOOLEAN,
        hits : Nat, secureHits : Nat, ver : Nat]

ASSUME DocAssumption ==
  /\ IsFiniteSet(Doc)
  /\ NoDoc \notin Doc /\ NoDoc \notin Row /\ NoDoc \notin Keys

DocOp == {"none", "post", "stored", "publish", "unpublish", "put", "delete",
          "feature", "unfeature", "download", "secureDownload", "open"}

Job == [op : DocOp,
        at : {"new", "loaded", "counted", "second", "save", "check", "unlink",
              "stat", "done"},
        doc : Doc \cup {NoDoc}, key : Keys \cup {NoDoc}, copy : Row \cup {NoDoc},
        wrote : Row \cup {NoDoc}, late : BOOLEAN,
        met : SUBSET Request, out : Outcome]

NewJob == [op |-> "none", at |-> "new", doc |-> NoDoc, key |-> NoDoc,
           copy |-> NoDoc, wrote |-> NoDoc, late |-> FALSE, met |-> {}, out |-> "none"]

Present == {d \in Doc : row[d] # NoDoc}
Held == {row[d].key : d \in Present}
Featured == {d \in Present : row[d].featured}

\* A document just made: read[] holds `public' when it is posted as
\* Published or with the publish flag.
Fresh(key, status, flag) ==
  [key |-> key, open |-> flag \/ status = "Published", status |-> status,
   featured |-> FALSE, hits |-> 0, secureHits |-> 0, ver |-> 0]

Go(r, at) == job' = [job EXCEPT ![r].at = at]
Finish(r, out) == job' = [job EXCEPT ![r] = Answered(@, out)]
DocUnchanged == UNCHANGED <<row, bucket>>

-----------------------------------------------------------------------------
\* protectedPost, up to the upload: the file goes into the bucket first, under
\* a random name that no request had before.
PostUpload(r, k) ==
  /\ job[r].at = "new"
  /\ ObjectKey(k) \notin bucket \cup Held
  /\ \A q \in Request : job[q].key # ObjectKey(k)
  /\ bucket' = bucket \cup {ObjectKey(k)}
  /\ job' = Begun(job, r, [NewJob EXCEPT !.op = "post", !.at = "save",
                                         !.key = ObjectKey(k)])
  /\ UNCHANGED row

\* The row follows.  The save lands and says so, or it reports an error: it
\* was refused, it landed all the same, or it is still to land.
PostSave(r, d, status, flag) ==
  LET new == Fresh(job[r].key, status, flag) IN
  /\ job[r].op = "post" /\ job[r].at = "save"
  /\ row[d] = NoDoc /\ \A q \in Request : job[q].doc # d
  /\ \/ /\ row' = [row EXCEPT ![d] = new]
        /\ job' = [job EXCEPT ![r] = Answered([@ EXCEPT !.doc = d], "ok")]
     \/ /\ row' \in {row, [row EXCEPT ![d] = new]}
        /\ job' = [job EXCEPT ![r].at = "check", ![r].doc = d]
     \/ /\ row' = row
        /\ job' = [job EXCEPT ![r].at = "check", ![r].doc = d, ![r].wrote = new]
  /\ UNCHANGED bucket

\* Mutant of PostCheck: the file goes without a look at the row.
PostCheckBlind(r) ==
  /\ job[r].op = "post" /\ job[r].at = "check"
  /\ Go(r, "unlink")
  /\ DocUnchanged

\* Document.exists after the failed save: a stored document keeps its file.
PostCheck(r) ==
  /\ job[r].op = "post" /\ job[r].at = "check"
  /\ IF row[job[r].doc] # NoDoc THEN Finish(r, "failed") ELSE Go(r, "unlink")
  /\ DocUnchanged

\* deleteObject takes the whole key.
PostRollback(r) ==
  /\ job[r].op = "post" /\ job[r].at = "unlink"
  /\ bucket' = bucket \ {job[r].key}
  /\ Finish(r, "failed")
  /\ UNCHANGED row

\* The lookup or the removal fails: it is logged, and the file stays.
PostRollbackFails(r) ==
  /\ job[r].op = "post" /\ job[r].at \in {"check", "unlink"}
  /\ Finish(r, "left")
  /\ DocUnchanged

\* A write whose answer was lost is applied by Mongo after all, before or after
\* the handler looks.
LateSave(r) ==
  LET d == job[r].doc IN
  /\ job[r].op = "post" /\ job[r].at \in {"check", "unlink", "done"}
  /\ job[r].wrote # NoDoc /\ row[d] = NoDoc
  /\ row' = [row EXCEPT ![d] = job[r].wrote]
  /\ job' = [job EXCEPT ![r].wrote = NoDoc, ![r].late = job[r].at # "check"]
  /\ UNCHANGED bucket

-----------------------------------------------------------------------------
\* protectedPostStored: no row may hold the key yet, the object must be in the
\* bucket, and the caller's _id must be free.  The first two are looked up.
\* No caller knows the random _id of a post that did not succeed.
StoredFind(r, d, k) ==
  /\ job[r].at = "new"
  /\ \A q \in Request : job[q].op = "post" /\ job[q].doc = d => job[q].out = "ok"
  /\ LET begun == [NewJob EXCEPT !.op = "stored", !.at = "stat", !.doc = d,
                                  !.key = ObjectKey(k)]
     IN job' = Begun(job, r, IF ObjectKey(k) \in Held THEN Answered(begun, "failed")
                                                      ELSE begun)
  /\ DocUnchanged

\* The stat may fail for reasons of its own (503).
StoredStat(r) ==
  /\ job[r].op = "stored" /\ job[r].at = "stat"
  /\ \/ job[r].key \in bucket /\ Go(r, "save")
     \/ Finish(r, "failed")
  /\ DocUnchanged

StoredSave(r) ==
  LET d == job[r].doc IN
  /\ job[r].op = "stored" /\ job[r].at = "save"
  /\ IF row[d] = NoDoc
     THEN row' = [row EXCEPT ![d] = Fresh(job[r].key, "none", FALSE)] /\ Finish(r, "ok")
     ELSE row' = row /\ Finish(r, "failed")
  /\ UNCHANGED bucket

-----------------------------------------------------------------------------
\* The first await of every handler that works on a stored document.
Load(r, op, d) ==
  /\ job[r].at = "new"
  /\ op \in DocOp \ {"none", "post", "stored"}
  /\ LET begun == [NewJob EXCEPT !.op = op, !.doc = d, !.at = "loaded", !.copy = row[d]]
     IN job' = Begun(job, r, IF row[d] = NoDoc THEN Answered(begun, "failed") ELSE begun)
  /\ DocUnchanged

\* Mongoose's save of scalars: nothing is written when the copy had the value
\* already, and a row that is gone fails the save.
SaveField(r, changed, new) ==
  row' = IF changed THEN [row EXCEPT ![job[r].doc] = new] ELSE row

\* documentPublish.publish and unPublish: the status is saved first.
SaveStatus(r) ==
  LET d == job[r].doc
      status == IF job[r].op = "publish" THEN "Published" ELSE "Rejected"
      more == job[r].copy.open # (job[r].op = "publish")
  IN /\ job[r].op \in {"publish", "unpublish"} /\ job[r].at = "loaded"
     /\ IF row[d] = NoDoc
        THEN row' = row /\ Finish(r, "failed")
        ELSE /\ SaveField(r, job[r].copy.status # status, [row[d] EXCEPT !.status = status])
             /\ IF more THEN Go(r, "second") ELSE Finish(r, "ok")
     /\ UNCHANGED bucket

\* Actions.publish pushes `public' onto read[]; the version moves on.
SaveOpen(r) ==
  LET d == job[r].doc IN
  /\ job[r].op = "publish" /\ job[r].at = "second"
  /\ IF row[d] = NoDoc
     THEN row' = row /\ Finish(r, "failed")
     ELSE /\ row' = [row EXCEPT ![d].open = TRUE, ![d].ver = @ + 1]
          /\ Finish(r, "ok")
  /\ UNCHANGED bucket

\* Actions.unPublish writes the whole read[], over the loaded version only.
SaveShut(r) ==
  LET d == job[r].doc IN
  /\ job[r].op = "unpublish" /\ job[r].at = "second"
  /\ IF row[d] = NoDoc \/ row[d].ver # job[r].copy.ver
     THEN row' = row /\ Finish(r, "failed")
     ELSE /\ row' = [row EXCEPT ![d].open = FALSE, ![d].ver = @ + 1]
          /\ Finish(r, "ok")
  /\ UNCHANGED bucket

\* Mutant of Edited: a rejected document keeps its read[].
EditedStatus(doc, status) ==
  [doc EXCEPT !.status = IF status = "none" THEN @ ELSE status,
              !.open = @ \/ status = "Published", !.ver = @ + 1]

\* What a PUT that names `status' makes of a row: only Published and Rejected
\* rewrite read[]; "none" stands for a PUT without a status.
Edited(doc, status) ==
  [doc EXCEPT !.status = IF status = "none" THEN @ ELSE status,
              !.open = CASE status = "Published" -> TRUE
                         [] status = "Rejected" -> FALSE
                         [] OTHER -> @,
              !.ver = @ + 1]

PutWrite(r, status) ==
  LET d == job[r].doc IN
  /\ job[r].op = "put" /\ job[r].at = "loaded"
  /\ IF row[d] = NoDoc
     THEN row' = row /\ Finish(r, "failed")
     ELSE row' = [row EXCEPT ![d] = Edited(@, status)] /\ Finish(r, "ok")
  /\ UNCHANGED bucket

-----------------------------------------------------------------------------
\* protectedDelete: the row first.  A row that another delete took leaves
\* nothing to name an object by, and the handler throws.
DeleteRow(r) ==
  LET d == job[r].doc IN
  /\ job[r].op = "delete" /\ job[r].at = "loaded"
  /\ row' = [row EXCEPT ![d] = NoDoc]
  /\ IF row[d] = NoDoc
     THEN Finish(r, "failed")
     ELSE job' = [job EXCEPT ![r].at = "unlink", ![r].key = row[d].key]
  /\ UNCHANGED bucket

\* deleteDocument puts the project before a key that begins with it.
DeletedKey(key) == <<Prefix, key>>

DeleteObject(r) ==
  /\ job[r].op = "delete" /\ job[r].at = "unlink"
  /\ \/ bucket' = bucket \ {DeletedKey(job[r].key)} /\ Finish(r, "ok")
     \/ bucket' = bucket /\ Finish(r, "failed")
  /\ UNCHANGED row

-----------------------------------------------------------------------------
\* Mutant of FeatureCount: one more than the limit.
FeatureCountOver(r) ==
  /\ job[r].op = "feature" /\ job[r].at = "loaded"
  /\ IF Cardinality(Featured) =< FeatureLimit THEN Go(r, "counted") ELSE Finish(r, "failed")
  /\ DocUnchanged

\* featureDocument counts the project's featured documents, then saves.
FeatureCount(r) ==
  /\ job[r].op = "feature" /\ job[r].at = "loaded"
  /\ IF Cardinality(Featured) < FeatureLimit THEN Go(r, "counted") ELSE Finish(r, "failed")
  /\ DocUnchanged

FeatureSave(r) ==
  LET d == job[r].doc
      on == job[r].op = "feature"
  IN /\ \/ on /\ job[r].at = "counted"
        \/ job[r].op = "unfeature" /\ job[r].at = "loaded"
     /\ IF row[d] = NoDoc
        THEN row' = row /\ Finish(r, "failed")
        ELSE /\ SaveField(r, job[r].copy.featured # on, [row[d] EXCEPT !.featured = on])
             /\ Finish(r, "ok")
     /\ UNCHANGED bucket

\* A download is answered by the file, when the object is there.
Streamed(r, d) ==
  Finish(r, IF row[d] # NoDoc /\ row[d].key \in bucket THEN "ok" ELSE "failed")

\* It raises the hit count it loaded.  Nobody awaits the save: the file is
\* streamed whatever the count does.
CountHit(r) ==
  LET d == job[r].doc IN
  /\ job[r].op = "download" /\ job[r].at = "loaded"
  /\ row' = IF row[d] = NoDoc THEN row
            ELSE [row EXCEPT ![d].hits = job[r].copy.hits + 1]
  /\ Streamed(r, d)
  /\ UNCHANGED bucket

\* Staff's downloads, and their opening of a file, have a counter of their own.
CountSecure(r, op) ==
  LET d == job[r].doc IN
  /\ job[r].op = op /\ job[r].at = "loaded"
  /\ row' = IF row[d] = NoDoc THEN row
            ELSE [row EXCEPT ![d].secureHits = job[r].copy.secureHits + 1]
  /\ Streamed(r, d)
  /\ UNCHANGED bucket

SecureDownload(r) == CountSecure(r, "secureDownload")
OpenFile(r) == CountSecure(r, "open")

\* The process dies; its requests do nothing more.
Stop(r) ==
  /\ Active(job[r])
  /\ Finish(r, "stopped")
  /\ DocUnchanged

-----------------------------------------------------------------------------
\* Any document may be there already, with its file, and quiet.
DocInit ==
  /\ row \in [Doc -> {NoDoc} \cup
                {Fresh(ObjectKey(k), s, FALSE) : k \in File, s \in {"none", "Published"}}]
  /\ \A d, e \in Present : d # e => row[d].key # row[e].key
  /\ bucket = Held \cup {ObjectKey(k) : k \in Deposit}
  /\ job = [r \in Request |-> NewJob]

Posting(r) ==
  \/ \E k \in File : PostUpload(r, k)
  \/ \E d \in Doc, s \in {"none", "Published"}, flag \in BOOLEAN : PostSave(r, d, s, flag)
  \/ PostCheck(r) \/ PostRollback(r) \/ PostRollbackFails(r) \/ LateSave(r)

Registering(r) ==
  \/ \E d \in Doc, k \in Deposit : StoredFind(r, d, k)
  \/ StoredStat(r) \/ StoredSave(r)

Editing(r) ==
  \/ \E op \in DocOp, d \in Doc : Load(r, op, d)
  \/ SaveStatus(r) \/ SaveOpen(r) \/ SaveShut(r)
  \/ \E s \in Status : PutWrite(r, s)
  \/ DeleteRow(r) \/ DeleteObject(r)
  \/ FeatureCount(r) \/ FeatureSave(r)
  \/ CountHit(r) \/ SecureDownload(r) \/ OpenFile(r)

DocStep(r) == Posting(r) \/ Registering(r) \/ Editing(r) \/ Stop(r)

DocNext == \E r \in Request : DocStep(r)

DocSpec == DocInit /\ [][DocNext]_docVars

-----------------------------------------------------------------------------
DocTypeOK ==
  /\ row \in [Doc -> Row \cup {NoDoc}]
  /\ bucket \subseteq Keys
  /\ job \in [Request -> Job]

Overlapped(r, ops) == \E q \in job[r].met : job[q].op \in ops

\* A stored document has its file, so a download finds it: the upload comes
\* first, and a rollback spares the file of a row that was stored after all.
\* Only a save that Mongo applies after the rollback looked has none.
RowsHaveFiles ==
  \A d \in Present :
    \/ row[d].key \in bucket
    \/ \E r \in Request : job[r].late /\ job[r].doc = d /\ job[r].key = row[d].key

\* A file that no row names was deposited by DEMI, is on its way to a row, or
\* was left by a rollback that failed, a process that died, or a delete: no
\* refused upload that rolled back leaves one.
FilesAreOwned ==
  \A o \in bucket \ (Held \cup {ObjectKey(k) : k \in Deposit}) :
    \E r \in Request :
      /\ job[r].key = o
      /\ job[r].op = "delete" \/ Active(job[r]) \/ job[r].out \in {"left", "stopped"}

\* Rows and files match in both directions.
FilesMatchRows == RowsHaveFiles /\ FilesAreOwned

\* A request overlapped with another change of the same document's status, or
\* with a registration that stored the document anew after it was deleted.
Rewritten(r) ==
  \E q \in job[r].met :
    job[q].doc = job[r].doc /\ job[q].op \in {"publish", "unpublish", "put", "stored"}

\* The status and read[] of a document say the same: Published is public,
\* Rejected is not.  The two saves of publish and unPublish part them only
\* while one runs, when its process dies, or when it overlapped with another
\* change of the same document, its being stored anew under its _id included.
StatusAgrees ==
  \A d \in Present :
    \/ /\ row[d].status = "Published" => row[d].open
       /\ row[d].status = "Rejected" => ~row[d].open
    \/ \E r \in Request :
         /\ job[r].doc = d /\ job[r].op \in {"publish", "unpublish"}
         /\ Active(job[r]) \/ job[r].out = "stopped" \/ Rewritten(r)

\* The limit on featured documents is passed only by requests that overlapped,
\* one each less one.
FeaturedBounded ==
  LET rushed == {r \in Request : job[r].op = "feature" /\ Overlapped(r, {"feature"})}
  IN Cardinality(Featured) =< FeatureLimit
        + IF rushed = {} THEN 0 ELSE Cardinality(rushed) - 1

\* Two rows name one file only when both registrations of it overlapped.
OneRowPerKey ==
  \A d, e \in Present :
    d # e /\ row[d].key = row[e].key =>
      \E r \in Request : \E q \in job[r].met :
        /\ job[r].op = "stored" /\ job[q].op = "stored"
        /\ {job[r].doc, job[q].doc} = {d, e}

\* Hits are lost to downloads that overlapped, and never made up.
HitsBounded ==
  LET Asked(d, ops) == Cardinality({r \in Request : job[r].op \in ops /\ job[r].doc = d})
  IN \A d \in Present :
       /\ row[d].hits =< Asked(d, {"download"})
       /\ row[d].secureHits =< Asked(d, {"secureDownload", "open"})

\* What a handler counts or looks up before it writes still holds after the
\* write, but for requests that overlapped.
ChecksHold == FeaturedBounded /\ OneRowPerKey /\ HitsBounded
=============================================================================
