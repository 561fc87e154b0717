---------------------------- MODULE ProjectActs ----------------------------
(***************************************************************************)
(* Projects and the Acts they are assessed under.  A project keeps a block *)
(* of fields per Act, the list of the Acts it has content under and the    *)
(* current one.  A PUT or a publish decides on a copy it loaded; what must *)
(* not be decided on a stale copy is repeated in the filter of the write.  *)
(***************************************************************************)
EXTENDS Requests

CONSTANTS Act,       \* the registry of Acts (LEGISLATIONS)
          Locked,    \* the Acts a project is never moved off
          Extension, \* entries of reviewExtensions and reviewSuspensions
          NoAct, NoProject

ASSUME ActAssumption == Locked \subseteq Act /\ NoAct \notin Act

VARIABLES project, \* the project's row in Mongo
          actJob   \* the project requests

actVars == <<project, actJob>>

ProjectRow == [current : Act, list : SUBSET Act, named : SUBSET Act,
               ext : SUBSET Extension, open : BOOLEAN, removed : BOOLEAN, ver : Nat]

ASSUME NoProjectAssumption == NoProject \notin ProjectRow

ActOp == {"none", "post", "put", "publish", "unpublish", "remove", "addExt", "dropExt", "moveExt"}

ActJob == [op : ActOp, at : {"new", "loaded", "push", "done"},
           copy : ProjectRow \cup {NoProject}, old : SUBSET Extension,
           new : SUBSET Extension, met : SUBSET Request, out : Outcome]

NewActJob == [op |-> "none", at |-> "new", copy |-> NoProject, old |-> {}, new |-> {},
              met |-> {}, out |-> "none"]

\* A project just posted under an Act.
NewProject(act) == [current |-> act, list |-> {act}, named |-> {act}, ext |-> {},
                    open |-> FALSE, removed |-> FALSE, ver |-> 0]

ActFinish(r, out) == actJob' = [actJob EXCEPT ![r] = Answered(@, out)]

\* A handler that awaits one database call: it begins and answers in a step.
ActAtOnce(r, op, old, new, out) ==
  /\ actJob[r].at = "new"
  /\ actJob' = Begun(actJob, r, Answered([NewActJob EXCEPT !.op = op, !.old = old, !.new = new], out))

-----------------------------------------------------------------------------
\* protectedPost: one save, which a taken _id fails.
PostProject(r, act) ==
  IF project = NoProject
  THEN project' = NewProject(act) /\ ActAtOnce(r, "post", {}, {}, "ok")
  ELSE project' = project /\ ActAtOnce(r, "post", {}, {}, "failed")

\* findOne or findById, the first await of the handlers that work on a copy.
LoadProject(r, op) ==
  /\ actJob[r].at = "new"
  /\ op \in {"put", "publish", "unpublish", "remove"}
  /\ LET begun == [NewActJob EXCEPT !.op = op, !.at = "loaded", !.copy = project]
     IN actJob' = Begun(actJob, r, IF project = NoProject THEN Answered(begun, "failed")
                                                          ELSE begun)
  /\ UNCHANGED project

\* The copy is under a locked Act and the request names another.
RefusesChange(copy, act) == copy.current \in Locked /\ act \notin {NoAct, copy.current}

\* Mutant of NotLockedElsewhere: the filter names the _id alone.
NoFilter(act) == TRUE

\* The filter of a write to the block of an Act.
NotLockedElsewhere(act) == project.current \notin Locked \ {act}

\* protectedPut: `act' is the year the request names, or NoAct.  A year outside
\* the registry changes nothing (404).  The list it writes is the copy's; `name' says whether the block has a name afterwards.
PutProject(r, act, name) ==
  LET copy == actJob[r].copy
      block == IF act = NoAct THEN copy.current ELSE act
  IN /\ actJob[r].op = "put" /\ actJob[r].at = "loaded"
     /\ IF RefusesChange(copy, act) \/ ~NotLockedElsewhere(block)
        THEN project' = project /\ ActFinish(r, "failed")
        ELSE /\ project' = [project EXCEPT !.current = block,
                              !.list = copy.list \cup ({act} \ {NoAct}),
                              !.named = IF name THEN @ \cup {block} ELSE @ \ {block},
                              !.ver = @ + 1]
             /\ ActFinish(r, "ok")

\* Mutant of MayPublish: any Act that is not refused.
MayPublishAny(copy, act) == ~RefusesChange(copy, act)

\* protectedPublish makes another Act current only when the copy has content
\* under it, and saves that and the opened read[] at once.
MayPublish(copy, act) ==
  \/ act \in {NoAct, copy.current}
  \/ ~RefusesChange(copy, act) /\ act \in copy.list \cap copy.named

PublishProject(r, act) ==
  LET copy == actJob[r].copy
      moves == act \notin {NoAct, copy.current}
  IN /\ actJob[r].op = "publish" /\ actJob[r].at = "loaded"
     /\ IF ~MayPublish(copy, act) \/ (moves /\ ~NotLockedElsewhere(act))
        THEN project' = project /\ ActFinish(r, "failed")
        ELSE /\ project' = [project EXCEPT !.current = IF moves THEN act ELSE @,
                              !.open = @ \/ ~copy.open,
                              !.ver = IF copy.open THEN @ ELSE @ + 1]
             /\ ActFinish(r, "ok")

\* Actions.unPublish writes the whole read[], over the version it loaded.
UnPublishProject(r) ==
  LET copy == actJob[r].copy IN
  /\ actJob[r].op = "unpublish" /\ actJob[r].at = "loaded"
  /\ IF copy.open /\ copy.ver # project.ver
     THEN project' = project /\ ActFinish(r, "failed")
     ELSE /\ project' = IF copy.open THEN [project EXCEPT !.open = FALSE, !.ver = @ + 1] ELSE project
          /\ ActFinish(r, "ok")

\* Actions.delete: the row stays, marked.
RemoveProject(r) ==
  /\ actJob[r].op = "remove" /\ actJob[r].at = "loaded"
  /\ project' = [project EXCEPT !.removed = TRUE]
  /\ ActFinish(r, "ok")

-----------------------------------------------------------------------------
AddExtension(r, e) ==
  IF project = NoProject
  THEN project' = project /\ ActAtOnce(r, "addExt", {}, {e}, "failed")
  ELSE project' = [project EXCEPT !.ext = @ \cup {e}] /\ ActAtOnce(r, "addExt", {}, {e}, "ok")

\* An update that pulled nothing modified nothing.
Holds(e) == project # NoProject /\ e \in project.ext

DropExtension(r, e) ==
  IF Holds(e)
  THEN project' = [project EXCEPT !.ext = @ \ {e}] /\ ActAtOnce(r, "dropExt", {e}, {}, "ok")
  ELSE project' = project /\ ActAtOnce(r, "dropExt", {e}, {}, "failed")

\* protectedExtensionUpdate takes the old entry out, then puts the new one in.
PullExtension(r, e, f) ==
  IF Holds(e)
  THEN /\ actJob[r].at = "new"
       /\ project' = [project EXCEPT !.ext = @ \ {e}]
       /\ actJob' = Begun(actJob, r, [NewActJob EXCEPT !.op = "moveExt", !.at = "push",
                                                       !.old = {e}, !.new = {f}])
  ELSE project' = project /\ ActAtOnce(r, "moveExt", {e}, {f}, "failed")

\* The second update may fail, and the entry is in neither list.
PushExtension(r) ==
  /\ actJob[r].op = "moveExt" /\ actJob[r].at = "push"
  /\ \/ project' = [project EXCEPT !.ext = @ \cup actJob[r].new] /\ ActFinish(r, "ok")
     \/ project' = project /\ ActFinish(r, "left")

StopAct(r) ==
  /\ Active(actJob[r])
  /\ ActFinish(r, "stopped")
  /\ UNCHANGED project

-----------------------------------------------------------------------------
ActInit ==
  /\ project \in {NoProject} \cup {[NewProject(a) EXCEPT !.ext = x] :
                                     a \in Act, x \in SUBSET Extension}
  /\ actJob = [r \in Request |-> NewActJob]

ChangeProject(r) ==
  \/ \E act \in Act : PostProject(r, act)
  \/ \E op \in ActOp : LoadProject(r, op)
  \/ \E act \in Act \cup {NoAct}, name \in BOOLEAN : PutProject(r, act, name)
  \/ \E act \in Act \cup {NoAct} : PublishProject(r, act)
  \/ UnPublishProject(r) \/ RemoveProject(r) \/ StopAct(r)

ChangeExtension(r) ==
  \/ \E e \in Extension : AddExtension(r, e) \/ DropExtension(r, e)
  \/ \E e, f \in Extension : PullExtension(r, e, f)
  \/ PushExtension(r)

ActNext == \E r \in Request : ChangeProject(r) \/ ChangeExtension(r)

ActSpec == ActInit /\ [][ActNext]_actVars

-----------------------------------------------------------------------------
ActTypeOK ==
  /\ project \in ProjectRow \cup {NoProject}
  /\ actJob \in [Request -> ActJob]

\* No request moves a project off a locked Act, however old the copy is that
\* it decided on.
LockedActKept ==
  [][project # NoProject /\ project.current \in Locked =>
       project' # NoProject /\ project'.current = project.current]_actVars

\* The current Act of a project is on its list.  The PUT writes back the list
\* it loaded, so it takes a publish that overlapped with a PUT which dropped
\* another PUT's entry.
CurrentActListed ==
  project # NoProject /\ project.current \notin project.list =>
    \E p, q, s \in Request :
      /\ actJob[p].op = "publish" /\ actJob[p].out = "ok"
      /\ q \in actJob[p].met /\ actJob[q].op = "put"
      /\ s \in actJob[q].met \ {p} /\ actJob[s].op = "put"

\* Two moves of one entry do not both go through: an entry is taken out no
\* more often than it was there or put in, so a retried or doubled edit never
\* makes two entries of one.
Taken(e) == {r \in Request : e \in actJob[r].old /\ (actJob[r].at = "push" \/ actJob[r].out \in {"ok", "left", "stopped"})}
Given(e) == {r \in Request : e \in actJob[r].new /\ actJob[r].out = "ok"}

MovedOnce ==
  \A e \in Extension : Cardinality(Taken(e)) =< Cardinality(Given(e)) + 1

\* What the two kinds of handlers keep of a project.
ProjectHolds == CurrentActListed /\ MovedOnce
=============================================================================
