------------------------- MODULE ProjectActsProofs -------------------------
(***************************************************************************)
(* Proofs, for any Acts and any number of requests, of what the project    *)
(* handlers keep: a locked Act is never left, the current Act is on the    *)
(* project's list, and an extension is not moved twice.                    *)
(***************************************************************************)
EXTENDS ProjectActs, FiniteSetTheorems, TLAPS

-----------------------------------------------------------------------------
(* The inductive invariant, in parts. *)

\* Requests that are active at once have met.
Meeting ==
  \A r, q \in Request : r # q /\ Active(actJob[r]) /\ Active(actJob[q]) => q \in actJob[r].met

\* What a request that has not begun, or has not answered, cannot have yet.
Fresh ==
  \A r \in Request :
    /\ actJob[r].at = "new" => actJob[r].op = "none"
    /\ actJob[r].at \in {"new", "loaded"} => actJob[r].old = {} /\ actJob[r].new = {}
    /\ actJob[r].at # "done" => actJob[r].out = "none"

\* A handler that is under way found a project, and its copy is one.
Found ==
  \A r \in Request :
    /\ Active(actJob[r]) => project # NoProject
    /\ actJob[r].at = "loaded" => actJob[r].copy \in ProjectRow

Put(s) == actJob[s].op = "put"

\* A PUT overlapped with another one.
TwoPuts(q) == \E s \in actJob[q].met : s # q /\ Put(s)

\* A request overlapped with a PUT that overlapped with another one.
MetTwoPuts(p) == \E q \in actJob[p].met : Put(q) /\ \E s \in actJob[q].met \ {p} : Put(s)

\* The behaviour in which the current Act may be missing from the list.
Parted == \E p \in Request : actJob[p].op = "publish" /\ actJob[p].out = "ok" /\ MetTwoPuts(p)

Loaded(r, op) == actJob[r].at = "loaded" /\ actJob[r].op = op

\* What a copy lacks of the list came from a PUT, and what it has more went
\* with one.
CopiesClose ==
  \A r \in Request :
    /\ Loaded(r, "publish") => actJob[r].copy.list \subseteq project.list \/ MetTwoPuts(r)
    /\ Loaded(r, "put") => project.list \subseteq actJob[r].copy.list \/ TwoPuts(r)
    /\ Loaded(r, "put") => actJob[r].copy.current \in actJob[r].copy.list \/ Parted

\* The entry itself counts among those that were put in.
Balanced ==
  \A e \in Extension :
    Cardinality(Taken(e)) + (IF Holds(e) THEN 1 ELSE 0) =< Cardinality(Given(e)) + 1

JobsOK == Meeting /\ Fresh

Inv == ActTypeOK /\ JobsOK /\ Found /\ CopiesClose /\ CurrentActListed /\ Balanced

-----------------------------------------------------------------------------
(* Lemmas about one request's job *)

\* A job that is answered is a job with the same particulars.
LEMMA AnsweredFields ==
  ASSUME NEW j \in ActJob, NEW out \in Outcome
  PROVE  /\ Answered(j, out) \in ActJob
         /\ Answered(j, out).at = "done" /\ Answered(j, out).out = out
         /\ Answered(j, out).op = j.op /\ Answered(j, out).copy = j.copy
         /\ Answered(j, out).old = j.old /\ Answered(j, out).new = j.new
         /\ Answered(j, out).met = j.met
BY DEF ActJob, Answered

WithMet(j, m) == [j EXCEPT !.met = m]

\* And so is a job that meets others.
LEMMA MetFields ==
  ASSUME NEW j \in ActJob, NEW m \in SUBSET Request
  PROVE  /\ WithMet(j, m) \in ActJob /\ WithMet(j, m).met = m
         /\ WithMet(j, m).at = j.at /\ WithMet(j, m).out = j.out
         /\ WithMet(j, m).op = j.op /\ WithMet(j, m).copy = j.copy
         /\ WithMet(j, m).old = j.old /\ WithMet(j, m).new = j.new
BY DEF ActJob, WithMet

\* What a step of the request r leaves of a job, all but its stage and answer.
Same(q) ==
  /\ actJob'[q].op = actJob[q].op /\ actJob'[q].copy = actJob[q].copy
  /\ actJob'[q].old = actJob[q].old /\ actJob'[q].new = actJob[q].new
  /\ actJob[q].met \subseteq actJob'[q].met

\* What a step of the request r leaves of all jobs.
Moved(r) ==
  /\ actJob' \in [Request -> ActJob] /\ JobsOK'
  /\ \A q \in Request \ {r} :
       Same(q) /\ actJob'[q].at = actJob[q].at /\ actJob'[q].out = actJob[q].out
  /\ actJob[r].at # "new" => Same(r)
  /\ actJob[r].at # "done" /\ actJob'[r].at # "new"

\* A request begins.
LEMMA Enters ==
  ASSUME ActTypeOK, JobsOK, NEW r \in Request, NEW j \in ActJob,
         actJob[r].at = "new", actJob' = Begun(actJob, r, j),
         j.at # "new", j.at # "done" => j.out = "none",
         j.at = "loaded" => j.old = {} /\ j.new = {}
  PROVE  /\ Moved(r)
         /\ actJob'[r].at = j.at /\ actJob'[r].op = j.op /\ actJob'[r].out = j.out
         /\ actJob'[r].copy = j.copy /\ actJob'[r].old = j.old /\ actJob'[r].new = j.new
<1>. DEFINE running == {q \in Request \ {r} : Active(actJob[q])}
<1>. \A q \in Request : actJob[q] \in ActJob /\ actJob[q].met \in SUBSET Request
  BY DEF ActTypeOK, ActJob
<1>1. /\ actJob'[r] = WithMet(j, running)
      /\ \A q \in running : actJob'[q] = WithMet(actJob[q], actJob[q].met \cup {r})
      /\ \A q \in Request \ {r} : q \notin running => actJob'[q] = actJob[q]
      /\ DOMAIN actJob' = Request
  BY DEF Begun, WithMet
<1>2. running \in SUBSET Request /\ \A q \in Request : actJob[q].met \cup {r} \in SUBSET Request
  OBVIOUS
<1>. HIDE DEF running
<1>3. /\ actJob'[r] \in ActJob /\ actJob'[r].met = running
      /\ actJob'[r].at = j.at /\ actJob'[r].op = j.op /\ actJob'[r].out = j.out
      /\ actJob'[r].copy = j.copy /\ actJob'[r].old = j.old /\ actJob'[r].new = j.new
  BY <1>1, <1>2, MetFields
<1>4. \A q \in running :
        /\ actJob'[q] \in ActJob /\ actJob'[q].met = actJob[q].met \cup {r}
        /\ Same(q) /\ actJob'[q].at = actJob[q].at /\ actJob'[q].out = actJob[q].out
  <2>. SUFFICES ASSUME NEW q \in running
                PROVE  /\ actJob'[q] \in ActJob /\ actJob'[q].met = actJob[q].met \cup {r}
                       /\ Same(q) /\ actJob'[q].at = actJob[q].at /\ actJob'[q].out = actJob[q].out
    OBVIOUS
  <2>. DEFINE m == actJob[q].met \cup {r}
  <2>1. q \in Request /\ actJob[q] \in ActJob /\ m \in SUBSET Request
    BY <1>2 DEF running
  <2>2. actJob'[q] = WithMet(actJob[q], m)
    BY <1>1
  <2>3. actJob[q].met \subseteq m
    OBVIOUS
  <2>. HIDE DEF m
  <2>4. /\ actJob'[q] \in ActJob /\ actJob'[q].met = m
        /\ actJob'[q].op = actJob[q].op /\ actJob'[q].copy = actJob[q].copy
        /\ actJob'[q].old = actJob[q].old /\ actJob'[q].new = actJob[q].new
        /\ actJob'[q].at = actJob[q].at /\ actJob'[q].out = actJob[q].out
    BY <2>1, <2>2, MetFields
  <2>. QED BY <2>3, <2>4 DEF m, Same
<1>5. \A q \in Request \ {r} :
        /\ actJob'[q] \in ActJob
        /\ Same(q) /\ actJob'[q].at = actJob[q].at /\ actJob'[q].out = actJob[q].out
  BY <1>1, <1>4 DEF Same
<1>6. actJob' \in [Request -> ActJob]
  <2>1. \A q \in Request : actJob'[q] \in ActJob
    BY <1>3, <1>5
  <2>2. actJob' = [q \in Request |-> actJob'[q]]
    BY DEF Begun
  <2>. QED BY <2>1, <2>2
<1>7. Meeting'
  <2>. SUFFICES ASSUME NEW p \in Request, NEW q \in Request, p # q,
                       Active(actJob'[p]), Active(actJob'[q])
                PROVE  q \in actJob'[p].met
    BY DEF Meeting, Active
  <2>1. CASE p = r
    BY <1>3, <1>5, <2>1 DEF running, Active
  <2>2. CASE q = r
    BY <1>4, <1>5, <2>2 DEF running, Active
  <2>3. CASE p # r /\ q # r
    BY <1>5, <2>3 DEF JobsOK, Meeting, Active, Same
  <2>. QED BY <2>1, <2>2, <2>3
<1>8. Fresh'
  <2>. SUFFICES ASSUME NEW q \in Request
                PROVE  /\ actJob'[q].at = "new" => actJob'[q].op = "none"
                       /\ actJob'[q].at \in {"new", "loaded"} => actJob'[q].old = {} /\ actJob'[q].new = {}
                       /\ actJob'[q].at # "done" => actJob'[q].out = "none"
    BY DEF Fresh
  <2>1. CASE q = r
    BY <1>3, <2>1
  <2>2. CASE q # r
    BY <1>5, <2>2 DEF JobsOK, Fresh, Same
  <2>. QED BY <2>1, <2>2
<1>. QED BY <1>3, <1>5, <1>6, <1>7, <1>8 DEF Moved, JobsOK

\* An active request answers.
LEMMA Ends ==
  ASSUME ActTypeOK, JobsOK, NEW r \in Request, NEW out \in Outcome,
         Active(actJob[r]), ActFinish(r, out)
  PROVE  /\ Moved(r) /\ Same(r)
         /\ actJob'[r].at = "done" /\ actJob'[r].out = out
<1>. actJob[r] \in ActJob /\ actJob[r].at \notin {"new", "done"}
  BY DEF ActTypeOK, Active
<1>1. /\ actJob'[r] = Answered(actJob[r], out)
      /\ \A q \in Request \ {r} : actJob'[q] = actJob[q]
      /\ actJob' = [actJob EXCEPT ![r] = Answered(actJob[r], out)]
  BY DEF ActFinish, ActTypeOK
<1>2. /\ actJob'[r] \in ActJob /\ actJob'[r].at = "done" /\ actJob'[r].out = out
      /\ Same(r)
  BY <1>1, AnsweredFields DEF Same
<1>3. \A q \in Request \ {r} :
        Same(q) /\ actJob'[q].at = actJob[q].at /\ actJob'[q].out = actJob[q].out
  BY <1>1 DEF Same
<1>4. actJob' \in [Request -> ActJob]
  BY <1>1, <1>2 DEF ActTypeOK
<1>5. Meeting'
  BY <1>2, <1>3 DEF JobsOK, Meeting, Active, Same
<1>6. Fresh'
  BY <1>2, <1>3 DEF JobsOK, Fresh, Same
<1>. QED BY <1>2, <1>3, <1>4, <1>5, <1>6 DEF Moved, JobsOK

-----------------------------------------------------------------------------
(* What each action does *)

\* No extension is taken out or put in.
Plain(r) ==
  /\ Moved(r)
  /\ \A e \in Extension : /\ r \in Taken(e) <=> r \in Taken(e)'
                          /\ r \in Given(e) <=> r \in Given(e)'

\* A refusal by a handler of one step.
LEMMA RefusedAtOnce ==
  ASSUME ActTypeOK, JobsOK, NEW r \in Request, NEW op \in ActOp, NEW old \in SUBSET Extension,
         NEW new \in SUBSET Extension, ActAtOnce(r, op, old, new, "failed")
  PROVE  Plain(r) /\ actJob'[r].at = "done"
<1>. DEFINE j == Answered([NewActJob EXCEPT !.op = op, !.old = old, !.new = new], "failed")
<1>1. /\ j \in ActJob /\ j.at = "done" /\ j.out = "failed"
  BY DEF Answered, NewActJob, ActJob, Outcome
<1>2. actJob[r].at = "new" /\ actJob' = Begun(actJob, r, j)
  BY DEF ActAtOnce
<1>. HIDE DEF j
<1>3. Moved(r) /\ actJob'[r].at = "done" /\ actJob'[r].out = "failed"
  BY <1>1, <1>2, Enters
<1>4. actJob[r].old = {} /\ actJob[r].new = {}
  BY <1>2 DEF JobsOK, Fresh
<1>5. \A e \in Extension : r \notin Taken(e) /\ r \notin Given(e)
  BY <1>4 DEF Taken, Given
<1>6. \A e \in Extension : r \notin Taken(e)' /\ r \notin Given(e)'
  BY <1>3 DEF Taken, Given
<1>. QED BY <1>3, <1>5, <1>6 DEF Plain

\* A success of a handler of one step.
LEMMA DoneAtOnce ==
  ASSUME ActTypeOK, JobsOK, NEW r \in Request, NEW op \in ActOp, NEW old \in SUBSET Extension,
         NEW new \in SUBSET Extension, ActAtOnce(r, op, old, new, "ok")
  PROVE  /\ Moved(r) /\ actJob[r].at = "new"
         /\ actJob'[r].at = "done" /\ actJob'[r].out = "ok" /\ actJob'[r].op = op
         /\ actJob'[r].old = old /\ actJob'[r].new = new
         /\ \A e \in Extension : r \notin Taken(e) /\ r \notin Given(e)
<1>. DEFINE j == Answered([NewActJob EXCEPT !.op = op, !.old = old, !.new = new], "ok")
<1>1. /\ j \in ActJob /\ j.at = "done" /\ j.out = "ok" /\ j.op = op /\ j.old = old /\ j.new = new
  BY DEF Answered, NewActJob, ActJob, Outcome
<1>2. actJob[r].at = "new" /\ actJob' = Begun(actJob, r, j)
  BY DEF ActAtOnce
<1>. HIDE DEF j
<1>3. /\ Moved(r) /\ actJob'[r].at = "done" /\ actJob'[r].out = "ok" /\ actJob'[r].op = op
      /\ actJob'[r].old = old /\ actJob'[r].new = new
  BY <1>1, <1>2, Enters
<1>4. actJob[r].old = {} /\ actJob[r].new = {}
  BY <1>2 DEF JobsOK, Fresh
<1>. QED BY <1>2, <1>3, <1>4 DEF Taken, Given

\* The load of the copy a handler decides on.
LEMMA LoadShape ==
  ASSUME Inv, NEW r \in Request, NEW op \in ActOp, LoadProject(r, op)
  PROVE  /\ Plain(r) /\ project' = project
         /\ actJob'[r].at \in {"loaded", "done"}
         /\ actJob'[r].at = "loaded" => project # NoProject /\ actJob'[r].copy = project
<1>. DEFINE b == [NewActJob EXCEPT !.op = op, !.at = "loaded", !.copy = project]
            j == IF project = NoProject THEN Answered(b, "failed") ELSE b
<1>1. project \in ProjectRow \cup {NoProject}
  BY DEF Inv, ActTypeOK
<1>2. b \in ActJob /\ b.at = "loaded" /\ b.copy = project /\ b.old = {} /\ b.new = {} /\ b.out = "none"
  BY <1>1 DEF NewActJob, ActJob, Outcome
<1>. HIDE DEF b
<1>3. /\ j \in ActJob /\ j.at \in {"loaded", "done"} /\ j.old = {} /\ j.new = {}
      /\ j.at = "loaded" => project # NoProject /\ j.copy = project /\ j.out = "none"
  BY <1>2, AnsweredFields DEF Outcome
<1>4. actJob[r].at = "new" /\ actJob' = Begun(actJob, r, j) /\ project' = project
  BY DEF LoadProject, b
<1>. HIDE DEF j
<1>5. /\ Moved(r) /\ actJob'[r].at = j.at /\ actJob'[r].copy = j.copy
      /\ actJob'[r].old = {} /\ actJob'[r].new = {}
  BY <1>3, <1>4, Enters DEF Inv
<1>6. actJob[r].old = {} /\ actJob[r].new = {}
  BY <1>4 DEF Inv, JobsOK, Fresh
<1>7. Plain(r)
  BY <1>5, <1>6 DEF Plain, Taken, Given
<1>. QED BY <1>3, <1>4, <1>5, <1>7

\* A handler that worked on a copy answers.
LEMMA AnswersCopy ==
  ASSUME Inv, NEW r \in Request, actJob[r].at = "loaded", NEW out \in Outcome, ActFinish(r, out)
  PROVE  /\ Plain(r) /\ Same(r) /\ actJob'[r].at = "done" /\ actJob'[r].out = out
         /\ project \in ProjectRow /\ project # NoProject /\ actJob[r].copy \in ProjectRow
<1>1. Active(actJob[r])
  BY DEF Active
<1>2. Moved(r) /\ Same(r) /\ actJob'[r].at = "done" /\ actJob'[r].out = out
  BY <1>1, Ends DEF Inv
<1>3. actJob[r].old = {} /\ actJob[r].new = {}
  BY DEF Inv, JobsOK, Fresh
<1>4. project \in ProjectRow /\ project # NoProject /\ actJob[r].copy \in ProjectRow
  BY <1>1 DEF Inv, Found, ActTypeOK
<1>5. Plain(r)
  BY <1>2, <1>3 DEF Plain, Taken, Given, Same
<1>. QED BY <1>2, <1>4, <1>5

\* A project with other Acts has the extensions it had.
LEMMA PutShape ==
  ASSUME Inv, NEW r \in Request, NEW act \in Act \cup {NoAct}, NEW name \in BOOLEAN,
         PutProject(r, act, name)
  PROVE  /\ Plain(r) /\ Same(r) /\ Loaded(r, "put") /\ actJob'[r].at = "done"
         /\ project # NoProject /\ actJob[r].copy \in ProjectRow
         /\ \/ project' = project
            \/ /\ project' \in ProjectRow /\ project'.ext = project.ext
               /\ project'.list = actJob[r].copy.list \cup ({act} \ {NoAct})
               /\ project'.current = IF act = NoAct THEN actJob[r].copy.current ELSE act
               /\ project.current \in Locked => project'.current = project.current
<1>1. Loaded(r, "put")
  BY DEF PutProject, Loaded
<1>2. \E out \in {"ok", "failed"} : ActFinish(r, out)
  BY DEF PutProject
<1>3. /\ Plain(r) /\ Same(r) /\ actJob'[r].at = "done"
      /\ project \in ProjectRow /\ project # NoProject /\ actJob[r].copy \in ProjectRow
  BY <1>1, <1>2, AnswersCopy DEF Loaded, Outcome
<1>. DEFINE copy == actJob[r].copy
            block == IF act = NoAct THEN copy.current ELSE act
            list == copy.list \cup ({act} \ {NoAct})
            ver == project.ver + 1
            named == IF name THEN project.named \cup {block} ELSE project.named \ {block}
<1>4. CASE project' = project
  BY <1>1, <1>3, <1>4
<1>5. CASE project' # project
  <2>1. /\ NotLockedElsewhere(block)
        /\ project' = [project EXCEPT !.current = block, !.list = list,
                                      !.named = named, !.ver = ver]
    BY <1>5 DEF PutProject
  <2>2. /\ block \in Act /\ list \in SUBSET Act /\ named \in SUBSET Act /\ ver \in Nat
    BY <1>3 DEF ProjectRow
  <2>3. project.current \in Locked => block = project.current
    BY <2>1 DEF NotLockedElsewhere
  <2>. HIDE DEF block, named, list, ver
  <2>4. project' \in ProjectRow
    BY <1>3, <2>1, <2>2 DEF ProjectRow
  <2>5. /\ project'.ext = project.ext /\ project'.current = block
        /\ project'.list = list
    BY <1>3, <2>1 DEF ProjectRow
  <2>. QED BY <1>1, <1>3, <2>3, <2>4, <2>5 DEF list, block
<1>. QED BY <1>4, <1>5

\* A publish makes an Act of the copy's list current, or none.
LEMMA PublishShape ==
  ASSUME Inv, NEW r \in Request, NEW act \in Act \cup {NoAct}, PublishProject(r, act)
  PROVE  /\ Plain(r) /\ Same(r) /\ Loaded(r, "publish") /\ actJob'[r].at = "done"
         /\ project # NoProject
         /\ \/ project' = project
            \/ /\ project' \in ProjectRow /\ project'.ext = project.ext
               /\ project'.list = project.list
               /\ project.current \in Locked => project'.current = project.current
               /\ actJob'[r].out = "ok"
               /\ project'.current = project.current \/ project'.current \in actJob[r].copy.list
<1>1. Loaded(r, "publish")
  BY DEF PublishProject, Loaded
<1>2. PICK out \in {"ok", "failed"} : ActFinish(r, out) /\ (project' = project \/ out = "ok")
  BY DEF PublishProject
<1>3. /\ Plain(r) /\ Same(r) /\ actJob'[r].at = "done" /\ actJob'[r].out = out
      /\ project \in ProjectRow /\ project # NoProject /\ actJob[r].copy \in ProjectRow
  BY <1>1, <1>2, AnswersCopy DEF Loaded, Outcome
<1>. DEFINE copy == actJob[r].copy
            moves == act \notin {NoAct, copy.current}
            current == IF moves THEN act ELSE project.current
            open == project.open \/ ~copy.open
            ver == IF copy.open THEN project.ver ELSE project.ver + 1
<1>4. CASE project' = project
  BY <1>1, <1>3, <1>4
<1>5. CASE project' # project
  <2>1. /\ moves => NotLockedElsewhere(act) /\ act \in copy.list
        /\ project' = [project EXCEPT !.current = current, !.open = open, !.ver = ver]
    BY <1>5 DEF PublishProject, MayPublish
  <2>2. /\ current \in Act /\ open \in BOOLEAN /\ ver \in Nat
    <3>1. current \in Act /\ ver \in Nat
      BY <1>3 DEF ProjectRow
    <3>2. open \in BOOLEAN
      OBVIOUS
    <3>. QED BY <3>1, <3>2
  <2>3. /\ project.current \in Locked => current = project.current
        /\ current = project.current \/ current \in copy.list
    BY <2>1 DEF NotLockedElsewhere
  <2>. HIDE DEF current, open, ver, moves
  <2>4. project' \in ProjectRow
    BY <1>3, <2>1, <2>2 DEF ProjectRow
  <2>5. /\ project'.ext = project.ext /\ project'.current = current
        /\ project'.list = project.list
    BY <1>3, <2>1 DEF ProjectRow
  <2>. QED BY <1>1, <1>2, <1>3, <1>5, <2>3, <2>4, <2>5
<1>. QED BY <1>4, <1>5

\* What leaves the Acts of a project as they are.
ActsStay ==
  \/ project' = project
  \/ /\ project # NoProject /\ project' \in ProjectRow
     /\ project'.list = project.list /\ project'.current = project.current

\* Taking a project off the site, or marking it, leaves its Acts and extensions.
LEMMA ShutShape ==
  ASSUME Inv, NEW r \in Request, UnPublishProject(r) \/ RemoveProject(r)
  PROVE  /\ Plain(r) /\ Same(r) /\ actJob'[r].at = "done" /\ project # NoProject
         /\ ActsStay /\ project'.ext = project.ext
<1>1. actJob[r].at = "loaded"
  BY DEF UnPublishProject, RemoveProject
<1>2. PICK out \in {"ok", "failed"} : ActFinish(r, out)
  BY DEF UnPublishProject, RemoveProject
<1>3. /\ Plain(r) /\ Same(r) /\ actJob'[r].at = "done"
      /\ project \in ProjectRow /\ project # NoProject
  BY <1>1, <1>2, AnswersCopy DEF Outcome
<1>. DEFINE ver == project.ver + 1
<1>4. \/ project' = project
      \/ project' = [project EXCEPT !.open = FALSE, !.ver = ver]
      \/ project' = [project EXCEPT !.removed = TRUE]
  BY DEF UnPublishProject, RemoveProject
<1>5. ver \in Nat
  BY <1>3 DEF ProjectRow
<1>. HIDE DEF ver
<1>6. CASE project' = [project EXCEPT !.open = FALSE, !.ver = ver]
  <2>1. project' \in ProjectRow
    BY <1>3, <1>5, <1>6 DEF ProjectRow
  <2>2. /\ project'.ext = project.ext /\ project'.current = project.current
        /\ project'.list = project.list
    BY <1>3, <1>6 DEF ProjectRow
  <2>. QED BY <1>3, <2>1, <2>2 DEF ActsStay
<1>7. CASE project' = [project EXCEPT !.removed = TRUE]
  <2>1. project' \in ProjectRow
    BY <1>3, <1>7 DEF ProjectRow
  <2>2. /\ project'.ext = project.ext /\ project'.current = project.current
        /\ project'.list = project.list
    BY <1>3, <1>7 DEF ProjectRow
  <2>. QED BY <1>3, <2>1, <2>2 DEF ActsStay
<1>. QED BY <1>3, <1>4, <1>6, <1>7 DEF ActsStay

\* A project is posted only where there is none.
LEMMA PostShape ==
  ASSUME Inv, NEW r \in Request, NEW act \in Act, PostProject(r, act)
  PROVE  /\ Plain(r) /\ actJob'[r].at = "done"
         /\ \/ project' = project
            \/ /\ project = NoProject /\ project' \in ProjectRow /\ project'.ext = {}
               /\ project'.current \in project'.list
<1>1. CASE project = NoProject
  <2>1. project' = NewProject(act) /\ ActAtOnce(r, "post", {}, {}, "ok")
    BY <1>1 DEF PostProject
  <2>2. /\ Moved(r) /\ actJob'[r].at = "done" /\ actJob'[r].old = {} /\ actJob'[r].new = {}
        /\ \A e \in Extension : r \notin Taken(e) /\ r \notin Given(e)
    <3>1. ActTypeOK /\ JobsOK /\ "post" \in ActOp /\ {} \in SUBSET Extension
      BY DEF Inv, ActOp
    <3>. QED BY <2>1, <3>1, DoneAtOnce
  <2>3. Plain(r)
    BY <2>2 DEF Plain, Taken, Given
  <2>4. project' \in ProjectRow
    BY <2>1 DEF NewProject, ProjectRow
  <2>5. project'.ext = {} /\ project'.current \in project'.list
    BY <2>1 DEF NewProject
  <2>. QED BY <1>1, <2>2, <2>3, <2>4, <2>5
<1>2. CASE project # NoProject
  <2>1. project' = project /\ ActAtOnce(r, "post", {}, {}, "failed")
    BY <1>2 DEF PostProject
  <2>. QED BY <2>1, RefusedAtOnce DEF Inv, ActOp
<1>. QED BY <1>1, <1>2

\* The extensions of a project are exchanged, no more.
ExtensionsBecome(ext) ==
  /\ ActsStay /\ project # NoProject /\ project' \in ProjectRow /\ project' # NoProject
  /\ project'.ext = ext

LEMMA Exchange ==
  ASSUME Inv, project # NoProject, NEW ext \in SUBSET Extension,
         project' = [project EXCEPT !.ext = ext]
  PROVE  ExtensionsBecome(ext)
<1>1. project \in ProjectRow
  BY DEF Inv, ActTypeOK
<1>2. project' \in ProjectRow
  BY <1>1 DEF ProjectRow
<1>3. project'.ext = ext /\ project'.list = project.list /\ project'.current = project.current
  BY <1>1 DEF ProjectRow
<1>. QED BY <1>2, <1>3, NoProjectAssumption DEF ExtensionsBecome, ActsStay

-----------------------------------------------------------------------------
(* What a step leaves of each part of the invariant *)

\* What requests met, they have met for good.
LEMMA MetForGood ==
  ASSUME Inv, NEW r \in Request, Moved(r)
  PROVE  /\ \A q \in Request : Put(q) => Put(q)'
         /\ \A q \in Request : actJob[q].at # "new" =>
              /\ TwoPuts(q) => TwoPuts(q)'
              /\ MetTwoPuts(q) => MetTwoPuts(q)'
         /\ Parted => Parted'
<1>1. \A q \in Request : actJob[q].met \subseteq Request
  BY DEF Inv, ActTypeOK, ActJob
<1>2. \A q \in Request : actJob[q].at # "new" => Same(q)
  BY DEF Moved
<1>3. \A q \in Request : actJob[q].op # "none" => actJob[q].at # "new"
  BY DEF Inv, JobsOK, Fresh
<1>4. \A q \in Request : Put(q) => Put(q)'
  BY <1>2, <1>3 DEF Put, Same
<1>5. \A q \in Request : actJob[q].at # "new" /\ TwoPuts(q) => TwoPuts(q)'
  BY <1>1, <1>2, <1>4 DEF TwoPuts, Same
<1>6. \A q \in Request : actJob[q].at # "new" /\ MetTwoPuts(q) => MetTwoPuts(q)'
  BY <1>1, <1>2, <1>3, <1>4 DEF MetTwoPuts, Same, Put
<1>7. Parted => Parted'
  <2>. SUFFICES ASSUME NEW p \in Request, actJob[p].op = "publish", actJob[p].out = "ok", MetTwoPuts(p)
                PROVE  Parted'
    BY DEF Parted
  <2>1. actJob[p].at = "done"
    BY DEF Inv, JobsOK, Fresh
  <2>2. MetTwoPuts(p)' /\ Same(p)
    BY <1>2, <1>6, <2>1
  <2>3. actJob'[p].out = "ok"
    <3>1. actJob[p].at = "done" /\ p # r => actJob'[p].out = actJob[p].out
      BY DEF Moved
    <3>2. CASE p = r
      BY <2>1, <3>2 DEF Moved
    <3>. QED BY <2>1, <3>1, <3>2
  <2>. QED BY <2>2, <2>3 DEF Parted, Same
<1>. QED BY <1>4, <1>5, <1>6, <1>7

\* The property in the words of the proof.
LEMMA ListedOrParted ==
  ASSUME NEW r \in Request, Moved(r), project' # NoProject /\ project'.current \notin project'.list => Parted'
  PROVE  CurrentActListed'
<1>1. \A q \in Request : actJob'[q].met \subseteq Request
  BY DEF Moved, ActJob
<1>2. CASE Parted'
  BY <1>1, <1>2 DEF CurrentActListed, Parted, MetTwoPuts, Put
<1>3. CASE ~Parted'
  BY <1>3 DEF CurrentActListed
<1>. QED BY <1>2, <1>3

\* A step that leaves the Acts as they are, by a request that ends or moves an
\* extension.
LEMMA CopiesStay ==
  ASSUME Inv, NEW r \in Request, Moved(r), ActsStay, actJob'[r].at # "loaded"
  PROVE  CopiesClose' /\ CurrentActListed'
<1>1. \A q \in Request, op \in {"put", "publish"} : Loaded(q, op)' =>
        /\ q # r /\ Loaded(q, op) /\ Same(q) /\ actJob[q].at # "new"
        /\ project # NoProject
  <2>1. \A q \in Request : actJob'[q].at = "loaded" => q # r /\ actJob[q].at = "loaded" /\ Same(q)
    BY DEF Moved
  <2>2. \A q \in Request : actJob[q].at = "loaded" => project # NoProject
    BY DEF Inv, Found, Active
  <2>. QED BY <2>1, <2>2 DEF Loaded, Same
<1>2. \A q \in Request : Loaded(q, "put")' => Loaded(q, "put") /\ Same(q) /\ actJob[q].at # "new" /\ project # NoProject
  BY <1>1
<1>3. \A q \in Request : Loaded(q, "publish")' => Loaded(q, "publish") /\ Same(q) /\ actJob[q].at # "new" /\ project # NoProject
  BY <1>1
<1>4. project # NoProject => project'.list = project.list /\ project'.current = project.current
  BY DEF ActsStay
<1>5. CopiesClose'
  BY <1>2, <1>3, <1>4, MetForGood DEF CopiesClose, Inv, Same
<1>6. CurrentActListed => (project # NoProject /\ project.current \notin project.list => Parted)
  BY DEF CurrentActListed, Parted, MetTwoPuts, Put
<1>7. project' # NoProject /\ project'.current \notin project'.list => Parted'
  <2>1. project' # NoProject => project # NoProject
    BY DEF ActsStay
  <2>. QED BY <1>4, <1>6, <2>1, MetForGood DEF Inv
<1>. QED BY <1>5, <1>7, ListedOrParted

\* What the step of r leaves loaded was loaded before, unless it is r's.
LEMMA OthersLoaded ==
  ASSUME Inv, NEW r \in Request, Moved(r)
  PROVE  \A q \in Request \ {r} :
           /\ Same(q) /\ (actJob[q].at # "new" <=> actJob'[q].at # "new")
           /\ Loaded(q, "put")' <=> Loaded(q, "put")
           /\ Loaded(q, "publish")' <=> Loaded(q, "publish")
           /\ Loaded(q, "put") \/ Loaded(q, "publish") => actJob[q].at # "new" /\ Active(actJob[q])
BY DEF Moved, Same, Loaded, Active

\* A PUT writes back the list it loaded.
LEMMA PutCopies ==
  ASSUME Inv, NEW r \in Request, NEW act \in Act \cup {NoAct}, NEW name \in BOOLEAN,
         PutProject(r, act, name), project' # project
  PROVE  CopiesClose' /\ CurrentActListed'
<1>. DEFINE copy == actJob[r].copy
<1>1. /\ Moved(r) /\ Loaded(r, "put") /\ actJob'[r].at = "done" /\ Put(r) /\ Active(actJob[r])
      /\ project'.list = copy.list \cup ({act} \ {NoAct})
      /\ project'.current = IF act = NoAct THEN copy.current ELSE act
  BY PutShape DEF Plain, Loaded, Put, Active
<1>2. Put(r)' /\ ~Loaded(r, "put")' /\ ~Loaded(r, "publish")'
  BY <1>1, MetForGood DEF Loaded
<1>3. ASSUME NEW q \in Request, Loaded(q, "put")'
      PROVE  TwoPuts(q)' /\ (actJob'[q].copy.current \in actJob'[q].copy.list \/ Parted')
  <2>1. q # r /\ Loaded(q, "put") /\ Active(actJob[q]) /\ Same(q)
    BY <1>1, <1>2, <1>3, OthersLoaded
  <2>2. r \in actJob[q].met
    BY <1>1, <2>1 DEF Inv, JobsOK, Meeting
  <2>3. TwoPuts(q)'
    BY <1>2, <2>1, <2>2 DEF TwoPuts, Same
  <2>4. actJob[q].copy.current \in actJob[q].copy.list \/ Parted
    BY <2>1 DEF Inv, CopiesClose
  <2>. QED BY <1>1, <2>1, <2>3, <2>4, MetForGood DEF Same
<1>4. ASSUME NEW q \in Request, Loaded(q, "publish")'
      PROVE  actJob'[q].copy.list \subseteq project'.list \/ MetTwoPuts(q)'
  <2>1. q # r /\ Loaded(q, "publish") /\ Active(actJob[q]) /\ Same(q) /\ actJob[q].at # "new"
    BY <1>1, <1>2, <1>4, OthersLoaded
  <2>2. CASE MetTwoPuts(q)
    BY <1>1, <2>1, <2>2, MetForGood
  <2>3. CASE actJob[q].copy.list \subseteq project.list
    <3>1. CASE project.list \subseteq copy.list
      BY <1>1, <2>1, <2>3, <3>1 DEF Same
    <3>2. CASE ~(project.list \subseteq copy.list)
      <4>1. PICK s \in actJob[r].met : s # r /\ Put(s)
        BY <1>1, <3>2 DEF Inv, CopiesClose, TwoPuts
      <4>2. r \in actJob[q].met
        BY <1>1, <2>1 DEF Inv, JobsOK, Meeting
      <4>3. s # q
        BY <2>1, <4>1 DEF Put, Loaded
      <4>4. MetTwoPuts(q)
        BY <1>1, <4>1, <4>2, <4>3 DEF MetTwoPuts
      <4>. QED BY <1>1, <2>1, <4>4, MetForGood
    <3>. QED BY <3>1, <3>2
  <2>. QED BY <2>1, <2>2, <2>3 DEF Inv, CopiesClose
<1>5. project'.current \notin project'.list => Parted'
  <2>. SUFFICES ASSUME project'.current \notin project'.list PROVE Parted'
    OBVIOUS
  <2>1. act = NoAct /\ copy.current \notin copy.list
    BY <1>1
  <2>2. Parted
    BY <1>1, <2>1 DEF Inv, CopiesClose
  <2>. QED BY <1>1, <2>2, MetForGood
<1>. QED BY <1>1, <1>3, <1>4, <1>5, ListedOrParted DEF CopiesClose

\* A publish moves to an Act of the list it loaded.
LEMMA PublishCopies ==
  ASSUME Inv, NEW r \in Request, NEW act \in Act \cup {NoAct}, PublishProject(r, act), project' # project
  PROVE  CopiesClose' /\ CurrentActListed'
<1>1. /\ Moved(r) /\ Loaded(r, "publish") /\ actJob'[r].at = "done" /\ actJob'[r].out = "ok"
      /\ Same(r) /\ project # NoProject
      /\ project'.list = project.list
      /\ project'.current = project.current \/ project'.current \in actJob[r].copy.list
  BY PublishShape DEF Plain
<1>2. ~Loaded(r, "put")' /\ ~Loaded(r, "publish")' /\ actJob[r].at # "new"
  BY <1>1 DEF Loaded
<1>3. ASSUME NEW q \in Request, Loaded(q, "put")'
      PROVE  /\ project'.list \subseteq actJob'[q].copy.list \/ TwoPuts(q)'
             /\ actJob'[q].copy.current \in actJob'[q].copy.list \/ Parted'
  <2>1. q # r /\ Loaded(q, "put") /\ Same(q) /\ actJob[q].at # "new"
    BY <1>1, <1>2, <1>3, OthersLoaded
  <2>. QED BY <1>1, <2>1, MetForGood DEF Same, Inv, CopiesClose
<1>4. ASSUME NEW q \in Request, Loaded(q, "publish")'
      PROVE  actJob'[q].copy.list \subseteq project'.list \/ MetTwoPuts(q)'
  <2>1. q # r /\ Loaded(q, "publish") /\ Same(q) /\ actJob[q].at # "new"
    BY <1>1, <1>2, <1>4, OthersLoaded
  <2>. QED BY <1>1, <2>1, MetForGood DEF Same, Inv, CopiesClose
<1>5. project'.current \notin project'.list => Parted'
  <2>. SUFFICES ASSUME project'.current \notin project'.list PROVE Parted'
    OBVIOUS
  <2>1. CASE project'.current = project.current
    <3>1. Parted
      BY <1>1, <2>1 DEF Inv, CurrentActListed, Parted, MetTwoPuts, Put
    <3>. QED BY <1>1, <3>1, MetForGood
  <2>2. CASE project'.current \in actJob[r].copy.list
    <3>1. MetTwoPuts(r)
      BY <1>1, <2>2 DEF Inv, CopiesClose
    <3>2. MetTwoPuts(r)'
      BY <1>1, <1>2, <3>1, MetForGood
    <3>3. actJob'[r].op = "publish"
      BY <1>1 DEF Same, Loaded
    <3>. QED BY <1>1, <3>2, <3>3 DEF Parted
  <2>. QED BY <1>1, <2>1, <2>2
<1>. QED BY <1>1, <1>3, <1>4, <1>5, ListedOrParted DEF CopiesClose

\* A load makes a copy of the project as it is; a post makes the project.
LEMMA BeginCopies ==
  ASSUME Inv, NEW r \in Request, Moved(r),
         \/ /\ project' = project
            /\ actJob'[r].at = "loaded" => project # NoProject /\ actJob'[r].copy = project
         \/ /\ project = NoProject /\ project'.current \in project'.list
            /\ actJob'[r].at = "done"
  PROVE  CopiesClose' /\ CurrentActListed'
<1>1. CASE /\ project' = project
           /\ actJob'[r].at = "loaded" => project # NoProject /\ actJob'[r].copy = project
  <2>1. project # NoProject /\ project.current \notin project.list => Parted'
    BY MetForGood DEF Inv, CurrentActListed, Parted, MetTwoPuts, Put
  <2>2. ASSUME NEW q \in Request
        PROVE  /\ Loaded(q, "publish")' => actJob'[q].copy.list \subseteq project'.list \/ MetTwoPuts(q)'
               /\ Loaded(q, "put")' => project'.list \subseteq actJob'[q].copy.list \/ TwoPuts(q)'
               /\ Loaded(q, "put")' => actJob'[q].copy.current \in actJob'[q].copy.list \/ Parted'
    <3>1. CASE q = r
      BY <1>1, <2>1, <3>1 DEF Loaded
    <3>2. CASE q # r
      <4>1. /\ Same(q)
            /\ Loaded(q, "publish")' => Loaded(q, "publish") /\ actJob[q].at # "new"
            /\ Loaded(q, "put")' => Loaded(q, "put") /\ actJob[q].at # "new"
        BY <3>2, OthersLoaded
      <4>2. actJob[q].at # "new" =>
              (TwoPuts(q) => TwoPuts(q)') /\ (MetTwoPuts(q) => MetTwoPuts(q)') /\ (Parted => Parted')
        BY MetForGood
      <4>3. /\ Loaded(q, "publish") => actJob[q].copy.list \subseteq project.list \/ MetTwoPuts(q)
            /\ Loaded(q, "put") => project.list \subseteq actJob[q].copy.list \/ TwoPuts(q)
            /\ Loaded(q, "put") => actJob[q].copy.current \in actJob[q].copy.list \/ Parted
        BY DEF Inv, CopiesClose
      <4>4. actJob'[q].copy = actJob[q].copy
        BY <4>1 DEF Same
      <4>. QED BY <1>1, <4>1, <4>2, <4>3, <4>4
    <3>. QED BY <3>1, <3>2
  <2>. QED BY <1>1, <2>1, <2>2, ListedOrParted DEF CopiesClose
<1>2. CASE /\ project = NoProject /\ project'.current \in project'.list
           /\ actJob'[r].at = "done"
  <2>1. \A q \in Request : ~Active(actJob[q])
    BY <1>2 DEF Inv, Found
  <2>2. \A q \in Request : ~Loaded(q, "publish")' /\ ~Loaded(q, "put")'
    BY <1>2, <2>1 DEF Moved, Loaded, Active
  <2>. QED BY <1>2, <2>2, ListedOrParted DEF CopiesClose
<1>. QED BY <1>1, <1>2

\* A project that is there stays, and so does what handlers found of it.
LEMMA FoundStep ==
  ASSUME Inv, NEW r \in Request, Moved(r), project # NoProject => project' # NoProject,
         Active(actJob'[r]) => project' # NoProject,
         actJob'[r].at = "loaded" => actJob'[r].copy \in ProjectRow
  PROVE  Found'
<1>. SUFFICES ASSUME NEW q \in Request
              PROVE  /\ Active(actJob'[q]) => project' # NoProject
                     /\ actJob'[q].at = "loaded" => actJob'[q].copy \in ProjectRow
  BY DEF Found, Active
<1>1. CASE q = r
  BY <1>1
<1>2. CASE q # r
  BY <1>2 DEF Inv, Found, Moved, Same, Active
<1>. QED BY <1>1, <1>2

\* Sets of requests that differ in r alone.
LEMMA Counted ==
  ASSUME NEW S \in SUBSET Request, NEW T \in SUBSET Request, NEW r \in Request,
         \A q \in Request \ {r} : q \in S <=> q \in T
  PROVE  /\ Cardinality(S) \in Nat /\ Cardinality(T) \in Nat
         /\ (r \in S <=> r \in T) => Cardinality(T) = Cardinality(S)
         /\ r \notin S /\ r \in T => Cardinality(T) = Cardinality(S) + 1
<1>1. IsFiniteSet(S) /\ IsFiniteSet(T)
  BY RequestAssumption, FS_Subset
<1>2. (r \in S <=> r \in T) => S = T
  OBVIOUS
<1>3. r \notin S /\ r \in T => T = S \cup {r}
  OBVIOUS
<1>. QED BY <1>1, <1>2, <1>3, FS_CardinalityType, FS_AddElement

\* A step of r changes the counts by r alone.
LEMMA Counts ==
  ASSUME Inv, NEW r \in Request, Moved(r), NEW e \in Extension
  PROVE  /\ Cardinality(Taken(e)) \in Nat /\ Cardinality(Given(e)) \in Nat
         /\ Cardinality(Taken(e)') \in Nat /\ Cardinality(Given(e)') \in Nat
         /\ (r \in Taken(e) <=> r \in Taken(e)') => Cardinality(Taken(e)') = Cardinality(Taken(e))
         /\ (r \in Given(e) <=> r \in Given(e)') => Cardinality(Given(e)') = Cardinality(Given(e))
         /\ r \notin Taken(e) /\ r \in Taken(e)' => Cardinality(Taken(e)') = Cardinality(Taken(e)) + 1
         /\ r \notin Given(e) /\ r \in Given(e)' => Cardinality(Given(e)') = Cardinality(Given(e)) + 1
<1>1. /\ Taken(e) \in SUBSET Request /\ Taken(e)' \in SUBSET Request
      /\ Given(e) \in SUBSET Request /\ Given(e)' \in SUBSET Request
  BY DEF Taken, Given
<1>2. \A q \in Request \ {r} : q \in Taken(e) <=> q \in Taken(e)'
  BY DEF Taken, Moved, Same
<1>3. \A q \in Request \ {r} : q \in Given(e) <=> q \in Given(e)'
  BY DEF Given, Moved, Same
<1>4. /\ Cardinality(Taken(e)) \in Nat /\ Cardinality(Taken(e)') \in Nat
      /\ (r \in Taken(e) <=> r \in Taken(e)') => Cardinality(Taken(e)') = Cardinality(Taken(e))
      /\ r \notin Taken(e) /\ r \in Taken(e)' => Cardinality(Taken(e)') = Cardinality(Taken(e)) + 1
  BY <1>1, <1>2, Counted
<1>5. /\ Cardinality(Given(e)) \in Nat /\ Cardinality(Given(e)') \in Nat
      /\ (r \in Given(e) <=> r \in Given(e)') => Cardinality(Given(e)') = Cardinality(Given(e))
      /\ r \notin Given(e) /\ r \in Given(e)' => Cardinality(Given(e)') = Cardinality(Given(e)) + 1
  BY <1>1, <1>3, Counted
<1>. QED BY <1>4, <1>5

\* A step that moves no extension.
LEMMA BalanceStays ==
  ASSUME Inv, NEW r \in Request, Plain(r), \A e \in Extension : Holds(e)' => Holds(e)
  PROVE  Balanced'
<1>. SUFFICES ASSUME NEW e \in Extension
              PROVE  Cardinality(Taken(e)') + (IF Holds(e)' THEN 1 ELSE 0) =< Cardinality(Given(e)') + 1
  BY DEF Balanced
<1>1. Cardinality(Taken(e)') = Cardinality(Taken(e)) /\ Cardinality(Given(e)') = Cardinality(Given(e))
  <2>1. Moved(r) /\ (r \in Taken(e) <=> r \in Taken(e)') /\ (r \in Given(e) <=> r \in Given(e)')
    BY DEF Plain
  <2>. QED BY <2>1, Counts
<1>2. Cardinality(Taken(e)) \in Nat /\ Cardinality(Given(e)) \in Nat
  BY Counts DEF Plain
<1>3. Cardinality(Taken(e)) + (IF Holds(e) THEN 1 ELSE 0) =< Cardinality(Given(e)) + 1
  BY DEF Inv, Balanced
<1>4. Holds(e)' => Holds(e)
  OBVIOUS
<1>. QED BY <1>1, <1>2, <1>3, <1>4

\* A step that puts the entries of N in.
LEMMA BalanceIn ==
  ASSUME Inv, NEW r \in Request, Moved(r), NEW N \in SUBSET Extension,
         \A e \in Extension : r \in Taken(e) <=> r \in Taken(e)',
         \A e \in Extension : r \notin Given(e) /\ (r \in Given(e)' <=> e \in N),
         \A e \in Extension : Holds(e)' => Holds(e) \/ e \in N
  PROVE  Balanced'
<1>. SUFFICES ASSUME NEW e \in Extension
              PROVE  Cardinality(Taken(e)') + (IF Holds(e)' THEN 1 ELSE 0) =< Cardinality(Given(e)') + 1
  BY DEF Balanced
<1>1. Cardinality(Taken(e)') = Cardinality(Taken(e))
  BY Counts
<1>2. IF e \in N THEN Cardinality(Given(e)') = Cardinality(Given(e)) + 1
                 ELSE Cardinality(Given(e)') = Cardinality(Given(e))
  BY Counts
<1>3. Cardinality(Taken(e)) \in Nat /\ Cardinality(Given(e)) \in Nat
  BY Counts
<1>4. Cardinality(Taken(e)) + (IF Holds(e) THEN 1 ELSE 0) =< Cardinality(Given(e)) + 1
  BY DEF Inv, Balanced
<1>5. Holds(e)' => Holds(e) \/ e \in N
  OBVIOUS
<1>. QED BY <1>1, <1>2, <1>3, <1>4, <1>5

\* A step that takes the entry f out.
LEMMA BalanceOut ==
  ASSUME Inv, NEW r \in Request, Moved(r), NEW f \in Extension, Holds(f), ~Holds(f)',
         \A e \in Extension : r \notin Taken(e) /\ (r \in Taken(e)' <=> e = f),
         \A e \in Extension : r \in Given(e) <=> r \in Given(e)',
         \A e \in Extension : Holds(e)' => Holds(e)
  PROVE  Balanced'
<1>. SUFFICES ASSUME NEW e \in Extension
              PROVE  Cardinality(Taken(e)') + (IF Holds(e)' THEN 1 ELSE 0) =< Cardinality(Given(e)') + 1
  BY DEF Balanced
<1>1. Cardinality(Given(e)') = Cardinality(Given(e))
  BY Counts
<1>2. IF e = f THEN Cardinality(Taken(e)') = Cardinality(Taken(e)) + 1
               ELSE Cardinality(Taken(e)') = Cardinality(Taken(e))
  BY Counts
<1>3. Cardinality(Taken(e)) \in Nat /\ Cardinality(Given(e)) \in Nat
  BY Counts
<1>4. Cardinality(Taken(e)) + (IF Holds(e) THEN 1 ELSE 0) =< Cardinality(Given(e)) + 1
  BY DEF Inv, Balanced
<1>5. Holds(e)' => Holds(e) /\ e # f
  OBVIOUS
<1>6. e = f => Holds(e)
  OBVIOUS
<1>. QED BY <1>1, <1>2, <1>3, <1>4, <1>5, <1>6

-----------------------------------------------------------------------------
(* The steps *)

\* What LockedActKept says of a step.
Keeps ==
  project # NoProject /\ project.current \in Locked =>
    project' # NoProject /\ project'.current = project.current

Good == Inv' /\ Keeps

\* A step that ends a handler, or moves an extension, and leaves the Acts alone.
LEMMA ActsAlone ==
  ASSUME Inv, NEW r \in Request, Moved(r), ActsStay, Balanced',
         actJob'[r].at # "loaded", Active(actJob'[r]) => project # NoProject
  PROVE  Good
<1>1. project' \in ProjectRow \cup {NoProject} /\ (project # NoProject => project' # NoProject)
  BY NoProjectAssumption DEF ActsStay, Inv, ActTypeOK
<1>2. ActTypeOK' /\ JobsOK'
  BY <1>1 DEF ActTypeOK, Moved
<1>3. Found'
  BY <1>1, FoundStep
<1>4. CopiesClose' /\ CurrentActListed'
  BY CopiesStay
<1>5. Keeps
  BY <1>1 DEF Keeps, ActsStay
<1>. QED BY <1>2, <1>3, <1>4, <1>5 DEF Good, Inv

\* A step without an extension that changes the Acts, or loads a copy of them.
LEMMA ActsMove ==
  ASSUME Inv, NEW r \in Request, Plain(r), CopiesClose', CurrentActListed',
         project' \in ProjectRow \cup {NoProject}, project # NoProject => project' # NoProject,
         project' # NoProject => project'.ext = IF project = NoProject THEN {} ELSE project.ext,
         actJob'[r].at \in {"loaded", "done"},
         actJob'[r].at = "loaded" => project' # NoProject /\ actJob'[r].copy \in ProjectRow,
         Keeps
  PROVE  Good
<1>1. ActTypeOK' /\ JobsOK' /\ Moved(r)
  BY DEF ActTypeOK, Moved, Plain
<1>2. Found'
  BY <1>1, FoundStep DEF Active
<1>3. Balanced'
  <2>1. \A e \in Extension : Holds(e)' => Holds(e)
    BY DEF Holds
  <2>. QED BY <2>1, BalanceStays
<1>. QED BY <1>1, <1>2, <1>3 DEF Good, Inv

\* The handlers of the Acts.
LEMMA ChangeStep ==
  ASSUME Inv, NEW r \in Request, ChangeProject(r)
  PROVE  Good
<1>0. project \in ProjectRow \cup {NoProject}
  BY DEF Inv, ActTypeOK
<1>1. ASSUME NEW act \in Act, PostProject(r, act)
      PROVE  Good
  <2>1. /\ Plain(r) /\ Moved(r) /\ actJob'[r].at = "done"
        /\ \/ project' = project
           \/ /\ project = NoProject /\ project' \in ProjectRow /\ project'.ext = {}
              /\ project'.current \in project'.list
    BY <1>1, PostShape DEF Plain
  <2>2. CopiesClose' /\ CurrentActListed'
    BY <2>1, BeginCopies
  <2>3. Keeps
    BY <2>1 DEF Keeps
  <2>4. /\ project' \in ProjectRow \cup {NoProject} /\ (project # NoProject => project' # NoProject)
        /\ project' # NoProject => project'.ext = IF project = NoProject THEN {} ELSE project.ext
    BY <1>0, <2>1
  <2>. QED BY <2>1, <2>2, <2>3, <2>4, ActsMove
<1>2. ASSUME NEW op \in ActOp, LoadProject(r, op)
      PROVE  Good
  <2>1. /\ Plain(r) /\ Moved(r) /\ project' = project
        /\ actJob'[r].at \in {"loaded", "done"}
        /\ actJob'[r].at = "loaded" => project # NoProject /\ actJob'[r].copy = project
    BY <1>2, LoadShape DEF Plain
  <2>2. CopiesClose' /\ CurrentActListed'
    BY <2>1, BeginCopies
  <2>3. Keeps
    BY <2>1 DEF Keeps
  <2>. QED BY <1>0, <2>1, <2>2, <2>3, ActsMove
<1>3. ASSUME NEW act \in Act \cup {NoAct}, NEW name \in BOOLEAN, PutProject(r, act, name)
      PROVE  Good
  <2>1. /\ Plain(r) /\ Moved(r) /\ actJob'[r].at = "done" /\ project # NoProject
        /\ \/ project' = project
           \/ /\ project' \in ProjectRow /\ project'.ext = project.ext
              /\ project.current \in Locked => project'.current = project.current
    BY <1>3, PutShape DEF Plain
  <2>2. CASE project' = project
    <3>1. Balanced'
      BY <2>1, <2>2, BalanceStays DEF Holds
    <3>. QED BY <2>1, <2>2, <3>1, ActsAlone DEF ActsStay, Active
  <2>3. CASE project' # project
    <3>1. CopiesClose' /\ CurrentActListed'
      BY <1>3, <2>3, PutCopies
    <3>2. project' \in ProjectRow /\ project' # NoProject /\ project'.ext = project.ext
      BY <2>1, <2>3, NoProjectAssumption
    <3>3. Keeps
      BY <2>1, <2>3, <3>2 DEF Keeps
    <3>. QED BY <2>1, <3>1, <3>2, <3>3, ActsMove
  <2>. QED BY <2>2, <2>3
<1>4. ASSUME NEW act \in Act \cup {NoAct}, PublishProject(r, act)
      PROVE  Good
  <2>1. /\ Plain(r) /\ Moved(r) /\ actJob'[r].at = "done" /\ project # NoProject
        /\ \/ project' = project
           \/ /\ project' \in ProjectRow /\ project'.ext = project.ext
              /\ project.current \in Locked => project'.current = project.current
    BY <1>4, PublishShape DEF Plain
  <2>2. CASE project' = project
    <3>1. Balanced'
      BY <2>1, <2>2, BalanceStays DEF Holds
    <3>. QED BY <2>1, <2>2, <3>1, ActsAlone DEF ActsStay, Active
  <2>3. CASE project' # project
    <3>1. CopiesClose' /\ CurrentActListed'
      BY <1>4, <2>3, PublishCopies
    <3>2. project' \in ProjectRow /\ project' # NoProject /\ project'.ext = project.ext
      BY <2>1, <2>3, NoProjectAssumption
    <3>3. Keeps
      BY <2>1, <2>3, <3>2 DEF Keeps
    <3>. QED BY <2>1, <3>1, <3>2, <3>3, ActsMove
  <2>. QED BY <2>2, <2>3
<1>5. CASE UnPublishProject(r) \/ RemoveProject(r)
  <2>1. /\ Plain(r) /\ Moved(r) /\ actJob'[r].at = "done" /\ project # NoProject
        /\ ActsStay /\ project'.ext = project.ext
    BY <1>5, ShutShape DEF Plain
  <2>2. Balanced'
    BY <2>1, BalanceStays DEF Holds
  <2>. QED BY <2>1, <2>2, ActsAlone DEF Active
<1>6. CASE StopAct(r)
  <2>1. /\ Moved(r) /\ Same(r) /\ actJob'[r].at = "done" /\ actJob'[r].out = "stopped"
        /\ Active(actJob[r]) /\ project' = project
    BY <1>6, Ends DEF StopAct, Inv, Outcome
  <2>2. actJob[r] \in ActJob /\ actJob[r].at \in {"loaded", "push"} /\ actJob[r].out = "none"
    <3>1. actJob[r] \in ActJob
      BY DEF Inv, ActTypeOK
    <3>2. actJob[r].at \in {"loaded", "push"}
      BY <2>1, <3>1 DEF ActJob, Active
    <3>3. actJob[r].out = "none"
      BY <3>2 DEF Inv, JobsOK, Fresh
    <3>. QED BY <3>1, <3>2, <3>3
  <2>3. actJob[r].at = "loaded" => actJob[r].old = {}
    BY DEF Inv, JobsOK, Fresh
  <2>4. Plain(r)
    BY <2>1, <2>2, <2>3 DEF Plain, Taken, Given, Same
  <2>5. Balanced'
    BY <2>1, <2>4, BalanceStays DEF Holds
  <2>. QED BY <2>1, <2>5, ActsAlone DEF ActsStay, Active
<1>. QED BY <1>1, <1>2, <1>3, <1>4, <1>5, <1>6 DEF ChangeProject

\* A refused edit of an extension.
LEMMA RefusedGood ==
  ASSUME Inv, NEW r \in Request, NEW op \in ActOp, NEW old \in SUBSET Extension,
         NEW new \in SUBSET Extension, ActAtOnce(r, op, old, new, "failed"), project' = project
  PROVE  Good
<1>1. Plain(r) /\ Moved(r) /\ actJob'[r].at = "done"
  BY RefusedAtOnce DEF Plain, Inv
<1>2. Balanced'
  BY <1>1, BalanceStays DEF Holds
<1>. QED BY <1>1, <1>2, ActsAlone DEF ActsStay, Active

\* A project that an entry is taken from, or put into, is one.
LEMMA ExtensionsGood ==
  ASSUME Inv, NEW r \in Request, Moved(r), NEW ext \in SUBSET Extension,
         ExtensionsBecome(ext), Balanced', actJob'[r].at # "loaded"
  PROVE  Good
BY ActsAlone DEF ExtensionsBecome

\* The handlers of the extensions.
LEMMA ExtensionStep ==
  ASSUME Inv, NEW r \in Request, ChangeExtension(r)
  PROVE  Good
<1>0. /\ project # NoProject => project.ext \in SUBSET Extension
      /\ actJob[r].new \in SUBSET Extension /\ {} \in SUBSET Extension
      /\ "addExt" \in ActOp /\ "dropExt" \in ActOp /\ "moveExt" \in ActOp
      /\ ActTypeOK /\ JobsOK
  BY DEF Inv, ActTypeOK, ProjectRow, ActJob, ActOp
<1>1. ASSUME NEW e \in Extension, AddExtension(r, e)
      PROVE  Good
  <2>0. {e} \in SUBSET Extension
    OBVIOUS
  <2>1. CASE project = NoProject
    <3>1. ActAtOnce(r, "addExt", {}, {e}, "failed") /\ project' = project
      BY <1>1, <2>1 DEF AddExtension
    <3>. QED BY <1>0, <2>0, <3>1, RefusedGood
  <2>2. CASE project # NoProject
    <3>. DEFINE ext == project.ext \cup {e}
    <3>1. ActAtOnce(r, "addExt", {}, {e}, "ok") /\ project' = [project EXCEPT !.ext = ext]
      BY <1>1, <2>2 DEF AddExtension
    <3>2. /\ Moved(r) /\ actJob'[r].at = "done" /\ actJob'[r].out = "ok"
          /\ actJob'[r].old = {} /\ actJob'[r].new = {e}
          /\ \A x \in Extension : r \notin Taken(x) /\ r \notin Given(x)
      <4>1. ActAtOnce(r, "addExt", {}, {e}, "ok")
        BY <3>1
      <4>. HIDE DEF ext
      <4>2. PICK N \in SUBSET Extension, O \in SUBSET Extension : N = {e} /\ O = {}
        BY <1>0, <2>0
      <4>3. ActAtOnce(r, "addExt", O, N, "ok")
        BY <4>1, <4>2
      <4>4. /\ Moved(r) /\ actJob'[r].at = "done" /\ actJob'[r].out = "ok"
            /\ actJob'[r].old = O /\ actJob'[r].new = N
            /\ \A x \in Extension : r \notin Taken(x) /\ r \notin Given(x)
        BY <1>0, <4>3, DoneAtOnce
      <4>. QED BY <4>2, <4>4
    <3>3. ext \in SUBSET Extension
      BY <1>0, <2>2
    <3>4. ExtensionsBecome(ext)
      <4>. HIDE DEF ext
      <4>. QED BY <2>2, <3>1, <3>3, Exchange
    <3>5. \A x \in Extension : Holds(x)' => Holds(x) \/ x \in {e}
      BY <2>2, <3>4 DEF Holds, ExtensionsBecome
    <3>6. \A x \in Extension : /\ r \in Taken(x) <=> r \in Taken(x)'
                               /\ r \in Given(x)' <=> x \in {e}
      BY <3>2 DEF Taken, Given
    <3>7. Balanced'
      BY <2>0, <3>2, <3>5, <3>6, BalanceIn
    <3>. QED BY <3>2, <3>3, <3>4, <3>7, ExtensionsGood
  <2>. QED BY <2>1, <2>2
<1>2. ASSUME NEW e \in Extension, DropExtension(r, e)
      PROVE  Good
  <2>0. {e} \in SUBSET Extension
    OBVIOUS
  <2>1. CASE ~Holds(e)
    <3>1. ActAtOnce(r, "dropExt", {e}, {}, "failed") /\ project' = project
      BY <1>2, <2>1 DEF DropExtension
    <3>. QED BY <1>0, <2>0, <3>1, RefusedGood
  <2>2. CASE Holds(e)
    <3>. DEFINE ext == project.ext \ {e}
    <3>1. ActAtOnce(r, "dropExt", {e}, {}, "ok") /\ project' = [project EXCEPT !.ext = ext]
          /\ project # NoProject
      BY <1>2, <2>2 DEF DropExtension, Holds
    <3>2. /\ Moved(r) /\ actJob'[r].at = "done" /\ actJob'[r].out = "ok"
          /\ actJob'[r].old = {e} /\ actJob'[r].new = {}
          /\ \A x \in Extension : r \notin Taken(x) /\ r \notin Given(x)
      <4>1. ActAtOnce(r, "dropExt", {e}, {}, "ok")
        BY <3>1
      <4>. HIDE DEF ext
      <4>. QED BY <1>0, <2>0, <4>1, DoneAtOnce
    <3>3. ext \in SUBSET Extension
      BY <1>0, <3>1
    <3>4. ExtensionsBecome(ext)
      <4>. HIDE DEF ext
      <4>. QED BY <3>1, <3>3, Exchange
    <3>5. ~Holds(e)' /\ \A x \in Extension : Holds(x)' => Holds(x)
      BY <3>1, <3>4 DEF Holds, ExtensionsBecome
    <3>6. \A x \in Extension : /\ r \in Taken(x)' <=> x = e
                               /\ r \in Given(x) <=> r \in Given(x)'
      BY <3>2 DEF Taken, Given
    <3>7. Balanced'
      BY <2>2, <3>2, <3>5, <3>6, BalanceOut
    <3>. QED BY <3>2, <3>3, <3>4, <3>7, ExtensionsGood
  <2>. QED BY <2>1, <2>2
<1>3. ASSUME NEW e \in Extension, NEW f \in Extension, PullExtension(r, e, f)
      PROVE  Good
  <2>0. {e} \in SUBSET Extension /\ {f} \in SUBSET Extension
    OBVIOUS
  <2>1. CASE ~Holds(e)
    <3>1. ActAtOnce(r, "moveExt", {e}, {f}, "failed") /\ project' = project
      BY <1>3, <2>1 DEF PullExtension
    <3>. QED BY <1>0, <2>0, <3>1, RefusedGood
  <2>2. CASE Holds(e)
    <3>. DEFINE ext == project.ext \ {e}
                j == [NewActJob EXCEPT !.op = "moveExt", !.at = "push", !.old = {e}, !.new = {f}]
    <3>1. /\ actJob[r].at = "new" /\ actJob' = Begun(actJob, r, j)
          /\ project' = [project EXCEPT !.ext = ext] /\ project # NoProject
      BY <1>3, <2>2 DEF PullExtension, Holds
    <3>2. j \in ActJob /\ j.at = "push" /\ j.out = "none" /\ j.old = {e} /\ j.new = {f}
      BY <1>0, <2>0 DEF NewActJob, ActJob, Outcome
    <3>3. /\ Moved(r) /\ actJob'[r].at = "push" /\ actJob'[r].out = "none"
          /\ actJob'[r].old = {e} /\ actJob'[r].new = {f}
      <4>. HIDE DEF j
      <4>. QED BY <1>0, <3>1, <3>2, Enters
    <3>4. actJob[r].old = {} /\ actJob[r].new = {}
      BY <3>1 DEF Inv, JobsOK, Fresh
    <3>5. ext \in SUBSET Extension
      BY <1>0, <3>1
    <3>6. ExtensionsBecome(ext)
      <4>. HIDE DEF ext
      <4>. QED BY <3>1, <3>5, Exchange
    <3>7. ~Holds(e)' /\ \A x \in Extension : Holds(x)' => Holds(x)
      BY <3>1, <3>6 DEF Holds, ExtensionsBecome
    <3>8. \A x \in Extension : /\ r \notin Taken(x) /\ (r \in Taken(x)' <=> x = e)
                               /\ r \in Given(x) <=> r \in Given(x)'
      BY <3>3, <3>4 DEF Taken, Given
    <3>9. Balanced'
      BY <2>2, <3>3, <3>7, <3>8, BalanceOut
    <3>. QED BY <3>3, <3>5, <3>6, <3>9, ExtensionsGood
  <2>. QED BY <2>1, <2>2
<1>4. CASE PushExtension(r)
  <2>. DEFINE N == actJob[r].new
              ext == project.ext \cup N
  <2>1. /\ actJob[r].at = "push" /\ Active(actJob[r])
        /\ \/ project' = [project EXCEPT !.ext = ext] /\ ActFinish(r, "ok")
           \/ project' = project /\ ActFinish(r, "left")
    BY <1>4 DEF PushExtension, Active
  <2>2. actJob[r].out = "none" /\ project # NoProject
    BY <2>1 DEF Inv, JobsOK, Fresh, Found
  <2>3. CASE project' = [project EXCEPT !.ext = ext] /\ ActFinish(r, "ok")
    <3>1. Moved(r) /\ Same(r) /\ actJob'[r].at = "done" /\ actJob'[r].out = "ok"
      BY <1>0, <2>1, <2>3, Ends DEF Outcome
    <3>2. ext \in SUBSET Extension
      BY <1>0, <2>2
    <3>3. ExtensionsBecome(ext)
      <4>. HIDE DEF ext
      <4>. QED BY <2>2, <2>3, <3>2, Exchange
    <3>4. \A x \in Extension : Holds(x)' => Holds(x) \/ x \in N
      BY <2>2, <3>3 DEF Holds, ExtensionsBecome
    <3>5. \A x \in Extension : /\ r \in Taken(x) <=> r \in Taken(x)'
                               /\ r \notin Given(x) /\ (r \in Given(x)' <=> x \in N)
      BY <2>1, <2>2, <3>1 DEF Taken, Given, Same
    <3>6. Balanced'
      BY <1>0, <3>1, <3>4, <3>5, BalanceIn
    <3>. QED BY <3>1, <3>2, <3>3, <3>6, ExtensionsGood
  <2>4. CASE project' = project /\ ActFinish(r, "left")
    <3>1. Moved(r) /\ Same(r) /\ actJob'[r].at = "done" /\ actJob'[r].out = "left"
      BY <1>0, <2>1, <2>4, Ends DEF Outcome
    <3>2. Plain(r)
      BY <2>1, <2>2, <3>1 DEF Plain, Taken, Given, Same
    <3>3. Balanced'
      BY <2>4, <3>2, BalanceStays DEF Holds
    <3>. QED BY <2>4, <3>1, <3>3, ActsAlone DEF ActsStay, Active
  <2>. QED BY <2>1, <2>3, <2>4
<1>. QED BY <1>1, <1>2, <1>3, <1>4 DEF ChangeExtension

\* Every step keeps the invariant, and a locked Act.
LEMMA Step ==
  ASSUME Inv, [ActNext]_actVars
  PROVE  Good
<1>1. CASE UNCHANGED actVars
  <2>1. project' = project /\ actJob' = actJob
    BY <1>1 DEF actVars
  <2>2. ActTypeOK' /\ JobsOK' /\ Found'
    BY <2>1 DEF Inv, ActTypeOK, JobsOK, Meeting, Fresh, Found, Active
  <2>3. CopiesClose' /\ CurrentActListed'
    BY <2>1 DEF Inv, CopiesClose, CurrentActListed, Loaded, MetTwoPuts, TwoPuts, Put, Parted
  <2>4. Balanced' /\ Keeps
    BY <2>1 DEF Inv, Balanced, Taken, Given, Holds, Keeps
  <2>. QED BY <2>2, <2>3, <2>4 DEF Good, Inv
<1>. QED BY <1>1, ChangeStep, ExtensionStep DEF ActNext

\* Requests that have not begun have done nothing.
LEMMA InvInit ==
  ASSUME ActInit
  PROVE  Inv
<1>1. \A r \in Request : actJob[r] = NewActJob
  BY DEF ActInit
<1>2. /\ NewActJob \in ActJob /\ NewActJob.at = "new" /\ NewActJob.op = "none"
      /\ NewActJob.old = {} /\ NewActJob.new = {} /\ NewActJob.out = "none"
  BY DEF NewActJob, ActJob, ActOp, Outcome
<1>3. actJob \in [Request -> ActJob]
  BY <1>2 DEF ActInit
<1>4. /\ project \in ProjectRow \cup {NoProject}
      /\ project # NoProject => project.current \in project.list
  <2>1. CASE project = NoProject
    BY <2>1
  <2>2. ASSUME NEW a \in Act, NEW x \in SUBSET Extension, project = [NewProject(a) EXCEPT !.ext = x]
        PROVE  project \in ProjectRow /\ project.current \in project.list
    <3>1. NewProject(a) \in ProjectRow
      BY DEF NewProject, ProjectRow
    <3>2. project \in ProjectRow
      BY <2>2, <3>1 DEF ProjectRow
    <3>3. project.current = a /\ project.list = {a}
      BY <2>2 DEF NewProject
    <3>. QED BY <3>2, <3>3
  <2>. QED BY <2>1, <2>2 DEF ActInit
<1>5. JobsOK /\ Found
  BY <1>1, <1>2 DEF JobsOK, Meeting, Fresh, Found, Active
<1>6. CopiesClose /\ CurrentActListed
  BY <1>1, <1>2, <1>4 DEF CopiesClose, CurrentActListed, Loaded
<1>7. Balanced
  <2>. SUFFICES ASSUME NEW e \in Extension
                PROVE  Cardinality(Taken(e)) + (IF Holds(e) THEN 1 ELSE 0) =< Cardinality(Given(e)) + 1
    BY DEF Balanced
  <2>1. Taken(e) = {} /\ Given(e) = {}
    BY <1>1, <1>2 DEF Taken, Given
  <2>2. Cardinality({}) = 0
    BY FS_EmptySet
  <2>. QED BY <2>1, <2>2
<1>. QED BY <1>3, <1>4, <1>5, <1>6, <1>7 DEF Inv, ActTypeOK

-----------------------------------------------------------------------------
\* Whatever the Acts and however many requests overlap: project.js leaves a
\* project on a locked Act, keeps the current Act on the list unless a publish
\* overlapped with two PUTs, and does not make two extensions of one.
THEOREM ProjectsKeepTheirActs ==
  ActSpec => [](ActTypeOK /\ ProjectHolds) /\ LockedActKept
<1>1. ActInit => Inv
  BY InvInit
<1>2. Inv /\ [ActNext]_actVars => Inv' /\ Keeps
  BY Step DEF Good
<1>3. Inv => ActTypeOK /\ ProjectHolds
  <2>. SUFFICES ASSUME Inv
                PROVE  ActTypeOK /\ ProjectHolds
    OBVIOUS
  <2>1. ASSUME NEW e \in Extension
        PROVE  Cardinality(Taken(e)) =< Cardinality(Given(e)) + 1
    <3>1. Taken(e) \in SUBSET Request /\ Given(e) \in SUBSET Request
      BY DEF Taken, Given
    <3>2. Cardinality(Taken(e)) \in Nat /\ Cardinality(Given(e)) \in Nat
      BY <3>1, RequestAssumption, FS_Subset, FS_CardinalityType
    <3>3. Cardinality(Taken(e)) + (IF Holds(e) THEN 1 ELSE 0) =< Cardinality(Given(e)) + 1
      BY DEF Inv, Balanced
    <3>. QED BY <3>2, <3>3
  <2>. QED BY <2>1 DEF Inv, ProjectHolds, MovedOnce
<1>4. Keeps => [project # NoProject /\ project.current \in Locked =>
                  project' # NoProject /\ project'.current = project.current]_actVars
  BY DEF Keeps
<1>. QED BY <1>1, <1>2, <1>3, <1>4, PTL DEF ActSpec, LockedActKept
=============================================================================
