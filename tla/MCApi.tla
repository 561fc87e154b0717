------------------------------- MODULE MCApi -------------------------------
(***************************************************************************)
(* The API's handlers, by the data they share.  A behaviour follows one of *)
(* the groups, which `focus' names: the groups share no rows, so a product *)
(* of them would show nothing more.  Requests are numbered in the order in *)
(* which they begin, and comments in the order in which they are stored:   *)
(* every other behaviour is one of these with its requests renamed.        *)
(***************************************************************************)
EXTENDS DocumentStore, ProjectActs, CommentPeriods, Directory, RenamePush, ReadPaths, TLC

CONSTANT FewRequests \* how many requests change documents or comments

VARIABLE focus

apiVars == <<docVars, actVars, cmtVars, dirVars, renameVars, readVars, focus>>

\* The requests that may take a step: those that began, and the next one.
Ready(jobs, few) ==
  {r \in Request : r =< few /\ \A q \in Request : q < r => jobs[q].at # "new"}

StoredInOrder == \A c, d \in Comment : c < d /\ d \in Stored => c \in Stored

\* A write to what the route of a request does not look at changes nothing of it.
Looked ==
  reader.at # "idle" =>
    /\ top' # top => reader.route.gate # "none"
    /\ cp' # cp => reader.route.gate = "period"
    /\ listed' # listed => reader.route.gate = "list"
    /\ rankOf' # rankOf => reader.route.order = "rank"

\* A group that is not followed keeps one of its initial states.
Quiet ==
  /\ focus # "documents" => row = [d \in Doc |-> NoDoc]
  /\ focus \notin {"acts", "extensions"} => project = NoProject
  /\ focus = "acts" /\ project # NoProject => project.ext = {}
  /\ focus # "comments" => period = [p \in Period |-> NoPeriod]
  /\ focus # "organizations" => org = [o \in Org |-> None]
  /\ focus # "renames" => joined = {} /\ OldFlags = {}
  /\ focus # "reads" => \A i \in Item : item[i].key = 1

ApiInit ==
  /\ focus \in {"documents", "acts", "extensions", "comments", "organizations",
               "committee", "renames", "reads"}
  /\ DocInit /\ ActInit /\ CmtInit /\ DirInit /\ RenameInit /\ ReadInit
  /\ Quiet

DocumentsStep ==
  /\ focus = "documents" /\ \E r \in Ready(job, FewRequests) : DocStep(r)
  /\ UNCHANGED <<actVars, cmtVars, dirVars, renameVars, readVars>>

\* The handlers of extensions look at nothing else of a project.
ProjectsStep ==
  /\ \E r \in Ready(actJob, Cardinality(Request)) :
       \/ focus = "acts" /\ ChangeProject(r)
       \/ focus = "extensions" /\ ChangeExtension(r)
       \/ focus = "extensions" /\ (StopAct(r) \/ \E act \in Act : PostProject(r, act))
  /\ UNCHANGED <<docVars, cmtVars, dirVars, renameVars, readVars>>

CommentsStep ==
  /\ focus = "comments"
  /\ \/ PeriodStep
     \/ \E r \in Ready(cmtJob, FewRequests) : (CommentStep(r) \/ PublishStep(r)) /\ StoredInOrder'
     \/ \E c \in Comment, s \in EaoStatus : SetStatus(c, s)
  /\ UNCHANGED <<docVars, actVars, dirVars, renameVars, readVars>>

\* An organization and a committee share nothing either.
DirectoryStep ==
  /\ \/ focus = "organizations" /\ AtOnce
     \/ \E r \in Ready(dirJob, Cardinality(Request)) :
          \/ focus = "organizations" /\ (OrgStep(r) \/ StopDirectory(r))
          \/ focus = "committee" /\ (CacStep(r) \/ StopDirectory(r))
  /\ UNCHANGED <<docVars, actVars, cmtVars, renameVars, readVars>>

RenamesStep ==
  /\ focus = "renames" /\ RenameNext
  /\ UNCHANGED <<docVars, actVars, cmtVars, dirVars, readVars>>

ReadsStep ==
  /\ focus = "reads" /\ ReadNext /\ Looked
  /\ UNCHANGED <<docVars, actVars, cmtVars, dirVars, renameVars>>

ApiNext ==
  /\ \/ DocumentsStep \/ ProjectsStep \/ CommentsStep
     \/ DirectoryStep \/ RenamesStep \/ ReadsStep
  /\ UNCHANGED focus

ApiSpec == ApiInit /\ [][ApiNext]_apiVars
=============================================================================
