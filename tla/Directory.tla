----------------------------- MODULE Directory -----------------------------
(***************************************************************************)
(* Organizations and their users, and the members of a project's community *)
(* advisory committee.  A rename writes the organization, then its users;  *)
(* a sign-up writes a CACUser, then the project; a removal the other way.  *)
(***************************************************************************)
EXTENDS Requests

CONSTANTS Org, User, Name,
          Eao,       \* the Environmental Assessment Office's name
          Member,    \* ids of CACUsers
          Email, None

ASSUME EaoAssumption == Eao \in Name

VARIABLES org,       \* the organizations
          user,      \* the users, each with its organization's name on it
          cac,       \* the CACUsers of one project
          cacMembers, \* the project's list of them
          dirJob

dirVars == <<org, user, cac, cacMembers, dirJob>>

OrgRow == [name : Name, open : BOOLEAN, ver : Nat]
\* `typed': the name came with a form and no rename has written it since.
UserRow == [org : Org, name : Name, open : BOOLEAN, typed : BOOLEAN]

ASSUME NoneAssumption == None \notin Email /\ None \notin OrgRow /\ None \notin UserRow

DirOp == {"none", "rename", "publish", "unpublish", "signUp", "remove"}

DirJob == [op : DirOp, at : {"new", "loaded", "users", "save", "join", "pull", "drop", "done"},
           org : Org \cup {None}, name : Name \cup {None}, copy : OrgRow \cup {None},
           member : Member \cup {None}, email : Email \cup {None},
           met : SUBSET Request, out : Outcome]

NewDirJob == [op |-> "none", at |-> "new", org |-> None, name |-> None, copy |-> None,
              member |-> None, email |-> None, met |-> {}, out |-> "none"]

DirFinish(r, out) == dirJob' = [dirJob EXCEPT ![r] = Answered(@, out)]
DirGo(r, at) == dirJob' = [dirJob EXCEPT ![r].at = at]
DirBegin(r, job) == dirJob[r].at = "new" /\ dirJob' = Begun(dirJob, r, job)

-----------------------------------------------------------------------------
\* One save; an organization is public from the start.
PostOrg(o, n) ==
  /\ org[o] = None
  /\ org' = [org EXCEPT ![o] = [name |-> n, open |-> TRUE, ver |-> 0]]
  /\ UNCHANGED <<user, cac, cacMembers, dirJob>>

\* protectedPut: an unknown id goes on to the users all the same.
RenameOrg(r, o, n) ==
  /\ DirBegin(r, [NewDirJob EXCEPT !.op = "rename", !.at = "users", !.org = o,
                                      !.name = n, !.copy = org[o]])
  /\ org' = IF org[o] = None THEN org
            ELSE [org EXCEPT ![o].name = n, ![o].ver = @ + 1]
  /\ UNCHANGED <<user, cac, cacMembers>>

\* Then User.updateMany, which leaves read[] alone.
RenameUsers(r) ==
  LET mine == {u \in User : user[u] # None /\ user[u].org = dirJob[r].org} IN
  /\ dirJob[r].op = "rename" /\ dirJob[r].at = "users"
  /\ \/ /\ user' = [u \in User |-> IF u \in mine
                       THEN [user[u] EXCEPT !.name = dirJob[r].name, !.typed = FALSE]
                       ELSE user[u]]
        /\ DirFinish(r, "ok")
     \/ user' = user /\ DirFinish(r, "failed")
  /\ UNCHANGED <<org, cac, cacMembers>>

LoadOrg(r, op, o) ==
  /\ op \in {"publish", "unpublish"}
  /\ LET job == [NewDirJob EXCEPT !.op = op, !.at = "loaded", !.org = o, !.copy = org[o]]
     IN DirBegin(r, IF org[o] = None THEN Answered(job, "failed") ELSE job)
  /\ UNCHANGED <<org, user, cac, cacMembers>>

\* Actions.publish pushes; Actions.unPublish replaces read[] over its version.
SaveOrg(r) ==
  LET o == dirJob[r].org
      copy == dirJob[r].copy
      open == dirJob[r].op = "publish"
  IN /\ dirJob[r].at = "loaded"
     /\ IF copy.open = open
        THEN org' = org /\ DirFinish(r, "ok")
        ELSE IF ~open /\ org[o].ver # copy.ver
        THEN org' = org /\ DirFinish(r, "failed")
        ELSE /\ org' = [org EXCEPT ![o].open = open, ![o].ver = @ + 1]
             /\ DirFinish(r, "ok")
     /\ UNCHANGED <<user, cac, cacMembers>>

\* A user is posted or put with the organization's name as the form has it.
WriteUser(u, o, n) ==
  /\ user' = [user EXCEPT ![u] = [org |-> o, name |-> n, open |-> n = Eao, typed |-> TRUE]]
  /\ UNCHANGED <<org, cac, cacMembers, dirJob>>

-----------------------------------------------------------------------------
Registered == {m \in Member : cac[m] # None}
Unused == {m \in Member \ Registered : \A q \in Request : dirJob[q].member # m}

\* publicCACSignUp looks for a CACUser with this email; a new one gets an _id.
SignUp(r, e) ==
  LET found == {m \in Registered : cac[m] = e}
      job(m, at) == [NewDirJob EXCEPT !.op = "signUp", !.at = at, !.member = m, !.email = e]
  IN /\ \/ \E m \in found : DirBegin(r, job(m, "join"))
        \/ found = {} /\ \E m \in Unused : DirBegin(r, job(m, "save"))
     /\ UNCHANGED <<org, user, cac, cacMembers>>

SaveMember(r) ==
  /\ dirJob[r].at = "save"
  /\ \/ cac' = [cac EXCEPT ![dirJob[r].member] = dirJob[r].email] /\ DirGo(r, "join")
     \/ cac' = cac /\ DirFinish(r, "failed")
  /\ UNCHANGED <<org, user, cacMembers>>

\* $addToSet, then the welcome mail, which may fail.
JoinProject(r) ==
  /\ dirJob[r].at = "join"
  /\ \/ /\ cacMembers' = cacMembers \cup {dirJob[r].member}
        /\ \E out \in {"ok", "failed"} : DirFinish(r, out)
     \/ cacMembers' = cacMembers /\ DirFinish(r, "left")
  /\ UNCHANGED <<org, user, cac>>

\* Mutant of FindMember: the CACUser is deleted first, and that is all.
FindMemberOnly(r, e) ==
  /\ \E m \in {m \in Registered : cac[m] = e} :
       DirBegin(r, [NewDirJob EXCEPT !.op = "remove", !.at = "drop", !.member = m, !.email = e])
  /\ UNCHANGED <<org, user, cac, cacMembers>>

\* publicCACRemoveMember finds one, takes it off the project, then deletes it.
FindMember(r, e) ==
  LET found == {m \in Registered : cac[m] = e}
      job(m) == [NewDirJob EXCEPT !.op = "remove", !.at = "pull", !.member = m, !.email = e]
  IN /\ \/ \E m \in found : DirBegin(r, job(m))
        \/ found = {} /\ DirBegin(r, Answered(job(None), "failed"))
     /\ UNCHANGED <<org, user, cac, cacMembers>>

PullMember(r) ==
  /\ dirJob[r].at = "pull"
  /\ \/ cacMembers' = cacMembers \ {dirJob[r].member} /\ DirGo(r, "drop")
     \/ cacMembers' = cacMembers /\ DirFinish(r, "failed")
  /\ UNCHANGED <<org, user, cac>>

DropMember(r) ==
  /\ dirJob[r].at = "drop"
  /\ \/ cac' = [cac EXCEPT ![dirJob[r].member] = None] /\ DirFinish(r, "ok")
     \/ cac' = cac /\ DirFinish(r, "left")
  /\ UNCHANGED <<org, user, cacMembers>>

StopDirectory(r) ==
  /\ Active(dirJob[r])
  /\ DirFinish(r, "stopped")
  /\ UNCHANGED <<org, user, cac, cacMembers>>

-----------------------------------------------------------------------------
DirInit ==
  /\ org \in [Org -> {None} \cup [name : Name, open : BOOLEAN, ver : {0}]]
  /\ user = [u \in User |-> None]
  /\ cac = [m \in Member |-> None]
  /\ cacMembers = {}
  /\ dirJob = [r \in Request |-> NewDirJob]

AtOnce == \E o \in Org, n \in Name : PostOrg(o, n) \/ \E u \in User : WriteUser(u, o, n)

OrgStep(r) ==
  \/ \E o \in Org, n \in Name : RenameOrg(r, o, n)
  \/ \E o \in Org, op \in {"publish", "unpublish"} : LoadOrg(r, op, o)
  \/ RenameUsers(r) \/ SaveOrg(r)

CacStep(r) ==
  \/ \E e \in Email : SignUp(r, e) \/ FindMember(r, e)
  \/ SaveMember(r) \/ JoinProject(r) \/ PullMember(r) \/ DropMember(r)

DirNext == AtOnce \/ \E r \in Request : OrgStep(r) \/ CacStep(r) \/ StopDirectory(r)

DirSpec == DirInit /\ [][DirNext]_dirVars

-----------------------------------------------------------------------------
DirTypeOK ==
  /\ org \in [Org -> OrgRow \cup {None}]
  /\ user \in [User -> UserRow \cup {None}]
  /\ cac \in [Member -> Email \cup {None}]
  /\ cacMembers \subseteq Member
  /\ dirJob \in [Request -> DirJob]

Renaming(r, o) == dirJob[r].op = "rename" /\ dirJob[r].org = o

\* The name a rename wrote on a user is its organization's, but for a rename
\* that is between its two writes or never made the second, for two renames that
\* overlapped, and for a rename of an organization that was not there yet.
NamesFollow ==
  \A u \in User :
    \/ user[u] = None
    \/ user[u].typed \/ org[user[u].org] = None
    \/ user[u].name = org[user[u].org].name
    \/ \E r \in Request :
         /\ Renaming(r, user[u].org)
         /\ \/ dirJob[r].out # "ok"
            \/ dirJob[r].copy = None
            \/ \E q \in dirJob[r].met : Renaming(q, user[u].org)

\* Who is on the committee's list has a CACUser, and the other way round: a
\* step that failed or never came leaves a CACUser off the list, and a sign-up
\* that overlapped with the removal of the same CACUser leaves an id on the
\* list that stands for nobody.  One email has two CACUsers only when two
\* sign-ups overlapped.
MembersExist ==
  /\ \A m \in cacMembers \ Registered :
       \E r \in Request : \E q \in dirJob[r].met :
         /\ dirJob[r].op = "signUp" /\ dirJob[r].member = m
         /\ dirJob[q].op = "remove" /\ dirJob[q].member = m
  /\ \A m \in Registered \ cacMembers :
       \E r \in Request : dirJob[r].member = m /\ dirJob[r].out \in {"none", "left", "stopped"}
  /\ \A m, n \in Registered :
       m # n /\ cac[m] = cac[n] =>
         \E r, q \in Request :
           /\ dirJob[r].op = "signUp" /\ dirJob[r].member = m
           /\ dirJob[q].op = "signUp" /\ dirJob[q].member = n
           /\ q \in dirJob[r].met

\* What two collections say of one person or organization agrees.
DirectoryAgrees == NamesFollow /\ MembersExist
=============================================================================
