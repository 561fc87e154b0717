----------------------------- MODULE RenamePush -----------------------------
(***************************************************************************)
(* The push of an organization's users.  A rename writes its name on all   *)
(* of them at once, looks them up, and pushes each by its _id; the pushes  *)
(* have one outcome, which is recorded on many rows.  Meanwhile users join *)
(* and leave by a PUT with a push and an outcome of its own, and the sweep *)
(* retries what is flagged.  DemiMirror follows one row through re-reads,  *)
(* stamps and several processes; here, in one process, a push is the read  *)
(* of a row, the exchange, and whether DEMI took the body.                 *)
(***************************************************************************)
EXTENDS Naturals, FiniteSets

CONSTANTS Rename, Put, \* the requests; a Put saves one user, or is a retry of the sweep
          Person,      \* the users
          Nobody,
          MaxFaults    \* bounds the model

ASSUME RenameAssumption == Rename \cap Put = {} /\ Nobody \notin Rename \cup Put /\ MaxFaults \in Nat

VARIABLES joined,  \* who belongs to the organization
          ver,     \* how often each user's row was written
          mirror,  \* the version of each user that DEMI has
          flag,    \* demiPushPending: "old" is older than CLOCK_SKEW_MS
          push,    \* the requests
          asked,   \* pushes whose turn has not come
          wire,    \* each user's push that is under way
          due,     \* for the properties: the version a flag or a reply stands for
          lost,    \* for the properties: users an outcome of whose was lost
          faults

renameVars == <<joined, ver, mirror, flag, push, asked, wire, due, lost, faults>>

Pusher == Rename \cup Put
NoWire == [of |-> Nobody, ver |-> 0]
NewPush == [at |-> "new", ids |-> {}, wrote |-> [u \in Person |-> 0], older |-> {},
            pending |-> FALSE, ok |-> TRUE]

EndPush == [NewPush EXCEPT !.at = "done"]
Unanswered(o) == push[o].at \notin {"new", "done"}

Flagged == {u \in Person : flag[u] # "no"}
OldFlags == {u \in Person : flag[u] = "old"}
Greater(a, b) == IF a < b THEN b ELSE a

\* What a request pushed and has no answer to.
Out(o) == {u \in Person : <<o, u>> \in asked \/ wire[u].of = o}

-----------------------------------------------------------------------------
\* protectedPut of an organization, up to the updateMany.
RenameAll(o) ==
  /\ push[o].at = "new"
  /\ ver' = [u \in Person |-> IF u \in joined THEN ver[u] + 1 ELSE ver[u]]
  /\ push' = [push EXCEPT ![o].at = "written",
                          ![o].wrote = [u \in Person |-> IF u \in joined THEN ver'[u] ELSE 0]]
  /\ UNCHANGED <<joined, mirror, flag, asked, wire, due, lost, faults>>

\* usersOfOrganization takes its readAt and starts the lookup.
AskUsers(o) ==
  /\ push[o].at = "written"
  /\ push' = [push EXCEPT ![o].at = "looking", ![o].older = OldFlags]
  /\ UNCHANGED <<joined, ver, mirror, flag, asked, wire, due, lost, faults>>

\* The lookup answers, perhaps after the deadline; each user is pushed.
FindUsers(o) ==
  /\ push[o].at \in {"looking", "late"}
  /\ push' = [push EXCEPT ![o] =
       IF @.at = "late" THEN EndPush
       ELSE [@ EXCEPT !.at = "await", !.ids = joined, !.pending = joined \cap Flagged # {}]]
  /\ asked' = asked \cup ({o} \X joined)
  /\ UNCHANGED <<joined, ver, mirror, flag, wire, due, lost, faults>>

LookupFails(o) ==
  /\ push[o].at \in {"looking", "late"} /\ faults < MaxFaults
  /\ faults' = faults + 1
  /\ push' = [push EXCEPT ![o] =
       IF @.at = "late" THEN EndPush ELSE [@ EXCEPT !.at = "await", !.ok = FALSE]]
  /\ UNCHANGED <<joined, ver, mirror, flag, asked, wire, due, lost>>

\* protectedPut of a user, who may join or leave with it.
SaveUser(o, u, joins) ==
  /\ push[o].at = "new"
  /\ joined' = IF joins THEN joined \cup {u} ELSE joined \ {u}
  /\ ver' = [ver EXCEPT ![u] = @ + 1]
  /\ push' = [push EXCEPT ![o].at = "await", ![o].ids = {u}, ![o].wrote = [@ EXCEPT ![u] = ver'[u]]]
  /\ asked' = asked \cup {<<o, u>>}
  /\ UNCHANGED <<mirror, flag, wire, due, lost, faults>>

\* The sweep pushes a flagged user.
SweepUser(o, u) ==
  /\ push[o].at = "new" /\ u \in Flagged
  /\ push' = [push EXCEPT ![o].at = "await", ![o].ids = {u}]
  /\ asked' = asked \cup {<<o, u>>}
  /\ UNCHANGED <<joined, ver, mirror, flag, wire, due, lost, faults>>

-----------------------------------------------------------------------------
\* A push's turn: it reads the row as it is now, and whether it is flagged.
ReadUser(o, u) ==
  /\ <<o, u>> \in asked /\ wire[u] = NoWire
  /\ asked' = asked \ {<<o, u>>}
  /\ wire' = [wire EXCEPT ![u] = [of |-> o, ver |-> ver[u]]]
  /\ push' = IF o \in Put /\ Unanswered(o)
             THEN [push EXCEPT ![o].older = OldFlags \cap {u}, ![o].pending = u \in Flagged]
             ELSE push
  /\ UNCHANGED <<joined, ver, mirror, flag, due, lost, faults>>

\* DEMI takes the body or not; a rename's pushes land together or not at all.
SettleUser(u, ok) ==
  LET o == wire[u].of IN
  /\ wire[u] # NoWire
  /\ ok \/ faults < MaxFaults
  /\ faults' = IF ok THEN faults ELSE faults + 1
  /\ mirror' = IF ok THEN [mirror EXCEPT ![u] = wire[u].ver] ELSE mirror
  /\ wire' = [wire EXCEPT ![u] = NoWire]
  /\ push' = IF Unanswered(o) THEN [push EXCEPT ![o].ok = @ /\ ok] ELSE push
  /\ UNCHANGED <<joined, ver, flag, asked, due, lost>>

\* awaitMirror: the outcome, or the deadline.
Settled(o) ==
  /\ push[o].at = "await" /\ Out(o) = {}
  /\ push' = [push EXCEPT ![o].at = IF push[o].ok THEN "clear" ELSE "mark"]
  /\ UNCHANGED <<joined, ver, mirror, flag, asked, wire, due, lost, faults>>

Deadline(o) ==
  /\ push[o].at = "looking" \/ (push[o].at = "await" /\ Out(o) # {})
  /\ faults < MaxFaults
  /\ faults' = faults + 1
  /\ push' = [push EXCEPT ![o].at = IF @ = "looking" THEN "markLate" ELSE "mark"]
  /\ UNCHANGED <<joined, ver, mirror, flag, asked, wire, due, lost>>

-----------------------------------------------------------------------------
\* Whom a failure flags: by the filter, all who belong to the organization now.
FlaggedBy(o) == IF o \in Rename THEN joined ELSE push[o].ids

\* Its outcome is recorded: a lookup may still be open.
Recorded(o) == IF push[o].at = "markLate" THEN [NewPush EXCEPT !.at = "late"] ELSE EndPush

\* markPending writes the flag anew; no earlier readAt covers it.
MarkUsers(o) ==
  /\ push[o].at \in {"mark", "markLate"}
  /\ flag' = [u \in Person |-> IF u \in FlaggedBy(o) THEN "fresh" ELSE flag[u]]
  /\ due' = [u \in Person |-> IF u \in FlaggedBy(o) THEN ver[u] ELSE due[u]]
  /\ push' = [p \in Pusher |->
       IF p = o THEN Recorded(o) ELSE [push[p] EXCEPT !.older = @ \ FlaggedBy(o)]]
  /\ UNCHANGED <<joined, ver, mirror, asked, wire, lost, faults>>

\* Mutant of ClearedBy: by the filter as well.
ClearedByFilter(o) ==
  IF push[o].pending THEN (IF o \in Rename THEN joined ELSE push[o].ids) \cap push[o].older ELSE {}

\* Whom a landing clears: those that were looked up, of a flag older than the
\* push's read, and only if one of them was flagged then.
ClearedBy(o) == IF push[o].pending THEN push[o].ids \cap push[o].older ELSE {}

ClearUsers(o) ==
  /\ push[o].at = "clear"
  /\ flag' = [u \in Person |-> IF u \in ClearedBy(o) THEN "no" ELSE flag[u]]
  /\ due' = [u \in Person |-> IF u \in push[o].ids THEN Greater(due[u], push[o].wrote[u]) ELSE due[u]]
  /\ push' = [push EXCEPT ![o] = EndPush]
  /\ UNCHANGED <<joined, ver, mirror, asked, wire, lost, faults>>

\* A flag grows older than the skew between two clocks.
AgeFlag(u) ==
  /\ flag[u] = "fresh"
  /\ flag' = [flag EXCEPT ![u] = "old"]
  /\ UNCHANGED <<joined, ver, mirror, push, asked, wire, due, lost, faults>>

\* Whose row the request wrote, or was to flag.
Concerned(o) == push[o].ids \cup {u \in Person : push[o].wrote[u] > 0} \cup FlaggedBy(o)

\* Mongo refuses the outcome.
ForgetOutcome(o) ==
  /\ push[o].at \in {"mark", "clear", "markLate"} /\ faults < MaxFaults
  /\ faults' = faults + 1
  /\ lost' = lost \cup Concerned(o)
  /\ push' = [push EXCEPT ![o] = Recorded(o)]
  /\ UNCHANGED <<joined, ver, mirror, flag, asked, wire, due>>

\* The process dies; what is on the wire may land.
DieWithPushes ==
  LET under == {o \in Pusher : Unanswered(o)} IN
  /\ faults < MaxFaults /\ under # {}
  /\ faults' = faults + 1
  /\ \E sent \in SUBSET {u \in Person : wire[u] # NoWire} :
       mirror' = [u \in Person |-> IF u \in sent THEN wire[u].ver ELSE mirror[u]]
  /\ lost' = lost \cup UNION {Concerned(o) : o \in under}
  /\ push' = [o \in Pusher |-> IF o \in under THEN EndPush ELSE push[o]]
  /\ asked' = {} /\ wire' = [u \in Person |-> NoWire]
  /\ UNCHANGED <<joined, ver, flag, due>>

-----------------------------------------------------------------------------
\* A user may be flagged from before.
RenameInit ==
  /\ joined \in SUBSET Person
  /\ ver = [u \in Person |-> 1]
  /\ flag \in [Person -> {"no", "old"}]
  /\ mirror = [u \in Person |-> IF flag[u] = "no" THEN 1 ELSE 0]
  /\ due = ver
  /\ push = [o \in Pusher |-> NewPush]
  /\ asked = {} /\ wire = [u \in Person |-> NoWire]
  /\ lost = {} /\ faults = 0

RenameNext ==
  \/ \E o \in Rename : RenameAll(o) \/ AskUsers(o) \/ FindUsers(o) \/ LookupFails(o)
  \/ \E o \in Put, u \in Person : SweepUser(o, u) \/ \E joins \in BOOLEAN : SaveUser(o, u, joins)
  \/ \E o \in Pusher : Settled(o) \/ Deadline(o) \/ MarkUsers(o) \/ ClearUsers(o) \/ ForgetOutcome(o)
  \/ \E o \in Pusher, u \in Person : ReadUser(o, u)
  \/ \E u \in Person : AgeFlag(u) \/ \E ok \in BOOLEAN : SettleUser(u, ok)
  \/ DieWithPushes

RenameSpec == RenameInit /\ [][RenameNext]_renameVars

-----------------------------------------------------------------------------
RenameTypeOK ==
  /\ joined \subseteq Person /\ lost \subseteq Person
  /\ ver \in [Person -> Nat] /\ mirror \in [Person -> Nat] /\ due \in [Person -> Nat]
  /\ flag \in [Person -> {"no", "fresh", "old"}]
  /\ \A o \in Pusher :
       /\ push[o].at \in {"new", "written", "looking", "await", "mark", "markLate", "late", "clear", "done"}
       /\ push[o].ids \cup push[o].older \subseteq Person
  /\ asked \subseteq Pusher \X Person
  /\ faults \in 0..MaxFaults

\* One outcome stands for many rows and still tells the truth of each: a flag
\* goes, and a reply says mirrored, only when DEMI has every user as it was
\* when the flag was written or the request wrote it, though users join and
\* leave while they are looked up and pushed.  And once nothing is under way,
\* DEMI has each user as Mongo does, or the user is flagged, unless an outcome
\* about it was lost.
UsersMirroredOrOwed ==
  \A u \in Person :
    /\ flag[u] = "no" => mirror[u] >= due[u]
    /\ (\A o \in Pusher : ~Unanswered(o) /\ Out(o) = {}) /\ u \notin lost
         => mirror[u] = ver[u] \/ flag[u] # "no"
=============================================================================
