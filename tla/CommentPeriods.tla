--------------------------- MODULE CommentPeriods ---------------------------
(***************************************************************************)
(* Comment periods and the numbers of their comments.  A period counts its *)
(* comments; a new comment takes the next number, or keeps the one it was  *)
(* sent with and lifts the counter to it.  Handlers that await one database*)
(* call are a step of their own; `cmtJob' holds the others.                *)
(***************************************************************************)
EXTENDS Requests

CONSTANTS Period, Comment,
          Sent,      \* numbers a caller sends
          MaxEra,    \* how often a period is created: bounds the model
          NoPeriod, NoComment

ASSUME SentAssumption == Sent \subseteq Nat \ {0}
ASSUME EraAssumption == MaxEra \in Nat

VARIABLES period,  \* the periods in Mongo
          era,     \* how often each _id was created
          comment, \* the comments in Mongo, which outlive their period
          cmtJob

cmtVars == <<period, era, comment, cmtJob>>

Flag == {"unset", "yes", "no"}
EaoStatus == {"none", "Published", "Pending", "Deferred", "Rejected"}

PeriodRow == [count : Nat, published : Flag, open : BOOLEAN, ver : Nat]
CommentRow == [period : Period, number : Nat, era : Nat, by : Request,
               status : EaoStatus, open : BOOLEAN]

CmtJob == [op : {"none", "publish", "unpublish", "post", "export"},
           at : {"new", "loaded", "count", "save", "done"},
           period : Period \cup {NoPeriod}, copy : PeriodRow \cup {NoPeriod},
           number : Nat, sent : BOOLEAN, era : Nat,
           met : SUBSET Request, out : Outcome]

NewCmtJob == [op |-> "none", at |-> "new", period |-> NoPeriod, copy |-> NoPeriod,
              number |-> 0, sent |-> FALSE, era |-> 0, met |-> {}, out |-> "none"]

Stored == {c \in Comment : comment[c] # NoComment}
Max2(a, b) == IF a < b THEN b ELSE a

CmtFinish(r, out) == cmtJob' = [cmtJob EXCEPT ![r] = Answered(@, out)]
CmtBegin(r, job, fails) ==
  /\ cmtJob[r].at = "new"
  /\ cmtJob' = Begun(cmtJob, r, IF fails THEN Answered(job, "failed") ELSE job)

-----------------------------------------------------------------------------
\* The two fields a period is published by; a POST and a PUT write both.
Shown(show) == IF show THEN "yes" ELSE "no"

\* protectedPost: the counter starts at 0, under an _id the caller may name.
PostPeriod(p, show) ==
  /\ period[p] = NoPeriod /\ era[p] < MaxEra
  /\ period' = [period EXCEPT ![p] = [count |-> 0, published |-> Shown(show),
                                      open |-> show, ver |-> 0]]
  /\ era' = [era EXCEPT ![p] = @ + 1]
  /\ UNCHANGED <<comment, cmtJob>>

\* Mutant of PutPeriod: read[] is left as it was.
PutPeriodFlag(p, show) ==
  /\ period[p] # NoPeriod
  /\ period' = [period EXCEPT ![p] = [@ EXCEPT !.published = Shown(show)]]
  /\ UNCHANGED <<era, comment, cmtJob>>

\* protectedPut is an updateOne: an unknown id changes nothing, and the
\* version stays.
PutPeriod(p, show) ==
  /\ period[p] # NoPeriod
  /\ period' = [period EXCEPT ![p] = [@ EXCEPT !.published = Shown(show), !.open = show]]
  /\ UNCHANGED <<era, comment, cmtJob>>

\* protectedDelete takes the row; the comments stay.
DropPeriod(p) ==
  /\ period[p] # NoPeriod
  /\ period' = [period EXCEPT ![p] = NoPeriod]
  /\ UNCHANGED <<era, comment, cmtJob>>

\* protectedPublish and protectedUnPublish load the period, then save it.
LoadPeriod(r, op, p) ==
  /\ op \in {"publish", "unpublish", "export"}
  /\ CmtBegin(r, [NewCmtJob EXCEPT !.op = op, !.at = "loaded", !.period = p, !.copy = period[p]],
              period[p] = NoPeriod)
  /\ UNCHANGED <<period, era, comment>>

\* Actions.publish saves what the copy lacks: the flag, and `public' in read[].
PublishedRow(row, copy) ==
  [row EXCEPT !.published = IF copy.published = "yes" THEN @ ELSE "yes",
              !.open = @ \/ ~copy.open,
              !.ver = IF copy.open THEN @ ELSE @ + 1]

SavePublish(r) ==
  LET p == cmtJob[r].period
      copy == cmtJob[r].copy
  IN /\ cmtJob[r].op = "publish" /\ cmtJob[r].at = "loaded"
     /\ IF period[p] = NoPeriod
        THEN period' = period /\ CmtFinish(r, IF copy.published = "yes" /\ copy.open
                                              THEN "ok" ELSE "failed")
        ELSE /\ period' = [period EXCEPT ![p] = PublishedRow(@, copy)]
             /\ CmtFinish(r, "ok")
     /\ UNCHANGED <<era, comment>>

\* Actions.unPublish writes the whole read[], over the version it loaded: a PUT
\* leaves the version, a new comment's number raises it.
UnPublishedRow(row, copy) ==
  [row EXCEPT !.published = IF copy.published = "no" THEN @ ELSE "no",
              !.open = @ /\ ~copy.open,
              !.ver = IF copy.open THEN @ + 1 ELSE @]

SaveUnPublish(r) ==
  LET p == cmtJob[r].period
      copy == cmtJob[r].copy
  IN /\ cmtJob[r].op = "unpublish" /\ cmtJob[r].at = "loaded"
     /\ IF copy.published = "no" /\ ~copy.open
        THEN period' = period /\ CmtFinish(r, "ok")
        ELSE IF period[p] = NoPeriod \/ (copy.open /\ period[p].ver # copy.ver)
        THEN period' = period /\ CmtFinish(r, "failed")
        ELSE /\ period' = [period EXCEPT ![p] = UnPublishedRow(@, copy)]
             /\ CmtFinish(r, "ok")
     /\ UNCHANGED <<era, comment>>

-----------------------------------------------------------------------------
\* protectedPost of a comment with a number: no comment of the period has it.
PostSent(r, p, n) ==
  /\ CmtBegin(r, [NewCmtJob EXCEPT !.op = "post", !.at = "count", !.period = p,
                                   !.number = n, !.sent = TRUE],
              \E c \in Stored : comment[c].period = p /\ comment[c].number = n)
  /\ UNCHANGED <<period, era, comment>>

\* Either way the update raises the version of the period as well.
Counted(row, n) == [row EXCEPT !.count = n, !.ver = @ + 1]

\* Mutant of CountSent: the counter does not rise.
CountSentOnly(r) ==
  LET p == cmtJob[r].period IN
  /\ cmtJob[r].at = "count" /\ period[p] # NoPeriod
  /\ period' = [period EXCEPT ![p] = [@ EXCEPT !.ver = @ + 1]]
  /\ cmtJob' = [cmtJob EXCEPT ![r] = [@ EXCEPT !.at = "save", !.era = era[p]]]
  /\ UNCHANGED <<era, comment>>

\* getNextCommentIdCount: a sent number is kept, and the counter rises to it.
CountSent(r) ==
  LET p == cmtJob[r].period IN
  /\ cmtJob[r].at = "count"
  /\ IF period[p] = NoPeriod
     THEN period' = period /\ CmtFinish(r, "failed")
     ELSE /\ period' = [period EXCEPT ![p] = Counted(@, Max2(@.count, cmtJob[r].number))]
          /\ cmtJob' = [cmtJob EXCEPT ![r] = [@ EXCEPT !.at = "save", !.era = era[p]]]
  /\ UNCHANGED <<era, comment>>

\* A comment without a number takes the next one.
PostNext(r, p) ==
  LET next == IF period[p] = NoPeriod THEN 0 ELSE period[p].count + 1 IN
  /\ CmtBegin(r, [NewCmtJob EXCEPT !.op = "post", !.at = "save", !.period = p,
                                   !.number = next, !.era = era[p]],
              period[p] = NoPeriod)
  /\ period' = IF period[p] = NoPeriod THEN period
               ELSE [period EXCEPT ![p] = Counted(@, next)]
  /\ UNCHANGED <<era, comment>>

\* setPermissionsFromEaoStatus: only Published opens read[]; a missing status
\* leaves it alone.
Opened(status, open) == CASE status = "Published" -> TRUE
                          [] status = "none" -> open
                          [] OTHER -> FALSE

\* The save fails on an _id that is taken, or because Mongo does.
SaveComment(r, c, status) ==
  /\ cmtJob[r].op = "post" /\ cmtJob[r].at = "save"
  /\ \/ /\ comment[c] = NoComment
        /\ comment' = [comment EXCEPT ![c] =
              [period |-> cmtJob[r].period, number |-> cmtJob[r].number,
               era |-> cmtJob[r].era, by |-> r,
               status |-> status, open |-> Opened(status, FALSE)]]
        /\ CmtFinish(r, "ok")
     \/ comment' = comment /\ CmtFinish(r, "failed")
  /\ UNCHANGED <<period, era>>

\* protectedPut and protectedStatus of a comment: status and read[] in one
\* update.
StatusRow(row, status) ==
  [row EXCEPT !.status = IF status = "none" THEN @ ELSE status, !.open = Opened(status, @)]

SetStatus(c, status) ==
  /\ c \in Stored
  /\ comment' = [comment EXCEPT ![c] = StatusRow(@, status)]
  /\ UNCHANGED <<period, era, cmtJob>>

\* protectedExport reads the comments after the period and its project; a
\* document of theirs that is gone by then ends it.
ExportComments(r) ==
  /\ cmtJob[r].op = "export" /\ cmtJob[r].at = "loaded"
  /\ \E out \in {"ok", "failed"} : CmtFinish(r, out)
  /\ UNCHANGED <<period, era, comment>>

StopComment(r) ==
  /\ Active(cmtJob[r])
  /\ CmtFinish(r, "stopped")
  /\ UNCHANGED <<period, era, comment>>

-----------------------------------------------------------------------------
\* A period that ENGAGE wrote has no flag and goes by read[] alone.
CmtInit ==
  /\ era = [p \in Period |-> 0]
  /\ period \in [Period -> {NoPeriod} \cup
       {[count |-> 0, published |-> "unset", open |-> o, ver |-> 0] : o \in BOOLEAN}]
  /\ comment = [c \in Comment |-> NoComment]
  /\ cmtJob = [r \in Request |-> NewCmtJob]

PeriodStep ==
  \E p \in Period : DropPeriod(p) \/ \E show \in BOOLEAN : PostPeriod(p, show) \/ PutPeriod(p, show)

CommentStep(r) ==
  \/ \E p \in Period, n \in Sent : PostSent(r, p, n)
  \/ \E p \in Period : PostNext(r, p)
  \/ CountSent(r)
  \/ \E c \in Comment, s \in EaoStatus : SaveComment(r, c, s)
  \/ ExportComments(r) \/ StopComment(r)

PublishStep(r) ==
  \/ \E op \in {"publish", "unpublish", "export"}, p \in Period : LoadPeriod(r, op, p)
  \/ SavePublish(r) \/ SaveUnPublish(r)

CmtNext ==
  \/ PeriodStep
  \/ \E r \in Request : CommentStep(r) \/ PublishStep(r)
  \/ \E c \in Comment, s \in EaoStatus : SetStatus(c, s)

CmtSpec == CmtInit /\ [][CmtNext]_cmtVars

-----------------------------------------------------------------------------
CmtTypeOK ==
  /\ period \in [Period -> PeriodRow \cup {NoPeriod}]
  /\ era \in [Period -> Nat]
  /\ comment \in [Comment -> CommentRow \cup {NoComment}]
  /\ cmtJob \in [Request -> CmtJob]

\* Two comments have one number only under a period that was deleted and made
\* again, or when one of them was sent with the number while the other was
\* being posted.  Comments without a number never clash among themselves.
NumbersUnique ==
  \A c, d \in Stored :
    /\ c # d
    /\ comment[c].period = comment[d].period
    /\ comment[c].number = comment[d].number
    /\ comment[c].era = comment[d].era
    => LET r == comment[c].by
           q == comment[d].by
       IN q \in cmtJob[r].met /\ (cmtJob[r].sent \/ cmtJob[q].sent)

\* What a period or a comment is published by says the same as its read[], for
\* all the writes that look at no version: only a save that decided on a copy
\* without the flag, of a period ENGAGE wrote, can part the two.
PublishedAgrees ==
  /\ \A c \in Stored : comment[c].open <=> comment[c].status = "Published"
  /\ \A p \in Period :
       \/ period[p] = NoPeriod
       \/ period[p].published = "unset"
       \/ period[p].published = "yes" <=> period[p].open
       \/ \E r \in Request :
            /\ cmtJob[r].period = p /\ cmtJob[r].out = "ok"
            /\ cmtJob[r].copy # NoPeriod /\ cmtJob[r].copy.published = "unset"
=============================================================================
