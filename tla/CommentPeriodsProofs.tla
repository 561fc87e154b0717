------------------------ MODULE CommentPeriodsProofs ------------------------
(***************************************************************************)
(* Proofs, for any number of requests, periods and comments, of what the   *)
(* comment handlers keep: the numbers of a period's comments, and what     *)
(* periods and comments are published by.                                  *)
(***************************************************************************)
EXTENDS CommentPeriods, TLAPS

-----------------------------------------------------------------------------
(* The inductive invariant, in parts. *)

\* Requests that are active at once have met.
Meeting ==
  \A r, q \in Request : r # q /\ Active(cmtJob[r]) /\ Active(cmtJob[q]) => q \in cmtJob[r].met

\* What the stage of a request says of it.
Formed ==
  \A r \in Request :
    /\ cmtJob[r].at = "new" => cmtJob[r].op = "none"
    /\ cmtJob[r].at # "done" => cmtJob[r].out = "none"
    /\ cmtJob[r].at \in {"loaded", "count", "save"} => cmtJob[r].period \in Period
    /\ cmtJob[r].at = "loaded" => cmtJob[r].copy \in PeriodRow /\ cmtJob[r].copy # NoPeriod
    /\ cmtJob[r].at \in {"count", "save"} => cmtJob[r].op = "post"
    /\ cmtJob[r].at = "count" => cmtJob[r].sent

Waiting(r) == cmtJob[r].at = "count"
Pending(r) == cmtJob[r].at = "save"
Met(r, q) == q \in cmtJob[r].met /\ r \in cmtJob[q].met

\* One number, of a comment that is stored or is still to be saved.
Clash(h, k) == h.period = k.period /\ h.number = k.number /\ h.era = k.era

\* The counter of a period is at least the numbers it gave.
Within(h) ==
  /\ h.era =< era[h.period]
  /\ h.era = era[h.period] /\ period[h.period] # NoPeriod => h.number =< period[h.period].count

\* The numbers, stored and to be saved, that clash only as NumbersUnique says.
Numbered ==
  /\ \A c \in Stored : Within(comment[c]) /\ cmtJob[comment[c].by].at = "done"
  /\ \A c, d \in Stored : c # d => comment[c].by # comment[d].by
  /\ \A r \in Request : Pending(r) => Within(cmtJob[r])
  /\ \A r \in Request, c \in Stored :
       Pending(r) /\ Clash(cmtJob[r], comment[c]) =>
         Met(r, comment[c].by) /\ (cmtJob[r].sent \/ cmtJob[comment[c].by].sent)
  /\ \A r, q \in Request :
       r # q /\ Pending(r) /\ Pending(q) /\ Clash(cmtJob[r], cmtJob[q]) =>
         cmtJob[r].sent \/ cmtJob[q].sent
  /\ \A r \in Request, c \in Stored :
       Waiting(r) /\ comment[c].period = cmtJob[r].period /\ comment[c].number = cmtJob[r].number =>
         Met(r, comment[c].by)

\* What a period is published by says one thing.
Agrees(row) == row.published = "unset" \/ (row.published = "yes" <=> row.open)

\* The one way in which it may not.
Excused(p) ==
  \E r \in Request :
    /\ cmtJob[r].period = p /\ cmtJob[r].out = "ok"
    /\ cmtJob[r].copy # NoPeriod /\ cmtJob[r].copy.published = "unset"

Published ==
  /\ \A p \in Period : period[p] = NoPeriod \/ Agrees(period[p]) \/ Excused(p)
  /\ \A r \in Request :
       cmtJob[r].at = "loaded" => Agrees(cmtJob[r].copy) \/ Excused(cmtJob[r].period)

CommentsAgree == \A c \in Stored : comment[c].open <=> comment[c].status = "Published"

JobsOK == Meeting /\ Formed

Inv == CmtTypeOK /\ JobsOK /\ Numbered /\ NumbersUnique /\ Published /\ CommentsAgree

-----------------------------------------------------------------------------
(* Lemmas about one request's job *)

\* A job that is answered is a job with the same particulars.
LEMMA AnsweredFields ==
  ASSUME NEW j \in CmtJob, NEW out \in Outcome
  PROVE  /\ Answered(j, out) \in CmtJob
         /\ Answered(j, out).at = "done" /\ Answered(j, out).out = out
         /\ Answered(j, out).op = j.op /\ Answered(j, out).copy = j.copy
         /\ Answered(j, out).period = j.period /\ Answered(j, out).number = j.number
         /\ Answered(j, out).era = j.era /\ Answered(j, out).met = j.met
         /\ Answered(j, out).sent = j.sent
BY DEF CmtJob, Answered

WithMet(j, m) == [j EXCEPT !.met = m]

\* And so is a job that meets others.
LEMMA MetFields ==
  ASSUME NEW j \in CmtJob, NEW m \in SUBSET Request
  PROVE  /\ WithMet(j, m) \in CmtJob /\ WithMet(j, m).met = m
         /\ WithMet(j, m).at = j.at /\ WithMet(j, m).out = j.out
         /\ WithMet(j, m).op = j.op /\ WithMet(j, m).copy = j.copy
         /\ WithMet(j, m).period = j.period /\ WithMet(j, m).number = j.number
         /\ WithMet(j, m).era = j.era /\ WithMet(j, m).sent = j.sent
BY DEF CmtJob, WithMet

\* What a step leaves of a job that it does not begin.
Same(q) ==
  /\ cmtJob'[q].op = cmtJob[q].op /\ cmtJob'[q].period = cmtJob[q].period
  /\ cmtJob'[q].copy = cmtJob[q].copy /\ cmtJob'[q].number = cmtJob[q].number
  /\ cmtJob'[q].sent = cmtJob[q].sent /\ cmtJob[q].met \subseteq cmtJob'[q].met

\* A job that only meets others.
Still(q) ==
  /\ Same(q) /\ cmtJob'[q].era = cmtJob[q].era
  /\ cmtJob'[q].at = cmtJob[q].at /\ cmtJob'[q].out = cmtJob[q].out

\* What a step of the request r leaves of all jobs.
Moved(r) ==
  /\ cmtJob' \in [Request -> CmtJob] /\ JobsOK'
  /\ \A q \in Request \ {r} : Still(q)
  /\ cmtJob[r].at # "new" => Same(r)
  /\ cmtJob[r].at # "done" /\ cmtJob'[r].at # "new"

\* What the stage of one job says of it.
FormedJob(j) ==
  /\ j.at # "new" /\ (j.at # "done" => j.out = "none")
  /\ j.at \in {"loaded", "count", "save"} => j.period \in Period
  /\ j.at = "loaded" => j.copy \in PeriodRow /\ j.copy # NoPeriod
  /\ j.at \in {"count", "save"} => j.op = "post"
  /\ j.at = "count" => j.sent

\* The jobs are formed when the one that moves is.
LEMMA FormedStep ==
  ASSUME NEW r \in Request, Formed, FormedJob(cmtJob'[r]), \A q \in Request \ {r} : Still(q)
  PROVE  Formed'
<1>. SUFFICES ASSUME NEW q \in Request
              PROVE  /\ cmtJob'[q].at = "new" => cmtJob'[q].op = "none"
                     /\ cmtJob'[q].at # "done" => cmtJob'[q].out = "none"
                     /\ cmtJob'[q].at \in {"loaded", "count", "save"} => cmtJob'[q].period \in Period
                     /\ cmtJob'[q].at = "loaded" => cmtJob'[q].copy \in PeriodRow /\ cmtJob'[q].copy # NoPeriod
                     /\ cmtJob'[q].at \in {"count", "save"} => cmtJob'[q].op = "post"
                     /\ cmtJob'[q].at = "count" => cmtJob'[q].sent
  BY DEF Formed
<1>1. CASE q = r
  BY <1>1 DEF FormedJob
<1>2. CASE q # r
  BY <1>2 DEF Formed, Still, Same
<1>. QED BY <1>1, <1>2

\* A request begins.
LEMMA Enters ==
  ASSUME CmtTypeOK, JobsOK, NEW r \in Request, NEW j \in CmtJob, FormedJob(j),
         cmtJob[r].at = "new", cmtJob' = Begun(cmtJob, r, j)
  PROVE  /\ Moved(r)
         /\ cmtJob'[r].at = j.at /\ cmtJob'[r].op = j.op /\ cmtJob'[r].out = j.out
         /\ cmtJob'[r].copy = j.copy /\ cmtJob'[r].period = j.period /\ cmtJob'[r].sent = j.sent
         /\ cmtJob'[r].number = j.number /\ cmtJob'[r].era = j.era
<1>. DEFINE running == {q \in Request \ {r} : Active(cmtJob[q])}
<1>. \A q \in Request : cmtJob[q] \in CmtJob /\ cmtJob[q].met \in SUBSET Request
  BY DEF CmtTypeOK, CmtJob
<1>1. /\ cmtJob'[r] = WithMet(j, running)
      /\ \A q \in running : cmtJob'[q] = WithMet(cmtJob[q], cmtJob[q].met \cup {r})
      /\ \A q \in Request \ {r} : q \notin running => cmtJob'[q] = cmtJob[q]
      /\ DOMAIN cmtJob' = Request
  BY DEF Begun, WithMet
<1>2. running \in SUBSET Request /\ \A q \in Request : cmtJob[q].met \cup {r} \in SUBSET Request
  OBVIOUS
<1>. HIDE DEF running
<1>3. /\ cmtJob'[r] \in CmtJob /\ cmtJob'[r].met = running
      /\ cmtJob'[r].at = j.at /\ cmtJob'[r].op = j.op /\ cmtJob'[r].out = j.out
      /\ cmtJob'[r].copy = j.copy /\ cmtJob'[r].period = j.period /\ cmtJob'[r].sent = j.sent
      /\ cmtJob'[r].number = j.number /\ cmtJob'[r].era = j.era
  BY <1>1, <1>2, MetFields
<1>4. \A q \in running : cmtJob'[q] \in CmtJob /\ cmtJob'[q].met = cmtJob[q].met \cup {r} /\ Still(q)
  <2>. SUFFICES ASSUME NEW q \in running
                PROVE  cmtJob'[q] \in CmtJob /\ cmtJob'[q].met = cmtJob[q].met \cup {r} /\ Still(q)
    OBVIOUS
  <2>. DEFINE m == cmtJob[q].met \cup {r}
  <2>1. q \in Request /\ cmtJob[q] \in CmtJob /\ m \in SUBSET Request
    BY <1>2 DEF running
  <2>2. cmtJob'[q] = WithMet(cmtJob[q], m)
    BY <1>1
  <2>3. cmtJob[q].met \subseteq m
    OBVIOUS
  <2>. HIDE DEF m
  <2>4. /\ cmtJob'[q] \in CmtJob /\ cmtJob'[q].met = m
        /\ cmtJob'[q].op = cmtJob[q].op /\ cmtJob'[q].copy = cmtJob[q].copy
        /\ cmtJob'[q].period = cmtJob[q].period /\ cmtJob'[q].number = cmtJob[q].number
        /\ cmtJob'[q].era = cmtJob[q].era /\ cmtJob'[q].sent = cmtJob[q].sent
        /\ cmtJob'[q].at = cmtJob[q].at /\ cmtJob'[q].out = cmtJob[q].out
    BY <2>1, <2>2, MetFields
  <2>. QED BY <2>3, <2>4 DEF m, Same, Still
<1>5. \A q \in Request \ {r} : cmtJob'[q] \in CmtJob /\ Still(q)
  BY <1>1, <1>4 DEF Same, Still
<1>6. cmtJob' \in [Request -> CmtJob]
  <2>1. \A q \in Request : cmtJob'[q] \in CmtJob
    BY <1>3, <1>5
  <2>2. cmtJob' = [q \in Request |-> cmtJob'[q]]
    BY DEF Begun
  <2>. QED BY <2>1, <2>2
<1>7. Meeting'
  <2>. SUFFICES ASSUME NEW p \in Request, NEW q \in Request, p # q,
                       Active(cmtJob'[p]), Active(cmtJob'[q])
                PROVE  q \in cmtJob'[p].met
    BY DEF Meeting, Active
  <2>1. CASE p = r
    BY <1>3, <1>5, <2>1 DEF running, Active, Still
  <2>2. CASE q = r
    BY <1>4, <1>5, <2>2 DEF running, Active, Still
  <2>3. CASE p # r /\ q # r
    BY <1>5, <2>3 DEF JobsOK, Meeting, Active, Same, Still
  <2>. QED BY <2>1, <2>2, <2>3
<1>8. Formed'
  <2>1. FormedJob(cmtJob'[r])
    BY <1>3 DEF FormedJob
  <2>. QED BY <1>5, <2>1, FormedStep DEF JobsOK
<1>9. cmtJob'[r].at # "new"
  BY <1>3 DEF FormedJob
<1>. QED BY <1>3, <1>5, <1>6, <1>7, <1>8, <1>9 DEF Moved, JobsOK

\* An active request goes on, or answers.
LEMMA GoesOn ==
  ASSUME CmtTypeOK, JobsOK, NEW r \in Request, Active(cmtJob[r]),
         NEW j \in CmtJob, FormedJob(j), cmtJob' = [cmtJob EXCEPT ![r] = j],
         j.op = cmtJob[r].op, j.period = cmtJob[r].period, j.copy = cmtJob[r].copy,
         j.number = cmtJob[r].number, j.sent = cmtJob[r].sent, j.met = cmtJob[r].met
  PROVE  Moved(r) /\ Same(r) /\ cmtJob'[r] = j
<1>1. cmtJob'[r] = j /\ \A q \in Request \ {r} : cmtJob'[q] = cmtJob[q]
  BY DEF CmtTypeOK
<1>2. Same(r) /\ \A q \in Request \ {r} : Still(q)
  BY <1>1 DEF Same, Still
<1>3. cmtJob' \in [Request -> CmtJob]
  BY DEF CmtTypeOK
<1>4. Meeting'
  <2>1. \A q \in Request : Active(cmtJob'[q]) => Active(cmtJob[q])
    BY <1>1
  <2>. QED BY <1>1, <2>1 DEF JobsOK, Meeting, Active
<1>5. Formed'
  BY <1>1, <1>2, FormedStep DEF JobsOK
<1>. QED BY <1>1, <1>2, <1>3, <1>4, <1>5 DEF Moved, JobsOK, Active, FormedJob

\* A request answers.
LEMMA Ends ==
  ASSUME CmtTypeOK, JobsOK, NEW r \in Request, NEW out \in Outcome,
         Active(cmtJob[r]), CmtFinish(r, out)
  PROVE  /\ Moved(r) /\ Same(r)
         /\ cmtJob'[r].at = "done" /\ cmtJob'[r].out = out
<1>. DEFINE j == Answered(cmtJob[r], out)
<1>1. cmtJob[r] \in CmtJob
  BY DEF CmtTypeOK
<1>2. /\ j \in CmtJob /\ j.at = "done" /\ j.out = out
      /\ j.op = cmtJob[r].op /\ j.period = cmtJob[r].period /\ j.copy = cmtJob[r].copy
      /\ j.number = cmtJob[r].number /\ j.sent = cmtJob[r].sent /\ j.met = cmtJob[r].met
  BY <1>1, AnsweredFields
<1>3. cmtJob' = [cmtJob EXCEPT ![r] = j]
  BY DEF CmtFinish
<1>. HIDE DEF j
<1>4. FormedJob(j)
  BY <1>2 DEF FormedJob
<1>. QED BY <1>2, <1>3, <1>4, GoesOn

-----------------------------------------------------------------------------
(* What a step leaves of each part of the invariant *)

\* A job whose number, after the step, is as Numbered says.
Fine(q) ==
  /\ Pending(q)' => Within(cmtJob[q])'
  /\ \A c \in Stored' :
       /\ Pending(q)' /\ Clash(cmtJob[q], comment[c])' =>
            Met(q, comment[c].by)' /\ (cmtJob'[q].sent \/ cmtJob'[comment'[c].by].sent)
       /\ Waiting(q)' /\ comment'[c].period = cmtJob'[q].period
                      /\ comment'[c].number = cmtJob'[q].number => Met(q, comment[c].by)'
  /\ \A s \in Request :
       q # s /\ Pending(q)' /\ Pending(s)' /\ Clash(cmtJob[q], cmtJob[s])' =>
         cmtJob'[q].sent \/ cmtJob'[s].sent

\* Jobs of which none gets a number that is not fine.
Quiet ==
  /\ cmtJob' \in [Request -> CmtJob] /\ JobsOK'
  /\ \A q \in Request : cmtJob[q].at = "done" => Still(q)
  /\ \A q \in Request : cmtJob'[q].at \in {"count", "save"} => Still(q) \/ Fine(q)

LEMMA QuietMove ==
  ASSUME NEW r \in Request, Moved(r), cmtJob'[r].at \notin {"count", "save"}
  PROVE  Quiet
BY DEF Moved, Quiet

LEMMA QuietStay ==
  ASSUME CmtTypeOK, JobsOK, cmtJob' = cmtJob
  PROVE  Quiet
BY DEF Quiet, CmtTypeOK, JobsOK, Meeting, Formed, Active, Still, Same

\* A step that makes no period anew, nor lowers a counter.
Rise ==
  /\ era' \in [Period -> Nat] /\ period' \in [Period -> PeriodRow \cup {NoPeriod}]
  /\ \A p \in Period :
       /\ era[p] =< era'[p]
       /\ era'[p] = era[p] /\ period'[p] # NoPeriod =>
            period[p] # NoPeriod /\ period[p].count =< period'[p].count

\* Within, after the step, of what the step leaves alone.
WithinNext(h) ==
  /\ h.era =< era'[h.period]
  /\ h.era = era'[h.period] /\ period'[h.period] # NoPeriod => h.number =< period'[h.period].count

LEMMA WithinStays ==
  ASSUME CmtTypeOK, Rise, NEW h, h.period \in Period, h.era \in Nat, h.number \in Nat, Within(h)
  PROVE  WithinNext(h)
<1>1. /\ era[h.period] \in Nat /\ era'[h.period] \in Nat /\ era[h.period] =< era'[h.period]
      /\ h.era =< era[h.period]
  BY DEF CmtTypeOK, Rise, Within
<1>2. ASSUME h.era = era'[h.period], period'[h.period] # NoPeriod
      PROVE  h.number =< period'[h.period].count
  <2>1. h.era = era[h.period] /\ era'[h.period] = era[h.period]
    BY <1>1, <1>2
  <2>2. /\ period[h.period] # NoPeriod /\ period[h.period].count =< period'[h.period].count
        /\ period[h.period] \in PeriodRow /\ period'[h.period] \in PeriodRow
    BY <1>2, <2>1 DEF Rise, CmtTypeOK
  <2>3. period[h.period].count \in Nat /\ period'[h.period].count \in Nat
    BY <2>2 DEF PeriodRow
  <2>4. h.number =< period[h.period].count
    BY <2>1, <2>2 DEF Within
  <2>. QED BY <2>2, <2>3, <2>4
<1>. QED BY <1>1, <1>2 DEF WithinNext

\* The comments that are stored keep what their numbers are about.
SameComments ==
  /\ comment' \in [Comment -> CommentRow \cup {NoComment}]
  /\ Stored' \subseteq Stored
  /\ \A c \in Stored' :
       /\ comment'[c].period = comment[c].period /\ comment'[c].number = comment[c].number
       /\ comment'[c].era = comment[c].era /\ comment'[c].by = comment[c].by

LEMMA StoredRow ==
  ASSUME CmtTypeOK, NEW c \in Stored
  PROVE  /\ comment[c] \in CommentRow /\ comment[c].period \in Period /\ comment[c].by \in Request
         /\ comment[c].era \in Nat /\ comment[c].number \in Nat
<1>1. comment[c] \in CommentRow
  BY DEF CmtTypeOK, Stored
<1>. QED BY <1>1 DEF CommentRow

\* Numbers that nobody gives or saves.
LEMMA NumbersStay ==
  ASSUME CmtTypeOK, JobsOK, Numbered, NumbersUnique, Quiet, Rise, SameComments
  PROVE  Numbered' /\ NumbersUnique'
<1>1. \A c \in Stored : /\ comment[c].by \in Request /\ Still(comment[c].by)
                        /\ cmtJob'[comment[c].by].at = "done"
  BY StoredRow DEF Numbered, Quiet, Still
<1>2. \A q \in Request : Pending(q)' \/ Waiting(q)' => Still(q) \/ Fine(q)
  BY DEF Quiet, Pending, Waiting
<1>3. \A q \in Request : Still(q) => (Pending(q)' => Pending(q)) /\ (Waiting(q)' => Waiting(q))
  BY DEF Pending, Waiting, Still
<1>4. \A c \in Stored' : Within(comment[c])'
  <2>. SUFFICES ASSUME NEW c \in Stored'
                PROVE  Within(comment[c])'
    OBVIOUS
  <2>0. c \in Stored
    BY DEF SameComments
  <2>1. WithinNext(comment[c])
    BY <2>0, StoredRow, WithinStays DEF Numbered
  <2>. QED BY <2>1 DEF Within, WithinNext, SameComments
<1>5. \A q \in Request : Pending(q)' => Within(cmtJob[q])'
  <2>. SUFFICES ASSUME NEW q \in Request, Pending(q)', Still(q)
                PROVE  Within(cmtJob[q])'
    BY <1>2 DEF Fine
  <2>1. Pending(q) /\ Still(q)
    BY <1>3
  <2>2. cmtJob[q].period \in Period
    BY <2>1 DEF Pending, JobsOK, Formed
  <2>3. cmtJob[q].era \in Nat /\ cmtJob[q].number \in Nat
    BY DEF CmtTypeOK, CmtJob
  <2>4. WithinNext(cmtJob[q])
    BY <2>1, <2>2, <2>3, WithinStays DEF Numbered
  <2>. QED BY <2>1, <2>4 DEF Within, WithinNext, Still, Same
<1>6. \A q, s \in Request : Met(q, s) /\ Still(q) /\ Still(s) => Met(q, s)'
  BY DEF Met, Still, Same
<1>7. ASSUME NEW q \in Request, Still(q), NEW c \in Stored', Pending(q)', Clash(cmtJob[q], comment[c])'
      PROVE  Met(q, comment[c].by)' /\ (cmtJob'[q].sent \/ cmtJob'[comment'[c].by].sent)
  <2>. DEFINE b == comment[c].by
  <2>0. c \in Stored
    BY DEF SameComments
  <2>1. Pending(q) /\ Still(q) /\ Still(b) /\ b \in Request
    BY <1>1, <1>3, <1>7, <2>0
  <2>2. Clash(cmtJob[q], comment[c])
    BY <1>7, <2>1 DEF Clash, Still, Same, SameComments
  <2>3. Met(q, b) /\ (cmtJob[q].sent \/ cmtJob[b].sent)
    BY <2>0, <2>1, <2>2 DEF Numbered
  <2>4. q \in cmtJob'[b].met /\ b \in cmtJob'[q].met
    BY <2>1, <2>3 DEF Met, Still, Same
  <2>5. cmtJob'[q].sent \/ cmtJob'[b].sent
    BY <2>1, <2>3 DEF Still, Same
  <2>6. comment'[c].by = b
    BY DEF SameComments
  <2>. QED BY <2>4, <2>5, <2>6 DEF Met
<1>8. ASSUME NEW q \in Request, Still(q), NEW s \in Request, Still(s), q # s, Pending(q)', Pending(s)', Clash(cmtJob[q], cmtJob[s])'
      PROVE  cmtJob'[q].sent \/ cmtJob'[s].sent
  <2>1. Pending(q) /\ Still(q) /\ Pending(s) /\ Still(s)
    BY <1>3, <1>8
  <2>2. Clash(cmtJob[q], cmtJob[s])
    BY <1>8, <2>1 DEF Clash, Still, Same
  <2>. QED BY <1>8, <2>1, <2>2 DEF Numbered, Still, Same
<1>9. ASSUME NEW q \in Request, Still(q), NEW c \in Stored', Waiting(q)',
             comment'[c].period = cmtJob'[q].period, comment'[c].number = cmtJob'[q].number
      PROVE  Met(q, comment[c].by)'
  <2>. DEFINE b == comment[c].by
  <2>0. c \in Stored
    BY DEF SameComments
  <2>1. Waiting(q) /\ Still(q) /\ Still(b) /\ b \in Request
    BY <1>1, <1>3, <1>9, <2>0
  <2>2. Met(q, b)
    BY <1>9, <2>0, <2>1 DEF Numbered, Still, Same, SameComments
  <2>3. q \in cmtJob'[b].met /\ b \in cmtJob'[q].met
    BY <2>1, <2>2 DEF Met, Still, Same
  <2>4. comment'[c].by = b
    BY DEF SameComments
  <2>. QED BY <2>3, <2>4 DEF Met
<1>10. \A c, d \in Stored' : c # d => comment'[c].by # comment'[d].by
  BY DEF SameComments, Numbered
<1>11. \A c \in Stored' : cmtJob'[comment'[c].by].at = "done"
  BY <1>1 DEF SameComments
<1>12. NumbersUnique'
  <2>. SUFFICES ASSUME NEW c \in Stored', NEW d \in Stored', c # d,
                       comment'[c].period = comment'[d].period,
                       comment'[c].number = comment'[d].number, comment'[c].era = comment'[d].era
                PROVE  /\ comment'[d].by \in cmtJob'[comment'[c].by].met
                       /\ cmtJob'[comment'[c].by].sent \/ cmtJob'[comment'[d].by].sent
    BY DEF NumbersUnique, SameComments
  <2>. DEFINE b == comment[c].by
              e == comment[d].by
  <2>0. c \in Stored /\ d \in Stored
    BY DEF SameComments
  <2>1. e \in cmtJob[b].met /\ (cmtJob[b].sent \/ cmtJob[e].sent)
    BY <2>0 DEF NumbersUnique, SameComments
  <2>2. Still(b) /\ Still(e) /\ comment'[c].by = b /\ comment'[d].by = e
    BY <1>1, <2>0 DEF SameComments
  <2>. QED BY <2>1, <2>2 DEF Still, Same
<1>13. Stored' \subseteq Stored
  BY DEF SameComments
<1>14. \A q \in Request, c \in Stored' :
         Pending(q)' /\ Clash(cmtJob[q], comment[c])' =>
           Met(q, comment[c].by)' /\ (cmtJob'[q].sent \/ cmtJob'[comment'[c].by].sent)
  BY <1>2, <1>7, <1>13 DEF Fine
<1>15. \A q, s \in Request :
         q # s /\ Pending(q)' /\ Pending(s)' /\ Clash(cmtJob[q], cmtJob[s])' =>
           cmtJob'[q].sent \/ cmtJob'[s].sent
  <2>. SUFFICES ASSUME NEW q \in Request, NEW s \in Request, q # s,
                       Pending(q)', Pending(s)', Clash(cmtJob[q], cmtJob[s])'
                PROVE  cmtJob'[q].sent \/ cmtJob'[s].sent
    OBVIOUS
  <2>1. CASE Fine(q)
    BY <2>1 DEF Fine
  <2>2. CASE Fine(s)
    <3>1. Clash(cmtJob[s], cmtJob[q])'
      BY DEF Clash
    <3>. QED BY <2>2, <3>1 DEF Fine
  <2>. QED BY <1>2, <1>8, <2>1, <2>2
<1>16. \A q \in Request, c \in Stored' :
         Waiting(q)' /\ comment'[c].period = cmtJob'[q].period /\ comment'[c].number = cmtJob'[q].number =>
           Met(q, comment[c].by)'
  BY <1>2, <1>9, <1>13 DEF Fine
<1>. QED BY <1>4, <1>5, <1>10, <1>11, <1>12, <1>14, <1>15, <1>16 DEF Numbered

\* A comment under the number its request got.
LEMMA NumbersSaved ==
  ASSUME CmtTypeOK, JobsOK, Numbered, NumbersUnique, UNCHANGED <<period, era>>,
         NEW r \in Request, Pending(r), Moved(r), Same(r), cmtJob'[r].at = "done",
         NEW c \in Comment, c \notin Stored, NEW row \in CommentRow, row.by = r, Clash(row, cmtJob[r]),
         comment' = [comment EXCEPT ![c] = row]
  PROVE  Numbered' /\ NumbersUnique'
<1>1. /\ comment'[c] = row /\ \A d \in Comment \ {c} : comment'[d] = comment[d]
      /\ c \notin Stored /\ Stored' \subseteq Stored \cup {c}
  BY DEF CmtTypeOK, Stored
<1>2. \A d \in Stored : /\ comment[d].by \in Request /\ comment[d].by # r /\ Still(comment[d].by)
                        /\ cmtJob'[comment[d].by].at = "done"
                        /\ d # c /\ d \in Comment /\ comment'[d] = comment[d]
  <2>. SUFFICES ASSUME NEW d \in Stored
                PROVE  /\ comment[d].by \in Request /\ comment[d].by # r /\ Still(comment[d].by)
                       /\ cmtJob'[comment[d].by].at = "done"
                       /\ d # c /\ d \in Comment /\ comment'[d] = comment[d]
    OBVIOUS
  <2>1. comment[d].by \in Request /\ cmtJob[comment[d].by].at = "done" /\ cmtJob[r].at = "save"
    BY StoredRow DEF Numbered, Pending
  <2>2. d # c /\ d \in Comment /\ comment'[d] = comment[d]
    BY <1>1 DEF Stored
  <2>. QED BY <2>1, <2>2 DEF Moved, Still
<1>3. \A q \in Request : Pending(q)' \/ Waiting(q)' =>
        q # r /\ Still(q) /\ (Pending(q)' => Pending(q)) /\ (Waiting(q)' => Waiting(q))
  BY DEF Moved, Pending, Waiting, Still
<1>4. /\ \A d \in Stored' : Within(comment[d])' /\ cmtJob'[comment'[d].by].at = "done"
      /\ \A q \in Request : Pending(q)' => Within(cmtJob[q])'
  <2>1. Within(cmtJob[r])
    BY DEF Numbered
  <2>2. Within(comment[c])'
    BY <1>1, <2>1 DEF Within, Clash
  <2>3. \A d \in Stored : Within(comment[d])' /\ cmtJob'[comment'[d].by].at = "done"
    BY <1>2 DEF Numbered, Within
  <2>4. \A q \in Request : Pending(q)' => Within(cmtJob[q])'
    BY <1>3 DEF Numbered, Within, Still, Same
  <2>. QED BY <1>1, <2>2, <2>3, <2>4
<1>5. \A d, e \in Stored' : d # e => comment'[d].by # comment'[e].by
  BY <1>1, <1>2 DEF Numbered
<1>6. ASSUME NEW q \in Request, Pending(q)' \/ Waiting(q)'
      PROVE  q \in cmtJob'[r].met /\ r \in cmtJob'[q].met
  <2>1. q # r /\ Still(q) /\ Active(cmtJob[q]) /\ Active(cmtJob[r])
    BY <1>3, <1>6 DEF Active, Pending, Waiting
  <2>2. q \in cmtJob[r].met /\ r \in cmtJob[q].met
    BY <2>1 DEF JobsOK, Meeting
  <2>. QED BY <2>1, <2>2 DEF Still, Same
<1>7. ASSUME NEW q \in Request, NEW d \in Stored', Pending(q)', Clash(cmtJob[q], comment[d])'
      PROVE  Met(q, comment[d].by)' /\ (cmtJob'[q].sent \/ cmtJob'[comment'[d].by].sent)
  <2>0. q # r /\ Still(q) /\ Pending(q)
    BY <1>3, <1>7
  <2>1. CASE d = c
    <3>1. Met(q, comment[d].by)'
      BY <1>1, <1>6, <1>7, <2>1 DEF Met
    <3>2. Clash(cmtJob[q], cmtJob[r])
      BY <1>1, <1>7, <2>0, <2>1 DEF Clash, Still, Same
    <3>3. cmtJob[q].sent \/ cmtJob[r].sent
      BY <2>0, <3>2 DEF Numbered
    <3>. QED BY <1>1, <2>0, <2>1, <3>1, <3>3 DEF Still, Same
  <2>2. CASE d # c
    <3>. DEFINE b == comment[d].by
    <3>1. d \in Stored /\ comment'[d] = comment[d] /\ Still(b)
      BY <1>1, <1>2, <2>2
    <3>2. Clash(cmtJob[q], comment[d])
      BY <1>7, <2>0, <3>1 DEF Clash, Still, Same
    <3>3. Met(q, b) /\ (cmtJob[q].sent \/ cmtJob[b].sent)
      BY <2>0, <3>1, <3>2 DEF Numbered
    <3>. QED BY <2>0, <3>1, <3>3 DEF Met, Still, Same
  <2>. QED BY <2>1, <2>2
<1>8. \A q, p \in Request :
        q # p /\ Pending(q)' /\ Pending(p)' /\ Clash(cmtJob[q], cmtJob[p])' =>
          cmtJob'[q].sent \/ cmtJob'[p].sent
  <2>. SUFFICES ASSUME NEW q \in Request, NEW p \in Request, q # p,
                       Pending(q)', Pending(p)', Clash(cmtJob[q], cmtJob[p])'
                PROVE  cmtJob'[q].sent \/ cmtJob'[p].sent
    OBVIOUS
  <2>1. Still(q) /\ Still(p) /\ Pending(q) /\ Pending(p)
    BY <1>3
  <2>2. Clash(cmtJob[q], cmtJob[p])
    BY <2>1 DEF Clash, Still, Same
  <2>. QED BY <2>1, <2>2 DEF Numbered, Still, Same
<1>9. ASSUME NEW q \in Request, NEW d \in Stored', Waiting(q)',
             comment'[d].period = cmtJob'[q].period, comment'[d].number = cmtJob'[q].number
      PROVE  Met(q, comment[d].by)'
  <2>0. q # r /\ Still(q) /\ Waiting(q)
    BY <1>3, <1>9
  <2>1. CASE d = c
    BY <1>1, <1>6, <1>9, <2>1 DEF Met
  <2>2. CASE d # c
    <3>. DEFINE b == comment[d].by
    <3>1. d \in Stored /\ comment'[d] = comment[d] /\ Still(b)
      BY <1>1, <1>2, <2>2
    <3>2. Met(q, b)
      BY <1>9, <2>0, <3>1 DEF Numbered, Still, Same
    <3>. QED BY <2>0, <3>1, <3>2 DEF Met, Still, Same
  <2>. QED BY <2>1, <2>2
<1>10. \A d \in Stored :
         comment[d].period = row.period /\ comment[d].number = row.number /\ comment[d].era = row.era =>
           /\ comment[d].by \in cmtJob'[r].met /\ r \in cmtJob'[comment[d].by].met
           /\ cmtJob'[r].sent \/ cmtJob'[comment[d].by].sent
  <2>. SUFFICES ASSUME NEW d \in Stored, comment[d].period = row.period,
                       comment[d].number = row.number, comment[d].era = row.era
                PROVE  /\ comment[d].by \in cmtJob'[r].met /\ r \in cmtJob'[comment[d].by].met
                       /\ cmtJob'[r].sent \/ cmtJob'[comment[d].by].sent
    OBVIOUS
  <2>1. Clash(cmtJob[r], comment[d])
    BY DEF Clash
  <2>2. Met(r, comment[d].by) /\ (cmtJob[r].sent \/ cmtJob[comment[d].by].sent)
    BY <2>1 DEF Numbered
  <2>3. Same(r) /\ Same(comment[d].by)
    BY <1>2 DEF Still
  <2>. QED BY <2>2, <2>3 DEF Met, Same
<1>11. NumbersUnique'
  <2>. SUFFICES ASSUME NEW d \in Stored', NEW e \in Stored', d # e,
                       comment'[d].period = comment'[e].period,
                       comment'[d].number = comment'[e].number, comment'[d].era = comment'[e].era
                PROVE  /\ comment'[e].by \in cmtJob'[comment'[d].by].met
                       /\ cmtJob'[comment'[d].by].sent \/ cmtJob'[comment'[e].by].sent
    BY DEF NumbersUnique
  <2>1. CASE d = c
    BY <1>1, <1>2, <1>10, <2>1
  <2>2. CASE e = c
    BY <1>1, <1>2, <1>10, <2>2
  <2>3. CASE d # c /\ e # c
    <3>1. /\ d \in Stored /\ e \in Stored /\ comment'[d] = comment[d] /\ comment'[e] = comment[e]
          /\ Still(comment[d].by) /\ Still(comment[e].by)
      BY <1>1, <1>2, <2>3
    <3>2. /\ comment[e].by \in cmtJob[comment[d].by].met
          /\ cmtJob[comment[d].by].sent \/ cmtJob[comment[e].by].sent
      BY <3>1 DEF NumbersUnique
    <3>. QED BY <3>1, <3>2 DEF Still, Same
  <2>. QED BY <2>1, <2>2, <2>3
<1>. QED BY <1>4, <1>5, <1>7, <1>8, <1>9, <1>11 DEF Numbered

\* The row of a period is rewritten, and its counter does not fall.
LEMMA RowMoves ==
  ASSUME CmtTypeOK, NEW p \in Period, period[p] # NoPeriod, NEW row \in PeriodRow,
         period[p].count =< row.count, period' = [period EXCEPT ![p] = row], era' = era
  PROVE  Rise /\ period'[p] = row /\ \A q \in Period \ {p} : period'[q] = period[q]
<1>1. period'[p] = row /\ \A q \in Period \ {p} : period'[q] = period[q]
  BY DEF CmtTypeOK
<1>2. era' \in [Period -> Nat] /\ period' \in [Period -> PeriodRow \cup {NoPeriod}]
  BY DEF CmtTypeOK
<1>3. \A q \in Period : era[q] \in Nat /\ (period[q] # NoPeriod => period[q].count \in Nat)
  BY DEF CmtTypeOK, PeriodRow
<1>. QED BY <1>1, <1>2, <1>3 DEF Rise

LEMMA PeriodsStay ==
  ASSUME CmtTypeOK, UNCHANGED <<period, era>>
  PROVE  Rise
<1>1. \A q \in Period : era[q] \in Nat /\ (period[q] # NoPeriod => period[q].count \in Nat)
  BY DEF CmtTypeOK, PeriodRow
<1>. QED BY <1>1 DEF Rise, CmtTypeOK

LEMMA CommentsStay ==
  ASSUME CmtTypeOK, CommentsAgree, comment' = comment
  PROVE  SameComments /\ CommentsAgree'
BY DEF SameComments, CmtTypeOK, Stored, CommentsAgree

\* An excuse is one for good.
LEMMA ExcusedForGood ==
  ASSUME JobsOK, \A q \in Request : cmtJob[q].at = "done" => Still(q), NEW p
  PROVE  Excused(p) => Excused(p)'
<1>1. \A q \in Request : cmtJob[q].out = "ok" => Still(q)
  BY DEF JobsOK, Formed
<1>. QED BY <1>1 DEF Excused, Still, Same

\* A row that a step writes agrees, has the flags it had, or is excused; a copy
\* that is loaded is the row.
Kept(p) ==
  \/ period'[p] = NoPeriod \/ Agrees(period[p])' \/ Excused(p)'
  \/ /\ period[p] # NoPeriod /\ period'[p].published = period[p].published
     /\ period'[p].open = period[p].open

LEMMA PublishedStep ==
  ASSUME Inv, \A q \in Request : cmtJob[q].at = "done" => Still(q),
         \A p \in Period : Kept(p),
         \A q \in Request : cmtJob'[q].at = "loaded" =>
            \/ Still(q)
            \/ cmtJob'[q].period \in Period /\ cmtJob'[q].copy = period[cmtJob'[q].period]
                                            /\ cmtJob'[q].copy # NoPeriod
  PROVE  Published'
<1>1. \A p \in Period : Excused(p) => Excused(p)'
  BY ExcusedForGood DEF Inv
<1>2. ASSUME NEW p \in Period
      PROVE  period'[p] = NoPeriod \/ Agrees(period[p])' \/ Excused(p)'
  <2>1. CASE /\ period[p] # NoPeriod /\ period'[p].published = period[p].published
             /\ period'[p].open = period[p].open
    <3>1. Agrees(period[p]) \/ Excused(p)
      BY <2>1 DEF Inv, Published
    <3>. QED BY <1>1, <2>1, <3>1 DEF Agrees
  <2>. QED BY <2>1 DEF Kept
<1>3. ASSUME NEW q \in Request, cmtJob'[q].at = "loaded"
      PROVE  Agrees(cmtJob[q].copy)' \/ Excused(cmtJob[q].period)'
  <2>1. CASE Still(q)
    <3>1. cmtJob[q].at = "loaded" /\ cmtJob'[q].copy = cmtJob[q].copy /\ cmtJob'[q].period = cmtJob[q].period
      BY <1>3, <2>1 DEF Still, Same
    <3>2. cmtJob[q].period \in Period
      BY <3>1 DEF Inv, JobsOK, Formed
    <3>3. Agrees(cmtJob[q].copy) \/ Excused(cmtJob[q].period)
      BY <3>1 DEF Inv, Published
    <3>4. Excused(cmtJob[q].period) => Excused(cmtJob[q].period)'
      <4>. DEFINE p == cmtJob[q].period
      <4>1. \A x \in Request : cmtJob[x].out = "ok" => Still(x)
        BY DEF Inv, JobsOK, Formed
      <4>. QED BY <3>1, <4>1 DEF Excused, Still, Same
    <3>. QED BY <3>1, <3>3, <3>4 DEF Agrees
  <2>2. CASE /\ cmtJob'[q].period \in Period /\ cmtJob'[q].copy = period[cmtJob'[q].period]
             /\ cmtJob'[q].copy # NoPeriod
    <3>1. PICK p \in Period : p = cmtJob'[q].period
      BY <2>2
    <3>2. Agrees(period[p]) \/ Excused(p)
      BY <2>2, <3>1 DEF Inv, Published
    <3>3. CASE Agrees(period[p])
      BY <2>2, <3>1, <3>3 DEF Agrees
    <3>4. CASE Excused(p)
      <4>1. Excused(p)'
        BY <1>1, <3>4
      <4>. QED BY <3>1, <4>1 DEF Excused
    <3>. QED BY <3>2, <3>3, <3>4
  <2>. QED BY <1>3, <2>1, <2>2
<1>. QED BY <1>2, <1>3 DEF Published

\* A step that keeps the parts keeps the invariant.
LEMMA Together ==
  ASSUME Inv, Quiet, Rise, SameComments, CommentsAgree', Published'
  PROVE  Inv'
<1>1. CmtTypeOK'
  BY DEF CmtTypeOK, Quiet, Rise, SameComments
<1>2. Numbered' /\ NumbersUnique'
  BY NumbersStay DEF Inv
<1>. QED BY <1>1, <1>2 DEF Inv, Quiet

-----------------------------------------------------------------------------
(* The steps *)

\* A step that leaves periods and comments alone.
LEMMA JobsAlone ==
  ASSUME Inv, NEW r \in Request, Moved(r), cmtJob'[r].at \notin {"count", "save"},
         UNCHANGED <<period, era, comment>>,
         cmtJob'[r].at = "loaded" =>
           /\ cmtJob'[r].period \in Period /\ cmtJob'[r].copy = period[cmtJob'[r].period]
           /\ cmtJob'[r].copy # NoPeriod
  PROVE  Inv'
<1>1. Quiet
  BY QuietMove
<1>2. Rise /\ SameComments /\ CommentsAgree'
  BY PeriodsStay, CommentsStay DEF Inv
<1>3. Published'
  <2>1. \A q \in Request : cmtJob[q].at = "done" => Still(q)
    BY DEF Moved
  <2>2. \A p \in Period : Kept(p)
    BY DEF Kept
  <2>3. \A q \in Request : q = r \/ Still(q)
    BY DEF Moved
  <2>. QED BY <2>1, <2>2, <2>3, PublishedStep
<1>. QED BY <1>1, <1>2, <1>3, Together

\* A step of one request of which one row of a period, or none, is rewritten.
LEMMA RowSaved ==
  ASSUME Inv, NEW r \in Request, Moved(r), cmtJob'[r].at = "done",
         NEW p \in Period, period[p] # NoPeriod, NEW row \in PeriodRow, period[p].count =< row.count,
         period' = [period EXCEPT ![p] = row], UNCHANGED <<era, comment>>,
         Agrees(row) \/ Excused(p)'
  PROVE  Inv'
<1>1. Quiet
  BY QuietMove
<1>2. Rise /\ period'[p] = row /\ \A q \in Period \ {p} : period'[q] = period[q]
  BY RowMoves DEF Inv
<1>3. SameComments /\ CommentsAgree'
  BY CommentsStay DEF Inv
<1>4. Published'
  <2>1. /\ \A q \in Request : cmtJob[q].at = "done" => Still(q)
        /\ \A q \in Request : cmtJob'[q].at = "loaded" => Still(q)
    BY DEF Moved
  <2>2. Kept(p)
    BY <1>2 DEF Kept, Agrees
  <2>3. \A q \in Period \ {p} : Kept(q)
    BY <1>2 DEF Kept
  <2>. QED BY <2>1, <2>2, <2>3, PublishedStep
<1>. QED BY <1>1, <1>2, <1>3, <1>4, Together

\* Posting, putting and deleting a period.
LEMMA PeriodSteps ==
  ASSUME Inv, NEW p \in Period,
         DropPeriod(p) \/ \E show \in BOOLEAN : PostPeriod(p, show) \/ PutPeriod(p, show)
  PROVE  Inv'
<1>1. cmtJob' = cmtJob /\ comment' = comment
  BY DEF DropPeriod, PostPeriod, PutPeriod
<1>2. Quiet /\ SameComments /\ CommentsAgree'
  BY <1>1, QuietStay, CommentsStay DEF Inv
<1>3. \A q \in Request : Still(q)
  BY <1>1 DEF Still, Same
<1>4. period \in [Period -> PeriodRow \cup {NoPeriod}] /\ era \in [Period -> Nat]
  BY DEF Inv, CmtTypeOK
<1>5. \A q \in Period : era[q] \in Nat /\ (period[q] # NoPeriod => period[q].count \in Nat)
  BY <1>4 DEF PeriodRow
<1>6. Rise /\ \A q \in Period : Kept(q)
  <2>1. CASE DropPeriod(p)
    <3>1. period' = [period EXCEPT ![p] = NoPeriod] /\ era' = era
      BY <2>1 DEF DropPeriod
    <3>2. Rise
      BY <1>4, <1>5, <3>1 DEF Rise
    <3>3. \A q \in Period : period'[q] = NoPeriod \/ period'[q] = period[q]
      BY <1>4, <3>1
    <3>. QED BY <3>2, <3>3 DEF Kept
  <2>2. ASSUME NEW show \in BOOLEAN, PostPeriod(p, show)
        PROVE  Rise /\ \A q \in Period : Kept(q)
    <3>. DEFINE row == [count |-> 0, published |-> Shown(show), open |-> show, ver |-> 0]
    <3>1. /\ period[p] = NoPeriod /\ period' = [period EXCEPT ![p] = row]
          /\ era' = [era EXCEPT ![p] = era[p] + 1]
      BY <2>2 DEF PostPeriod
    <3>2. row \in PeriodRow
      BY DEF PeriodRow, Shown, Flag
    <3>3. row.published = "yes" <=> row.open
      BY DEF Shown
    <3>. HIDE DEF row
    <3>4. period'[p] = row /\ \A q \in Period \ {p} : period'[q] = period[q] /\ era'[q] = era[q]
      BY <1>4, <3>1
    <3>5. era'[p] = era[p] + 1 /\ era' \in [Period -> Nat] /\ period' \in [Period -> PeriodRow \cup {NoPeriod}]
      BY <1>4, <3>1, <3>2
    <3>6. Rise
      BY <1>5, <3>4, <3>5 DEF Rise
    <3>7. Kept(p)
      BY <3>3, <3>4 DEF Kept, Agrees
    <3>. QED BY <3>4, <3>6, <3>7 DEF Kept
  <2>3. ASSUME NEW show \in BOOLEAN, PutPeriod(p, show)
        PROVE  Rise /\ \A q \in Period : Kept(q)
    <3>. DEFINE row == [period[p] EXCEPT !.published = Shown(show), !.open = show]
    <3>1. period[p] # NoPeriod /\ period' = [period EXCEPT ![p] = row] /\ era' = era
      BY <2>3 DEF PutPeriod
    <3>2. period[p] \in PeriodRow /\ Shown(show) \in Flag
      BY <1>4, <3>1 DEF Shown, Flag
    <3>3. row \in PeriodRow
      BY <3>2 DEF PeriodRow
    <3>4. row.count = period[p].count /\ (row.published = "yes" <=> row.open)
      BY <3>2 DEF PeriodRow, Shown
    <3>5. period[p].count =< row.count
      BY <1>5, <3>1, <3>4
    <3>. HIDE DEF row
    <3>6. Rise /\ period'[p] = row /\ \A q \in Period \ {p} : period'[q] = period[q]
      BY <3>1, <3>3, <3>5, RowMoves DEF Inv
    <3>7. Kept(p)
      BY <3>4, <3>6 DEF Kept, Agrees
    <3>. QED BY <3>6, <3>7 DEF Kept
  <2>. QED BY <2>1, <2>2, <2>3
<1>7. Published'
  BY <1>3, <1>6, PublishedStep
<1>. QED BY <1>2, <1>6, <1>7, Together

\* A handler that worked on a loaded copy answers.
LEMMA AnswersCopy ==
  ASSUME Inv, NEW r \in Request, cmtJob[r].at = "loaded", NEW out \in Outcome, CmtFinish(r, out)
  PROVE  /\ Moved(r) /\ Same(r) /\ cmtJob'[r].at = "done" /\ cmtJob'[r].out = out
         /\ cmtJob[r].period \in Period /\ cmtJob[r].copy \in PeriodRow /\ cmtJob[r].copy # NoPeriod
         /\ Agrees(cmtJob[r].copy) \/ Excused(cmtJob[r].period)
<1>1. Active(cmtJob[r])
  BY DEF Active
<1>2. Moved(r) /\ Same(r) /\ cmtJob'[r].at = "done" /\ cmtJob'[r].out = out
  BY <1>1, Ends DEF Inv
<1>. QED BY <1>2 DEF Inv, JobsOK, Formed, Published

\* An excuse of the period of r, after r's step.
LEMMA ExcusedNow ==
  ASSUME Inv, NEW r \in Request, Moved(r), Same(r), cmtJob'[r].at = "done", cmtJob[r].at = "loaded",
         NEW p, p = cmtJob[r].period, cmtJob[r].copy # NoPeriod,
         \/ Excused(p)
         \/ cmtJob[r].copy.published = "unset" /\ cmtJob'[r].out = "ok"
  PROVE  Excused(p)'
<1>1. CASE Excused(p)
  <2>1. \A q \in Request : cmtJob[q].at = "done" => Still(q)
    BY DEF Moved
  <2>. QED BY <1>1, <2>1, ExcusedForGood DEF Inv
<1>2. CASE cmtJob[r].copy.published = "unset" /\ cmtJob'[r].out = "ok"
  BY <1>2 DEF Excused, Same
<1>. QED BY <1>1, <1>2

\* The row that a publish saves: it agrees, or lacked nothing.
LEMMA PublishedRowFacts ==
  ASSUME NEW row \in PeriodRow, NEW copy \in PeriodRow
  PROVE  /\ PublishedRow(row, copy) \in PeriodRow
         /\ PublishedRow(row, copy).count = row.count
         /\ copy.published = "yes" /\ copy.open => PublishedRow(row, copy) = row
         /\ \/ Agrees(PublishedRow(row, copy)) \/ copy.published = "unset" \/ ~Agrees(copy)
            \/ copy.published = "yes" /\ copy.open
<1>. DEFINE flag == IF copy.published = "yes" THEN row.published ELSE "yes"
            open == row.open \/ ~copy.open
            ver == IF copy.open THEN row.ver ELSE row.ver + 1
            new == [row EXCEPT !.published = flag, !.open = open, !.ver = ver]
<1>1. PublishedRow(row, copy) = new
  BY DEF PublishedRow
<1>2. flag \in Flag /\ open \in BOOLEAN
  BY DEF PeriodRow, Flag
<1>3. ver \in Nat
  BY DEF PeriodRow
<1>4. copy.published = "yes" /\ copy.open =>
        flag = row.published /\ (open <=> row.open) /\ ver = row.ver
  OBVIOUS
<1>5. copy.published = "no" /\ ~copy.open => flag = "yes" /\ open
  OBVIOUS
<1>6. copy.published \in {"unset", "yes", "no"} /\ copy.open \in BOOLEAN
  BY DEF PeriodRow, Flag
<1>. HIDE DEF flag, open, ver
<1>7. new \in PeriodRow /\ new.count = row.count
  BY <1>2, <1>3 DEF PeriodRow
<1>8. copy.published = "yes" /\ copy.open => new = row
  BY <1>2, <1>4 DEF PeriodRow
<1>9. new.published = flag /\ new.open = open
  BY DEF PeriodRow
<1>10. Agrees(new) \/ copy.published = "unset" \/ ~Agrees(copy) \/ (copy.published = "yes" /\ copy.open)
  <2>1. CASE copy.published = "no" /\ ~copy.open
    BY <1>5, <1>9, <2>1 DEF Agrees
  <2>. QED BY <1>6, <2>1 DEF Agrees
<1>. QED BY <1>1, <1>7, <1>8, <1>10

\* And the row that an unPublish saves.
LEMMA UnPublishedRowFacts ==
  ASSUME NEW row \in PeriodRow, NEW copy \in PeriodRow, ~(copy.published = "no" /\ ~copy.open)
  PROVE  /\ UnPublishedRow(row, copy) \in PeriodRow
         /\ UnPublishedRow(row, copy).count = row.count
         /\ Agrees(UnPublishedRow(row, copy)) \/ copy.published = "unset" \/ ~Agrees(copy)
<1>. DEFINE flag == IF copy.published = "no" THEN row.published ELSE "no"
            open == row.open /\ ~copy.open
            ver == IF copy.open THEN row.ver + 1 ELSE row.ver
            new == [row EXCEPT !.published = flag, !.open = open, !.ver = ver]
<1>1. UnPublishedRow(row, copy) = new
  BY DEF UnPublishedRow
<1>2. flag \in Flag /\ open \in BOOLEAN
  BY DEF PeriodRow, Flag
<1>3. ver \in Nat
  BY DEF PeriodRow
<1>4. copy.published = "yes" /\ copy.open => flag = "no" /\ ~open
  OBVIOUS
<1>5. copy.published \in {"unset", "yes", "no"} /\ copy.open \in BOOLEAN
  BY DEF PeriodRow, Flag
<1>. HIDE DEF flag, open, ver
<1>6. new \in PeriodRow /\ new.count = row.count
  BY <1>2, <1>3 DEF PeriodRow
<1>7. new.published = flag /\ new.open = open
  BY DEF PeriodRow
<1>8. Agrees(new) \/ copy.published = "unset" \/ ~Agrees(copy)
  <2>1. CASE copy.published = "yes" /\ copy.open
    BY <1>4, <1>7, <2>1 DEF Agrees
  <2>. QED BY <1>5, <2>1 DEF Agrees
<1>. QED BY <1>1, <1>6, <1>8

\* The saves of publish and unPublish.
LEMMA SaveSteps ==
  ASSUME Inv, NEW r \in Request, SavePublish(r) \/ SaveUnPublish(r)
  PROVE  Inv'
<1>1. cmtJob[r].at = "loaded" /\ UNCHANGED <<era, comment>>
  BY DEF SavePublish, SaveUnPublish
<1>2. PICK out \in {"ok", "failed"} : CmtFinish(r, out) /\ (period' = period \/ out = "ok")
  BY DEF SavePublish, SaveUnPublish
<1>3. /\ Moved(r) /\ Same(r) /\ cmtJob'[r].at = "done" /\ cmtJob'[r].out = out
      /\ cmtJob[r].period \in Period /\ cmtJob[r].copy \in PeriodRow /\ cmtJob[r].copy # NoPeriod
      /\ Agrees(cmtJob[r].copy) \/ Excused(cmtJob[r].period)
  BY <1>1, <1>2, AnswersCopy DEF Outcome
<1>4. PICK p \in Period : p = cmtJob[r].period
  BY <1>3
<1>5. PICK copy \in PeriodRow : copy = cmtJob[r].copy
  BY <1>3
<1>6. CASE period' = period
  BY <1>1, <1>3, <1>6, JobsAlone
<1>7. CASE period' # period
  <2>1. period[p] # NoPeriod /\ cmtJob'[r].out = "ok"
    BY <1>2, <1>3, <1>4, <1>7 DEF SavePublish, SaveUnPublish
  <2>2. period[p] \in PeriodRow
    BY <2>1 DEF Inv, CmtTypeOK
  <2>3. copy.published = "unset" \/ Excused(p) => Excused(p)'
    BY <1>1, <1>3, <1>4, <1>5, <2>1, ExcusedNow
  <2>4. Agrees(copy) \/ Excused(p)
    <3>1. CASE Agrees(cmtJob[r].copy)
      BY <1>5, <3>1
    <3>2. CASE Excused(cmtJob[r].period)
      BY <1>4, <3>2
    <3>. QED BY <1>3, <3>1, <3>2
  <2>5. period[p].count \in Nat
    BY <2>2 DEF PeriodRow
  <2>6. CASE SavePublish(r)
    <3>1. PICK row \in PeriodRow : row = PublishedRow(period[p], copy)
      BY <2>2, PublishedRowFacts
    <3>2. period' = [period EXCEPT ![p] = row]
      BY <1>4, <1>5, <2>1, <2>6, <3>1 DEF SavePublish
    <3>3. period[p].count =< row.count
      <4>1. row.count = period[p].count
        BY <2>2, <3>1, PublishedRowFacts
      <4>. QED BY <2>5, <4>1
    <3>4. row # period[p]
      <4>. SUFFICES ASSUME row = period[p] PROVE period' = period
        BY <1>7
      <4>1. period' = [period EXCEPT ![p] = period[p]] /\ period \in [Period -> PeriodRow \cup {NoPeriod}]
        BY <3>2 DEF Inv, CmtTypeOK
      <4>. QED BY <4>1
    <3>5. Agrees(row) \/ Excused(p)'
      BY <2>2, <2>3, <2>4, <3>1, <3>4, PublishedRowFacts
    <3>. QED BY <1>1, <1>3, <2>1, <3>2, <3>3, <3>5, RowSaved
  <2>7. CASE SaveUnPublish(r)
    <3>1. ~(copy.published = "no" /\ ~copy.open)
      BY <1>5, <1>7, <2>7 DEF SaveUnPublish
    <3>2. PICK row \in PeriodRow : row = UnPublishedRow(period[p], copy)
      BY <2>2, <3>1, UnPublishedRowFacts
    <3>3. period' = [period EXCEPT ![p] = row]
      BY <1>4, <1>5, <1>7, <2>1, <2>7, <3>2 DEF SaveUnPublish
    <3>4. period[p].count =< row.count
      <4>1. row.count = period[p].count
        BY <2>2, <3>1, <3>2, UnPublishedRowFacts
      <4>. QED BY <2>5, <4>1
    <3>5. Agrees(row) \/ Excused(p)'
      BY <2>2, <2>3, <2>4, <3>1, <3>2, UnPublishedRowFacts
    <3>. QED BY <1>1, <1>3, <2>1, <3>3, <3>4, <3>5, RowSaved
  <2>. QED BY <2>6, <2>7
<1>. QED BY <1>6, <1>7

\* A request that fails at once.
LEMMA Refused ==
  ASSUME Inv, NEW r \in Request, cmtJob[r].at = "new", NEW job \in CmtJob,
         cmtJob' = Begun(cmtJob, r, Answered(job, "failed")), UNCHANGED <<period, era, comment>>
  PROVE  Inv'
<1>1. PICK j \in CmtJob : j = Answered(job, "failed") /\ j.at = "done"
  BY AnsweredFields DEF Outcome
<1>2. FormedJob(j) /\ cmtJob' = Begun(cmtJob, r, j)
  BY <1>1 DEF FormedJob
<1>3. Moved(r) /\ cmtJob'[r].at = "done"
  BY <1>1, <1>2, Enters DEF Inv
<1>. QED BY <1>3, JobsAlone

\* Loading a period.
LEMMA LoadSteps ==
  ASSUME Inv, NEW r \in Request, NEW op \in {"publish", "unpublish", "export"}, NEW p \in Period,
         LoadPeriod(r, op, p)
  PROVE  Inv'
<1>. DEFINE job == [NewCmtJob EXCEPT !.op = op, !.at = "loaded", !.period = p, !.copy = period[p]]
<1>1. /\ cmtJob[r].at = "new" /\ UNCHANGED <<period, era, comment>>
      /\ cmtJob' = Begun(cmtJob, r, IF period[p] = NoPeriod THEN Answered(job, "failed") ELSE job)
  BY DEF LoadPeriod, CmtBegin
<1>2. period[p] \in PeriodRow \cup {NoPeriod}
  BY DEF Inv, CmtTypeOK
<1>3. job \in CmtJob
  BY <1>2 DEF NewCmtJob, CmtJob, Outcome
<1>4. job.at = "loaded" /\ job.out = "none" /\ job.period = p /\ job.copy = period[p]
  BY DEF NewCmtJob
<1>. HIDE DEF job
<1>5. CASE period[p] = NoPeriod
  BY <1>1, <1>3, <1>5, Refused
<1>6. CASE period[p] # NoPeriod
  <2>1. FormedJob(job)
    BY <1>2, <1>4, <1>6 DEF FormedJob
  <2>2. cmtJob' = Begun(cmtJob, r, job)
    BY <1>1, <1>6
  <2>3. Moved(r) /\ cmtJob'[r].at = "loaded" /\ cmtJob'[r].period = p /\ cmtJob'[r].copy = period[p]
    BY <1>1, <1>3, <1>4, <2>1, <2>2, Enters DEF Inv
  <2>. QED BY <1>1, <1>6, <2>3, JobsAlone
<1>. QED BY <1>5, <1>6

\* A request that is given a number, or keeps the one it was sent with.
LEMMA Given ==
  ASSUME Inv, NEW r \in Request, Moved(r), cmtJob'[r].at # "loaded", Fine(r), Rise,
         \A p \in Period : Kept(p), comment' = comment
  PROVE  Inv'
<1>1. Quiet
  BY DEF Moved, Quiet
<1>2. SameComments /\ CommentsAgree'
  BY CommentsStay DEF Inv
<1>3. Published'
  <2>1. /\ \A q \in Request : cmtJob[q].at = "done" => Still(q)
        /\ \A q \in Request : cmtJob'[q].at = "loaded" => Still(q)
    BY DEF Moved
  <2>. QED BY <2>1, PublishedStep
<1>. QED BY <1>1, <1>2, <1>3, Together

\* The counter of a period rises, and nothing else of it but its version.
LEMMA CounterRises ==
  ASSUME Inv, NEW p \in Period, period[p] # NoPeriod, NEW n \in Nat, period[p].count =< n,
         period' = [period EXCEPT ![p] = Counted(period[p], n)], era' = era
  PROVE  /\ Rise /\ \A q \in Period : Kept(q)
         /\ period'[p].count = n
<1>. DEFINE row == Counted(period[p], n)
<1>1. period[p] \in PeriodRow
  BY DEF Inv, CmtTypeOK
<1>2. period[p].ver + 1 \in Nat
  BY <1>1 DEF PeriodRow
<1>3. /\ row \in PeriodRow /\ row.count = n
      /\ row.published = period[p].published /\ row.open = period[p].open
  BY <1>1, <1>2 DEF PeriodRow, Counted
<1>4. period' = [period EXCEPT ![p] = row]
  OBVIOUS
<1>. HIDE DEF row
<1>5. Rise /\ period'[p] = row /\ \A q \in Period \ {p} : period'[q] = period[q]
  BY <1>3, <1>4, RowMoves DEF Inv
<1>6. \A q \in Period : Kept(q)
  BY <1>3, <1>5 DEF Kept
<1>. QED BY <1>3, <1>5, <1>6

\* Posting a comment with a number.
LEMMA PostSentSteps ==
  ASSUME Inv, NEW r \in Request, NEW p \in Period, NEW n \in Sent, PostSent(r, p, n)
  PROVE  Inv'
<1>. DEFINE job == [NewCmtJob EXCEPT !.op = "post", !.at = "count", !.period = p,
                                     !.number = n, !.sent = TRUE]
            taken == \E c \in Stored : comment[c].period = p /\ comment[c].number = n
<1>1. /\ cmtJob[r].at = "new" /\ UNCHANGED <<period, era, comment>>
      /\ cmtJob' = Begun(cmtJob, r, IF taken THEN Answered(job, "failed") ELSE job)
  BY DEF PostSent, CmtBegin
<1>2. n \in Nat
  BY SentAssumption
<1>3. job \in CmtJob
  BY <1>2 DEF NewCmtJob, CmtJob, Outcome
<1>4. /\ job.at = "count" /\ job.out = "none" /\ job.op = "post" /\ job.period = p
      /\ job.number = n /\ job.sent
  BY DEF NewCmtJob
<1>. HIDE DEF job
<1>5. CASE taken
  BY <1>1, <1>3, <1>5, Refused
<1>6. CASE ~taken
  <2>1. FormedJob(job)
    BY <1>4 DEF FormedJob
  <2>2. cmtJob' = Begun(cmtJob, r, job)
    BY <1>1, <1>6
  <2>3. Moved(r) /\ cmtJob'[r].at = "count" /\ cmtJob'[r].period = p /\ cmtJob'[r].number = n
    BY <1>1, <1>3, <1>4, <2>1, <2>2, Enters DEF Inv
  <2>4. \A c \in Stored' : c \in Stored /\ comment'[c] = comment[c]
    BY <1>1 DEF Stored
  <2>5. Fine(r)
    BY <1>6, <2>3, <2>4 DEF Fine, Pending, Waiting
  <2>6. Rise /\ \A q \in Period : Kept(q)
    BY <1>1, PeriodsStay DEF Inv, Kept
  <2>. QED BY <1>1, <2>3, <2>5, <2>6, Given
<1>. QED BY <1>5, <1>6

\* The counter follows a number that was sent.
LEMMA CountSentSteps ==
  ASSUME Inv, NEW r \in Request, CountSent(r)
  PROVE  Inv'
<1>1. cmtJob[r].at = "count" /\ UNCHANGED <<era, comment>> /\ Active(cmtJob[r])
  BY DEF CountSent, Active
<1>2. /\ cmtJob[r].period \in Period /\ cmtJob[r].op = "post" /\ cmtJob[r].out = "none" /\ cmtJob[r].sent
      /\ cmtJob[r] \in CmtJob
  BY <1>1 DEF Inv, JobsOK, Formed, CmtTypeOK
<1>3. PICK p \in Period : p = cmtJob[r].period
  BY <1>2
<1>4. CASE period[p] = NoPeriod
  <2>1. period' = period /\ CmtFinish(r, "failed")
    BY <1>3, <1>4 DEF CountSent
  <2>2. Moved(r) /\ cmtJob'[r].at = "done"
    BY <1>1, <2>1, Ends DEF Inv, Outcome
  <2>. QED BY <1>1, <2>1, <2>2, JobsAlone
<1>5. CASE period[p] # NoPeriod
  <2>. DEFINE n == Max2(period[p].count, cmtJob[r].number)
              j == [cmtJob[r] EXCEPT !.at = "save", !.era = era[p]]
  <2>1. period' = [period EXCEPT ![p] = Counted(period[p], n)]
    BY <1>3, <1>5 DEF CountSent
  <2>2. cmtJob' = [cmtJob EXCEPT ![r] = j]
    BY <1>3, <1>5 DEF CountSent
  <2>3. period[p] \in PeriodRow /\ era[p] \in Nat
    BY <1>5 DEF Inv, CmtTypeOK
  <2>4. period[p].count \in Nat /\ cmtJob[r].number \in Nat
    BY <1>2, <2>3 DEF PeriodRow, CmtJob
  <2>5. n \in Nat /\ period[p].count =< n /\ cmtJob[r].number =< n
    BY <2>4 DEF Max2
  <2>6. /\ j \in CmtJob /\ j.at = "save" /\ j.era = era[p] /\ j.op = cmtJob[r].op /\ j.out = cmtJob[r].out
        /\ j.period = cmtJob[r].period /\ j.copy = cmtJob[r].copy /\ j.number = cmtJob[r].number
        /\ j.sent = cmtJob[r].sent /\ j.met = cmtJob[r].met
    BY <1>2, <2>3 DEF CmtJob
  <2>. HIDE DEF n, j
  <2>7. FormedJob(j)
    BY <1>2, <2>6 DEF FormedJob
  <2>8. Moved(r) /\ Same(r) /\ cmtJob'[r] = j
    BY <1>1, <2>2, <2>6, <2>7, GoesOn DEF Inv
  <2>9. Rise /\ (\A q \in Period : Kept(q)) /\ period'[p].count = n
    BY <1>1, <1>5, <2>1, <2>5, CounterRises
  <2>10. \A c \in Stored' : c \in Stored /\ comment'[c] = comment[c]
    BY <1>1 DEF Stored
  <2>11. Within(cmtJob[r])'
    BY <1>1, <1>3, <2>3, <2>5, <2>6, <2>8, <2>9 DEF Within
  <2>12. ASSUME NEW c \in Stored', Clash(cmtJob[r], comment[c])'
         PROVE  Met(r, comment[c].by)'
    <3>1. c \in Stored /\ comment'[c] = comment[c] /\ comment[c].by \in Request
      BY <2>10, StoredRow DEF Inv
    <3>2. Waiting(r) /\ comment[c].period = cmtJob[r].period /\ comment[c].number = cmtJob[r].number
      BY <1>1, <2>6, <2>8, <2>12, <3>1 DEF Clash, Waiting
    <3>3. Met(r, comment[c].by)
      BY <3>1, <3>2 DEF Inv, Numbered
    <3>4. Same(r) /\ Same(comment[c].by)
      BY <2>8, <3>1 DEF Moved, Still
    <3>. QED BY <3>1, <3>3, <3>4 DEF Met, Same
  <2>13. cmtJob'[r].sent /\ cmtJob'[r].at = "save"
    BY <1>2, <2>6, <2>8
  <2>14. Fine(r)
    BY <2>11, <2>12, <2>13 DEF Fine, Pending, Waiting
  <2>. QED BY <1>1, <2>8, <2>9, <2>13, <2>14, Given
<1>. QED BY <1>4, <1>5

\* Posting a comment without a number.
LEMMA PostNextSteps ==
  ASSUME Inv, NEW r \in Request, NEW p \in Period, PostNext(r, p)
  PROVE  Inv'
<1>. DEFINE next == IF period[p] = NoPeriod THEN 0 ELSE period[p].count + 1
            job == [NewCmtJob EXCEPT !.op = "post", !.at = "save", !.period = p,
                                     !.number = next, !.era = era[p]]
<1>1. /\ cmtJob[r].at = "new" /\ UNCHANGED <<era, comment>>
      /\ cmtJob' = Begun(cmtJob, r, IF period[p] = NoPeriod THEN Answered(job, "failed") ELSE job)
  BY DEF PostNext, CmtBegin
<1>2. era[p] \in Nat /\ (period[p] # NoPeriod => period[p].count \in Nat)
  BY DEF Inv, CmtTypeOK, PeriodRow
<1>3. next \in Nat /\ (period[p] # NoPeriod => next = period[p].count + 1)
  BY <1>2
<1>4. period' = IF period[p] = NoPeriod THEN period
                ELSE [period EXCEPT ![p] = Counted(period[p], next)]
  BY DEF PostNext
<1>. HIDE DEF next
<1>5. job \in CmtJob
  BY <1>2, <1>3 DEF NewCmtJob, CmtJob, Outcome
<1>6. /\ job.at = "save" /\ job.out = "none" /\ job.op = "post" /\ job.period = p
      /\ job.number = next /\ job.era = era[p]
  BY DEF NewCmtJob
<1>. HIDE DEF job
<1>7. CASE period[p] = NoPeriod
  BY <1>1, <1>4, <1>5, <1>7, Refused
<1>8. CASE period[p] # NoPeriod
  <2>1. FormedJob(job)
    BY <1>6 DEF FormedJob
  <2>2. cmtJob' = Begun(cmtJob, r, job)
    BY <1>1, <1>8
  <2>3. /\ Moved(r) /\ cmtJob'[r].at = "save" /\ cmtJob'[r].period = p
        /\ cmtJob'[r].number = next /\ cmtJob'[r].era = era[p]
    BY <1>1, <1>5, <1>6, <2>1, <2>2, Enters DEF Inv
  <2>4. period[p].count =< next /\ ~(next =< period[p].count)
    BY <1>2, <1>3, <1>8
  <2>5. Rise /\ (\A q \in Period : Kept(q)) /\ period'[p].count = next
    BY <1>1, <1>3, <1>4, <1>8, <2>4, CounterRises
  <2>6. Within(cmtJob[r])'
    BY <1>1, <1>2, <1>3, <2>3, <2>5 DEF Within
  <2>7. ASSUME NEW c \in Stored', Clash(cmtJob[r], comment[c])'
        PROVE  FALSE
    <3>1. c \in Stored /\ comment'[c] = comment[c]
      BY <1>1 DEF Stored
    <3>2. comment[c].period = p /\ comment[c].number = next /\ comment[c].era = era[p]
      BY <2>3, <2>7, <3>1 DEF Clash
    <3>3. Within(comment[c])
      BY <3>1 DEF Inv, Numbered
    <3>. QED BY <1>8, <2>4, <3>2, <3>3 DEF Within
  <2>8. ASSUME NEW s \in Request, r # s, Pending(s)', Clash(cmtJob[r], cmtJob[s])'
        PROVE  FALSE
    <3>1. Still(s) /\ Pending(s)
      BY <2>3, <2>8 DEF Moved, Still, Pending
    <3>2. cmtJob[s].period = p /\ cmtJob[s].number = next /\ cmtJob[s].era = era[p]
      BY <2>3, <2>8, <3>1 DEF Clash, Still, Same
    <3>3. Within(cmtJob[s])
      BY <3>1 DEF Inv, Numbered
    <3>. QED BY <1>8, <2>4, <3>2, <3>3 DEF Within
  <2>9. Fine(r)
    BY <2>3, <2>6, <2>7, <2>8 DEF Fine, Pending, Waiting
  <2>. QED BY <1>1, <2>3, <2>5, <2>9, Given
<1>. QED BY <1>7, <1>8

\* Saving a comment.
LEMMA SaveCommentSteps ==
  ASSUME Inv, NEW r \in Request, NEW c \in Comment, NEW status \in EaoStatus, SaveComment(r, c, status)
  PROVE  Inv'
<1>1. cmtJob[r].at = "save" /\ UNCHANGED <<period, era>> /\ Active(cmtJob[r])
  BY DEF SaveComment, Active
<1>2. PICK out \in {"ok", "failed"} : CmtFinish(r, out)
  BY DEF SaveComment
<1>3. Moved(r) /\ Same(r) /\ cmtJob'[r].at = "done"
  BY <1>1, <1>2, Ends DEF Inv, Outcome
<1>4. CASE comment' = comment
  BY <1>1, <1>3, <1>4, JobsAlone
<1>5. CASE comment' # comment
  <2>. DEFINE open == Opened(status, FALSE)
              row == [period |-> cmtJob[r].period, number |-> cmtJob[r].number,
                      era |-> cmtJob[r].era, by |-> r, status |-> status, open |-> open]
  <2>1. comment[c] = NoComment /\ comment' = [comment EXCEPT ![c] = row]
    BY <1>5 DEF SaveComment
  <2>2. open \in BOOLEAN /\ (open <=> status = "Published")
    BY DEF Opened, EaoStatus
  <2>. HIDE DEF open
  <2>3. cmtJob[r].period \in Period /\ cmtJob[r].number \in Nat /\ cmtJob[r].era \in Nat
    BY <1>1 DEF Inv, JobsOK, Formed, CmtTypeOK, CmtJob
  <2>4. /\ row \in CommentRow /\ row.by = r /\ Clash(row, cmtJob[r])
        /\ (row.open <=> row.status = "Published")
    BY <2>2, <2>3 DEF CommentRow, Clash
  <2>. HIDE DEF row
  <2>5. Pending(r) /\ c \notin Stored
    BY <1>1, <2>1 DEF Pending, Stored
  <2>6. Numbered' /\ NumbersUnique'
    BY <1>1, <1>3, <2>1, <2>4, <2>5, NumbersSaved DEF Inv
  <2>7. comment'[c] = row /\ \A d \in Comment \ {c} : comment'[d] = comment[d]
    BY <2>1 DEF Inv, CmtTypeOK
  <2>8. CommentsAgree'
    BY <2>4, <2>7 DEF CommentsAgree, Stored, Inv
  <2>9. Published'
    <3>1. /\ \A q \in Request : cmtJob[q].at = "done" => Still(q)
          /\ \A q \in Request : cmtJob'[q].at = "loaded" => Still(q)
      BY <1>3 DEF Moved
    <3>2. \A q \in Period : Kept(q)
      BY <1>1 DEF Kept
    <3>. QED BY <3>1, <3>2, PublishedStep
  <2>10. CmtTypeOK'
    BY <1>1, <1>3, <2>1, <2>4 DEF Inv, CmtTypeOK, Moved
  <2>. QED BY <1>3, <2>6, <2>8, <2>9, <2>10 DEF Inv, Moved
<1>. QED BY <1>4, <1>5

\* Setting the status of a comment.
LEMMA SetStatusSteps ==
  ASSUME Inv, NEW c \in Comment, NEW status \in EaoStatus, SetStatus(c, status)
  PROVE  Inv'
<1>. DEFINE st == IF status = "none" THEN comment[c].status ELSE status
            open == Opened(status, comment[c].open)
            row == StatusRow(comment[c], status)
<1>1. c \in Stored /\ UNCHANGED <<period, era, cmtJob>> /\ comment' = [comment EXCEPT ![c] = row]
  BY DEF SetStatus
<1>2. comment[c] \in CommentRow /\ (comment[c].open <=> comment[c].status = "Published")
  BY <1>1, StoredRow DEF Inv, CommentsAgree
<1>3. comment[c].open \in BOOLEAN /\ st \in EaoStatus
  BY <1>2 DEF CommentRow
<1>4. open \in BOOLEAN /\ (open <=> st = "Published")
  BY <1>2, <1>3 DEF Opened, EaoStatus
<1>. DEFINE new == [comment[c] EXCEPT !.status = st, !.open = open]
<1>11. row = new
  BY DEF StatusRow
<1>. HIDE DEF st, open, row
<1>5. /\ row \in CommentRow /\ (row.open <=> row.status = "Published")
      /\ row.period = comment[c].period /\ row.number = comment[c].number
      /\ row.era = comment[c].era /\ row.by = comment[c].by
  BY <1>2, <1>3, <1>4, <1>11 DEF CommentRow
<1>. HIDE DEF new
<1>6. comment'[c] = row /\ \A d \in Comment \ {c} : comment'[d] = comment[d]
  BY <1>1 DEF Inv, CmtTypeOK
<1>7. SameComments
  <2>1. comment' \in [Comment -> CommentRow \cup {NoComment}]
    BY <1>1, <1>5 DEF Inv, CmtTypeOK
  <2>2. Stored' \subseteq Stored
    BY <1>1, <1>6 DEF Stored
  <2>3. \A d \in Stored' : d = c \/ comment'[d] = comment[d]
    BY <1>6 DEF Stored
  <2>. QED BY <1>5, <1>6, <2>1, <2>2, <2>3 DEF SameComments
<1>8. CommentsAgree'
  BY <1>5, <1>6 DEF CommentsAgree, Stored, Inv
<1>9. Quiet /\ Rise
  BY <1>1, QuietStay, PeriodsStay DEF Inv
<1>10. Published'
  <2>1. \A q \in Request : Still(q)
    BY <1>1 DEF Still, Same
  <2>2. \A q \in Period : Kept(q)
    BY <1>1 DEF Kept
  <2>. QED BY <2>1, <2>2, PublishedStep
<1>. QED BY <1>7, <1>8, <1>9, <1>10, Together

\* The end of an export, and a request whose pod stops.
LEMMA AnswerSteps ==
  ASSUME Inv, NEW r \in Request, ExportComments(r) \/ StopComment(r)
  PROVE  Inv'
<1>1. Active(cmtJob[r]) /\ UNCHANGED <<period, era, comment>>
  BY DEF ExportComments, StopComment, Active
<1>2. PICK out \in Outcome : CmtFinish(r, out)
  BY DEF ExportComments, StopComment, Outcome
<1>3. Moved(r) /\ cmtJob'[r].at = "done"
  BY <1>1, <1>2, Ends DEF Inv
<1>. QED BY <1>1, <1>3, JobsAlone

-----------------------------------------------------------------------------
\* The invariant holds at first, when there are no comments and no requests.
LEMMA InvInit ==
  ASSUME CmtInit
  PROVE  Inv
<1>1. /\ \A r \in Request : cmtJob[r] = NewCmtJob
      /\ Stored = {} /\ comment = [c \in Comment |-> NoComment]
  BY DEF CmtInit, Stored
<1>2. \A r \in Request :
        /\ cmtJob[r].at = "new" /\ cmtJob[r].op = "none" /\ cmtJob[r].out = "none"
  BY <1>1 DEF NewCmtJob
<1>3. \A p \in Period : period[p] = NoPeriod \/ (period[p] \in PeriodRow /\ period[p].published = "unset")
  <2>. SUFFICES ASSUME NEW p \in Period, period[p] # NoPeriod
                PROVE  period[p] \in PeriodRow /\ period[p].published = "unset"
    OBVIOUS
  <2>1. PICK o \in BOOLEAN : period[p] = [count |-> 0, published |-> "unset", open |-> o, ver |-> 0]
    BY DEF CmtInit
  <2>. QED BY <2>1 DEF PeriodRow, Flag
<1>4. CmtTypeOK
  <2>1. NewCmtJob \in CmtJob
    BY DEF NewCmtJob, CmtJob, Outcome
  <2>2. cmtJob \in [Request -> CmtJob]
    BY <2>1 DEF CmtInit
  <2>3. era \in [Period -> Nat] /\ comment \in [Comment -> CommentRow \cup {NoComment}]
    BY DEF CmtInit
  <2>4. period \in [Period -> PeriodRow \cup {NoPeriod}]
    BY <1>3 DEF CmtInit
  <2>. QED BY <2>2, <2>3, <2>4 DEF CmtTypeOK
<1>5. JobsOK
  BY <1>2 DEF JobsOK, Meeting, Formed, Active
<1>6. Numbered /\ NumbersUnique /\ CommentsAgree
  BY <1>1, <1>2 DEF Numbered, NumbersUnique, CommentsAgree, Pending, Waiting
<1>7. Published
  BY <1>2, <1>3 DEF Published, Agrees
<1>. QED BY <1>4, <1>5, <1>6, <1>7 DEF Inv

\* Every step keeps it.
LEMMA InvStep ==
  ASSUME Inv, [CmtNext]_cmtVars
  PROVE  Inv'
<1>1. CASE PeriodStep
  BY <1>1, PeriodSteps DEF PeriodStep
<1>2. ASSUME NEW r \in Request, CommentStep(r)
      PROVE  Inv'
  BY <1>2, PostSentSteps, PostNextSteps, CountSentSteps, SaveCommentSteps, AnswerSteps DEF CommentStep
<1>3. ASSUME NEW r \in Request, PublishStep(r)
      PROVE  Inv'
  BY <1>3, LoadSteps, SaveSteps DEF PublishStep
<1>4. CASE \E c \in Comment, s \in EaoStatus : SetStatus(c, s)
  BY <1>4, SetStatusSteps
<1>5. CASE UNCHANGED cmtVars
  <2>1. UNCHANGED <<period, era, comment, cmtJob>>
    BY <1>5 DEF cmtVars
  <2>2. Quiet /\ Rise /\ SameComments /\ CommentsAgree'
    BY <2>1, QuietStay, PeriodsStay, CommentsStay DEF Inv
  <2>3. Published'
    <3>1. \A q \in Request : Still(q)
      BY <2>1 DEF Still, Same
    <3>2. \A q \in Period : Kept(q)
      BY <2>1 DEF Kept
    <3>. QED BY <3>1, <3>2, PublishedStep
  <2>. QED BY <2>2, <2>3, Together
<1>. QED BY <1>1, <1>2, <1>3, <1>4, <1>5 DEF CmtNext

LEMMA InvHolds ==
  Inv => CmtTypeOK /\ NumbersUnique /\ PublishedAgrees
<1>. SUFFICES ASSUME Inv PROVE CmtTypeOK /\ NumbersUnique /\ PublishedAgrees
  OBVIOUS
<1>1. \A p \in Period : period[p] = NoPeriod \/ Agrees(period[p]) \/ Excused(p)
  BY DEF Inv, Published
<1>. QED BY <1>1 DEF Inv, PublishedAgrees, CommentsAgree, Agrees, Excused

\* For any number of requests, periods and comments: the comments of a period
\* have one number only by a number that was sent while the other was given,
\* and a period or comment is published by one answer (getNextCommentIdCount,
\* protectedPost and protectedStatus in controllers/comment.js, Actions.publish
\* and unPublish in helpers/actions.js).
THEOREM CommentsKeepTheirNumbers ==
  CmtSpec => [](CmtTypeOK /\ NumbersUnique /\ PublishedAgrees)
<1>1. CmtInit => Inv
  BY InvInit
<1>2. Inv /\ [CmtNext]_cmtVars => Inv'
  BY InvStep
<1>3. Inv => CmtTypeOK /\ NumbersUnique /\ PublishedAgrees
  BY InvHolds
<1>. QED BY <1>1, <1>2, <1>3, PTL DEF CmtSpec
=============================================================================
