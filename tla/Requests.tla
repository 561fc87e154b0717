------------------------------ MODULE Requests ------------------------------
(***************************************************************************)
(* What the modules of the API's handlers share: a finite set of requests, *)
(* each served once.  A handler runs from one await to the next; between   *)
(* two of them any other handler may run, in this process or in another.   *)
(* `met' is for the properties only: the requests a request overlapped.    *)
(***************************************************************************)
EXTENDS Naturals, FiniteSets

CONSTANT Request

ASSUME RequestAssumption == IsFiniteSet(Request)

\* How a request ended: "ok" is a 2xx answer, "left" a refusal that could not
\* undo its first step, "stopped" a process that died.
Outcome == {"none", "ok", "failed", "left", "stopped"}

\* A handler has begun and has not answered.
Active(job) == job.at \notin {"new", "done"}

\* The jobs after r begins as `job': it and every active one have met.
Begun(jobs, r, job) ==
  LET running == {q \in Request \ {r} : Active(jobs[q])}
  IN [q \in Request |->
        CASE q = r -> [job EXCEPT !.met = running]
          [] q \in running -> [jobs[q] EXCEPT !.met = @ \cup {r}]
          [] OTHER -> jobs[q]]

Answered(job, out) == [job EXCEPT !.at = "done", !.out = out]
=============================================================================
