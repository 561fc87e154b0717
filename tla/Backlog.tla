------------------------------ MODULE Backlog ------------------------------
(***************************************************************************)
(* The rows a kind owes DEMI, and the sweeps that retry them.  A sweep     *)
(* takes the rows that failed longest ago, as many as its limit lets it,   *)
(* and retries one after the other; a failed retry is a new failure, so    *)
(* the row goes behind all others.  DemiMirror follows one row through     *)
(* all this; here many rows wait for few places.                           *)
(***************************************************************************)
EXTENDS Naturals, SequencesExt, Picks

CONSTANTS Owed,     \* the rows of a kind
          Hopeless, \* those DEMI refuses however often
          Sweep,    \* the sweeps: the cron job's and a starting pod's
          Limit,    \* limitPerKind of each
          MaxWrites, MaxLapses \* bound the model

ASSUME BacklogAssumption ==
  /\ Hopeless \subseteq Owed /\ IsFiniteSet(Owed)
  /\ Limit \in [Sweep -> Nat \ {0}]
  /\ MaxWrites \in Nat /\ MaxLapses \in Nat

VARIABLES queue,  \* the flagged rows, longest failed first
          fresh,  \* those flagged within CLOCK_SKEW_MS
          batch,  \* what each sweep has found and not yet retried
          writes, lapses

backlogVars == <<queue, fresh, batch, writes, lapses>>

Waiting == ToSet(queue)
Without(r) == Pulled(queue, r)

-----------------------------------------------------------------------------
\* Mutants of Reflagged: a row that is flagged keeps its demiPushFailedAt; a
\* sweep takes the newest failure first.
ReflaggedInPlace(r) == IF r \in Waiting THEN queue ELSE Append(queue, r)
ReflaggedAhead(r) == <<r>> \o Without(r)

\* A failure writes demiPushFailedAt, that of a retry too.
Reflagged(r) == Append(Without(r), r)

\* A handler's push of a row fails, and the row is flagged now.
FlagRow(r) ==
  /\ writes < MaxWrites
  /\ writes' = writes + 1
  /\ queue' = Reflagged(r)
  /\ fresh' = fresh \cup {r}
  /\ UNCHANGED <<batch, lapses>>

\* A flag grows older than the skew between two clocks.
Age(r) ==
  /\ r \in fresh
  /\ fresh' = fresh \ {r}
  /\ UNCHANGED <<queue, batch, writes, lapses>>

\* sweepKind's find.
FindOldest(s) ==
  /\ batch[s] = <<>> /\ queue # <<>>
  /\ batch' = [batch EXCEPT ![s] = SubSeq(queue, 1, Min({Limit[s], Len(queue)}))]
  /\ UNCHANGED <<queue, fresh, writes, lapses>>

Next1(s) == Head(batch[s])
Done(s) == batch' = [batch EXCEPT ![s] = Tail(@)]

\* The push lands, and the flag goes if it is surely older than the push's
\* read of the row.
LandRow(s) ==
  /\ batch[s] # <<>>
  /\ Next1(s) \notin Hopeless
  /\ queue' = IF Next1(s) \in fresh THEN queue ELSE Without(Next1(s))
  /\ Done(s)
  /\ UNCHANGED <<fresh, writes, lapses>>

\* DEMI refuses it: again, or this once.
RefuseRow(s) ==
  /\ batch[s] # <<>>
  /\ \/ Next1(s) \in Hopeless /\ lapses' = lapses
     \/ Next1(s) \notin Hopeless /\ lapses < MaxLapses /\ lapses' = lapses + 1
  /\ queue' = Reflagged(Next1(s))
  /\ fresh' = fresh \cup {Next1(s)}
  /\ Done(s)
  /\ UNCHANGED writes

\* Mongo takes neither flag nor clearing, or cannot be read; or the sweep's
\* process dies.  All of it ends a retry without a trace.
LoseOutcome(s) ==
  /\ batch[s] # <<>> /\ lapses < MaxLapses
  /\ lapses' = lapses + 1
  /\ Done(s)
  /\ UNCHANGED <<queue, fresh, writes>>

DieInSweep(s) ==
  /\ batch[s] # <<>> /\ lapses < MaxLapses
  /\ lapses' = lapses + 1
  /\ batch' = [batch EXCEPT ![s] = <<>>]
  /\ UNCHANGED <<queue, fresh, writes>>

-----------------------------------------------------------------------------
BacklogInit ==
  /\ queue \in UNION {SetToSeqs(owed) : owed \in SUBSET Owed}
  /\ fresh = {}
  /\ batch = [s \in Sweep |-> <<>>]
  /\ writes = 0 /\ lapses = 0

Retry(s) == LandRow(s) \/ RefuseRow(s)

BacklogNext ==
  \/ \E r \in Owed : FlagRow(r) \/ Age(r)
  \/ \E s \in Sweep : FindOldest(s) \/ Retry(s) \/ LoseOutcome(s) \/ DieInSweep(s)

\* The cron job runs again and again, a sweep goes on with what it found, and
\* clocks go on.
BacklogFairness ==
  /\ \A s \in Sweep : WF_backlogVars(FindOldest(s)) /\ WF_backlogVars(Retry(s))
  /\ \A r \in Owed : WF_backlogVars(Age(r))

BacklogSpec == BacklogInit /\ [][BacklogNext]_backlogVars /\ BacklogFairness

-----------------------------------------------------------------------------
BacklogTypeOK ==
  /\ queue \in Seq(Owed) /\ IsInjective(queue)
  /\ fresh \subseteq Owed
  /\ batch \in [Sweep -> Seq(Owed)]
  /\ \A s \in Sweep : Len(batch[s]) =< Limit[s]
  /\ writes \in 0..MaxWrites /\ lapses \in 0..MaxLapses

\* The rows that a sweep takes before r.
Before(q, r) == {q[m] : m \in {k \in DOMAIN q : \E n \in DOMAIN q : k < n /\ q[n] = r}}

\* Nobody is overtaken: as long as a row waits, no other gets ahead of it, but
\* when it fails anew, and then it goes behind all the others.
TurnsKept ==
  [][\A r \in Waiting \cap Waiting' :
       \/ Before(queue', r) \subseteq Before(queue, r)
       \/ Before(queue', r) = Waiting' \ {r}]_backlogVars

\* However many rows DEMI refuses every time, and however small the limit of a
\* sweep, every other row that is flagged is taken off the list in the end.
EveryRowHasItsTurn == \A r \in Owed \ Hopeless : r \in Waiting ~> r \notin Waiting
=============================================================================
