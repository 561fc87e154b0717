---------------------------- MODULE ConfigMirror ----------------------------
(***************************************************************************)
(* The public configuration.  Config has no write controller: it is edited *)
(* by hand in Mongo, and GET /api/config both serves it and, when it is not*)
(* what this pod last saw land, pushes it to DEMI.  Each pod knows only its*)
(* own pushes.                                                             *)
(***************************************************************************)
EXTENDS Naturals, FiniteSets

CONSTANTS Pod,
          Value,     \* configurations as stored
          Malformed, \* those whose EXTENDED_PROJECT_PAGES breaks the rule
          Bare,      \* what is left of such a one
          Nothing,   \* no Config document, no payload
          MaxEdits, MaxTroubles \* bound the model

ASSUME PodAssumption == Pod # {}
ASSUME ValueAssumption ==
  /\ Malformed \subseteq Value /\ Bare \notin Malformed /\ Nothing \notin Value \cup {Bare}
ASSUME BoundAssumption == MaxEdits \in Nat /\ MaxTroubles \in Nat

VARIABLES config,     \* the Config document
          reads,      \* what each pod's requests under way have read
          lastPushed, inFlight, backedOff, \* per pod
          demi,       \* what DEMI holds, with its stamp
          stamp,      \* the newest stamp a push was given
          unsure,     \* DEMI took a body whose push was told that it did not
          edits, troubles

configVars == <<config, reads, lastPushed, inFlight, backedOff, demi, stamp,
                unsure, edits, troubles>>

\* What is served and pushed.
Served == Value \cup {Bare, Nothing}

NoPush == [body |-> Nothing, stamp |-> 0]

\* The payload: a malformed map of pages is served, and pushed, as absent.
Payload(value) == IF value \in Malformed THEN Bare ELSE value

\* DEMI keeps the body with the newest stamp.
Takes(push) == IF push.stamp > demi.stamp THEN push ELSE demi

-----------------------------------------------------------------------------
\* A hand edit in Mongo, back to an earlier value too.
Edit(value) ==
  /\ edits < MaxEdits /\ value # config
  /\ config' = value /\ edits' = edits + 1
  /\ UNCHANGED <<reads, lastPushed, inFlight, backedOff, demi, stamp, unsure, troubles>>

\* publicGet's findOne.
Find(p) ==
  /\ config \notin reads[p]
  /\ reads' = [reads EXCEPT ![p] = @ \cup {config}]
  /\ UNCHANGED <<config, lastPushed, inFlight, backedOff, demi, stamp, unsure,
                 edits, troubles>>

\* Whether a read pushes what it serves.
Pushes(p, payload) ==
  payload # lastPushed[p] /\ inFlight[p] = NoPush /\ ~backedOff[p]

\* The rest of publicGet: no document is a 404 and no push.
Serve(p, value) ==
  /\ value \in reads[p]
  /\ reads' = [reads EXCEPT ![p] = @ \ {value}]
  /\ IF value # Nothing /\ Pushes(p, Payload(value))
     THEN /\ stamp' = stamp + 1
          /\ inFlight' = [inFlight EXCEPT ![p] = [body |-> Payload(value), stamp |-> stamp']]
     ELSE UNCHANGED <<stamp, inFlight>>
  /\ UNCHANGED <<config, lastPushed, backedOff, demi, unsure, edits, troubles>>

\* Mutant of Told: what was sent is remembered, landed or not.
ToldAlways(p, ok) == [lastPushed EXCEPT ![p] = inFlight[p].body]

\* What a pod remembers of a push that was settled.
Told(p, ok) ==
  IF ok THEN [lastPushed EXCEPT ![p] = inFlight[p].body] ELSE lastPushed

Land(p) ==
  /\ inFlight[p] # NoPush
  /\ demi' = Takes(inFlight[p])
  /\ lastPushed' = Told(p, TRUE)
  /\ inFlight' = [inFlight EXCEPT ![p] = NoPush]
  /\ UNCHANGED <<config, reads, backedOff, stamp, unsure, edits, troubles>>

\* Refused, or timed out though DEMI took it; the pod backs off.
Fail(p, taken) ==
  /\ inFlight[p] # NoPush /\ troubles < MaxTroubles
  /\ troubles' = troubles + 1
  /\ demi' = IF taken THEN Takes(inFlight[p]) ELSE demi
  /\ unsure' = (unsure \/ taken)
  /\ lastPushed' = Told(p, FALSE)
  /\ inFlight' = [inFlight EXCEPT ![p] = NoPush]
  /\ backedOff' = [backedOff EXCEPT ![p] = TRUE]
  /\ UNCHANGED <<config, reads, stamp, edits>>

\* RETRY_AFTER_MS passes.
Resume(p) ==
  /\ backedOff[p]
  /\ backedOff' = [backedOff EXCEPT ![p] = FALSE]
  /\ UNCHANGED <<config, reads, lastPushed, inFlight, demi, stamp, unsure,
                 edits, troubles>>

\* A pod is replaced: the new one remembers nothing.  Its push may have landed.
Replace(p) ==
  /\ troubles < MaxTroubles
  /\ troubles' = troubles + 1
  /\ demi' \in {demi, Takes(inFlight[p])}
  /\ reads' = [reads EXCEPT ![p] = {}]
  /\ lastPushed' = [lastPushed EXCEPT ![p] = Nothing]
  /\ inFlight' = [inFlight EXCEPT ![p] = NoPush]
  /\ backedOff' = [backedOff EXCEPT ![p] = FALSE]
  /\ UNCHANGED <<config, stamp, unsure, edits>>

-----------------------------------------------------------------------------
ConfigInit ==
  /\ config \in Value \cup {Nothing}
  /\ reads = [p \in Pod |-> {}]
  /\ lastPushed = [p \in Pod |-> Nothing]
  /\ inFlight = [p \in Pod |-> NoPush]
  /\ backedOff = [p \in Pod |-> FALSE]
  /\ demi = NoPush /\ stamp = 0
  /\ unsure = FALSE
  /\ edits = 0 /\ troubles = 0

SettlePush(p) == Land(p) \/ \E taken \in BOOLEAN : Fail(p, taken)

ConfigNext ==
  \/ \E value \in Value : Edit(value)
  \/ \E p \in Pod :
       \/ Find(p) \/ SettlePush(p) \/ Resume(p) \/ Replace(p)
       \/ \E value \in Value \cup {Nothing} : Serve(p, value)

\* Frontends read every pod's configuration again and again, each request is
\* answered, a push is settled in the end and time passes.
ConfigFairness ==
  \A p \in Pod :
    /\ WF_configVars(Find(p)) /\ WF_configVars(SettlePush(p)) /\ WF_configVars(Resume(p))
    /\ \A value \in Value \cup {Nothing} : WF_configVars(Serve(p, value))

ConfigSpec == ConfigInit /\ [][ConfigNext]_configVars /\ ConfigFairness

-----------------------------------------------------------------------------
ConfigTypeOK ==
  /\ config \in Value \cup {Nothing}
  /\ reads \in [Pod -> SUBSET (Value \cup {Nothing})]
  /\ lastPushed \in [Pod -> Served]
  /\ inFlight \in [Pod -> [body : Served, stamp : Nat]]
  /\ backedOff \in [Pod -> BOOLEAN]
  /\ demi \in [body : Served, stamp : Nat]
  /\ stamp \in Nat /\ unsure \in BOOLEAN
  /\ edits \in 0..MaxEdits /\ troubles \in 0..MaxTroubles

Mirrored == config # Nothing => demi.body = Payload(config)

\* Every pod remembers the payload as pushed, and some push was told that it
\* did not land when it had.
Blinded == unsure /\ \A p \in Pod : lastPushed[p] = Payload(config)

\* When every pod remembers the configuration as pushed, so that no read pushes
\* it again, DEMI holds it, unless some push was told that it did not land when
\* it had: pods that push in any order, an edit that is undone, and a new pod
\* that knows nothing leave at least one pod that is right.
PodsKnow == (\A p \in Pod : lastPushed[p] = Payload(config)) => Mirrored \/ unsure

\* Once the configuration is no longer edited, DEMI comes to hold the payload
\* that is served, whatever the order of the pods' reads and pushes.  Only a push
\* whose answer was lost can leave another body there for good: after an edit
\* that was undone, or for a request that had read the configuration before
\* the edit.
ConfigReachesDemi == <>[](Mirrored \/ Blinded)
=============================================================================
