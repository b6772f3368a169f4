------------------------------ MODULE PanosClient ------------------------------
(***************************************************************************)
(* The pooled API client of rust-panosmcp-core/src/client.rs for one       *)
(* device: the semaphore that bounds its requests, the auth_healthy flag   *)
(* behind /readyz, and the log jobs that query_panos_logs starts, polls    *)
(* and gives up.                                                           *)
(*                                                                         *)
(* A task is one tool call.  It has at most one request at a time:         *)
(* "waiting" for a permit, "sent", or "answered" by the device but not yet *)
(* read.  A reload publishes a new client with a new semaphore and flag;   *)
(* running calls keep the client they started with.                        *)
(***************************************************************************)
EXTENDS Naturals, FiniteSets

CONSTANTS
    Queries,            \* concurrent query_panos_logs calls
    Readers,            \* concurrent calls that read through post
    Listers,            \* concurrent calls that read through configuration_entries
    Clients,            \* the clients that successive reloads build
    MaxConcurrency,     \* max_concurrency of the device
    JobIds,             \* log job ids, never reused
    Slots,              \* log jobs the device runs at a time
    Faults,             \* which of "cancel", "deadline", "timeout", "error", "key" happen
    None

ASSUME ClientAssumption ==
    /\ Queries \intersect Readers = {}
    /\ Queries \intersect Listers = {}
    /\ Readers \intersect Listers = {}
    /\ IsFiniteSet(Queries \union Readers \union Listers)
    /\ MaxConcurrency \in Nat \ {0}
    /\ Slots \in Nat \ {0}
    /\ None \notin JobIds \union Clients
    /\ Faults \subseteq {"cancel", "deadline", "timeout", "error", "key"}

VARIABLES
    current,    \* the client the published snapshot holds
    built,      \* the clients built so far
    free,       \* free[c]: free permits of client c
    healthy,    \* healthy[c]: auth_healthy of client c
    call,       \* call[t]: where call t is, and its client and log job
    req,        \* req[t]: the request of call t
    slot,       \* slot[j]: the log job j on the device
    key,        \* whether and how the device refuses this server's key
    judged,     \* history: clients that read an answer given under this key
    learned     \* history: the jobs that queries know and have not lost track of

clientVars == <<current, built, free, healthy, call, req, slot, key, judged, learned>>

Callers == Queries \union Readers \union Listers

\* "denied": HTTP 401 or 403.  "expired": API code 22 in an HTTP 200 body.
\* "error": every other transport or API error.
Rejections == {"denied", "expired"}
Answers == {"ok", "done", "error"} \union Rejections

NoRequest == [at |-> "none", answer |-> None, job |-> None, stale |-> FALSE]
IdleCall == [pc |-> "idle", client |-> None, job |-> None]

ClientTypeOK ==
    /\ current \in built
    /\ built \subseteq Clients
    /\ free \in [Clients -> 0..MaxConcurrency]
    /\ healthy \in [Clients -> BOOLEAN]
    /\ call \in [Callers -> [pc : {"idle", "read", "submit", "poll", "pause", "finish"},
                             client : Clients \union {None},
                             job : JobIds \union {None}]]
    /\ req \in [Callers -> [at : {"none", "waiting", "sent", "answered"},
                            answer : Answers \union {None},
                            job : JobIds \union {None}, stale : BOOLEAN]]
    /\ slot \in [JobIds -> {"none", "running", "done", "finished"}]
    /\ key \in {"valid"} \union Rejections
    /\ judged \subseteq Clients
    /\ learned \subseteq JobIds

ClientInit ==
    /\ current \in Clients
    /\ built = {current}
    /\ free = [c \in Clients |-> MaxConcurrency]
    /\ healthy = [c \in Clients |-> TRUE]
    /\ call = [t \in Callers |-> IdleCall]
    /\ req = [t \in Callers |-> NoRequest]
    /\ slot = [j \in JobIds |-> "none"]
    /\ key = "valid"
    /\ judged = {}
    /\ learned = {}

-----------------------------------------------------------------------------
(* One request: send and post.                                             *)

HoldsPermit(t) == req[t].at \in {"sent", "answered"}

Request == [NoRequest EXCEPT !.at = "waiting"]

Goto(t, pc) == call' = [call EXCEPT ![t].pc = pc]
Return(t) == call' = [call EXCEPT ![t] = IdleCall]

TakePermit(t) ==
    /\ req[t].at = "waiting"
    /\ free[call[t].client] > 0
    /\ free' = [free EXCEPT ![call[t].client] = @ - 1]
    /\ req' = [req EXCEPT ![t].at = "sent"]
    /\ UNCHANGED <<current, built, healthy, call, slot, key, judged, learned>>

\* Faulty: a request that is given up keeps its permit.
PermitKept(t) == UNCHANGED free

\* Faulty: the permit goes back twice.
PermitTwice(t) ==
    free' = IF HoldsPermit(t) THEN [free EXCEPT ![call[t].client] = @ + 2] ELSE free

\* The permit goes back when the request ends, in whatever way.
DropPermit(t) ==
    free' = IF HoldsPermit(t) THEN [free EXCEPT ![call[t].client] = @ + 1] ELSE free

\* Faulty: an expired session in an HTTP 200 body counts as an answer.
HealthTransportOnly(t) ==
    IF req[t].answer = "denied" THEN FALSE ELSE TRUE

\* record_auth_failure after every request, record_auth_result for those of
\* post; configuration_entries does not go through post.
HealthAfter(t) ==
    LET answer == req[t].answer
        posted == t \notin Listers
    IN  IF answer = "denied" \/ (posted /\ answer = "expired") THEN FALSE
        ELSE IF posted /\ answer \in {"ok", "done"} THEN TRUE
        ELSE healthy[call[t].client]

\* The answer is read.
Complete(t) ==
    LET c == call[t].client IN
    /\ req[t].at = "answered"
    /\ DropPermit(t)
    /\ healthy' = [healthy EXCEPT ![c] = HealthAfter(t)]
    /\ judged' = CASE req[t].answer = "error" -> judged
                   [] req[t].answer # "error" /\ req[t].stale -> judged \ {c}
                   [] OTHER -> IF t \in Listers THEN judged ELSE judged \union {c}

\* The request is given up, by cancellation or a deadline: nothing is
\* recorded, and what the device does with it stays open.
GiveUp(t) ==
    /\ req[t].at # "none"
    /\ DropPermit(t)
    /\ UNCHANGED <<healthy, judged>>

-----------------------------------------------------------------------------
(* Read-only calls.                                                        *)

ReadCall(t) ==
    /\ call[t].pc = "idle"
    /\ call' = [call EXCEPT ![t] = [IdleCall EXCEPT !.pc = "read", !.client = current]]
    /\ req' = [req EXCEPT ![t] = Request]
    /\ UNCHANGED <<current, built, free, healthy, slot, key, judged, learned>>

ReadReturn(t) ==
    /\ call[t].pc = "read"
    /\ Complete(t) \/ ({"cancel", "timeout"} \intersect Faults # {} /\ GiveUp(t))
    /\ Return(t)
    /\ req' = [req EXCEPT ![t] = NoRequest]
    /\ UNCHANGED <<current, built, slot, key, learned>>

-----------------------------------------------------------------------------
(* query_panos_logs: submit, poll_log_job, best_effort_finish_log_job.     *)

QueryCall(q) ==
    /\ call[q].pc = "idle"
    /\ call' = [call EXCEPT ![q] = [IdleCall EXCEPT !.pc = "submit", !.client = current]]
    /\ req' = [req EXCEPT ![q] = Request]
    /\ UNCHANGED <<current, built, free, healthy, slot, key, judged, learned>>

\* The submission answers with the job id, or the call fails.
SubmitReturn(q) ==
    /\ call[q].pc = "submit"
    /\ \/ /\ Complete(q)
          /\ IF req[q].answer = "ok"
             THEN /\ call' = [call EXCEPT ![q].pc = "poll", ![q].job = req[q].job]
                  /\ req' = [req EXCEPT ![q] = Request]
                  /\ learned' = learned \union {req[q].job}
             ELSE /\ Return(q)
                  /\ req' = [req EXCEPT ![q] = NoRequest]
                  /\ UNCHANGED learned
       \/ /\ {"cancel", "timeout"} \intersect Faults # {}
          /\ GiveUp(q)
          /\ Return(q)
          /\ req' = [req EXCEPT ![q] = NoRequest]
          /\ UNCHANGED learned
    /\ UNCHANGED <<current, built, slot, key>>

\* A failed request leaves the query without news of its job.
LosesTrack(q) == learned' = learned \ {call[q].job}

\* One action=get: the job is done, still runs, or the request failed.  An
\* error other than a cancellation ends the call without action=finish.
PollReturn(q) ==
    /\ call[q].pc = "poll"
    /\ \/ /\ Complete(q)
          /\ IF req[q].answer = "ok" THEN Goto(q, "pause") ELSE Return(q)
          /\ IF req[q].answer \in {"ok", "done"} THEN UNCHANGED learned ELSE LosesTrack(q)
       \/ /\ "timeout" \in Faults
          /\ GiveUp(q)
          /\ Return(q)
          /\ LosesTrack(q)
    /\ req' = [req EXCEPT ![q] = NoRequest]
    /\ UNCHANGED <<current, built, slot, key>>

\* The backoff sleep ends.
PollAgain(q) ==
    /\ call[q].pc = "pause"
    /\ Goto(q, "poll")
    /\ req' = [req EXCEPT ![q] = Request]
    /\ UNCHANGED <<current, built, free, healthy, slot, key, judged, learned>>

\* Faulty: polling has no deadline of its own.
NeverAbandon(q) ==
    /\ FALSE
    /\ UNCHANGED clientVars

\* Faulty: the query returns without action=finish.
AbandonSilently(q) ==
    /\ {"cancel", "deadline"} \intersect Faults # {}
    /\ call[q].pc \in {"poll", "pause"}
    /\ DropPermit(q)
    /\ Return(q)
    /\ req' = [req EXCEPT ![q] = NoRequest]
    /\ UNCHANGED <<current, built, healthy, slot, key, judged, learned>>

\* Cancellation, or the deadline over the whole poll: give up the request
\* under way and send action=finish with a token of its own.
Abandon(q) ==
    /\ {"cancel", "deadline"} \intersect Faults # {}
    /\ call[q].pc \in {"poll", "pause"}
    /\ DropPermit(q)
    /\ Goto(q, "finish")
    /\ req' = [req EXCEPT ![q] = Request]
    /\ UNCHANGED <<current, built, healthy, slot, key, judged, learned>>

\* Whatever action=finish yields within its five seconds is ignored.
FinishReturn(q) ==
    /\ call[q].pc = "finish"
    /\ \/ /\ Complete(q)
          /\ IF req[q].answer = "ok" THEN UNCHANGED learned ELSE LosesTrack(q)
       \/ "timeout" \in Faults /\ GiveUp(q) /\ LosesTrack(q)
    /\ Return(q)
    /\ req' = [req EXCEPT ![q] = NoRequest]
    /\ UNCHANGED <<current, built, slot, key>>

-----------------------------------------------------------------------------
(* The device and the operator.                                            *)

Running == {j \in JobIds : slot[j] = "running"}

Answered(t, answer, j) ==
    req' = [req EXCEPT ![t] = [at |-> "answered", answer |-> answer, job |-> j,
                               stale |-> FALSE]]

\* The device runs a log job, if a slot is free.
StartJob(t) ==
    \/ \E j \in JobIds :
         /\ slot[j] = "none"
         /\ Cardinality(Running) < Slots
         /\ slot' = [slot EXCEPT ![j] = "running"]
         /\ Answered(t, "ok", j)
    \/ /\ Cardinality(Running) = Slots
       /\ Answered(t, "error", None)
       /\ UNCHANGED slot

\* The device carries out a request under a valid key.
Serve(t) ==
    /\ req[t].at = "sent"
    /\ key = "valid"
    /\ \/ call[t].pc = "submit" /\ StartJob(t)
       \/ /\ call[t].pc = "poll"
          /\ Answered(t, IF slot[call[t].job] = "done" THEN "done" ELSE "ok", None)
          /\ UNCHANGED slot
       \/ /\ call[t].pc = "finish"
          /\ slot' = [slot EXCEPT ![call[t].job] = "finished"]
          /\ Answered(t, "ok", None)
       \/ call[t].pc = "read" /\ Answered(t, "ok", None) /\ UNCHANGED slot
    /\ UNCHANGED <<current, built, free, healthy, call, key, judged, learned>>

\* The device refuses the key, or the request fails for another reason.
Refuse(t) ==
    /\ req[t].at = "sent"
    /\ \/ key # "valid" /\ Answered(t, key, None)
       \/ "error" \in Faults /\ Answered(t, "error", None)
    /\ UNCHANGED <<current, built, free, healthy, call, slot, key, judged, learned>>

EndJob(j) ==
    /\ slot[j] = "running"
    /\ slot' = [slot EXCEPT ![j] = "done"]
    /\ UNCHANGED <<current, built, free, healthy, call, req, key, judged, learned>>

\* The key expires, is revoked or becomes valid again.
KeyChange(k) ==
    /\ "key" \in Faults
    /\ k # key
    /\ key' = k
    /\ req' = [t \in Callers |-> IF req[t].at = "answered" THEN [req[t] EXCEPT !.stale = TRUE]
                                 ELSE req[t]]
    /\ judged' = {}
    /\ UNCHANGED <<current, built, free, healthy, call, slot, learned>>

Reload(c) ==
    /\ c \notin built
    /\ current' = c
    /\ built' = built \union {c}
    /\ UNCHANGED <<free, healthy, call, req, slot, key, judged, learned>>

-----------------------------------------------------------------------------
QueryStep(q) ==
    \/ SubmitReturn(q) \/ PollReturn(q) \/ PollAgain(q) \/ FinishReturn(q)

CallerStep(t) == TakePermit(t) \/ ReadReturn(t) \/ QueryStep(t)

ClientNext ==
    \/ \E t \in Readers \union Listers : ReadCall(t)
    \/ \E q \in Queries : QueryCall(q) \/ Abandon(q)
    \/ \E t \in Callers : CallerStep(t) \/ Serve(t) \/ Refuse(t)
    \/ \E j \in JobIds : EndJob(j)
    \/ \E k \in {"valid"} \union Rejections : KeyChange(k)
    \/ \E c \in Clients : Reload(c)

ClientSpec == ClientInit /\ [][ClientNext]_clientVars

(* Calls run on tokio threads; the request timeout and the poll deadline   *)
(* are timers of the runtime and fire, whatever the device does.           *)
ClientFairness ==
    /\ \A t \in Callers : WF_clientVars(CallerStep(t))
    /\ \A q \in Queries : WF_clientVars(Abandon(q))

ClientFairSpec == ClientSpec /\ ClientFairness

-----------------------------------------------------------------------------
(* Properties.                                                             *)

\* No permit is lost or returned twice, however requests end and across
\* reloads: every client's free permits and its requests on the wire add up.
PermitsConserved ==
    \A c \in Clients :
        free[c] + Cardinality({t \in Callers : HoldsPermit(t) /\ call[t].client = c})
            = MaxConcurrency

InUse == {call[q].job : q \in Queries}

\* A query that met its deadline or was cancelled leaves no log job behind: unless
\* one of its own requests failed, the job it was polling no longer occupies one
\* of the device's slots (poll_log_job, best_effort_finish_log_job).
AbandonedJobsEnd ==
    \A j \in learned : slot[j] = "running" => j \in InUse

\* Once a client has read an answer given under the key's present status, and
\* until an older answer arrives late, auth_healthy says whether the device
\* accepts the key.
HealthTracksKey ==
    \A c \in judged : healthy[c] <=> key = "valid"

\* A log query always returns, also when the device never answers or its job
\* never ends.
QueriesReturn ==
    \A q \in Queries : call[q].pc # "idle" ~> call[q].pc = "idle"
=============================================================================
