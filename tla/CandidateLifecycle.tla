-------------------------- MODULE CandidateLifecycle --------------------------
(***************************************************************************)
(* stage_config, validate_candidate, commit_candidate with its detached    *)
(* commit_worker, and discard_candidate of rust-panosmcp-core/src/         *)
(* mutation.rs, each broken at its await points, over the coordinator and  *)
(* one device; restarts, the offline "state resolve" command and inventory *)
(* reloads.                                                                *)
(*                                                                         *)
(* A task is one running call.  Its local record is the OperationRecord    *)
(* the Rust function read and later writes back.  Steps that only read     *)
(* (diff_candidate, operation_status) change nothing and have no action.   *)
(* Acquiring the endpoint mutex is one step with the first request made    *)
(* under it: it only keeps others out.                                     *)
(***************************************************************************)
EXTENDS Coordinator

CONSTANTS
    StageTool,              \* some token's scope lists stage_panos_config
    AllowDirectCommit,      \* --allow-direct-commit
    LocalAuthority,         \* the device is not owned by a management plane
    AllowPlaneOwnedWrites,  \* --allow-plane-owned-writes
    Recorder,               \* an evidence recorder is configured
    MayDetach,              \* whether a caller may cancel a running commit
    MayCrash                \* whether the process may stop at any point

ASSUME FlagsAssumption ==
    {StageTool, AllowDirectCommit, LocalAuthority, AllowPlaneOwnedWrites,
     Recorder, MayDetach, MayCrash} \subseteq BOOLEAN

VARIABLES
    task,       \* task[t]: program counter and locals of call or worker t
    policy,     \* the device's mutation policy in the current inventory
    evidence,   \* evidence[o]: execution records written for o, if anybody writes
    validated   \* history: validated[o] holds what successful validations saw

vars == <<candidate, running, lock, job, rec, guard,
          task, policy, evidence, validated>>

StagePcs == {"stage_guard", "stage_lock", "stage_fp", "stage_clean", "stage_post",
             "stage_after", "stage_unlock", "stage_remove"}
CallPcs == StagePcs \union
           {"validate_guard", "validate_post", "validate_poll",
            "commit_fp", "commit_mark", "commit_wait",
            "discard_guard", "discard_revert", "discard_fp", "discard_unlock",
            "discard_save"}
WorkerPcs == {"worker_guard", "worker_post", "worker_job", "worker_poll",
              "worker_after", "worker_unlock", "worker_receipt"}

Locals == [pc : CallPcs \union WorkerPcs \union {"idle"},
           op : Ops \union {None}, rec : Records,
           policy : Policies \union {None}, seen : SUBSET Edits,
           verdict : {"unknown", "ok", "failed"}, worker : Workers \union {None}]

Idle == [pc |-> "idle", op |-> None, rec |-> FreshRecord,
         policy |-> None, seen |-> {}, verdict |-> "unknown", worker |-> None]

\* The program counters at which a task holds device_guard.
GuardedPcs == {"stage_lock", "stage_fp", "stage_clean", "stage_post", "stage_after",
               "stage_unlock", "stage_remove", "validate_post", "validate_poll",
               "discard_revert", "discard_fp", "discard_unlock", "discard_save",
               "worker_post", "worker_job", "worker_poll", "worker_after"}

\* Every variable holds a value of its type and no task is at a program
\* counter of the other kind.
TypeOK ==
    /\ DeviceTypeOK
    /\ CoordinatorTypeOK
    /\ task \in [Calls \union Workers -> Locals]
    /\ \A t \in Calls : task[t].pc \in CallPcs \union {"idle"}
    /\ \A w \in Workers : task[w].pc \in WorkerPcs \union {"idle"}
    /\ policy \in Policies
    /\ evidence \in [Ops -> SUBSET {"intent", "ok", "failed"}]
    /\ validated \in [Ops -> SUBSET (SUBSET Edits)]

Init ==
    /\ DeviceInit
    /\ CoordinatorInit
    /\ task = [t \in Calls \union Workers |-> Idle]
    /\ policy \in Policies
    /\ evidence = [o \in Ops |-> {}]
    /\ validated = [o \in Ops |-> {}]

At(t, pc) == task[t].pc = pc
Goto(t, pc) == task' = [task EXCEPT ![t].pc = pc]
Keep(t, pc, r) == task' = [task EXCEPT ![t].pc = pc, ![t].rec = r]
Began(t, o, pc, r) ==
    task' = [task EXCEPT ![t] = [Idle EXCEPT !.pc = pc, !.op = o,
                                             !.policy = policy, !.rec = r]]
Finish(t) == task' = [task EXCEPT ![t] = Idle]
WithState(r, s) == [r EXCEPT !.state = s]

\* Faulty: the operation is taken whatever policy it was staged under.
PolicyUnchecked(r, p) == TRUE

\* require_operation_policy
SamePolicy(r, p) == r.policy = p
\* Faulty: the candidate is not compared.
FingerprintUnchecked(r) == TRUE

\* require_operation_fingerprint; a caller that expects anything but the
\* record's own fingerprint is refused.
SameFingerprint(r) == r.current = Fingerprint

-----------------------------------------------------------------------------
(* stage_config                                                            *)

\* new_operation_id
NewId(o) == rec[o].state = "Fresh" /\ \A t \in Calls : task[t].op # o

\* validate_write_xpath and validate_stage_payload admit the edit; the caller
\* passes the fingerprint it has observed.
StageCall(t, o, e) ==
    /\ StageTool
    /\ At(t, "idle")
    /\ NewId(o)
    /\ e \in Allowed[policy]
    /\ Began(t, o, "stage_guard", StagingRecord(Fingerprint, policy, {e}, None))
    /\ UNCHANGED <<deviceVars, coordinatorVars, policy, evidence, validated>>

StageInsert(t) ==
    /\ At(t, "stage_guard")
    /\ guard = None
    /\ \/ /\ CanInsert
          /\ Acquire(t)
          /\ Insert(task[t].op, task[t].rec)
          /\ Goto(t, "stage_lock")
       \/ /\ ~CanInsert \/ FALSE \in Saves
          /\ Finish(t)
          /\ UNCHANGED coordinatorVars
    /\ UNCHANGED <<deviceVars, policy, evidence, validated>>

\* config_lock_held is set in the local record only.
StageLock(t) ==
    /\ At(t, "stage_lock")
    /\ \/ /\ task[t].policy \notin LockPolicies
          /\ Goto(t, "stage_fp")
          /\ UNCHANGED lock
       \/ /\ task[t].policy \in LockPolicies
          /\ \E out \in {"ok", "refused", "lost"} :
               /\ AcquireLock(out)
               /\ IF out = "ok"
                  THEN Keep(t, "stage_fp", [task[t].rec EXCEPT !.lock = TRUE])
                  ELSE Goto(t, "stage_remove")
    /\ UNCHANGED <<candidate, running, job, coordinatorVars, policy, evidence, validated>>

StageAbort(t) == Goto(t, "stage_unlock")

StageFingerprint(t) ==
    /\ At(t, "stage_fp")
    /\ \E out \in Reads :
         IF out = "ok" /\ SameFingerprint(task[t].rec)
         THEN Goto(t, "stage_clean") ELSE StageAbort(t)
    /\ UNCHANGED <<deviceVars, coordinatorVars, policy, evidence, validated>>

StageClean(t) ==
    /\ At(t, "stage_clean")
    /\ \E out \in Reads :
         IF out = "ok" /\ ~PendingChanges
         THEN Goto(t, "stage_post") ELSE StageAbort(t)
    /\ UNCHANGED <<deviceVars, coordinatorVars, policy, evidence, validated>>

StagePost(t) ==
    /\ At(t, "stage_post")
    /\ \E out \in Outcomes, e \in task[t].rec.actions :
         /\ PostEdit(e, out)
         /\ IF out = "ok" THEN Goto(t, "stage_after") ELSE StageAbort(t)
    /\ UNCHANGED <<running, lock, job, coordinatorVars, policy, evidence, validated>>

StageAfter(t) ==
    /\ At(t, "stage_after")
    /\ \E out \in Reads, saved \in Saves :
         IF out = "ok" /\ saved
         THEN /\ Update(task[t].op, [task[t].rec EXCEPT !.state = "Staged",
                                                        !.current = Fingerprint], saved)
              /\ Release(t)
              /\ Finish(t)
         ELSE StageAbort(t) /\ UNCHANGED coordinatorVars
    /\ UNCHANGED <<deviceVars, policy, evidence, validated>>

\* release_config_lock_best_effort
StageUnlock(t) ==
    /\ At(t, "stage_unlock")
    /\ IF task[t].rec.lock THEN \E out \in Outcomes : ReleaseLock(out) ELSE UNCHANGED lock
    /\ Goto(t, "stage_remove")
    /\ UNCHANGED <<candidate, running, job, coordinatorVars, policy, evidence, validated>>

StageRemove(t) ==
    /\ At(t, "stage_remove")
    /\ Remove(task[t].op)
    /\ Release(t)
    /\ Finish(t)
    /\ UNCHANGED <<deviceVars, policy, evidence, validated>>

-----------------------------------------------------------------------------
(* validate_candidate: the state check precedes the mutex.                 *)

ValidateCall(t, o) ==
    /\ At(t, "idle")
    /\ rec[o].state = "Staged"
    /\ SamePolicy(rec[o], policy)
    /\ Began(t, o, "validate_guard", rec[o])
    /\ UNCHANGED <<deviceVars, coordinatorVars, policy, evidence, validated>>

\* Faulty: the guard is dropped as soon as it is taken.
CompareUnguarded(t, pc) ==
    /\ guard = None
    /\ \E out \in Reads :
         IF out = "ok" /\ SameFingerprint(task[t].rec) THEN Goto(t, pc) ELSE Finish(t)
    /\ UNCHANGED <<deviceVars, coordinatorVars, policy, evidence, validated>>

\* Acquire the mutex and compare the fingerprint, or give up.
GuardAndCompare(t, pc) ==
    /\ guard = None
    /\ \E out \in Reads :
         IF out = "ok" /\ SameFingerprint(task[t].rec)
         THEN Acquire(t) /\ Goto(t, pc)
         ELSE Finish(t) /\ UNCHANGED guard
    /\ UNCHANGED <<deviceVars, rec, policy, evidence, validated>>

ValidateGuard(t) == At(t, "validate_guard") /\ GuardAndCompare(t, "validate_post")

\* Start the full validation and record "Validating".
ValidatePost(t) ==
    /\ At(t, "validate_post")
    /\ \E out \in Outcomes, saved \in Saves :
         LET r == WithState(task[t].rec, "Validating") IN
         IF out = "ok"
         THEN /\ Update(task[t].op, r, saved)
              /\ IF saved
                 THEN /\ task' = [task EXCEPT ![t].pc = "validate_poll", ![t].rec = r,
                                              ![t].seen = OwnEdits(candidate)]
                      /\ UNCHANGED guard
                 ELSE Release(t) /\ Finish(t)
         ELSE Release(t) /\ Finish(t) /\ UNCHANGED rec
    /\ UNCHANGED <<deviceVars, policy, evidence, validated>>

\* The job's verdict, or the end of polling without one.
ValidatePoll(t) ==
    /\ At(t, "validate_poll")
    /\ \E succeeded \in BOOLEAN, saved \in Saves :
         /\ Update(task[t].op,
                   WithState(task[t].rec, IF succeeded THEN "Validated" ELSE "Failed"), saved)
         /\ validated' = IF succeeded
                         THEN [validated EXCEPT ![task[t].op] = @ \union {task[t].seen}]
                         ELSE validated
    /\ Release(t)
    /\ Finish(t)
    /\ UNCHANGED <<deviceVars, policy, evidence>>

-----------------------------------------------------------------------------
(* commit_candidate: state, gates and fingerprint are checked, and         *)
(* "Committing" is written, without the mutex.                             *)

\* Faulty: no gate on operations without a change set.
GatesOpen(r) == LocalAuthority \/ AllowPlaneOwnedWrites

CommitGates(r) ==
    /\ r.changeSet = None => AllowDirectCommit
    /\ LocalAuthority \/ AllowPlaneOwnedWrites

CommitCall(t, o) ==
    /\ At(t, "idle")
    /\ rec[o].state = "Validated"
    /\ CommitGates(rec[o])
    /\ SamePolicy(rec[o], policy)
    /\ Began(t, o, "commit_fp", rec[o])
    /\ UNCHANGED <<deviceVars, coordinatorVars, policy, evidence, validated>>

CommitCompare(t) ==
    /\ At(t, "commit_fp")
    /\ \E out \in Reads :
         IF out = "ok" /\ SameFingerprint(task[t].rec)
         THEN Goto(t, "commit_mark") ELSE Finish(t)
    /\ UNCHANGED <<deviceVars, coordinatorVars, policy, evidence, validated>>

FreeWorker(w) == At(w, "idle") /\ job[w].status # "active"

\* Record "Committing" and spawn the detached worker.
CommitMark(t, w) ==
    /\ At(t, "commit_mark")
    /\ FreeWorker(w)
    /\ \E saved \in Saves :
         LET r == WithState(task[t].rec, "Committing") IN
         /\ Update(task[t].op, r, saved)
         /\ task' = IF saved
                    THEN [task EXCEPT ![t].pc = "commit_wait", ![t].worker = w,
                                      ![w] = [task[t] EXCEPT !.pc = "worker_guard",
                                                             !.rec = r]]
                    ELSE [task EXCEPT ![t] = Idle]
         /\ job' = IF saved THEN [job EXCEPT ![w] = NoJob] ELSE job
    /\ UNCHANGED <<candidate, running, lock, guard, policy, evidence, validated>>

\* The caller returns with the worker's result, or cancelled.
CommitReturn(t) ==
    /\ At(t, "commit_wait")
    /\ MayDetach \/ At(task[t].worker, "idle")
    /\ Finish(t)
    /\ UNCHANGED <<deviceVars, coordinatorVars, policy, evidence, validated>>

-----------------------------------------------------------------------------
(* commit_worker                                                           *)

\* Without a recorder nothing is written and nothing is demanded.
Record(o, entries) ==
    evidence' = IF Recorder THEN [evidence EXCEPT ![o] = @ \union entries] ELSE evidence

\* Faulty: the commit goes on without an apply intent.
WorkerGuardNoIntent(w) ==
    /\ At(w, "worker_guard")
    /\ Acquire(w)
    /\ Goto(w, "worker_post")
    /\ UNCHANGED <<deviceVars, rec, policy, evidence, validated>>

\* Neither the state nor the fingerprint is read again under the mutex.
WorkerGuard(w) ==
    /\ At(w, "worker_guard")
    /\ guard = None
    /\ \/ /\ Acquire(w)
          /\ Record(task[w].op, {"intent"})
          /\ Goto(w, "worker_post")
          /\ UNCHANGED rec
       \/ \* apply_intent fails: back to "Validated"
          /\ Recorder /\ "evidence" \in Faults
          /\ \E saved \in Saves :
               Update(task[w].op, WithState(task[w].rec, "Validated"), saved)
          /\ Finish(w)
          /\ UNCHANGED <<guard, evidence>>
    /\ UNCHANGED <<deviceVars, policy, validated>>

\* Faulty: the error path keeps the mutex.
WorkerErrorKeepsGuard(w) ==
    /\ Keep(w, "worker_receipt", WithState(task[w].rec, "Indeterminate"))
    /\ UNCHANGED guard

\* The commit block ends in an error: the mutex is dropped.
WorkerError(w) ==
    /\ Keep(w, "worker_receipt", WithState(task[w].rec, "Indeterminate"))
    /\ Release(w)

WorkerPost(w) ==
    /\ At(w, "worker_post")
    /\ \E out \in Outcomes :
         /\ PostCommit(w, task[w].op, out)
         /\ IF out = "ok" THEN Goto(w, "worker_job") /\ UNCHANGED guard ELSE WorkerError(w)
    /\ UNCHANGED <<candidate, running, lock, rec, policy, evidence, validated>>

\* Persist the job id.
WorkerJob(w) ==
    /\ At(w, "worker_job")
    /\ \E saved \in Saves :
         /\ Update(task[w].op, task[w].rec, saved)
         /\ IF saved THEN Goto(w, "worker_poll") /\ UNCHANGED guard ELSE WorkerError(w)
    /\ UNCHANGED <<deviceVars, policy, evidence, validated>>

\* poll_job: the job has ended, or polling fails or meets its deadline first.
WorkerPoll(w) ==
    /\ At(w, "worker_poll")
    /\ \/ /\ job[w].status \in {"ok", "failed"}
          /\ Goto(w, "worker_after")
          /\ UNCHANGED guard
       \/ /\ Outcomes # {"ok"}
          /\ WorkerError(w)
    /\ UNCHANGED <<deviceVars, rec, policy, evidence, validated>>

\* Read the fingerprint, record the verdict, drop the mutex.
WorkerAfter(w) ==
    /\ At(w, "worker_after")
    /\ \E out \in Reads, saved \in Saves :
         LET verdict == job[w].status
             r == [task[w].rec EXCEPT
                     !.current = Fingerprint,
                     !.state = IF verdict = "ok" THEN "Committing" ELSE "Failed"]
             next == CASE ~saved -> WithState(r, "Indeterminate")
                       [] saved /\ verdict = "ok" /\ ~r.lock -> WithState(r, "Committed")
                       [] OTHER -> r
         IN  IF out # "ok" THEN WorkerError(w) /\ UNCHANGED rec
             ELSE /\ Update(task[w].op, r, saved)
                  /\ Release(w)
                  /\ task' = [task EXCEPT
                       ![w].pc = IF next.state = "Committing" THEN "worker_unlock"
                                 ELSE "worker_receipt",
                       ![w].rec = next,
                       ![w].verdict = IF saved THEN verdict ELSE "unknown"]
    /\ UNCHANGED <<deviceVars, policy, evidence, validated>>

\* Release the configuration lock, after the mutex.
WorkerUnlock(w) ==
    /\ At(w, "worker_unlock")
    /\ \E out \in Outcomes :
         /\ ReleaseLock(out)
         /\ Keep(w, "worker_receipt",
                 IF out = "ok" THEN [task[w].rec EXCEPT !.lock = FALSE, !.state = "Committed"]
                 ELSE WithState(task[w].rec, "Indeterminate"))
    /\ UNCHANGED <<candidate, running, job, coordinatorVars, policy, evidence, validated>>

\* Faulty: the last record write is missing.
ReceiptUnsaved(w) ==
    /\ At(w, "worker_receipt")
    /\ Finish(w)
    /\ UNCHANGED <<deviceVars, coordinatorVars, policy, evidence, validated>>

\* The receipt, when the job's outcome is known, and the last record write.
WorkerReceipt(w) ==
    /\ At(w, "worker_receipt")
    /\ \/ Record(task[w].op, {task[w].verdict} \ {"unknown"})
       \/ Recorder /\ "evidence" \in Faults /\ UNCHANGED evidence
    /\ \E saved \in Saves : Update(task[w].op, task[w].rec, saved)
    /\ Finish(w)
    /\ UNCHANGED <<deviceVars, guard, policy, validated>>

-----------------------------------------------------------------------------
(* discard_candidate: the state check precedes the mutex here too.         *)

\* Faulty: an operation of unknown outcome may be discarded too.
DiscardableAlways == {"Staging", "Staged", "Validated", "Failed", "Indeterminate"}

Discardable == {"Staging", "Staged", "Validated", "Failed"}

DiscardAdmits(r, p) == r.state \in Discardable /\ SamePolicy(r, p)

DiscardCall(t, o) ==
    /\ At(t, "idle")
    /\ DiscardAdmits(rec[o], policy)
    /\ Began(t, o, "discard_guard", rec[o])
    /\ UNCHANGED <<deviceVars, coordinatorVars, policy, evidence, validated>>

DiscardGuard(t) == At(t, "discard_guard") /\ GuardAndCompare(t, "discard_revert")

\* An error returns and leaves the stored record as it was.
DiscardRevert(t) ==
    /\ At(t, "discard_revert")
    /\ \E out \in Outcomes :
         /\ RevertAdmin(out)
         /\ IF out = "ok" THEN Goto(t, "discard_fp") /\ UNCHANGED guard
            ELSE Release(t) /\ Finish(t)
    /\ UNCHANGED <<running, lock, job, rec, policy, evidence, validated>>

DiscardFingerprint(t) ==
    /\ At(t, "discard_fp")
    /\ \E out \in Reads :
         LET r == [task[t].rec EXCEPT !.current = Fingerprint] IN
         IF out = "ok"
         THEN /\ Keep(t, IF r.lock THEN "discard_unlock" ELSE "discard_save",
                      IF r.lock THEN r ELSE WithState(r, "Discarded"))
              /\ UNCHANGED guard
         ELSE Release(t) /\ Finish(t)
    /\ UNCHANGED <<deviceVars, rec, policy, evidence, validated>>

DiscardUnlock(t) ==
    /\ At(t, "discard_unlock")
    /\ \E out \in Outcomes :
         /\ ReleaseLock(out)
         /\ Keep(t, "discard_save",
                 IF out = "ok" THEN [task[t].rec EXCEPT !.lock = FALSE, !.state = "Discarded"]
                 ELSE WithState(task[t].rec, "Indeterminate"))
    /\ UNCHANGED <<candidate, running, job, coordinatorVars, policy, evidence, validated>>

DiscardSave(t) ==
    /\ At(t, "discard_save")
    /\ \E saved \in Saves : Update(task[t].op, task[t].rec, saved)
    /\ Release(t)
    /\ Finish(t)
    /\ UNCHANGED <<deviceVars, policy, evidence, validated>>

-----------------------------------------------------------------------------
(* The process and its operator.                                           *)

\* The process stops and starts again: every task and the mutex are gone,
\* the state file is recovered, the device goes on.
Restart ==
    /\ MayCrash
    /\ task' = [t \in Calls \union Workers |-> Idle]
    /\ guard' = None
    /\ rec' = [o \in Ops |-> Recovered(rec[o])]
    /\ UNCHANGED <<deviceVars, policy, evidence, validated>>

ServiceStopped == \A t \in Calls \union Workers : At(t, "idle")

\* "state resolve", with the service stopped.  The operator has waited for
\* the jobs, reverted what is pending and removed the lock, and records what
\* the device shows.
Resolve(o) ==
    /\ MayCrash
    /\ ServiceStopped
    /\ rec[o].state = "Indeterminate"
    /\ \A w \in Workers : job[w].status # "active"
    /\ candidate' = (candidate \ Edits) \union OwnEdits(running)
    /\ lock' = FALSE
    /\ rec' = [rec EXCEPT ![o].lock = FALSE,
                          ![o].state = IF rec[o].actions \subseteq running
                                       THEN "Committed" ELSE "Discarded"]
    /\ UNCHANGED <<running, job, guard, task, policy, evidence, validated>>

\* A reload replaces the inventory; running calls keep their client.
Reload(p) ==
    /\ policy' = p
    /\ UNCHANGED <<deviceVars, coordinatorVars, task, evidence, validated>>

-----------------------------------------------------------------------------
StageStep(t) ==
    \/ StageInsert(t) \/ StageLock(t) \/ StageFingerprint(t) \/ StageClean(t)
    \/ StagePost(t) \/ StageAfter(t) \/ StageUnlock(t) \/ StageRemove(t)

ValidateStep(t) == ValidateGuard(t) \/ ValidatePost(t) \/ ValidatePoll(t)

CommitStep(t) ==
    CommitCompare(t) \/ CommitReturn(t) \/ \E w \in Workers : CommitMark(t, w)

DiscardStep(t) ==
    \/ DiscardGuard(t) \/ DiscardRevert(t) \/ DiscardFingerprint(t)
    \/ DiscardUnlock(t) \/ DiscardSave(t)

WorkerStep(w) ==
    \/ WorkerGuard(w) \/ WorkerPost(w) \/ WorkerJob(w) \/ WorkerPoll(w)
    \/ WorkerAfter(w) \/ WorkerUnlock(w) \/ WorkerReceipt(w)

CallStep(t) == StageStep(t) \/ ValidateStep(t) \/ CommitStep(t) \/ DiscardStep(t)

NewCall(t) ==
    \E o \in Ops :
        \/ \E e \in Edits : StageCall(t, o, e)
        \/ ValidateCall(t, o)
        \/ CommitCall(t, o)
        \/ DiscardCall(t, o)

Environment ==
    \/ DeviceNext /\ UNCHANGED <<coordinatorVars, task, policy, evidence, validated>>
    \/ \E p \in Policies : Reload(p)

Serve ==
    \/ \E t \in Calls : NewCall(t) \/ CallStep(t)
    \/ \E w \in Workers : WorkerStep(w)
    \/ Environment

Next ==
    \/ Serve
    \/ Restart
    \/ \E o \in Ops : Resolve(o)

Spec == Init /\ [][Next]_vars

-----------------------------------------------------------------------------
(* Properties.                                                             *)

Pending == OwnEdits(candidate) \ running

\* The candidate never mixes the pending edits of two operations, whatever
\* was left behind by calls that failed half way: edits are written only
\* under device_guard and after require_clean_candidate.
NoMixedCandidate ==
    \E o \in Ops : Pending \subseteq rec[o].actions

\* A commit job publishes only the edits of the operation it was started for.
CommitsOwnEdits ==
    \A w \in Workers :
        job[w].status = "active" => job[w].content \ running \subseteq rec[job[w].op].actions

\* A commit job carries exactly a content that a full validation of the same
\* operation accepted, although commit_candidate and commit_worker run
\* outside the mutex that validate_candidate held.
CommittedWasValidated ==
    \A w \in Workers : job[w].status # "none" => job[w].content \in validated[job[w].op]

\* The edits of an operation recorded as committed, or for which commit_worker
\* wrote a success receipt, are in the running configuration.
CommittedIsRunning ==
    \A o \in Ops :
        rec[o].state = "Committed" \/ "ok" \in evidence[o] => rec[o].actions \subseteq running

\* While a commit job's outcome is unknown its operation is committing or
\* indeterminate, across lost answers, deadlines and restarts: commit_worker
\* never turns an unknown outcome into success, failure or a discard.
UnknownIsNeverSettled ==
    \A w \in Workers :
        job[w].status = "active" => rec[job[w].op].state \in {"Committing", "Indeterminate"}

\* Where an evidence recorder is configured, commit_worker never starts a commit
\* job without a persisted apply intent, also when the evidence store fails and
\* the commit is retried.  Without a recorder commits leave no intent.
IntentBeforeCommit ==
    Recorder => \A w \in Workers :
        job[w].status # "none" => "intent" \in evidence[job[w].op]

\* An operation that took the configuration lock keeps it while its edits are
\* pending, and the candidate keeps the fingerprint the operation recorded:
\* no other administrator can slip an edit between stage and commit.
LockedOperationIsStable ==
    \A o \in Ops :
        /\ rec[o].state \in {"Staged", "Validating", "Validated", "Committing"}
        /\ rec[o].lock
        /\ Pending \intersect rec[o].actions # {}
        => lock /\ SameFingerprint(rec[o])

\* A task holds the endpoint mutex exactly while it is in the part of its
\* function between device_guard and the drop of the guard.
GuardDiscipline ==
    \A t \in Calls \union Workers : task[t].pc \in GuardedPcs <=> guard = t

\* One operation of the endpoint at most is open, where one client works at a
\* time.  The coordinator admits a new one only beside finished ones; this also
\* says that no write by a call, its worker, recovery or the operator opens a
\* finished operation again.  Beside a second client commit_candidate may: it
\* stores "Committing" from a record that it read before the other's discard.
OneOperationPerEndpoint ==
    \A o, p \in Ops : Unreconciled(o) /\ Unreconciled(p) => o = p

\* An operation of known or unknown outcome that no task under way has read.
Settled(o) ==
    /\ rec[o].state \in Terminal \union {"Indeterminate"}
    /\ \A t \in Calls \union Workers : task[t].op # o

\* A settled operation stays so, with its record, whatever other calls, their
\* workers, restarts and recovery do; only "state resolve" writes it, when the
\* outcome was unknown.  So an outcome can be overwritten only by a task that
\* had read the record before it was written (the blind updates of
\* commit_candidate and commit_worker), never by a call made afterwards.
SettledIsFinal ==
    [][\A o \in Ops :
         Settled(o) =>
             /\ Settled(o)'
             /\ rec'[o] = rec[o] \/ (rec[o].state = "Indeterminate" /\ ServiceStopped)]_vars

\* After a reload with another write policy no call that starts then moves an
\* operation on: every step of a record towards commit or discard is made by a
\* task whose own policy is the one the operation was staged under, or by the
\* offline command (require_operation_policy).
DriftStopsNewCalls ==
    [][\A o \in Ops :
         rec'[o].state # rec[o].state
         /\ rec'[o].state \in {"Validating", "Validated", "Committing", "Discarded"}
            => \/ ServiceStopped
               \/ \E t \in Calls \union Workers :
                    task[t].op = o /\ task[t].policy = rec[o].policy]_rec

\* commit_worker always reconciles: no operation stays "Committing" while the
\* process runs.
CommittingEnds ==
    \A o \in Ops : rec[o].state = "Committing" ~> rec[o].state # "Committing"

\* Every call returns: nobody waits for device_guard, a job or a worker forever.
CallsReturn ==
    \A t \in Calls : ~At(t, "idle") ~> At(t, "idle")
=============================================================================
