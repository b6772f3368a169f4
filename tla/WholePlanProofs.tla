---------------------------- MODULE WholePlanProofs ----------------------------
(***************************************************************************)
(* Proofs about the whole mutation system: calls, workers and applies over *)
(* one coordinator and one device.  The lifecycle keeps its invariant when *)
(* applies run beside it, and what an apply has staged is the whole plan.  *)
(***************************************************************************)
EXTENDS LifecycleProofs, ChangeSetsProofs

\* The states in which a record vouches for the plan it was staged from.
Trusted == {"Staged", "Validating", "Validated"}

\* Nobody stages without a plan beside a commit: no token may stage without one, or one
\* client works at a time and waits for its commits.
Undisturbed == ~StageTool \/ (~MayDetach /\ \A t, u \in Calls : t = u)

\* Where no edit may run unapproved.
Restrained == ~AllowDirectCommit /\ Undisturbed

\* The edits of the plans that a human other than their owner approved; every edit, where
\* that is not demanded.
Vetted(sets) ==
    {e \in Edits : Restrained =>
        \E c \in ChangeSetIds : /\ sets[c].approver \in Humans \ {sets[c].owner}
                                /\ e \in EditsOf(sets[c].actions)}

\* The plan of the record's change set is stored, the fingerprint recorded covers it, and
\* holds no edit that was not approved.
Covered(r, sets) ==
    r.changeSet # None =>
        /\ sets[r.changeSet].state # "Fresh"
        /\ EditsOf(sets[r.changeSet].actions) \subseteq r.current
        /\ OwnEdits(r.current) \subseteq Vetted(sets)

RecordsCover == \A o \in Ops : rec[o].state \in Trusted => Covered(rec[o], cset)

\* The calls and workers that may still write their copy back in a trusted state.
CopyPcs == {"validate_guard", "validate_post", "validate_poll", "commit_fp", "commit_mark",
            "worker_guard"}

\* stage_config knows no plan; a copy that is written back as trusted covers its plan.
TaskCovers(t) ==
    /\ task[t].pc \in StagePcs => task[t].rec.changeSet = None
    /\ task[t].pc \in CopyPcs => Covered(task[t].rec, cset)
    /\ task[t].pc \in WorkerPcs \union {"discard_save"} => task[t].rec.state \notin Trusted

TasksCover == \A t \in Tasked : TaskCovers(t)

\* A stored plan is one that was proposed, and every copy of its record has the same one.
Copied(plan, c) == cset[c].state # "Fresh" /\ plan = cset[c].actions

Proposed == \A c \in ChangeSetIds : cset[c].state # "Fresh" => cset[c].actions \in Plans

PlansStored ==
    /\ Proposed
    /\ \A v \in Viewers : view[v].cs # None => Copied(view[v].cset.actions, view[v].cs)
    /\ \A a \in Appliers : appl[a].pc # "idle" => Copied(appl[a].cset.actions, appl[a].cs)

\* An apply call that has not sent anything yet.
Unsent == {"apply_guard", "apply_lock", "apply_savelock", "apply_fp", "apply_clean",
           "apply_claim", "apply_link"}

\* What was sent of the plan is in the candidate: nobody else may revert it.
SentIsPending(a) ==
    /\ appl[a].pc \in Unsent => appl[a].applied = 0
    /\ appl[a].pc = "apply_push" => appl[a].applied < Len(appl[a].cset.actions)
    /\ appl[a].pc = "apply_after" => appl[a].applied = Len(appl[a].cset.actions)
    /\ appl[a].pc \in {"apply_push", "apply_after"} =>
         \A i \in 1..appl[a].applied : appl[a].cset.actions[i] \in candidate

\* An apply call holds the mutex and the record it has inserted for its plan.
HoldsRecord(a) ==
    /\ appl[a].pc \in ApplyGuarded <=> guard = a
    /\ appl[a].pc \in ApplyGuarded =>
         /\ rec[appl[a].op].state # "Fresh"
         /\ rec[appl[a].op].policy = appl[a].rec.policy
         /\ appl[a].rec.changeSet = appl[a].cs
         /\ appl[a].rec.state \in Lifecycle
         /\ appl[a].rec.state \in Trusted => appl[a].pc = "apply_settle"

ApplyHolds(a) == SentIsPending(a) /\ HoldsRecord(a)

AppliesHold == \A a \in Appliers : ApplyHolds(a)

ComposedInv ==
    /\ LifecycleInv
    /\ ApprovalInv
    /\ RecordsCover
    /\ TasksCover
    /\ PlansStored
    /\ AppliesHold

-----------------------------------------------------------------------------
(* Stored plans never change. *)

PlansKept ==
    \A c \in ChangeSetIds :
        cset[c].state # "Fresh" => cset'[c].state # "Fresh" /\ cset'[c].actions = cset[c].actions

\* Approvals are never taken back.
ApprovalsKept == Vetted(cset) \subseteq Vetted(cset')

\* A step of the ledger that keeps the plans keeps the approvals.
LEMMA GrantsStay ==
    ASSUME ApprovalInv, StepOK, PlansKept
    PROVE  ApprovalsKept
<1> SUFFICES ASSUME NEW c \in ChangeSetIds, cset[c].approver \in Humans \ {cset[c].owner}
             PROVE  /\ cset'[c].approver \in Humans \ {cset'[c].owner}
                    /\ EditsOf(cset'[c].actions) = EditsOf(cset[c].actions)
  BY DEF ApprovalsKept, Vetted
<1>1. cset[c].approver # None
  BY PrincipalsAssumption
<1>2. cset[c].state # "Fresh" /\ cset[c].owner # None
  BY <1>1 DEF ApprovalInv, PeopleInv
<1>3. cset'[c].owner = cset[c].owner /\ cset'[c].approver = cset[c].approver
  <2> DEFINE owners == [d \in ChangeSetIds |-> cset[d].owner]
             approvers == [d \in ChangeSetIds |-> cset[d].approver]
  <2>1. owners[c] # None /\ approvers[c] # None
    BY <1>1, <1>2
  <2>2. [Ledger!Next]_(Ledger!ledger)
    BY DEF StepOK
  <2>3. owners'[c] = owners[c] /\ approvers'[c] = approvers[c]
    <3>1. CASE UNCHANGED Ledger!ledger
      BY <3>1 DEF Ledger!ledger
    <3>2. ASSUME NEW d \in ChangeSetIds, NEW p, Ledger!Propose(d, p)
          PROVE  owners'[c] = owners[c] /\ approvers'[c] = approvers[c]
      BY <2>1, <3>2 DEF Ledger!Propose
    <3>3. ASSUME NEW d \in ChangeSetIds, NEW p, Ledger!Grant(d, p)
          PROVE  owners'[c] = owners[c] /\ approvers'[c] = approvers[c]
      BY <2>1, <3>3 DEF Ledger!Grant
    <3>4. ASSUME NEW d \in ChangeSetIds, NEW o, Ledger!Use(d, o)
          PROVE  owners'[c] = owners[c] /\ approvers'[c] = approvers[c]
      BY <3>4 DEF Ledger!Use
    <3> QED
      BY <2>2, <3>1, <3>2, <3>3, <3>4 DEF Ledger!Next
  <2> QED
    BY <2>3
<1>4. cset'[c].actions = cset[c].actions
  BY <1>2 DEF PlansKept
<1> QED
  BY <1>3, <1>4

\* A record that covers its plan goes on covering it.
LEMMA CoveredKept ==
    ASSUME PlansKept, ApprovalsKept, NEW r \in Records, Covered(r, cset)
    PROVE  Covered(r, cset')
<1>1. r.changeSet # None => r.changeSet \in ChangeSetIds
  BY DEF Records
<1> QED
  BY <1>1 DEF Covered, PlansKept, ApprovalsKept

\* A record without a change set covers everything.
LEMMA NoPlanCovered ==
    ASSUME NEW r, NEW sets, r.changeSet = None
    PROVE  Covered(r, sets)
BY DEF Covered

\* What the mutex is not: a task, or nobody, for an apply call.
LEMMA AppliersApart ==
    ASSUME NEW a \in Appliers
    PROVE  a # None /\ a \notin Tasked
BY TasksAssumption DEF Tasked

-----------------------------------------------------------------------------
(* What a step of a call or worker does to the applies beside it. *)

\* A step of a task leaves the mutex and the record of an apply call alone, and what the
\* apply call has sent too, unless the task holds the mutex itself.
LEMMA AppliesBesideTasks ==
    ASSUME ComposedInv, NEW t \in Tasked, task[t].pc # "idle",
           Writes(t), GuardMoves(t),
           (candidate \subseteq candidate') \/ guard = t, UNCHANGED csVars
    PROVE  AppliesHold'
<1> SUFFICES ASSUME NEW a \in Appliers PROVE ApplyHolds(a)'
  BY DEF AppliesHold
<1>1. appl' = appl /\ ApplyHolds(a) /\ a # None /\ a \notin Tasked /\ a # t
  BY AppliersApart DEF csVars, ComposedInv, AppliesHold
<1>2. guard' = a <=> guard = a
  BY <1>1 DEF GuardMoves
<1>3. SentIsPending(a)'
  <2>1. CASE appl[a].pc \in {"apply_push", "apply_after"}
    <3>1. appl[a].pc \in ApplyGuarded
      BY <2>1 DEF ApplyGuarded, ApplyPcs
    <3>2. guard = a
      BY <1>1, <3>1 DEF ApplyHolds, HoldsRecord
    <3>3. candidate \subseteq candidate'
      BY <1>1, <3>2
    <3> QED
      BY <1>1, <3>3 DEF ApplyHolds, SentIsPending
  <2>2. CASE appl[a].pc \notin {"apply_push", "apply_after"}
    BY <1>1, <2>2 DEF ApplyHolds, SentIsPending
  <2> QED
    BY <2>1, <2>2
<1>4. appl[a].pc \in ApplyGuarded =>
        /\ rec'[appl[a].op].state # "Fresh"
        /\ rec'[appl[a].op].policy = appl[a].rec.policy
  <2> SUFFICES ASSUME appl[a].pc \in ApplyGuarded
               PROVE  /\ rec'[appl[a].op].state # "Fresh"
                      /\ rec'[appl[a].op].policy = appl[a].rec.policy
    OBVIOUS
  <2> DEFINE o == appl[a].op
  <2>1. o \in Ops /\ rec[o].state # "Fresh" /\ rec[o].policy = appl[a].rec.policy
    BY <1>1 DEF ApplyHolds, HoldsRecord, ComposedInv, ApprovalInv, OpInv
  <2>2. rec \in [Ops -> Records]
    BY Types DEF ComposedInv
  <2>3. CASE rec' = rec
    BY <2>1, <2>3
  <2>4. CASE rec' # rec
    <3>1. PICK r \in Records : /\ r.policy = task[t].policy /\ r.state # "Fresh"
                               /\ rec' = [rec EXCEPT ![task[t].op] = r]
                               /\ (task[t].pc = "stage_guard" => rec[task[t].op].state = "Fresh")
      BY <2>4 DEF Writes
    <3>2. CASE o # task[t].op
      BY <2>1, <2>2, <3>1, <3>2
    <3>3. CASE o = task[t].op
      <4>1. task[t].pc # "stage_guard"
        BY <2>1, <3>1, <3>3
      <4>2. rec[o].policy = task[t].policy
        BY <3>3, <4>1, Underway DEF ComposedInv
      <4> QED
        BY <2>1, <2>2, <3>1, <3>3, <4>2
    <3> QED
      BY <3>2, <3>3
  <2> QED
    BY <2>3, <2>4
<1>5. HoldsRecord(a)'
  <2>1. appl[a].pc \in ApplyGuarded <=> guard' = a
    BY <1>1, <1>2 DEF ApplyHolds, HoldsRecord
  <2> QED
    BY <1>1, <1>4, <2>1, Zenon DEF ApplyHolds, HoldsRecord
<1> QED
  BY <1>3, <1>5 DEF ApplyHolds

\* Only a revert takes edits out of the candidate, and discard_candidate sends it under
\* the mutex.
LEMMA TasksKeepCandidate ==
    ASSUME LifecycleInv, NEW t \in Tasked,
           (t \in Calls /\ CallStep(t)) \/ (t \in Workers /\ WorkerStep(t))
    PROVE  (candidate \subseteq candidate') \/ guard = t
<1>1. CASE t \in Calls /\ StageStep(t)
  BY <1>1, Zenon DEF StageStep, StageInsert, StageLock, StageFingerprint, StageClean, StagePost,
     StageAfter, StageUnlock, StageRemove, deviceVars, PostEdit
<1>2. CASE t \in Calls /\ (ValidateStep(t) \/ CommitStep(t))
  BY <1>2, Zenon DEF ValidateStep, ValidateGuard, GuardAndCompare, ValidatePost, ValidatePoll,
     CommitStep, CommitCompare, CommitReturn, CommitMark, deviceVars
<1>3. CASE t \in Calls /\ DiscardStep(t)
  <2>1. CASE DiscardRevert(t)
    <3>1. task[t].pc \in GuardedPcs
      BY <2>1 DEF DiscardRevert, At, GuardedPcs
    <3> QED
      BY <3>1 DEF LifecycleInv, GuardDiscipline, Tasked
  <2> QED
    BY <1>3, <2>1, Zenon DEF DiscardStep, DiscardGuard, GuardAndCompare, DiscardFingerprint,
       DiscardUnlock, DiscardSave, deviceVars
<1>4. CASE t \in Workers /\ WorkerStep(t)
  BY <1>4, Zenon DEF WorkerStep, WorkerGuard, WorkerPost, WorkerJob, WorkerPoll, WorkerAfter,
     WorkerUnlock, WorkerReceipt, deviceVars
<1> QED
  BY <1>1, <1>2, <1>3, <1>4 DEF CallStep

-----------------------------------------------------------------------------
(* What the calls and workers write covers its plan. *)

\* Task t writes the record of its operation, if any, so that it vouches for no less
\* than its plan.
WritesCovered(t) ==
    \/ UNCHANGED rec
    \/ \E r : /\ rec' = [rec EXCEPT ![task[t].op] = r]
              /\ r.state \in Trusted => Covered(r, cset)

StepCovers == RecordsCover' /\ TasksCover'

\* A record that is written back covers its plan, if its new state vouches for it.
LEMMA UpdateCovers ==
    ASSUME NEW t, NEW r, NEW saved, Update(task[t].op, r, saved),
           r.state \in Trusted => Covered(r, cset)
    PROVE  WritesCovered(t)
<1>1. CASE saved
  BY <1>1, Zenon DEF WritesCovered, Update
<1>2. CASE ~saved
  BY <1>2, Zenon DEF WritesCovered, Update
<1> QED
  BY <1>1, <1>2

\* The stored records after a covered write.
LEMMA RecordsStayCovered ==
    ASSUME ComposedInv, UNCHANGED csVars, NEW t, WritesCovered(t)
    PROVE  RecordsCover'
<1>1. cset' = cset /\ rec \in [Ops -> Records]
  BY Types DEF csVars, ComposedInv
<1> SUFFICES ASSUME NEW o \in Ops, rec'[o].state \in Trusted PROVE Covered(rec'[o], cset)
  BY <1>1 DEF RecordsCover
<1>2. rec[o].state \in Trusted => Covered(rec[o], cset)
  BY DEF ComposedInv, RecordsCover
<1>3. CASE rec'[o] = rec[o]
  BY <1>2, <1>3
<1>4. CASE rec'[o] # rec[o]
  <2>1. PICK r : /\ rec' = [rec EXCEPT ![task[t].op] = r]
                 /\ r.state \in Trusted => Covered(r, cset)
    BY <1>4 DEF WritesCovered
  <2>2. rec'[o] = r
    BY <1>1, <1>4, <2>1
  <2> QED
    BY <2>1, <2>2
<1> QED
  BY <1>3, <1>4

\* One task moves and keeps its copy covered.
LEMMA MoveCovers ==
    ASSUME ComposedInv, UNCHANGED csVars, NEW t \in Tasked, Advances(t),
           TaskCovers(t)', WritesCovered(t)
    PROVE  StepCovers
<1>1. RecordsCover'
  BY RecordsStayCovered
<1>2. TasksCover'
  <2> SUFFICES ASSUME NEW u \in Tasked, u # t PROVE TaskCovers(u)'
    BY DEF TasksCover
  <2>1. task'[u] = task[u] /\ cset' = cset /\ TaskCovers(u)
    BY DEF Advances, csVars, ComposedInv, TasksCover
  <2> QED
    BY <2>1 DEF TaskCovers
<1> QED
  BY <1>1, <1>2 DEF StepCovers

\* One task goes to another place.
LEMMA GotoCovers ==
    ASSUME ComposedInv, UNCHANGED csVars, NEW t \in Tasked, task[t].pc # "idle",
           NEW pc \in PcsOf(t) \ {"stage_guard"}, Goto(t, pc),
           pc \in StagePcs => task[t].pc \in StagePcs,
           pc \in CopyPcs => task[t].pc \in CopyPcs,
           pc \in WorkerPcs => task[t].pc \in WorkerPcs,
           pc # "discard_save", WritesCovered(t)
    PROVE  StepCovers
<1>1. Advances(t) /\ task'[t].pc = pc /\ task'[t].rec = task[t].rec
  BY GotoAdvances DEF ComposedInv
<1>2. cset' = cset /\ TaskCovers(t)
  BY DEF csVars, ComposedInv, TasksCover
<1>3. TaskCovers(t)'
  BY <1>1, <1>2 DEF TaskCovers
<1> QED
  BY <1>1, <1>3, MoveCovers

\* One task goes to another place with another record.
LEMMA KeepCovers ==
    ASSUME ComposedInv, UNCHANGED csVars, NEW t \in Tasked, task[t].pc # "idle",
           NEW pc \in PcsOf(t) \ {"stage_guard"}, NEW r \in Records, Keep(t, pc, r),
           r.policy = task[t].policy, r.state \in Lifecycle,
           pc \in StagePcs => r.changeSet = None,
           pc \notin CopyPcs,
           pc \in WorkerPcs \union {"discard_save"} => r.state \notin Trusted,
           WritesCovered(t)
    PROVE  StepCovers
<1>1. Advances(t) /\ task'[t].pc = pc /\ task'[t].rec = r
  BY KeepAdvances DEF ComposedInv
<1>2. TaskCovers(t)'
  BY <1>1 DEF TaskCovers
<1> QED
  BY <1>1, <1>2, MoveCovers

\* One task returns.
LEMMA FinishCovers ==
    ASSUME ComposedInv, UNCHANGED csVars, NEW t \in Tasked, Finish(t), WritesCovered(t)
    PROVE  StepCovers
<1>1. Advances(t) /\ task'[t].pc = "idle"
  BY FinishAdvances DEF ComposedInv
<1>2. TaskCovers(t)'
  BY <1>1 DEF TaskCovers, StagePcs, CopyPcs, WorkerPcs
<1> QED
  BY <1>1, <1>2, MoveCovers

\* stage_config: an operation of its own, without a plan.
LEMMA StageCovers ==
    ASSUME ComposedInv, UNCHANGED csVars, NEW t \in Calls, StageStep(t)
    PROVE  StepCovers
<1>1. /\ t \in Tasked /\ task[t].pc \in StagePcs /\ task[t].pc # "idle"
      /\ \A pc \in StagePcs : pc \in PcsOf(t) /\ pc \notin CopyPcs /\ pc \notin WorkerPcs
                              /\ pc # "discard_save"
  BY Places DEF StageStep, StageInsert, StageLock, StageFingerprint, StageClean, StagePost,
     StageAfter, StageUnlock, StageRemove, At, StagePcs, CallPcs, CopyPcs, WorkerPcs
<1>2. /\ task[t].rec \in Records /\ task[t].rec.changeSet = None
      /\ task[t].rec.policy = task[t].policy /\ task[t].rec.state \in Lifecycle
      /\ TaskOK(t)
  BY <1>1, Underway DEF ComposedInv, TasksCover, TaskCovers, LifecycleInv, TasksOK
<1>3. ASSUME NEW pc \in StagePcs \ {"stage_guard"}, Goto(t, pc), WritesCovered(t)
      PROVE  StepCovers
  BY <1>1, <1>3, GotoCovers
<1>4. ASSUME UNCHANGED rec PROVE WritesCovered(t)
  BY <1>4 DEF WritesCovered
<1>5. CASE StageInsert(t)
  <2>1. CASE Insert(task[t].op, task[t].rec) /\ Goto(t, "stage_lock")
    <3>1. task[t].rec.state \notin Trusted
      BY <1>2, <1>5 DEF TaskOK, StageInsert, At, Trusted
    <3>2. WritesCovered(t)
      BY <2>1, <3>1 DEF Insert, WritesCovered
    <3> QED
      BY <1>3, <2>1, <3>2 DEF StagePcs
  <2>2. CASE Finish(t) /\ UNCHANGED coordinatorVars
    BY <1>1, <1>4, <2>2, FinishCovers DEF coordinatorVars
  <2> QED
    BY <1>5, <2>1, <2>2 DEF StageInsert
<1>6. CASE \/ StageLock(t) \/ StageFingerprint(t) \/ StageClean(t) \/ StagePost(t)
           \/ StageUnlock(t)
  <2>1. WritesCovered(t)
    BY <1>4, <1>6 DEF StageLock, StageFingerprint, StageClean, StagePost, StageUnlock,
       coordinatorVars
  <2> DEFINE r == [task[t].rec EXCEPT !.lock = TRUE]
  <2>2. r \in Records /\ r.policy = task[t].policy /\ r.state \in Lifecycle /\ r.changeSet = None
    BY <1>2, WithLockType
  <2>3. \/ \E pc \in StagePcs \ {"stage_guard"} : Goto(t, pc)
        \/ Keep(t, "stage_fp", r)
    BY <1>6 DEF StageLock, StageFingerprint, StageClean, StagePost, StageUnlock, StageAbort,
       StagePcs
  <2> HIDE DEF r
  <2>4. CASE Keep(t, "stage_fp", r)
    <3>1. "stage_fp" \in StagePcs
      BY DEF StagePcs
    <3> QED
      BY <1>1, <2>1, <2>2, <2>4, <3>1, KeepCovers
  <2> QED
    BY <1>3, <2>1, <2>3, <2>4
<1>7. CASE StageAfter(t)
  <2>1. CASE StageAbort(t) /\ UNCHANGED coordinatorVars
    BY <1>3, <1>4, <2>1 DEF StageAbort, coordinatorVars, StagePcs
  <2>2. ASSUME NEW saved, Finish(t),
               Update(task[t].op, [task[t].rec EXCEPT !.state = "Staged",
                                                      !.current = Fingerprint], saved)
        PROVE  StepCovers
    <3> DEFINE r == [task[t].rec EXCEPT !.state = "Staged", !.current = Fingerprint]
    <3>1. r.changeSet = None
      BY <1>2 DEF Records
    <3>2. Update(task[t].op, r, saved)
      BY <2>2
    <3> HIDE DEF r
    <3>3. WritesCovered(t)
      BY <3>1, <3>2, UpdateCovers, NoPlanCovered
    <3> QED
      BY <1>1, <2>2, <3>3, FinishCovers
  <2> QED
    BY <1>7, <2>1, <2>2 DEF StageAfter
<1>8. CASE StageRemove(t)
  <2> DEFINE r == [rec[task[t].op] EXCEPT !.state = "Gone"]
  <2>1. rec[task[t].op] \in Records
    BY <1>1, Types, Underway DEF ComposedInv
  <2>2. r.state \notin Trusted
    BY <2>1 DEF Records, Trusted
  <2>3. rec' = [rec EXCEPT ![task[t].op] = r]
    BY <1>8 DEF StageRemove, Remove
  <2> HIDE DEF r
  <2>4. WritesCovered(t)
    BY <2>2, <2>3 DEF WritesCovered
  <2> QED
    BY <1>1, <1>8, <2>4, FinishCovers DEF StageRemove
<1> QED
  BY <1>5, <1>6, <1>7, <1>8 DEF StageStep

\* validate_candidate writes back the record it read, in the states of a validation.
LEMMA ValidateCovers ==
    ASSUME ComposedInv, UNCHANGED csVars, NEW t \in Calls, ValidateStep(t)
    PROVE  StepCovers
<1>1. /\ t \in Tasked /\ task[t].pc \in {"validate_guard", "validate_post", "validate_poll"}
      /\ task[t].pc \in CopyPcs /\ task[t].pc # "idle"
  BY Places DEF ValidateStep, ValidateGuard, ValidatePost, ValidatePoll, At, CopyPcs
<1>2. /\ task[t].rec \in Records /\ Covered(task[t].rec, cset)
      /\ task[t].rec.policy = task[t].policy
  BY <1>1, Underway DEF ComposedInv, TasksCover, TaskCovers
<1>3. ASSUME NEW s \in Lifecycle
      PROVE  /\ WithState(task[t].rec, s) \in Records /\ WithState(task[t].rec, s).state = s
             /\ Covered(WithState(task[t].rec, s), cset)
  BY <1>2, <1>3, WithStateType DEF Covered
<1>4. ASSUME UNCHANGED rec PROVE WritesCovered(t)
  BY <1>4 DEF WritesCovered
<1>5. CASE ValidateGuard(t)
  <2>1. WritesCovered(t)
    BY <1>4, <1>5 DEF ValidateGuard, GuardAndCompare
  <2>2. CASE Finish(t)
    BY <1>1, <2>1, <2>2, FinishCovers
  <2>3. CASE Goto(t, "validate_post")
    <3>1. "validate_post" \in PcsOf(t) \ {"stage_guard"}
      BY Places DEF CallPcs
    <3>2. "validate_post" \notin StagePcs /\ "validate_post" \notin WorkerPcs
      BY DEF StagePcs, WorkerPcs
    <3> QED
      BY <1>1, <2>1, <2>3, <3>1, <3>2, GotoCovers
  <2> QED
    BY <1>5, <2>2, <2>3 DEF ValidateGuard, GuardAndCompare
<1>6. CASE ValidatePost(t)
  <2> DEFINE r == WithState(task[t].rec, "Validating")
             l == [task[t] EXCEPT !.pc = "validate_poll", !.rec = r, !.seen = OwnEdits(candidate)]
  <2>1. r \in Records /\ r.state = "Validating" /\ Covered(r, cset)
    BY <1>3 DEF Lifecycle
  <2>2. r.policy = task[t].policy
    BY <1>2, WithStateType DEF Lifecycle
  <2>3. CASE Finish(t) /\ UNCHANGED rec
    BY <1>1, <1>4, <2>3, FinishCovers
  <2>4. ASSUME NEW saved, Finish(t), Update(task[t].op, r, saved) PROVE StepCovers
    <3>1. WritesCovered(t)
      BY <2>1, <2>4, UpdateCovers
    <3> QED
      BY <1>1, <2>4, <3>1, FinishCovers
  <2>5. ASSUME NEW saved, Update(task[t].op, r, saved),
               task' = [task EXCEPT ![t].pc = "validate_poll", ![t].rec = r,
                                    ![t].seen = OwnEdits(candidate)]
        PROVE  StepCovers
    <3>1. task \in [Tasked -> Locals] /\ task[t] \in Locals
      BY <1>1, Types DEF ComposedInv
    <3>2. task' = [task EXCEPT ![t] = l]
      BY <2>5
    <3>3. l.pc = "validate_poll" /\ l.rec = r
      BY <3>1 DEF Locals
    <3> HIDE DEF l, r
    <3>4. task'[t].pc = "validate_poll" /\ task'[t].rec = r
          /\ \A u \in Tasked \ {t} : task'[u] = task[u]
      BY <1>1, <3>1, <3>2, <3>3
    <3>5. WritesCovered(t)
      BY <2>1, <2>5, UpdateCovers
    <3>6. cset' = cset
      BY DEF csVars
    <3>7. TaskCovers(t)'
      BY <2>1, <3>4, <3>6 DEF TaskCovers, StagePcs, WorkerPcs
    <3>8. \A u \in Tasked \ {t} : TaskCovers(u)'
      BY <3>4, <3>6 DEF ComposedInv, TasksCover, TaskCovers
    <3> QED
      BY <3>5, <3>7, <3>8, RecordsStayCovered DEF StepCovers, TasksCover
  <2> HIDE DEF r
  <2> QED
    BY <1>6, <2>3, <2>4, <2>5 DEF ValidatePost, r
<1>7. CASE ValidatePoll(t)
  <2>1. Finish(t)
    BY <1>7 DEF ValidatePoll
  <2>2. PICK succeeded \in BOOLEAN, saved \in Saves :
          Update(task[t].op,
                 WithState(task[t].rec, IF succeeded THEN "Validated" ELSE "Failed"), saved)
    BY <1>7 DEF ValidatePoll
  <2> DEFINE s == IF succeeded THEN "Validated" ELSE "Failed"
  <2>3. s \in Lifecycle
    BY DEF Lifecycle
  <2> HIDE DEF s
  <2>4. Covered(WithState(task[t].rec, s), cset)
    BY <1>3, <2>3
  <2>5. WritesCovered(t)
    BY <2>2, <2>4, UpdateCovers DEF s
  <2> QED
    BY <1>1, <2>1, <2>5, FinishCovers
<1> QED
  BY <1>5, <1>6, <1>7 DEF ValidateStep

\* commit_candidate reads a validated record and hands it to its worker.
LEMMA CommitCovers ==
    ASSUME ComposedInv, UNCHANGED csVars, NEW t \in Calls, CommitStep(t)
    PROVE  StepCovers
<1>1. /\ t \in Tasked /\ task[t].pc \in {"commit_fp", "commit_mark", "commit_wait"}
      /\ task[t].pc # "idle"
  BY Places DEF CommitStep, CommitCompare, CommitReturn, CommitMark, At
<1>2. CASE CommitCompare(t) \/ CommitReturn(t)
  <2>1. WritesCovered(t)
    BY <1>2 DEF WritesCovered, CommitCompare, CommitReturn, coordinatorVars
  <2>2. CASE Finish(t)
    BY <1>1, <2>1, <2>2, FinishCovers
  <2>3. CASE task[t].pc = "commit_fp" /\ Goto(t, "commit_mark")
    <3>1. "commit_mark" \in PcsOf(t) \ {"stage_guard"}
      BY Places DEF CallPcs
    <3>2. "commit_mark" \notin StagePcs /\ "commit_mark" \notin WorkerPcs
          /\ task[t].pc \in CopyPcs
      BY <2>3 DEF StagePcs, WorkerPcs, CopyPcs
    <3> QED
      BY <1>1, <2>1, <2>3, <3>1, <3>2, GotoCovers
  <2> QED
    BY <1>2, <2>2, <2>3 DEF CommitCompare, CommitReturn, At
<1>3. ASSUME NEW w \in Workers, CommitMark(t, w) PROVE StepCovers
  <2> DEFINE r == WithState(task[t].rec, "Committing")
             lt == [task[t] EXCEPT !.pc = "commit_wait", !.worker = w]
             lw == [task[t] EXCEPT !.pc = "worker_guard", !.rec = r]
  <2>1. task[t].pc = "commit_mark" /\ w \in Tasked /\ t # w
    BY <1>3, Places, TasksAssumption DEF CommitMark, At
  <2>2. task \in [Tasked -> Locals] /\ task[t] \in Locals /\ task[t].rec \in Records
    BY <1>1, Types, Underway DEF ComposedInv
  <2>3. Covered(task[t].rec, cset)
    BY <1>1, <2>1 DEF ComposedInv, TasksCover, TaskCovers, CopyPcs
  <2>4. r \in Records /\ r.state = "Committing" /\ Covered(r, cset)
    BY <2>2, <2>3, WithStateType DEF Covered, Lifecycle
  <2>5. PICK saved \in Saves :
          /\ Update(task[t].op, r, saved)
          /\ task' = IF saved
                     THEN [task EXCEPT ![t].pc = "commit_wait", ![t].worker = w,
                                       ![w] = [task[t] EXCEPT !.pc = "worker_guard", !.rec = r]]
                     ELSE [task EXCEPT ![t] = Idle]
    BY <1>3 DEF CommitMark
  <2>6. WritesCovered(t)
    BY <2>4, <2>5, UpdateCovers
  <2>7. CASE ~saved
    <3>1. Finish(t)
      BY <2>5, <2>7, Zenon DEF Finish
    <3> QED
      BY <1>1, <2>6, <3>1, FinishCovers
  <2>8. CASE saved
    <3>1. task' = [task EXCEPT ![t].pc = "commit_wait", ![t].worker = w,
                               ![w] = [task[t] EXCEPT !.pc = "worker_guard", !.rec = r]]
      BY <2>5, <2>8, Zenon
    <3>2. lt.pc = "commit_wait" /\ lw.pc = "worker_guard" /\ lw.rec = r
      BY <2>2 DEF Locals
    <3>3. task' = [task EXCEPT ![t] = lt, ![w] = lw]
      BY <2>1, <2>2, <3>1
    <3> HIDE DEF r, lt, lw
    <3>4. /\ task'[t].pc = "commit_wait" /\ task'[w].pc = "worker_guard" /\ task'[w].rec = r
          /\ \A u \in Tasked \ {t, w} : task'[u] = task[u]
      BY <1>1, <2>1, <2>2, <3>2, <3>3
    <3>5. cset' = cset
      BY DEF csVars
    <3>6. TaskCovers(t)'
      BY <3>4 DEF TaskCovers, StagePcs, WorkerPcs, CopyPcs
    <3>7. TaskCovers(w)'
      BY <2>4, <3>4, <3>5 DEF TaskCovers, StagePcs, CopyPcs, Trusted
    <3>8. \A u \in Tasked \ {t, w} : TaskCovers(u)'
      BY <3>4, <3>5 DEF ComposedInv, TasksCover, TaskCovers
    <3> QED
      BY <2>6, <3>6, <3>7, <3>8, RecordsStayCovered DEF StepCovers, TasksCover
  <2> QED
    BY <2>7, <2>8
<1> QED
  BY <1>2, <1>3 DEF CommitStep

\* discard_candidate writes its record back only as discarded or indeterminate.
LEMMA DiscardCovers ==
    ASSUME ComposedInv, UNCHANGED csVars, NEW t \in Calls, DiscardStep(t)
    PROVE  StepCovers
<1>1. /\ t \in Tasked /\ task[t].pc # "idle"
      /\ {"discard_revert", "discard_fp", "discard_unlock", "discard_save"}
            \subseteq PcsOf(t) \ (StagePcs \union CopyPcs \union WorkerPcs)
      /\ "stage_guard" \in StagePcs
  BY Places DEF DiscardStep, DiscardGuard, DiscardRevert, DiscardFingerprint, DiscardUnlock,
     DiscardSave, At, CallPcs, StagePcs, CopyPcs, WorkerPcs
<1>2. /\ task[t].rec \in Records /\ task[t].rec.policy = task[t].policy
      /\ task[t].rec.state \in Lifecycle /\ Fingerprint \in SUBSET Roots
  BY <1>1, Underway DEF ComposedInv, Fingerprint
<1>3. CASE ~DiscardSave(t)
  <2>1. WritesCovered(t)
    BY <1>3 DEF DiscardStep, DiscardGuard, GuardAndCompare, DiscardRevert, DiscardFingerprint,
       DiscardUnlock, WritesCovered, coordinatorVars
  <2>2. CASE Finish(t)
    BY <1>1, <2>1, <2>2, FinishCovers
  <2>3. ASSUME NEW pc \in {"discard_revert", "discard_fp"}, Goto(t, pc) PROVE StepCovers
    <3>1. /\ pc \in PcsOf(t) \ {"stage_guard"} /\ pc \notin StagePcs /\ pc \notin CopyPcs
          /\ pc \notin WorkerPcs /\ pc # "discard_save"
      BY <1>1
    <3> QED
      BY <1>1, <2>1, <2>3, <3>1, GotoCovers
  <2>4. ASSUME NEW pc \in {"discard_unlock", "discard_save"}, NEW r \in Records, Keep(t, pc, r),
               r.policy = task[t].policy, r.state \in Lifecycle,
               pc = "discard_save" => r.state \notin Trusted
        PROVE  StepCovers
    <3>1. /\ pc \in PcsOf(t) \ {"stage_guard"} /\ pc \notin StagePcs /\ pc \notin CopyPcs
          /\ pc \notin WorkerPcs
      BY <1>1
    <3> QED
      BY <1>1, <2>1, <2>4, <3>1, KeepCovers
  <2>5. CASE DiscardFingerprint(t) /\ ~Finish(t)
    <3> DEFINE r == [task[t].rec EXCEPT !.current = Fingerprint]
               s == WithState(r, "Discarded")
    <3>1. Keep(t, IF r.lock THEN "discard_unlock" ELSE "discard_save", IF r.lock THEN r ELSE s)
      BY <2>5, Zenon DEF DiscardFingerprint
    <3>2. r \in Records /\ r.policy = task[t].policy /\ r.state \in Lifecycle
      BY <1>2, WithCurrentType
    <3>3. s \in Records /\ s.policy = task[t].policy /\ s.state = "Discarded"
      <4> HIDE DEF r
      <4> QED
        BY <1>2, <3>2, WithStateType DEF Lifecycle
    <3> HIDE DEF r, s
    <3>4. CASE r.lock
      <4>1. Keep(t, "discard_unlock", r)
        BY <3>1, <3>4, Zenon
      <4> QED
        BY <2>4, <3>2, <4>1
    <3>5. CASE ~r.lock
      <4>1. Keep(t, "discard_save", s)
        BY <3>1, <3>5, Zenon
      <4> QED
        BY <2>4, <3>3, <4>1 DEF Lifecycle, Trusted
    <3> QED
      BY <3>4, <3>5
  <2>6. CASE DiscardUnlock(t)
    <3> DEFINE r == [task[t].rec EXCEPT !.lock = FALSE, !.state = "Discarded"]
               s == WithState(task[t].rec, "Indeterminate")
    <3>1. Keep(t, "discard_save", r) \/ Keep(t, "discard_save", s)
      BY <2>6 DEF DiscardUnlock
    <3>2. r \in Records /\ r.policy = task[t].policy /\ r.state = "Discarded"
      BY <1>2, UnlockedType DEF Lifecycle
    <3>3. s \in Records /\ s.policy = task[t].policy /\ s.state = "Indeterminate"
      BY <1>2, WithStateType DEF Lifecycle
    <3> HIDE DEF r, s
    <3> QED
      BY <2>4, <3>1, <3>2, <3>3 DEF Lifecycle, Trusted
  <2> QED
    BY <1>3, <2>2, <2>3, <2>5, <2>6
       DEF DiscardStep, DiscardGuard, GuardAndCompare, DiscardRevert
<1>4. CASE DiscardSave(t)
  <2>1. task[t].rec.state \notin Trusted
    BY <1>1, <1>4 DEF DiscardSave, At, ComposedInv, TasksCover, TaskCovers
  <2>2. PICK saved \in Saves : Update(task[t].op, task[t].rec, saved)
    BY <1>4 DEF DiscardSave
  <2>3. WritesCovered(t)
    BY <2>1, <2>2, UpdateCovers
  <2> QED
    BY <1>1, <1>4, <2>3, FinishCovers DEF DiscardSave
<1> QED
  BY <1>3, <1>4

\* commit_worker: the record it gives back as validated is the one that was validated;
\* what it writes later settles the operation.
LEMMA WorkerCovers ==
    ASSUME ComposedInv, UNCHANGED csVars, NEW w \in Workers, WorkerStep(w)
    PROVE  StepCovers
<1>1. /\ w \in Tasked /\ task[w].pc # "idle" /\ task[w].pc \in WorkerPcs
      /\ \A pc \in WorkerPcs : pc \in PcsOf(w) \ {"stage_guard"} /\ pc \notin StagePcs
                               /\ (pc # "worker_guard" => pc \notin CopyPcs)
  BY Places DEF WorkerStep, WorkerGuard, WorkerPost, WorkerJob, WorkerPoll, WorkerAfter,
     WorkerUnlock, WorkerReceipt, At, StagePcs, CopyPcs, WorkerPcs
<1>2. /\ task[w].rec \in Records /\ task[w].rec.policy = task[w].policy
      /\ task[w].rec.state \in Lifecycle /\ task[w].rec.state \notin Trusted
  BY <1>1, Underway DEF ComposedInv, TasksCover, TaskCovers
<1>3. ASSUME NEW pc \in WorkerPcs \ {"worker_guard"}, Goto(w, pc), WritesCovered(w)
      PROVE  StepCovers
  <2>1. pc \in PcsOf(w) \ {"stage_guard"} /\ pc \notin StagePcs /\ pc \notin CopyPcs
        /\ pc # "discard_save"
    BY <1>1 DEF WorkerPcs
  <2> QED
    BY <1>1, <1>3, <2>1, GotoCovers
<1>4. ASSUME NEW pc \in WorkerPcs \ {"worker_guard"}, NEW r \in Records, Keep(w, pc, r),
             r.policy = task[w].policy, r.state \in Lifecycle \ Trusted, WritesCovered(w)
      PROVE  StepCovers
  <2>1. pc \in PcsOf(w) \ {"stage_guard"} /\ pc \notin StagePcs /\ pc \notin CopyPcs
    BY <1>1
  <2> QED
    BY <1>1, <1>4, <2>1, KeepCovers
<1>5. ASSUME WorkerError(w), WritesCovered(w) PROVE StepCovers
  <2> DEFINE r == WithState(task[w].rec, "Indeterminate")
  <2>1. r \in Records /\ r.policy = task[w].policy /\ r.state \in Lifecycle \ Trusted
    BY <1>2, WithStateType DEF Lifecycle, Trusted
  <2>2. Keep(w, "worker_receipt", r)
    BY <1>5 DEF WorkerError
  <2> HIDE DEF r
  <2> QED
    BY <1>4, <1>5, <2>1, <2>2 DEF WorkerPcs
<1>6. ASSUME UNCHANGED rec PROVE WritesCovered(w)
  BY <1>6 DEF WritesCovered
<1>7. ASSUME NEW saved, Update(task[w].op, task[w].rec, saved) PROVE WritesCovered(w)
  BY <1>2, <1>7, UpdateCovers
<1>8. CASE WorkerGuard(w)
  <2>1. CASE Goto(w, "worker_post") /\ UNCHANGED rec
    BY <1>3, <1>6, <2>1 DEF WorkerPcs
  <2>2. ASSUME NEW saved, Finish(w), Update(task[w].op, WithState(task[w].rec, "Validated"), saved)
        PROVE  StepCovers
    <3>1. Covered(task[w].rec, cset)
      BY <1>1, <1>8 DEF WorkerGuard, At, ComposedInv, TasksCover, TaskCovers, CopyPcs
    <3>2. Covered(WithState(task[w].rec, "Validated"), cset)
      BY <1>2, <3>1, WithStateType DEF Covered, Lifecycle
    <3>3. WritesCovered(w)
      BY <2>2, <3>2, UpdateCovers
    <3> QED
      BY <1>1, <2>2, <3>3, FinishCovers
  <2> QED
    BY <1>8, <2>1, <2>2 DEF WorkerGuard
<1>9. CASE WorkerPost(w) \/ WorkerPoll(w)
  <2>1. WritesCovered(w)
    BY <1>6, <1>9 DEF WorkerPost, WorkerPoll
  <2>2. Goto(w, "worker_job") \/ Goto(w, "worker_after") \/ WorkerError(w)
    BY <1>9, Zenon DEF WorkerPost, WorkerPoll
  <2> QED
    BY <1>3, <1>5, <2>1, <2>2 DEF WorkerPcs
<1>10. CASE WorkerJob(w)
  <2>1. PICK saved \in Saves :
          /\ Update(task[w].op, task[w].rec, saved)
          /\ IF saved THEN Goto(w, "worker_poll") /\ UNCHANGED guard ELSE WorkerError(w)
    BY <1>10 DEF WorkerJob
  <2>2. WritesCovered(w)
    BY <1>7, <2>1
  <2>3. Goto(w, "worker_poll") \/ WorkerError(w)
    BY <2>1, Zenon
  <2> QED
    BY <1>3, <1>5, <2>2, <2>3 DEF WorkerPcs
<1>11. CASE WorkerAfter(w)
  <2> DEFINE verdict == job[w].status
             r == [task[w].rec EXCEPT !.current = Fingerprint,
                                      !.state = IF verdict = "ok" THEN "Committing" ELSE "Failed"]
             next(saved) == CASE ~saved -> WithState(r, "Indeterminate")
                              [] saved /\ verdict = "ok" /\ ~r.lock -> WithState(r, "Committed")
                              [] OTHER -> r
  <2>1. task \in [Tasked -> Locals] /\ task[w] \in Locals /\ Fingerprint \in SUBSET Roots
    BY <1>1, Types DEF ComposedInv, Fingerprint
  <2>2. PICK out \in Reads, saved \in Saves :
          IF out # "ok" THEN WorkerError(w) /\ UNCHANGED rec
          ELSE /\ Update(task[w].op, r, saved)
               /\ Release(w)
               /\ task' = [task EXCEPT
                    ![w].pc = IF next(saved).state = "Committing" THEN "worker_unlock"
                              ELSE "worker_receipt",
                    ![w].rec = next(saved),
                    ![w].verdict = IF saved THEN verdict ELSE "unknown"]
    BY <1>11 DEF WorkerAfter
  <2>3. CASE out # "ok"
    <3>1. WorkerError(w) /\ UNCHANGED rec
      BY <2>2, <2>3, Zenon
    <3> QED
      BY <1>5, <1>6, <3>1
  <2>4. CASE out = "ok"
    <3> DEFINE s == IF verdict = "ok" THEN "Committing" ELSE "Failed"
               pc == IF next(saved).state = "Committing" THEN "worker_unlock"
                     ELSE "worker_receipt"
               v == IF saved THEN verdict ELSE "unknown"
               l == [task[w] EXCEPT !.pc = pc, !.rec = next(saved), !.verdict = v]
    <3>1. s \in Lifecycle \ Trusted
      BY DEF Lifecycle, Trusted
    <3>2. r \in Records /\ r.state \in Lifecycle \ Trusted
      <4>1. r = [task[w].rec EXCEPT !.current = Fingerprint, !.state = s]
        OBVIOUS
      <4> HIDE DEF s, r, verdict
      <4>2. s \in Unused \union Lifecycle
        BY <3>1
      <4>3. r \in Records
        BY <1>2, <2>1, <4>1, <4>2 DEF Records
      <4>4. r.state = s
        BY <1>2, <4>1 DEF Records
      <4> QED
        BY <3>1, <4>3, <4>4
    <3>3. /\ Update(task[w].op, r, saved)
          /\ task' = [task EXCEPT ![w].pc = pc, ![w].rec = next(saved), ![w].verdict = v]
      BY <2>2, <2>4, Zenon
    <3>4. next(saved).state \notin Trusted
      <4>1. \A q \in {"Indeterminate", "Committed"} : WithState(r, q).state = q
        <5> HIDE DEF r, s, verdict
        <5> QED
          BY <3>2, WithStateType DEF Lifecycle
      <4>2. next(saved) \in {r, WithState(r, "Indeterminate"), WithState(r, "Committed")}
        <5> HIDE DEF r, verdict
        <5> QED
          BY Zenon
      <4>3. "Indeterminate" \notin Trusted /\ "Committed" \notin Trusted
        BY DEF Trusted
      <4> HIDE DEF next, r, s, verdict
      <4> QED
        BY <3>2, <4>1, <4>2, <4>3
    <3>5. pc \in {"worker_unlock", "worker_receipt"}
      OBVIOUS
    <3> HIDE DEF next, pc, v, r, s, verdict
    <3>6. task' = [task EXCEPT ![w] = l]
      BY <3>3
    <3>7. l.pc = pc /\ l.rec = next(saved)
      BY <2>1 DEF Locals
    <3> HIDE DEF l
    <3>8. /\ task'[w].pc = pc /\ task'[w].rec = next(saved)
          /\ \A u \in Tasked \ {w} : task'[u] = task[u]
      BY <1>1, <2>1, <3>6, <3>7
    <3>9. cset' = cset
      BY DEF csVars
    <3>10. TaskCovers(w)'
      BY <3>4, <3>5, <3>8 DEF TaskCovers, StagePcs, CopyPcs
    <3>11. \A u \in Tasked \ {w} : TaskCovers(u)'
      BY <3>8, <3>9 DEF ComposedInv, TasksCover, TaskCovers
    <3>12. WritesCovered(w)
      BY <3>2, <3>3, UpdateCovers
    <3> QED
      BY <3>10, <3>11, <3>12, RecordsStayCovered DEF StepCovers, TasksCover
  <2> QED
    BY <2>3, <2>4
<1>12. CASE WorkerUnlock(w)
  <2> DEFINE r == [task[w].rec EXCEPT !.lock = FALSE, !.state = "Committed"]
             s == WithState(task[w].rec, "Indeterminate")
  <2>1. Keep(w, "worker_receipt", r) \/ Keep(w, "worker_receipt", s)
    BY <1>12 DEF WorkerUnlock
  <2>2. r \in Records /\ r.policy = task[w].policy /\ r.state \in Lifecycle \ Trusted
    BY <1>2, UnlockedType DEF Lifecycle, Trusted
  <2>3. s \in Records /\ s.policy = task[w].policy /\ s.state \in Lifecycle \ Trusted
    BY <1>2, WithStateType DEF Lifecycle, Trusted
  <2>4. WritesCovered(w)
    BY <1>6, <1>12 DEF WorkerUnlock, coordinatorVars
  <2> HIDE DEF r, s
  <2> QED
    BY <1>4, <2>1, <2>2, <2>3, <2>4 DEF WorkerPcs
<1>13. CASE WorkerReceipt(w)
  <2>1. PICK saved \in Saves : Update(task[w].op, task[w].rec, saved)
    BY <1>13 DEF WorkerReceipt
  <2> QED
    BY <1>1, <1>7, <1>13, <2>1, FinishCovers DEF WorkerReceipt
<1> QED
  BY <1>8, <1>9, <1>10, <1>11, <1>12, <1>13 DEF WorkerStep

-----------------------------------------------------------------------------
(* New calls, the device and the operator. *)

\* A step that leaves the layer alone leaves its plans and copies alone.
LEMMA PlansStayStored ==
    ASSUME ComposedInv, UNCHANGED csVars
    PROVE  PlansStored'
<1>1. cset' = cset /\ view' = view /\ appl' = appl /\ PlansStored
  BY DEF csVars, ComposedInv
<1> QED
  BY <1>1 DEF PlansStored, Proposed, Copied

\* A step that writes no record, moves no mutex and takes nothing out of the candidate
\* leaves every apply call as it was.
LEMMA AppliesUntouched ==
    ASSUME ComposedInv, UNCHANGED <<appl, rec, guard>>, candidate \subseteq candidate'
    PROVE  AppliesHold'
<1> SUFFICES ASSUME NEW a \in Appliers PROVE ApplyHolds(a)'
  BY DEF AppliesHold
<1>1. SentIsPending(a)' /\ HoldsRecord(a)'
  <2>1. SentIsPending(a) /\ HoldsRecord(a)
    BY DEF ComposedInv, AppliesHold, ApplyHolds
  <2>2. SentIsPending(a)'
    BY <2>1 DEF SentIsPending
  <2>3. HoldsRecord(a)'
    BY <2>1, Zenon DEF HoldsRecord
  <2> QED
    BY <2>2, <2>3
<1> QED
  BY <1>1 DEF ApplyHolds

\* A new call copies a record that covers its plan, or knows no plan.
LEMMA BeganCovers ==
    ASSUME ComposedInv, UNCHANGED csVars, NEW t \in Calls, NEW o \in Ops, NEW r \in Records,
           NEW pc \in {"stage_guard", "validate_guard", "commit_fp", "discard_guard"},
           Began(t, o, pc, r), UNCHANGED rec,
           pc = "stage_guard" => r.changeSet = None,
           pc \in {"validate_guard", "commit_fp"} => Covered(r, cset)
    PROVE  StepCovers
<1> DEFINE l == [Idle EXCEPT !.pc = pc, !.op = o, !.policy = policy, !.rec = r]
<1>1. cset' = cset /\ t \in Tasked /\ task \in [Tasked -> Locals] /\ Idle \in Locals
  BY Types, IdleType DEF csVars, ComposedInv, Tasked
<1>2. l.pc = pc /\ l.rec = r
  BY <1>1 DEF Locals
<1>3. task' = [task EXCEPT ![t] = l]
  BY DEF Began
<1> HIDE DEF l
<1>4. task'[t].pc = pc /\ task'[t].rec = r /\ \A u \in Tasked \ {t} : task'[u] = task[u]
  BY <1>1, <1>2, <1>3
<1>5. TaskCovers(t)'
  BY <1>1, <1>4 DEF TaskCovers, StagePcs, CopyPcs, WorkerPcs
<1>6. TasksCover'
  <2> SUFFICES ASSUME NEW u \in Tasked, u # t PROVE TaskCovers(u)'
    BY <1>5 DEF TasksCover
  <2>1. task'[u] = task[u] /\ TaskCovers(u)
    BY <1>4 DEF ComposedInv, TasksCover
  <2> QED
    BY <1>1, <2>1 DEF TaskCovers
<1>7. RecordsCover'
  BY <1>1 DEF ComposedInv, RecordsCover
<1> QED
  BY <1>6, <1>7 DEF StepCovers

\* Calls to stage, validate, commit and discard.
LEMMA NewCallCovers ==
    ASSUME ComposedInv, ApprovalInv', UNCHANGED csVars, NEW t \in Calls, NewCall(t)
    PROVE  ComposedInv'
<1>1. PICK o \in Ops : \/ \E e \in Edits : StageCall(t, o, e)
                       \/ ValidateCall(t, o) \/ CommitCall(t, o) \/ DiscardCall(t, o)
  BY DEF NewCall
<1>2. rec[o] \in Records /\ candidate \in Config /\ policy \in Policies
  BY Types DEF ComposedInv
<1>3. UNCHANGED <<candidate, rec, guard>>
  BY <1>1 DEF StageCall, ValidateCall, CommitCall, DiscardCall, deviceVars, coordinatorVars
<1>4. StepCovers
  <2>1. CASE \E e \in Edits : StageCall(t, o, e)
    <3>1. PICK e \in Edits : StageCall(t, o, e)
      BY <2>1
    <3> DEFINE r == StagingRecord(Fingerprint, policy, {e}, None)
    <3>2. r \in Records /\ r.changeSet = None
      BY <1>2 DEF StagingRecord, Records, Fingerprint, Lifecycle, Unused
    <3>3. Began(t, o, "stage_guard", r)
      BY <3>1 DEF StageCall
    <3> HIDE DEF r
    <3> QED
      BY <1>3, <3>2, <3>3, BeganCovers
  <2>2. CASE ValidateCall(t, o) \/ CommitCall(t, o)
    <3>1. rec[o].state \in Trusted
      BY <2>2 DEF ValidateCall, CommitCall, Trusted
    <3>2. Covered(rec[o], cset)
      BY <3>1 DEF ComposedInv, RecordsCover
    <3> QED
      BY <1>2, <1>3, <2>2, <3>2, BeganCovers DEF ValidateCall, CommitCall
  <2>3. CASE DiscardCall(t, o)
    BY <1>2, <1>3, <2>3, BeganCovers DEF DiscardCall
  <2> QED
    BY <1>1, <2>1, <2>2, <2>3
<1>5. LifecycleInv'
  BY NewCallPreserves DEF ComposedInv
<1>6. AppliesHold'
  BY <1>3, AppliesUntouched DEF csVars
<1> QED
  BY <1>4, <1>5, <1>6, PlansStayStored DEF ComposedInv, StepCovers

\* The device, its other administrators and a reload take nothing out of the candidate.
LEMMA EnvironmentCovers ==
    ASSUME ComposedInv, ApprovalInv', UNCHANGED csVars, Environment
    PROVE  ComposedInv'
<1>1. UNCHANGED <<rec, guard, task>> /\ candidate \subseteq candidate'
  BY DEF Environment, Reload, DeviceNext, FinishJob, ForeignEdit, ForeignCommit, deviceVars,
     coordinatorVars
<1>2. cset' = cset /\ appl' = appl
  BY DEF csVars
<1>3. RecordsCover' /\ TasksCover'
  BY <1>1, <1>2 DEF ComposedInv, RecordsCover, TasksCover, TaskCovers
<1>4. LifecycleInv'
  BY NextPreserves DEF Next, Serve, ComposedInv
<1> QED
  BY <1>1, <1>2, <1>3, <1>4, AppliesUntouched, PlansStayStored DEF ComposedInv

\* Every step of the candidate lifecycle beside the applies.
LEMMA ServeCovers ==
    ASSUME ComposedInv, ApprovalInv', UNCHANGED csVars, Serve
    PROVE  ComposedInv'
<1>1. ASSUME NEW t \in Tasked, (t \in Calls /\ CallStep(t)) \/ (t \in Workers /\ WorkerStep(t)),
             StepKept(t), StepCovers, task[t].pc # "idle"
      PROVE  ComposedInv'
  <2>1. (candidate \subseteq candidate') \/ guard = t
    BY <1>1, TasksKeepCandidate DEF ComposedInv
  <2>2. AppliesHold'
    BY <1>1, <2>1, AppliesBesideTasks DEF StepKept
  <2> QED
    BY <1>1, <2>2, PlansStayStored DEF StepKept, StepCovers, ComposedInv
<1>2. ASSUME NEW t \in Calls, NewCall(t) PROVE ComposedInv'
  BY <1>2, NewCallCovers
<1>3. ASSUME NEW t \in Calls, CallStep(t) PROVE ComposedInv'
  <2>1. t \in Tasked /\ StepKept(t) /\ task[t].pc # "idle"
    BY <1>3, CallStepKept, StepsAreUnderway DEF ComposedInv, Tasked
  <2>2. StepCovers
    BY <1>3, StageCovers, ValidateCovers, CommitCovers, DiscardCovers DEF CallStep
  <2> QED
    BY <1>1, <1>3, <2>1, <2>2
<1>4. ASSUME NEW w \in Workers, WorkerStep(w) PROVE ComposedInv'
  <2>1. w \in Tasked /\ StepKept(w) /\ task[w].pc # "idle"
    BY <1>4, WorkerStepKept, StepsAreUnderway DEF ComposedInv, Tasked
  <2>2. StepCovers
    BY <1>4, WorkerCovers
  <2> QED
    BY <1>1, <1>4, <2>1, <2>2
<1>5. CASE Environment
  BY <1>5, EnvironmentCovers
<1> QED
  BY <1>2, <1>3, <1>4, <1>5 DEF Serve

\* A restart drops every call, and trusts no record whose validation it interrupted.
LEMMA RestartCovers ==
    ASSUME ComposedInv, ApprovalInv', CSRestart
    PROVE  ComposedInv'
<1>1. /\ task' = [t \in Calls \union Workers |-> Idle] /\ guard' = None
      /\ rec' = [o \in Ops |-> Recovered(rec[o])]
      /\ view' = [v \in Viewers |-> NoView] /\ appl' = [a \in Appliers |-> IdleApply]
      /\ cset' = cset
  BY DEF CSRestart, Restart
<1>2. RecordsCover'
  <2> SUFFICES ASSUME NEW o \in Ops, rec'[o].state \in Trusted PROVE Covered(rec'[o], cset)
    BY <1>1 DEF RecordsCover
  <2>1. rec[o] \in Records
    BY Types DEF ComposedInv
  <2>2. rec'[o] = rec[o] \/ rec'[o] = [rec[o] EXCEPT !.state = "Indeterminate"]
    BY <1>1, Zenon DEF Recovered
  <2>3. rec'[o] = rec[o]
    BY <2>1, <2>2 DEF Records, Trusted
  <2> QED
    BY <2>3 DEF ComposedInv, RecordsCover
<1>3. TasksCover'
  BY <1>1 DEF TasksCover, TaskCovers, Tasked, Idle, StagePcs, CopyPcs, WorkerPcs
<1>4. PlansStored'
  BY <1>1 DEF PlansStored, Proposed, Copied, ComposedInv, NoView, IdleApply
<1>5. AppliesHold'
  <2> SUFFICES ASSUME NEW a \in Appliers PROVE ApplyHolds(a)'
    BY DEF AppliesHold
  <2>1. appl'[a].pc = "idle" /\ guard' # a
    BY <1>1, AppliersApart DEF IdleApply
  <2> QED
    BY <2>1 DEF ApplyHolds, SentIsPending, HoldsRecord, Unsent, ApplyGuarded
<1>6. LifecycleInv'
  BY RestartPreserves DEF ComposedInv, CSRestart
<1> QED
  BY <1>2, <1>3, <1>4, <1>5, <1>6 DEF ComposedInv

\* "state resolve" settles an operation for good, while no apply runs.
LEMMA ResolveCovers ==
    ASSUME ComposedInv, ApprovalInv', NEW o \in Ops, CSResolve(o)
    PROVE  ComposedInv'
<1> DEFINE s == IF rec[o].actions \subseteq running THEN "Committed" ELSE "Discarded"
           r == [rec[o] EXCEPT !.lock = FALSE, !.state = s]
<1>1. /\ UNCHANGED csVars /\ cset' = cset /\ appl' = appl /\ UNCHANGED <<guard, task>>
      /\ rec' = [rec EXCEPT ![o].lock = FALSE, ![o].state = s]
      /\ \A a \in Appliers : appl[a].pc = "idle"
  BY DEF CSResolve, Resolve, ApplyAt, csVars
<1>2. rec \in [Ops -> Records] /\ rec[o] \in Records
  BY Types DEF ComposedInv
<1>3. s \in Lifecycle \ Trusted
  BY DEF Lifecycle, Trusted
<1> HIDE DEF s
<1>4. r.state \notin Trusted
  BY <1>2, <1>3, UnlockedType
<1>5. rec' = [rec EXCEPT ![o] = r]
  BY <1>1, <1>2
<1> HIDE DEF r
<1>6. RecordsCover'
  <2> SUFFICES ASSUME NEW q \in Ops, rec'[q].state \in Trusted PROVE Covered(rec'[q], cset)
    BY <1>1 DEF RecordsCover
  <2>1. rec'[q] = rec[q]
    BY <1>2, <1>4, <1>5
  <2> QED
    BY <2>1 DEF ComposedInv, RecordsCover
<1>7. TasksCover'
  BY <1>1 DEF ComposedInv, TasksCover, TaskCovers
<1>8. AppliesHold'
  <2> SUFFICES ASSUME NEW a \in Appliers PROVE ApplyHolds(a)'
    BY DEF AppliesHold
  <2>1. appl'[a].pc = "idle" /\ guard' = guard
    BY <1>1
  <2>2. guard # a
    BY <2>1, <1>1 DEF ComposedInv, AppliesHold, ApplyHolds, HoldsRecord, ApplyGuarded
  <2> QED
    BY <2>1, <2>2 DEF ApplyHolds, SentIsPending, HoldsRecord, Unsent, ApplyGuarded
<1>9. LifecycleInv'
  BY ResolvePreserves DEF ComposedInv, CSResolve
<1> QED
  BY <1>1, <1>6, <1>7, <1>8, <1>9, PlansStayStored DEF ComposedInv

-----------------------------------------------------------------------------
(* Proposals, approvals, waivers, expiry and status calls. *)

\* The tasks' copies while plans only appear and move on.
LEMMA CopiesStayCovered ==
    ASSUME ComposedInv, PlansKept, ApprovalsKept, UNCHANGED task
    PROVE  TasksCover'
<1> SUFFICES ASSUME NEW t \in Tasked PROVE TaskCovers(t)'
  BY DEF TasksCover
<1>1. TaskCovers(t) /\ task' = task
  BY DEF ComposedInv, TasksCover
<1>2. task[t].rec \in Records
  BY Types DEF ComposedInv, Locals
<1>3. task[t].pc \in CopyPcs => Covered(task[t].rec, cset')
  BY <1>1, <1>2, CoveredKept DEF TaskCovers
<1> QED
  BY <1>1, <1>3 DEF TaskCovers

\* What is shown of every step of the layer.
StaysCovered == ComposedInv' /\ ApprovalsKept

\* A step of the change-set layer that leaves the lifecycle and the applies alone.
LEMMA LayerCovers ==
    ASSUME ComposedInv, StepOK, UNCHANGED vars, UNCHANGED appl, PlansKept, Proposed',
           \A v \in Viewers : view'[v].cs # None =>
              view'[v] = view[v] \/ Copied(view'[v].cset.actions, view'[v].cs)
    PROVE  StaysCovered
<1>1. /\ UNCHANGED <<candidate, rec, guard, task>>
      /\ ApprovalInv' /\ ApprovalsKept
  BY GrantsStay DEF vars, StepOK, ComposedInv
<1>2. LifecycleInv'
  BY NextPreserves DEF ComposedInv
<1>3. RecordsCover'
  <2> SUFFICES ASSUME NEW o \in Ops, rec[o].state \in Trusted PROVE Covered(rec[o], cset')
    BY <1>1 DEF RecordsCover
  <2>1. rec[o] \in Records /\ Covered(rec[o], cset)
    BY Types DEF ComposedInv, RecordsCover
  <2> QED
    BY <1>1, <2>1, CoveredKept
<1>4. PlansStored'
  <2>1. ASSUME NEW c \in ChangeSetIds, NEW plan, Copied(plan, c)
        PROVE  cset'[c].state # "Fresh" /\ plan = cset'[c].actions
    BY <2>1 DEF Copied, PlansKept
  <2>2. ASSUME NEW v \in Viewers, view'[v].cs # None
        PROVE  cset'[view'[v].cs].state # "Fresh"
               /\ view'[v].cset.actions = cset'[view'[v].cs].actions
    <3>1. view'[v].cs \in ChangeSetIds
      BY <1>1, <2>2 DEF ApprovalInv, CSTypeOK
    <3>2. Copied(view'[v].cset.actions, view'[v].cs)
      BY <2>2 DEF ComposedInv, PlansStored
    <3> QED
      BY <2>1, <3>1, <3>2
  <2>3. ASSUME NEW a \in Appliers, appl[a].pc # "idle"
        PROVE  cset'[appl[a].cs].state # "Fresh"
               /\ appl[a].cset.actions = cset'[appl[a].cs].actions
    BY <2>1, <2>3 DEF ComposedInv, PlansStored, ApprovalInv, CopyInv
  <2> QED
    BY <2>2, <2>3 DEF PlansStored, Copied
<1> QED
  BY <1>1, <1>2, <1>3, <1>4, CopiesStayCovered, AppliesUntouched DEF ComposedInv, StaysCovered

\* Overwriting a record by a copy with the same plan keeps the plans.
LEMMA OverwriteKeepsPlans ==
    ASSUME ComposedInv, NEW c \in ChangeSetIds, NEW r, Copied(r.actions, c), r.state # "Fresh",
           cset' = cset \/ cset' = [cset EXCEPT ![c] = r]
    PROVE  PlansKept /\ Proposed'
<1>1. cset \in [ChangeSetIds -> ChangeSetRecords] /\ Proposed
  BY DEF ComposedInv, ApprovalInv, CSTypeOK, PlansStored
<1>2. r.actions = cset[c].actions /\ cset[c].state # "Fresh"
  BY DEF Copied
<1>3. \A d \in ChangeSetIds : \/ cset'[d] = cset[d]
                              \/ d = c /\ cset'[d] = r
  BY <1>1
<1> QED
  BY <1>1, <1>2, <1>3 DEF PlansKept, Proposed

\* create_change_set stores a plan under an id that had none.
LEMMA CreateCovers ==
    ASSUME ComposedInv, StepOK, NEW c \in ChangeSetIds, NEW p \in Principals,
           NEW plan \in Plans, Create(c, p, plan)
    PROVE  StaysCovered
<1> DEFINE new == [FreshChangeSet EXCEPT !.state = "Planned", !.owner = p,
                                         !.base = Fingerprint, !.actions = plan]
<1>1. new.state = "Planned" /\ new.actions = plan
  BY DEF FreshChangeSet
<1>2. cset[c].state = "Fresh" /\ cset' = [cset EXCEPT ![c] = new]
      /\ UNCHANGED vars /\ UNCHANGED <<appl, view>>
  BY DEF Create
<1> HIDE DEF new
<1>3. cset \in [ChangeSetIds -> ChangeSetRecords] /\ Proposed
  BY DEF ComposedInv, ApprovalInv, CSTypeOK, PlansStored
<1>4. PlansKept /\ Proposed'
  BY <1>1, <1>2, <1>3 DEF PlansKept, Proposed
<1> QED
  BY <1>2, <1>4, LayerCovers

\* Approvals, waivers and the passing of time change no plan.
LEMMA DecisionsCover ==
    ASSUME ComposedInv, StepOK, NEW c \in ChangeSetIds,
           Waive(c) \/ Lapse(c) \/ \E p \in Principals : Approve(c, p)
    PROVE  StaysCovered
<1>1. cset[c] \in ChangeSetRecords
  BY DEF ComposedInv, ApprovalInv, CSTypeOK
<1>2. UNCHANGED vars /\ UNCHANGED <<appl, view>>
  BY DEF Waive, Lapse, Approve
<1>3. PlansKept /\ Proposed'
  <2>1. \/ cset' = cset
        \/ /\ cset[c].state = "Planned"
           /\ cset' = [cset EXCEPT ![c] = [cset[c] EXCEPT !.state = "Approved", !.waived = TRUE]]
        \/ /\ cset[c].state = "Planned"
           /\ \E p \in Principals :
                cset' = [cset EXCEPT ![c] = [cset[c] EXCEPT !.state = "Approved", !.approver = p]]
    BY DEF Waive, Lapse, Approve
  <2>2. cset' = cset \/ \E r : /\ cset' = [cset EXCEPT ![c] = r]
                               /\ r.actions = cset[c].actions /\ r.state # "Fresh"
                               /\ cset[c].state # "Fresh"
    <3>1. CASE cset' = cset
      BY <3>1
    <3>2. ASSUME NEW r, r.actions = cset[c].actions, r.state = "Approved",
                 cset[c].state = "Planned", cset' = [cset EXCEPT ![c] = r]
          PROVE  \E q : /\ cset' = [cset EXCEPT ![c] = q]
                        /\ q.actions = cset[c].actions /\ q.state # "Fresh"
                        /\ cset[c].state # "Fresh"
      <4>1. r.state # "Fresh" /\ cset[c].state # "Fresh"
        BY <3>2
      <4> QED
        BY <3>2, <4>1, Zenon
    <3>3. \A p \in Principals :
            LET r == [cset[c] EXCEPT !.state = "Approved", !.approver = p]
            IN  r.actions = cset[c].actions /\ r.state = "Approved"
      BY <1>1 DEF ChangeSetRecords
    <3>4. LET r == [cset[c] EXCEPT !.state = "Approved", !.waived = TRUE]
          IN  r.actions = cset[c].actions /\ r.state = "Approved"
      BY <1>1 DEF ChangeSetRecords
    <3>5. CASE /\ cset[c].state = "Planned"
               /\ cset' = [cset EXCEPT ![c] = [cset[c] EXCEPT !.state = "Approved",
                                                              !.waived = TRUE]]
      BY <3>2, <3>4, <3>5
    <3>6. CASE /\ cset[c].state = "Planned"
               /\ \E p \in Principals :
                    cset' = [cset EXCEPT ![c] = [cset[c] EXCEPT !.state = "Approved",
                                                                !.approver = p]]
      BY <3>2, <3>3, <3>6
    <3> QED
      BY <2>1, <3>1, <3>5, <3>6
  <2>3. CASE cset' = cset
    BY <2>3 DEF PlansKept, ComposedInv, PlansStored, Proposed
  <2>4. CASE cset' # cset
    <3>1. PICK r : /\ cset' = [cset EXCEPT ![c] = r]
                   /\ r.actions = cset[c].actions /\ r.state # "Fresh"
                   /\ cset[c].state # "Fresh"
      BY <2>2, <2>4
    <3>2. Copied(r.actions, c)
      BY <3>1 DEF Copied
    <3> QED
      BY <3>1, <3>2, OverwriteKeepsPlans
  <2> QED
    BY <2>3, <2>4
<1> QED
  BY <1>2, <1>3, LayerCovers

\* change_set_status copies a stored plan ...
LEMMA StatusReadCovers ==
    ASSUME ComposedInv, StepOK, NEW v \in Viewers, NEW c \in ChangeSetIds, StatusRead(v, c)
    PROVE  StaysCovered
<1> DEFINE r == [cset[c] EXCEPT !.state = "Expired"]
<1>1. cset[c] \in ChangeSetRecords /\ cset[c].state # "Fresh"
  BY DEF StatusRead, ComposedInv, ApprovalInv, CSTypeOK
<1>2. r.actions = cset[c].actions
  BY <1>1 DEF ChangeSetRecords
<1>3. /\ view' = [view EXCEPT ![v] = [cs |-> c, cset |-> r]]
      /\ UNCHANGED vars /\ UNCHANGED <<appl, cset>>
  BY DEF StatusRead
<1> HIDE DEF r
<1>4. ASSUME NEW u \in Viewers PROVE view'[u] = view[u] \/ Copied(view'[u].cset.actions, view'[u].cs)
  <2>1. CASE u = v
    <3>1. view'[v] = [cs |-> c, cset |-> r]
      BY <1>3 DEF ComposedInv, ApprovalInv, CSTypeOK
    <3>2. view'[v].cset = r /\ view'[v].cs = c
      BY <3>1
    <3>3. Copied(r.actions, c)
      BY <1>1, <1>2 DEF Copied
    <3> QED
      BY <2>1, <3>2, <3>3
  <2>2. CASE u # v
    BY <1>3, <2>2 DEF ComposedInv, ApprovalInv, CSTypeOK
  <2> QED
    BY <2>1, <2>2
<1>5. PlansKept /\ Proposed'
  BY <1>3 DEF PlansKept, ComposedInv, PlansStored, Proposed
<1> QED
  BY <1>3, <1>4, <1>5, LayerCovers

\* ... and writes it back expired.
LEMMA StatusWriteCovers ==
    ASSUME ComposedInv, StepOK, NEW v \in Viewers, StatusWrite(v)
    PROVE  StaysCovered
<1> DEFINE c == view[v].cs
           r == view[v].cset
<1>1. c # None /\ r.state = "Expired" /\ Copied(r.actions, c)
  BY DEF StatusWrite, ComposedInv, ApprovalInv, CopyInv, PlansStored
<1>2. c \in ChangeSetIds
  BY <1>1 DEF ComposedInv, ApprovalInv, CSTypeOK
<1>3. \E saved \in Saves : UpdateChangeSet(c, r, saved)
  BY DEF StatusWrite
<1>4. /\ view' = [view EXCEPT ![v] = NoView]
      /\ UNCHANGED vars /\ UNCHANGED appl
  BY DEF StatusWrite
<1> HIDE DEF c, r
<1>5. cset' = cset \/ cset' = [cset EXCEPT ![c] = r]
  BY <1>3, Zenon DEF UpdateChangeSet
<1>6. PlansKept /\ Proposed'
  BY <1>1, <1>2, <1>5, OverwriteKeepsPlans
<1>7. ASSUME NEW u \in Viewers, view'[u].cs # None PROVE view'[u] = view[u]
  BY <1>4, <1>7 DEF ComposedInv, ApprovalInv, CSTypeOK, NoView
<1> QED
  BY <1>4, <1>6, <1>7, LayerCovers

-----------------------------------------------------------------------------
(* What a step of an apply call may do. *)

\* It inserts a record, or writes one of the same policy, and vouches for no less than
\* its plan.
ApplyWrites ==
    \/ UNCHANGED rec
    \/ \E o \in Ops, r \in Records :
         /\ rec' = [rec EXCEPT ![o] = r]
         /\ r.state # "Fresh"
         /\ rec[o].state = "Fresh" \/ r.policy = rec[o].policy
         /\ r.state \in Trusted => Covered(r, cset)

\* It moves its own locals and its own mutex.
ApplierMoves(a) ==
    /\ \A b \in Appliers \ {a} : appl'[b] = appl[b]
    /\ guard' = guard \/ (guard \in {None, a} /\ guard' \in {None, a})
    /\ appl'[a].pc # "idle" => Copied(appl'[a].cset.actions, appl'[a].cs)
    /\ ApplyHolds(a)'

\* It leaves the calls, the workers and the running configuration alone, and takes edits
\* out of the candidate under the mutex only.
ApplyFrame(a) ==
    /\ UNCHANGED <<running, job, task, policy, evidence, validated, view>>
    /\ candidate' \in Config
    /\ lock' \in BOOLEAN
    /\ (candidate \subseteq candidate') \/ guard = a

\* The records after such a step: those that exist keep their policy.
LEMMA ApplyWritesRecords ==
    ASSUME LifecycleInv, ApplyWrites
    PROVE  /\ rec' \in [Ops -> Records]
           /\ \A o \in Ops : rec[o].state # "Fresh" =>
                rec'[o].state # "Fresh" /\ rec'[o].policy = rec[o].policy
<1>1. rec \in [Ops -> Records]
  BY Types
<1>2. CASE rec' = rec
  BY <1>1, <1>2
<1>3. CASE rec' # rec
  <2>1. PICK o \in Ops, r \in Records :
          /\ rec' = [rec EXCEPT ![o] = r] /\ r.state # "Fresh"
          /\ rec[o].state = "Fresh" \/ r.policy = rec[o].policy
    BY <1>3 DEF ApplyWrites
  <2>2. \A q \in Ops : rec'[q] = IF q = o THEN r ELSE rec[q]
    BY <1>1, <2>1
  <2>3. rec' \in [Ops -> Records]
    BY <1>1, <2>1
  <2> QED
    BY <2>1, <2>2, <2>3
<1> QED
  BY <1>2, <1>3

\* The lifecycle keeps its invariant beside an apply call.
LEMMA ApplyKeepsLifecycle ==
    ASSUME LifecycleInv, NEW a \in Appliers, ApplyFrame(a), ApplyWrites, ApplierMoves(a)
    PROVE  LifecycleInv'
<1>1. UNCHANGED <<running, job, task, policy, evidence, validated>>
  BY DEF ApplyFrame
<1>2. /\ rec' \in [Ops -> Records]
      /\ \A o \in Ops : rec[o].state # "Fresh" =>
           rec'[o].state # "Fresh" /\ rec'[o].policy = rec[o].policy
  BY ApplyWritesRecords
<1>3. guard' \in Tasks \union {None}
  BY Types DEF ApplierMoves, Tasks
<1>4. TypeOK'
  <2>1. DeviceTypeOK' /\ CoordinatorTypeOK'
    BY <1>1, <1>2, <1>3, Types, Zenon DEF ApplyFrame, DeviceTypeOK, CoordinatorTypeOK
  <2> QED
    BY <1>1, <2>1, Zenon DEF LifecycleInv, TypeOK
<1>5. TasksOK'
  <2> SUFFICES ASSUME NEW t \in Tasked PROVE TaskOK(t)'
    BY DEF TasksOK
  <2>1. TaskOK(t)
    BY DEF LifecycleInv, TasksOK
  <2>2. CASE task[t].pc \in {"idle", "stage_guard"}
    BY <1>1, <2>1, <2>2 DEF TaskOK
  <2>3. CASE task[t].pc \notin {"idle", "stage_guard"}
    BY <1>1, <1>2, <2>1, <2>3 DEF TaskOK
  <2> QED
    BY <2>2, <2>3
<1>6. WorkersOK' /\ IntentBeforeCommit'
  BY <1>1 DEF LifecycleInv, WorkersOK, WorkerOK, IntentBeforeCommit
<1>7. GuardDiscipline'
  <2> SUFFICES ASSUME NEW t \in Tasked PROVE task'[t].pc \in GuardedPcs <=> guard' = t
    BY DEF GuardDiscipline, Tasked
  <2>1. task'[t] = task[t] /\ (task[t].pc \in GuardedPcs <=> guard = t)
    BY <1>1 DEF LifecycleInv, GuardDiscipline, Tasked
  <2>2. t # None /\ t # a
    BY TasksAssumption DEF Tasked
  <2>3. guard' = t <=> guard = t
    BY <2>2 DEF ApplierMoves
  <2> QED
    BY <2>1, <2>3, Zenon
<1> QED
  BY <1>4, <1>5, <1>6, <1>7 DEF LifecycleInv

\* The other apply calls keep their records and what they have sent.
LEMMA AppliesBeside ==
    ASSUME ComposedInv, NEW a \in Appliers, ApplyFrame(a), ApplyWrites, ApplierMoves(a),
           NEW b \in Appliers, b # a
    PROVE  ApplyHolds(b)'
<1>1. appl'[b] = appl[b] /\ ApplyHolds(b) /\ b # None
  BY AppliersApart DEF ApplierMoves, ComposedInv, AppliesHold
<1>2. guard' = b <=> guard = b
  BY <1>1 DEF ApplierMoves
<1>3. SentIsPending(b)'
  <2>1. CASE appl[b].pc \in {"apply_push", "apply_after"}
    <3>1. appl[b].pc \in ApplyGuarded
      BY <2>1 DEF ApplyGuarded, ApplyPcs
    <3>2. guard = b
      BY <1>1, <3>1 DEF ApplyHolds, HoldsRecord
    <3>3. candidate \subseteq candidate'
      BY <3>2 DEF ApplyFrame
    <3> QED
      BY <1>1, <3>3 DEF ApplyHolds, SentIsPending
  <2>2. CASE appl[b].pc \notin {"apply_push", "apply_after"}
    BY <1>1, <2>2 DEF ApplyHolds, SentIsPending
  <2> QED
    BY <2>1, <2>2
<1>4. HoldsRecord(b)'
  <2>1. appl[b].pc \in ApplyGuarded => appl[b].op \in Ops
    BY DEF ComposedInv, ApprovalInv, OpInv
  <2>2. appl[b].pc \in ApplyGuarded =>
          /\ rec'[appl[b].op].state # "Fresh"
          /\ rec'[appl[b].op].policy = appl[b].rec.policy
    BY <1>1, <2>1, ApplyWritesRecords DEF ComposedInv, ApplyHolds, HoldsRecord
  <2>3. appl[b].pc \in ApplyGuarded <=> guard' = b
    BY <1>1, <1>2 DEF ApplyHolds, HoldsRecord
  <2> QED
    BY <1>1, <2>2, <2>3, Zenon DEF ApplyHolds, HoldsRecord
<1> QED
  BY <1>3, <1>4 DEF ApplyHolds

\* A step of an apply call that does no more than that keeps the invariant.
LEMMA ApplyStepCovers ==
    ASSUME ComposedInv, StepOK, NEW a \in Appliers, ApplyFrame(a), ApplyWrites,
           ApplierMoves(a), PlansKept, Proposed'
    PROVE  StaysCovered
<1>0. ApprovalInv' /\ ApprovalsKept
  BY GrantsStay DEF StepOK, ComposedInv
<1>1. LifecycleInv'
  BY ApplyKeepsLifecycle DEF ComposedInv
<1>2. TasksCover'
  BY <1>0, CopiesStayCovered DEF ApplyFrame
<1>3. RecordsCover'
  <2> SUFFICES ASSUME NEW o \in Ops, rec'[o].state \in Trusted PROVE Covered(rec'[o], cset')
    BY DEF RecordsCover
  <2>1. rec \in [Ops -> Records]
    BY Types DEF ComposedInv
  <2>2. CASE rec'[o] = rec[o]
    <3>1. rec[o] \in Records /\ Covered(rec[o], cset)
      BY <2>1, <2>2 DEF ComposedInv, RecordsCover
    <3>2. Covered(rec[o], cset')
      BY <1>0, <3>1, CoveredKept
    <3> QED
      BY <2>2, <3>2
  <2>3. CASE rec'[o] # rec[o]
    <3>1. PICK q \in Ops, r \in Records :
            /\ rec' = [rec EXCEPT ![q] = r]
            /\ r.state \in Trusted => Covered(r, cset)
      BY <2>3 DEF ApplyWrites
    <3>2. rec'[o] = r
      BY <2>1, <2>3, <3>1
    <3>3. Covered(r, cset)
      BY <3>1, <3>2
    <3>4. Covered(r, cset')
      BY <1>0, <3>3, CoveredKept
    <3> QED
      BY <3>2, <3>4
  <2> QED
    BY <2>2, <2>3
<1>4. PlansStored'
  <2>1. ASSUME NEW c \in ChangeSetIds, NEW plan, Copied(plan, c)
        PROVE  cset'[c].state # "Fresh" /\ plan = cset'[c].actions
    BY <2>1 DEF Copied, PlansKept
  <2>2. ASSUME NEW v \in Viewers, view[v].cs # None
        PROVE  cset'[view[v].cs].state # "Fresh"
               /\ view[v].cset.actions = cset'[view[v].cs].actions
    <3>1. view[v].cs \in ChangeSetIds /\ Copied(view[v].cset.actions, view[v].cs)
      BY <2>2 DEF ComposedInv, PlansStored, ApprovalInv, CSTypeOK
    <3> QED
      BY <2>1, <3>1
  <2>3. ASSUME NEW b \in Appliers, appl'[b].pc # "idle"
        PROVE  cset'[appl'[b].cs].state # "Fresh"
               /\ appl'[b].cset.actions = cset'[appl'[b].cs].actions
    <3>1. appl'[b].cs \in ChangeSetIds
      BY <1>0, <2>3 DEF ApprovalInv, CopyInv
    <3>2. Copied(appl'[b].cset.actions, appl'[b].cs)
      <4>1. CASE b = a
        BY <2>3, <4>1 DEF ApplierMoves
      <4>2. CASE b # a
        BY <2>3, <4>2 DEF ApplierMoves, ComposedInv, PlansStored
      <4> QED
        BY <4>1, <4>2
    <3> QED
      BY <2>1, <3>1, <3>2
  <2> QED
    BY <2>2, <2>3 DEF PlansStored, Copied, ApplyFrame
<1>5. AppliesHold'
  BY AppliesBeside DEF AppliesHold, ApplierMoves
<1> QED
  BY <1>0, <1>1, <1>2, <1>3, <1>4, <1>5 DEF ComposedInv, StaysCovered

-----------------------------------------------------------------------------
(* The steps of an apply call. *)

\* The locals of an apply call that holds the mutex.
LEMMA Applying ==
    ASSUME ComposedInv, NEW a \in Appliers, appl[a].pc \in ApplyGuarded
    PROVE  /\ appl[a] \in ApplyLocals /\ appl[a].pc # "idle" /\ guard = a
           /\ appl[a].op \in Ops /\ appl[a].cs \in ChangeSetIds
           /\ rec[appl[a].op].state # "Fresh"
           /\ rec[appl[a].op].policy = appl[a].rec.policy
           /\ appl[a].rec \in Records /\ appl[a].rec.state \in Lifecycle
           /\ appl[a].rec.changeSet = appl[a].cs
           /\ appl[a].pc # "apply_settle" => appl[a].rec.state \notin Trusted
           /\ Copied(appl[a].cset.actions, appl[a].cs)
<1>1. HoldsRecord(a) /\ appl[a].pc # "idle"
  BY DEF ComposedInv, AppliesHold, ApplyHolds, ApplyGuarded
<1>2. appl[a] \in ApplyLocals /\ appl[a].op \in Ops /\ appl[a].cs \in ChangeSetIds
      /\ Copied(appl[a].cset.actions, appl[a].cs)
  BY <1>1 DEF ComposedInv, ApprovalInv, CSTypeOK, OpInv, CopyInv, PlansStored
<1>3. appl[a].rec \in Records
  BY <1>2 DEF ApplyLocals
<1> QED
  BY <1>1, <1>2, <1>3, Zenon DEF HoldsRecord

\* An apply call writes its own record, or no record.
LEMMA OwnWrite ==
    ASSUME ComposedInv, NEW a \in Appliers, appl[a].pc \in ApplyGuarded,
           NEW r \in Records, r.state # "Fresh", r.policy = appl[a].rec.policy,
           r.state \in Trusted => Covered(r, cset),
           rec' = rec \/ rec' = [rec EXCEPT ![appl[a].op] = r]
    PROVE  /\ ApplyWrites
           /\ rec'[appl[a].op].state # "Fresh"
           /\ rec'[appl[a].op].policy = appl[a].rec.policy
<1>1. /\ appl[a].op \in Ops /\ rec[appl[a].op].policy = appl[a].rec.policy
      /\ rec[appl[a].op].state # "Fresh"
  BY Applying
<1>2. ApplyWrites
  BY <1>1 DEF ApplyWrites
<1> QED
  BY <1>1, <1>2, ApplyWritesRecords, Types DEF ComposedInv

\* An apply call goes on under the mutex with its plan, its operation and its policy.
LEMMA GoesOn ==
    ASSUME ComposedInv, NEW a \in Appliers, appl[a].pc \in ApplyGuarded, UNCHANGED guard,
           rec'[appl[a].op].state # "Fresh",
           rec'[appl[a].op].policy = appl[a].rec.policy,
           NEW l, appl' = [appl EXCEPT ![a] = l], l.pc \in ApplyGuarded,
           l.cs = appl[a].cs, l.op = appl[a].op, l.cset.actions = appl[a].cset.actions,
           l.rec.policy = appl[a].rec.policy, l.rec.changeSet = appl[a].cs,
           l.rec.state \in Lifecycle, l.rec.state \in Trusted => l.pc = "apply_settle",
           l.pc \in Unsent => l.applied = 0,
           l.pc = "apply_push" => l.applied < Len(l.cset.actions),
           l.pc = "apply_after" => l.applied = Len(l.cset.actions),
           l.pc \in {"apply_push", "apply_after"} =>
              \A i \in 1..l.applied : l.cset.actions[i] \in candidate'
    PROVE  ApplierMoves(a)
<1>1. appl \in [Appliers -> ApplyLocals] /\ guard = a
      /\ Copied(appl[a].cset.actions, appl[a].cs)
  BY Applying DEF ComposedInv, ApprovalInv, CSTypeOK
<1>2. appl'[a] = l /\ \A b \in Appliers \ {a} : appl'[b] = appl[b]
  BY <1>1
<1>3. SentIsPending(a)'
  BY <1>2 DEF SentIsPending
<1>4. HoldsRecord(a)'
  <2>1. appl'[a].pc \in ApplyGuarded <=> guard' = a
    BY <1>1, <1>2
  <2> QED
    BY <1>2, <2>1, Zenon DEF HoldsRecord
<1>5. Copied(appl'[a].cset.actions, appl'[a].cs)
  BY <1>1, <1>2
<1> QED
  BY <1>2, <1>3, <1>4, <1>5 DEF ApplierMoves, ApplyHolds

\* The same for a step that changes the place only ...
LEMMA GoesTo ==
    ASSUME ComposedInv, NEW a \in Appliers, appl[a].pc \in ApplyGuarded \ {"apply_settle"},
           UNCHANGED <<rec, guard>>,
           NEW pc \in ApplyGuarded \ {"apply_push", "apply_after"}, ApplyGoto(a, pc),
           pc \in Unsent => appl[a].pc \in Unsent
    PROVE  ApplyWrites /\ ApplierMoves(a)
<1> DEFINE l == [appl[a] EXCEPT !.pc = pc]
<1>1. /\ appl[a] \in ApplyLocals
      /\ appl[a].rec.state \in Lifecycle \ Trusted
      /\ appl[a].rec.changeSet = appl[a].cs
      /\ rec[appl[a].op].state # "Fresh"
      /\ rec[appl[a].op].policy = appl[a].rec.policy
      /\ appl[a].pc \in Unsent => appl[a].applied = 0
  BY Applying DEF ComposedInv, AppliesHold, ApplyHolds, SentIsPending
<1>2. /\ l.pc = pc /\ l.cs = appl[a].cs /\ l.op = appl[a].op /\ l.rec = appl[a].rec
      /\ l.cset = appl[a].cset /\ l.applied = appl[a].applied
  BY <1>1 DEF ApplyLocals
<1>3. appl' = [appl EXCEPT ![a] = l]
  BY DEF ApplyGoto
<1> HIDE DEF l
<1>4. rec'[appl[a].op].state # "Fresh" /\ rec'[appl[a].op].policy = appl[a].rec.policy
  BY <1>1
<1>5. ApplierMoves(a)
  BY <1>1, <1>2, <1>3, <1>4, GoesOn
<1> QED
  BY <1>5 DEF ApplyWrites

\* ... and for one that changes the place and the local record.
LEMMA GoesToWith ==
    ASSUME ComposedInv, NEW a \in Appliers, appl[a].pc \in ApplyGuarded, UNCHANGED guard,
           rec'[appl[a].op].state # "Fresh",
           rec'[appl[a].op].policy = appl[a].rec.policy,
           NEW pc \in ApplyGuarded \ {"apply_push", "apply_after"}, NEW r \in Records,
           ApplyKeep(a, pc, r), r.policy = appl[a].rec.policy,
           r.changeSet = appl[a].rec.changeSet, r.state \in Lifecycle,
           r.state \in Trusted => pc = "apply_settle",
           pc \in Unsent => appl[a].pc \in Unsent
    PROVE  ApplierMoves(a)
<1> DEFINE l == [appl[a] EXCEPT !.pc = pc, !.rec = r]
<1>1. /\ appl[a] \in ApplyLocals
      /\ appl[a].rec.changeSet = appl[a].cs
      /\ appl[a].pc \in Unsent => appl[a].applied = 0
  BY Applying DEF ComposedInv, AppliesHold, ApplyHolds, SentIsPending
<1>2. /\ l.pc = pc /\ l.cs = appl[a].cs /\ l.op = appl[a].op /\ l.rec = r
      /\ l.cset = appl[a].cset /\ l.applied = appl[a].applied
  BY <1>1 DEF ApplyLocals
<1>3. appl' = [appl EXCEPT ![a] = l]
  BY DEF ApplyKeep
<1> HIDE DEF l
<1> QED
  BY <1>1, <1>2, <1>3, GoesOn

\* An apply call returns, and drops the mutex if it holds it.
LEMMA Returns ==
    ASSUME ComposedInv, NEW a \in Appliers, ApplyFinish(a),
           Release(a) \/ (UNCHANGED guard /\ appl[a].pc \notin ApplyGuarded)
    PROVE  ApplierMoves(a)
<1>1. appl \in [Appliers -> ApplyLocals] /\ IdleApply.pc = "idle" /\ a # None
  BY AppliersApart DEF ComposedInv, ApprovalInv, CSTypeOK, IdleApply
<1>2. appl'[a].pc = "idle" /\ \A b \in Appliers \ {a} : appl'[b] = appl[b]
  BY <1>1 DEF ApplyFinish
<1>3. guard' # a /\ (guard' = guard \/ (guard \in {None, a} /\ guard' \in {None, a}))
  <2>1. CASE Release(a)
    BY <1>1, <2>1 DEF Release
  <2>2. CASE UNCHANGED guard /\ appl[a].pc \notin ApplyGuarded
    BY <2>2 DEF ComposedInv, AppliesHold, ApplyHolds, HoldsRecord
  <2> QED
    BY <2>1, <2>2
<1>4. ApplyHolds(a)'
  BY <1>2, <1>3 DEF ApplyHolds, SentIsPending, HoldsRecord, Unsent, ApplyGuarded
<1> QED
  BY <1>2, <1>3, <1>4 DEF ApplierMoves

\* The plans, when the store of change sets is left alone.
LEMMA SamePlans ==
    ASSUME ComposedInv, UNCHANGED cset
    PROVE  PlansKept /\ Proposed'
BY DEF ComposedInv, PlansStored, Proposed, PlansKept

\* A call of apply_change_set copies an approved plan.
LEMMA ApplyCallCovers ==
    ASSUME ComposedInv, StepOK, NEW a \in Appliers, NEW c \in ChangeSetIds, ApplyCall(a, c)
    PROVE  StaysCovered
<1> DEFINE pc == IF c \in lapsed THEN "apply_expire" ELSE "apply_guard"
           l == [IdleApply EXCEPT !.pc = pc, !.cs = c, !.cset = cset[c], !.policy = policy]
<1>1. pc \in {"apply_expire", "apply_guard"}
  OBVIOUS
<1>2. /\ l.pc = pc /\ l.cs = c /\ l.cset = cset[c] /\ l.applied = 0
  BY DEF IdleApply
<1>3. /\ appl' = [appl EXCEPT ![a] = l] /\ appl[a].pc = "idle" /\ cset[c].state = "Approved"
      /\ UNCHANGED <<vars, cset, view>>
  BY DEF ApplyCall, ApplyAt, Applicable, planVars
<1> HIDE DEF l, pc
<1>4. appl'[a] = l /\ \A b \in Appliers \ {a} : appl'[b] = appl[b]
  BY <1>3 DEF ComposedInv, ApprovalInv, CSTypeOK
<1>5. guard' = guard /\ guard # a
  BY <1>3 DEF vars, ComposedInv, AppliesHold, ApplyHolds, HoldsRecord, ApplyGuarded
<1>6. ApplyHolds(a)'
  <2>1. SentIsPending(a)'
    BY <1>1, <1>2, <1>4 DEF SentIsPending
  <2>2. appl'[a].pc \notin ApplyGuarded
    BY <1>1, <1>2, <1>4 DEF ApplyGuarded
  <2>3. HoldsRecord(a)'
    BY <1>5, <2>2 DEF HoldsRecord
  <2> QED
    BY <2>1, <2>3 DEF ApplyHolds
<1>7. Copied(appl'[a].cset.actions, appl'[a].cs)
  BY <1>2, <1>3, <1>4 DEF Copied
<1>8. ApplierMoves(a)
  BY <1>4, <1>5, <1>6, <1>7 DEF ApplierMoves
<1>9. ApplyFrame(a) /\ ApplyWrites
  BY <1>3, Types DEF vars, ApplyFrame, ApplyWrites, ComposedInv
<1> QED
  BY <1>3, <1>8, <1>9, SamePlans, ApplyStepCovers

\* A call that met an expired plan writes it back and returns.
LEMMA ApplyExpireCovers ==
    ASSUME ComposedInv, StepOK, NEW a \in Appliers, ApplyExpire(a)
    PROVE  StaysCovered
<1> DEFINE c == appl[a].cs
           r == [appl[a].cset EXCEPT !.state = "Expired"]
<1>1. appl[a].pc = "apply_expire"
  BY DEF ApplyExpire, ApplyAt
<1>2. c \in ChangeSetIds /\ Copied(appl[a].cset.actions, c) /\ appl[a].cset \in ChangeSetRecords
  BY <1>1, LocalTypes DEF ComposedInv, PlansStored
<1>3. Copied(r.actions, c) /\ r.state # "Fresh"
  BY <1>2 DEF ChangeSetRecords
<1>4. /\ \E saved \in Saves : UpdateChangeSet(c, r, saved)
      /\ ApplyFinish(a) /\ UNCHANGED <<vars, view>>
  BY DEF ApplyExpire, planVars
<1> HIDE DEF c, r
<1>5. cset' = cset \/ cset' = [cset EXCEPT ![c] = r]
  BY <1>4, Zenon DEF UpdateChangeSet
<1>6. PlansKept /\ Proposed'
  BY <1>2, <1>3, <1>5, OverwriteKeepsPlans
<1>7. ApplierMoves(a)
  BY <1>1, <1>4, Returns DEF vars, ApplyGuarded
<1>8. ApplyFrame(a) /\ ApplyWrites
  BY <1>4, Types DEF vars, ApplyFrame, ApplyWrites, ComposedInv
<1> QED
  BY <1>6, <1>7, <1>8, ApplyStepCovers

\* A step that leaves the configurations, the calls and the status calls alone.
LEMMA QuietFrame ==
    ASSUME ComposedInv, NEW a \in Appliers,
           UNCHANGED <<candidate, running, job, lifeVars, planVars>>, lock' \in BOOLEAN
    PROVE  ApplyFrame(a)
BY Types DEF ComposedInv, ApplyFrame, lifeVars, planVars

\* Under the mutex the operation record is inserted, for the plan the call has copied.
LEMMA ApplyInsertCovers ==
    ASSUME ComposedInv, StepOK, NEW a \in Appliers, NEW o \in Ops, ApplyInsert(a, o)
    PROVE  StaysCovered
<1> DEFINE c == appl[a].cs
           r == StagingRecord(cset[c].base, appl[a].policy, EditsOf(cset[c].actions), c)
           l == [appl[a] EXCEPT !.pc = "apply_lock", !.op = o, !.rec = r, !.cset = cset[c]]
<1>1. appl[a].pc = "apply_guard" /\ guard = None
  BY DEF ApplyInsert, ApplyAt
<1>2. /\ c \in ChangeSetIds /\ Copied(appl[a].cset.actions, c)
      /\ cset[c] \in ChangeSetRecords /\ appl[a] \in ApplyLocals /\ appl[a].applied = 0
  BY <1>1, LocalTypes
     DEF ComposedInv, PlansStored, ApprovalInv, CSTypeOK, AppliesHold, ApplyHolds, SentIsPending,
         Unsent
<1>3. /\ r \in Records /\ r.state = "Staging" /\ r.changeSet = c
  <2>1. EditsOf(cset[c].actions) \in SUBSET Edits
    BY <1>2, PlanEdits DEF ChangeSetRecords
  <2>2. r \in Records
    BY <1>2, <2>1, StagingRecordType DEF ChangeSetRecords, ApplyLocals
  <2> QED
    BY <2>2 DEF StagingRecord
<1>4. \/ NewId(o) /\ Acquire(a) /\ Insert(o, r) /\ appl' = [appl EXCEPT ![a] = l]
      \/ ApplyFinish(a) /\ UNCHANGED coordinatorVars
  BY DEF ApplyInsert
<1>5. /\ l.pc = "apply_lock" /\ l.cs = c /\ l.op = o /\ l.rec = r /\ l.cset = cset[c]
      /\ l.applied = 0
  <2> HIDE DEF r
  <2> QED
    BY <1>2 DEF ApplyLocals
<1>6. UNCHANGED <<deviceVars, lifeVars, cset, planVars, pushed>>
  BY DEF ApplyInsert
<1> HIDE DEF r, l
<1>7. ApplyWrites /\ ApplierMoves(a)
  <2>1. CASE ApplyFinish(a) /\ UNCHANGED coordinatorVars
    <3>1. ApplierMoves(a)
      BY <1>1, <2>1, Returns DEF coordinatorVars, ApplyGuarded
    <3> QED
      BY <2>1, <3>1 DEF coordinatorVars, ApplyWrites
  <2>2. CASE NewId(o) /\ Acquire(a) /\ Insert(o, r) /\ appl' = [appl EXCEPT ![a] = l]
    <3>1. ApplyWrites
      <4>1. r.state # "Fresh" /\ r.state \notin Trusted
        BY <1>3 DEF Trusted
      <4> QED
        BY <1>3, <2>2, <4>1 DEF Insert, ApplyWrites
    <3>2. appl'[a] = l /\ \A b \in Appliers \ {a} : appl'[b] = appl[b]
      BY <2>2 DEF ComposedInv, ApprovalInv, CSTypeOK
    <3>3. guard' = a
      BY <2>2 DEF Acquire
    <3>4. rec'[o] = r
      BY <2>2, Types DEF Insert, ComposedInv
    <3>5. SentIsPending(a)'
      BY <1>5, <3>2 DEF SentIsPending, Unsent
    <3>6. HoldsRecord(a)'
      <4>1. appl'[a].pc \in ApplyGuarded
        BY <1>5, <3>2 DEF ApplyGuarded, ApplyPcs
      <4>2. /\ rec'[appl'[a].op].state # "Fresh"
            /\ rec'[appl'[a].op].policy = appl'[a].rec.policy
            /\ appl'[a].rec.changeSet = appl'[a].cs
            /\ appl'[a].rec.state \in Lifecycle
            /\ appl'[a].rec.state \notin Trusted
        BY <1>3, <1>5, <3>2, <3>4 DEF Lifecycle, Trusted
      <4> QED
        BY <3>3, <4>1, <4>2, Zenon DEF HoldsRecord
    <3>7. Copied(appl'[a].cset.actions, appl'[a].cs)
      BY <1>2, <1>5, <3>2 DEF Copied
    <3> QED
      BY <1>1, <3>1, <3>2, <3>3, <3>5, <3>6, <3>7 DEF ApplierMoves, ApplyHolds
  <2> QED
    BY <1>4, <2>1, <2>2
<1>8. ApplyFrame(a)
  BY <1>6, QuietFrame, Types DEF deviceVars, ComposedInv
<1> QED
  BY <1>6, <1>7, <1>8, SamePlans, ApplyStepCovers

\* The configuration lock, and its persistence.
LEMMA ApplyLockCovers ==
    ASSUME ComposedInv, StepOK, NEW a \in Appliers, ApplyLock(a) \/ ApplySaveLock(a)
    PROVE  StaysCovered
<1>1. appl[a].pc \in {"apply_lock", "apply_savelock"} /\ appl[a].pc \in ApplyGuarded
  BY DEF ApplyLock, ApplySaveLock, ApplyAt, ApplyGuarded, ApplyPcs
<1>2. /\ appl[a].rec \in Records /\ appl[a].rec.state \in Lifecycle \ Trusted
      /\ rec[appl[a].op].state # "Fresh" /\ rec[appl[a].op].policy = appl[a].rec.policy
      /\ appl[a].rec.state # "Fresh"
  BY <1>1, Applying DEF Lifecycle
<1>3. ASSUME NEW pc \in {"apply_fp", "apply_remove", "apply_unlock"}, ApplyGoto(a, pc),
             UNCHANGED <<rec, guard>>
      PROVE  ApplyWrites /\ ApplierMoves(a)
  <2>1. pc \in ApplyGuarded \ {"apply_push", "apply_after"}
    BY DEF ApplyGuarded, ApplyPcs
  <2> QED
    BY <1>1, <1>3, <2>1, GoesTo DEF Unsent
<1>4. CASE ApplyLock(a)
  <2> DEFINE r == [appl[a].rec EXCEPT !.lock = TRUE]
  <2>1. /\ r \in Records /\ r.policy = appl[a].rec.policy
        /\ r.changeSet = appl[a].rec.changeSet /\ r.state = appl[a].rec.state
    BY <1>2, WithLockType
  <2>2. /\ \/ ApplyGoto(a, "apply_fp") \/ ApplyGoto(a, "apply_remove")
           \/ ApplyKeep(a, "apply_savelock", r)
        /\ UNCHANGED <<rec, guard>>
    BY <1>4 DEF ApplyLock, coordinatorVars
  <2> HIDE DEF r
  <2>3. ASSUME ApplyKeep(a, "apply_savelock", r) PROVE ApplyWrites /\ ApplierMoves(a)
    <3>1. "apply_savelock" \in ApplyGuarded \ {"apply_push", "apply_after"}
      BY DEF ApplyGuarded, ApplyPcs
    <3>2. rec'[appl[a].op].state # "Fresh" /\ rec'[appl[a].op].policy = appl[a].rec.policy
      BY <1>2, <2>2
    <3>3. appl[a].pc \in Unsent /\ r.state \in Lifecycle \ Trusted
      BY <1>1, <1>2, <2>1 DEF Unsent
    <3>4. UNCHANGED guard
      BY <2>2
    <3>5. ApplierMoves(a)
      BY <1>1, <2>1, <2>3, <3>1, <3>2, <3>3, <3>4, GoesToWith
    <3> QED
      BY <2>2, <3>5 DEF ApplyWrites
  <2>4. ApplyWrites /\ ApplierMoves(a)
    <3>1. CASE ApplyGoto(a, "apply_fp")
      BY <1>3, <2>2, <3>1
    <3>2. CASE ApplyGoto(a, "apply_remove")
      BY <1>3, <2>2, <3>2
    <3> QED
      BY <2>2, <2>3, <3>1, <3>2
  <2>5. UNCHANGED <<candidate, running, job, cset, lifeVars, planVars>> /\ lock' \in BOOLEAN
    BY <1>4, Types DEF ApplyLock, AcquireLock, ComposedInv
  <2> QED
    BY <2>4, <2>5, QuietFrame, SamePlans, ApplyStepCovers
<1>5. CASE ApplySaveLock(a)
  <2>1. PICK saved \in Saves :
          /\ Update(appl[a].op, appl[a].rec, saved)
          /\ IF saved THEN ApplyGoto(a, "apply_fp") ELSE ApplyAbort(a)
    BY <1>5 DEF ApplySaveLock
  <2>2. rec' = rec \/ rec' = [rec EXCEPT ![appl[a].op] = appl[a].rec]
    BY <2>1, Zenon DEF Update
  <2>3. /\ ApplyWrites /\ rec'[appl[a].op].state # "Fresh"
        /\ rec'[appl[a].op].policy = appl[a].rec.policy
    BY <1>1, <1>2, <2>2, OwnWrite
  <2>4. PICK pc \in {"apply_fp", "apply_unlock"} : ApplyGoto(a, pc)
    BY <2>1, Zenon DEF ApplyAbort
  <2>5. pc \in ApplyGuarded \ {"apply_push", "apply_after"} /\ (pc \in Unsent => pc = "apply_fp")
    BY DEF ApplyGuarded, ApplyPcs, Unsent
  <2>6. ApplyKeep(a, pc, appl[a].rec)
    <3> DEFINE l == [appl[a] EXCEPT !.pc = pc, !.rec = appl[a].rec]
               k == [appl[a] EXCEPT !.pc = pc]
    <3>1. l = k
      BY <1>1, Applying DEF ApplyLocals
    <3>2. appl' = [appl EXCEPT ![a] = k]
      BY <2>4 DEF ApplyGoto
    <3>3. appl' = [appl EXCEPT ![a] = l]
      BY <3>1, <3>2
    <3> QED
      BY <3>3 DEF ApplyKeep
  <2>7. UNCHANGED <<candidate, running, job, lock, guard, cset, lifeVars, planVars>>
    BY <1>5 DEF ApplySaveLock, deviceVars
  <2>8. ApplierMoves(a)
    BY <1>1, <1>2, <2>3, <2>5, <2>6, <2>7, GoesToWith DEF Unsent
  <2>9. lock' \in BOOLEAN
    BY <2>7, Types DEF ComposedInv
  <2> QED
    BY <2>3, <2>7, <2>8, <2>9, QuietFrame, SamePlans, ApplyStepCovers
<1> QED
  BY <1>4, <1>5

\* The two reads before the claim, and the unlocking of a call that sent nothing.
LEMMA ApplyReadCovers ==
    ASSUME ComposedInv, StepOK, NEW a \in Appliers,
           ApplyFingerprint(a) \/ ApplyClean(a) \/ ApplyUnlock(a)
    PROVE  StaysCovered
<1>1. /\ appl[a].pc \in {"apply_fp", "apply_clean", "apply_unlock"}
      /\ appl[a].pc \in ApplyGuarded \ {"apply_settle"}
  BY DEF ApplyFingerprint, ApplyClean, ApplyUnlock, ApplyAt, ApplyGuarded, ApplyPcs
<1>2. PICK pc \in {"apply_clean", "apply_claim", "apply_unlock", "apply_remove"} :
         ApplyGoto(a, pc) /\ (pc \in Unsent => appl[a].pc \in Unsent)
  <2>1. CASE ApplyFingerprint(a) \/ ApplyClean(a)
    <3>1. appl[a].pc \in Unsent
      BY <2>1 DEF ApplyFingerprint, ApplyClean, ApplyAt, Unsent
    <3>2. ApplyGoto(a, "apply_clean") \/ ApplyGoto(a, "apply_claim") \/ ApplyGoto(a, "apply_unlock")
      BY <2>1, Zenon DEF ApplyFingerprint, ApplyClean, ApplyAbort
    <3> QED
      BY <3>1, <3>2
  <2>2. CASE ApplyUnlock(a)
    <3>1. "apply_remove" \notin Unsent
      BY DEF Unsent
    <3> QED
      BY <2>2, <3>1 DEF ApplyUnlock
  <2> QED
    BY <2>1, <2>2
<1>3. pc \in ApplyGuarded \ {"apply_push", "apply_after"}
  BY DEF ApplyGuarded, ApplyPcs
<1>4. /\ UNCHANGED <<candidate, running, job, rec, guard, cset, lifeVars, planVars>>
      /\ lock' \in BOOLEAN
  BY Types DEF ApplyFingerprint, ApplyClean, ApplyUnlock, BestEffortUnlock, ReleaseLock,
     coordinatorVars, deviceVars, ComposedInv
<1>5. ApplyWrites /\ ApplierMoves(a)
  BY <1>1, <1>2, <1>3, <1>4, GoesTo
<1> QED
  BY <1>4, <1>5, QuietFrame, SamePlans, ApplyStepCovers

\* The claim: the stored plan is the one the call has copied.
LEMMA ApplyClaimCovers ==
    ASSUME ComposedInv, StepOK, NEW a \in Appliers, ApplyClaim(a)
    PROVE  StaysCovered
<1> DEFINE c == appl[a].cs
           r == [cset[c] EXCEPT !.state = "Applying"]
           l == [appl[a] EXCEPT !.pc = "apply_link", !.cset = r]
<1>1. appl[a].pc = "apply_claim" /\ appl[a].pc \in ApplyGuarded \ {"apply_settle"}
      /\ appl[a].pc \in Unsent
  BY DEF ApplyClaim, ApplyAt, ApplyGuarded, ApplyPcs, Unsent
<1>2. /\ appl[a] \in ApplyLocals /\ c \in ChangeSetIds
      /\ rec[appl[a].op].state # "Fresh" /\ rec[appl[a].op].policy = appl[a].rec.policy
      /\ appl[a].rec.state \in Lifecycle \ Trusted /\ appl[a].rec.changeSet = appl[a].cs
      /\ Copied(appl[a].cset.actions, c) /\ appl[a].applied = 0
  BY <1>1, Applying DEF ComposedInv, AppliesHold, ApplyHolds, SentIsPending
<1>3. cset[c] \in ChangeSetRecords
  BY <1>2 DEF ComposedInv, ApprovalInv, CSTypeOK
<1>4. r.actions = appl[a].cset.actions /\ r.state # "Fresh"
  BY <1>2, <1>3 DEF ChangeSetRecords, Copied
<1>5. \/ cset' = [cset EXCEPT ![c] = r] /\ appl' = [appl EXCEPT ![a] = l]
      \/ ApplyGoto(a, "apply_unlock") /\ UNCHANGED cset
  BY DEF ApplyClaim, ApplyAbort
<1>6. UNCHANGED <<candidate, running, job, lock, rec, guard, lifeVars, planVars>>
  BY DEF ApplyClaim, deviceVars, coordinatorVars
<1>7. /\ l.pc = "apply_link" /\ l.cs = c /\ l.op = appl[a].op /\ l.cset = r
      /\ l.rec = appl[a].rec /\ l.applied = 0
  <2> HIDE DEF r
  <2> QED
    BY <1>2 DEF ApplyLocals
<1> HIDE DEF r, l
<1>8. PlansKept /\ Proposed'
  BY <1>2, <1>4, <1>5, OverwriteKeepsPlans
<1>9. ASSUME appl' = [appl EXCEPT ![a] = l] PROVE ApplyWrites /\ ApplierMoves(a)
  <2>1. rec'[appl[a].op].state # "Fresh" /\ rec'[appl[a].op].policy = appl[a].rec.policy
    BY <1>2, <1>6
  <2>2. l.pc \in ApplyGuarded
    BY <1>7 DEF ApplyGuarded, ApplyPcs
  <2>3. ApplierMoves(a)
    BY <1>1, <1>2, <1>4, <1>6, <1>7, <1>9, <2>1, <2>2, GoesOn
  <2> QED
    BY <1>6, <2>3 DEF ApplyWrites
<1>10. ASSUME ApplyGoto(a, "apply_unlock") PROVE ApplyWrites /\ ApplierMoves(a)
  <2>1. "apply_unlock" \in ApplyGuarded \ {"apply_push", "apply_after"}
    BY DEF ApplyGuarded, ApplyPcs
  <2> QED
    BY <1>1, <1>6, <1>10, <2>1, GoesTo
<1>11. ApplyFrame(a)
  BY <1>6, QuietFrame, Types DEF ComposedInv
<1> QED
  BY <1>5, <1>8, <1>9, <1>10, <1>11, ApplyStepCovers

\* The link to the operation, or the failure of the claimed plan.  A proposed plan has at
\* least one action.
LEMMA ApplyLinkCovers ==
    ASSUME ComposedInv, StepOK, NEW a \in Appliers, ApplyLink(a)
    PROVE  StaysCovered
<1> DEFINE c == appl[a].cs
           r == [appl[a].cset EXCEPT !.op = appl[a].op]
           f == [r EXCEPT !.state = "Failed", !.op = None]
           l == [appl[a] EXCEPT !.pc = "apply_push", !.cset = r]
<1>1. appl[a].pc = "apply_link" /\ appl[a].pc \in ApplyGuarded \ {"apply_settle"}
      /\ appl[a].pc \in Unsent
  BY DEF ApplyLink, ApplyAt, ApplyGuarded, ApplyPcs, Unsent
<1>2. /\ appl[a] \in ApplyLocals /\ c \in ChangeSetIds
      /\ rec[appl[a].op].state # "Fresh" /\ rec[appl[a].op].policy = appl[a].rec.policy
      /\ appl[a].rec.state \in Lifecycle \ Trusted /\ appl[a].rec.changeSet = appl[a].cs
      /\ Copied(appl[a].cset.actions, c) /\ appl[a].applied = 0
  BY <1>1, Applying DEF ComposedInv, AppliesHold, ApplyHolds, SentIsPending
<1>3. appl[a].cset \in ChangeSetRecords /\ appl[a].cset.state = "Applying"
  BY <1>1, <1>2 DEF ApplyLocals, ComposedInv, ApprovalInv, ClaimInv, Claimed
<1>4. /\ r.actions = appl[a].cset.actions /\ r.state # "Fresh"
      /\ f.actions = appl[a].cset.actions /\ f.state # "Fresh"
  BY <1>3 DEF ChangeSetRecords
<1>5. PICK saved \in Saves, settled \in Saves :
         \/ UpdateChangeSet(c, r, saved) /\ appl' = [appl EXCEPT ![a] = l]
         \/ UpdateChangeSet(c, f, settled) /\ ApplyGoto(a, "apply_unlock")
  BY DEF ApplyLink, ApplyAbort
<1>6. UNCHANGED <<candidate, running, job, lock, rec, guard, lifeVars, planVars>>
  BY DEF ApplyLink, deviceVars, coordinatorVars
<1>7. /\ l.pc = "apply_push" /\ l.cs = c /\ l.op = appl[a].op /\ l.cset = r
      /\ l.rec = appl[a].rec /\ l.applied = 0
  <2> HIDE DEF r
  <2> QED
    BY <1>2 DEF ApplyLocals
<1>8. 0 < Len(r.actions)
  <2>1. r.actions \in Plans
    BY <1>2, <1>4 DEF Copied, ComposedInv, PlansStored, Proposed
  <2> HIDE DEF r
  <2> QED
    BY <2>1, PlansAssumption
<1> HIDE DEF r, f, l
<1>9. PlansKept /\ Proposed'
  <2>1. \E q \in {r, f} : cset' = cset \/ cset' = [cset EXCEPT ![c] = q]
    BY <1>5, Zenon DEF UpdateChangeSet
  <2> QED
    BY <1>2, <1>4, <2>1, OverwriteKeepsPlans
<1>10. ASSUME appl' = [appl EXCEPT ![a] = l] PROVE ApplyWrites /\ ApplierMoves(a)
  <2>1. rec'[appl[a].op].state # "Fresh" /\ rec'[appl[a].op].policy = appl[a].rec.policy
    BY <1>2, <1>6
  <2>2. l.pc \in ApplyGuarded /\ l.pc \notin Unsent
    BY <1>7 DEF ApplyGuarded, ApplyPcs, Unsent
  <2>3. /\ l.applied < Len(l.cset.actions)
        /\ \A i \in 1..l.applied : l.cset.actions[i] \in candidate'
    BY <1>7, <1>8
  <2>4. ApplierMoves(a)
    BY <1>1, <1>2, <1>4, <1>6, <1>7, <1>10, <2>1, <2>2, <2>3, GoesOn
  <2> QED
    BY <1>6, <2>4 DEF ApplyWrites
<1>11. ASSUME ApplyGoto(a, "apply_unlock") PROVE ApplyWrites /\ ApplierMoves(a)
  <2>1. "apply_unlock" \in ApplyGuarded \ {"apply_push", "apply_after"}
    BY DEF ApplyGuarded, ApplyPcs
  <2> QED
    BY <1>1, <1>6, <1>11, <2>1, GoesTo
<1>12. ApplyFrame(a)
  BY <1>6, QuietFrame, Types DEF ComposedInv
<1> QED
  BY <1>5, <1>9, <1>10, <1>11, <1>12, ApplyStepCovers

\* The loop over the actions: what was accepted is in the candidate.
LEMMA ApplyPushCovers ==
    ASSUME ComposedInv, StepOK, NEW a \in Appliers, ApplyPush(a)
    PROVE  StaysCovered
<1> DEFINE next == appl[a].applied + 1
           plan == appl[a].cset.actions
           pc == IF next = Len(plan) THEN "apply_after" ELSE "apply_push"
           l == [appl[a] EXCEPT !.applied = next, !.pc = pc]
<1>1. /\ appl[a].pc = "apply_push" /\ appl[a].pc \in ApplyGuarded \ {"apply_settle"}
      /\ UNCHANGED <<running, lock, job, rec, guard, lifeVars, cset, planVars>>
  BY DEF ApplyPush, ApplyAt, ApplyGuarded, ApplyPcs, coordinatorVars
<1>2. /\ appl[a] \in ApplyLocals /\ appl[a].cs \in ChangeSetIds
      /\ rec[appl[a].op].state # "Fresh" /\ rec[appl[a].op].policy = appl[a].rec.policy
      /\ appl[a].rec.state \in Lifecycle \ Trusted /\ appl[a].rec.changeSet = appl[a].cs
      /\ Copied(plan, appl[a].cs)
  BY <1>1, Applying
<1>3. /\ appl[a].applied \in Nat /\ appl[a].applied < Len(plan)
      /\ \A i \in 1..appl[a].applied : plan[i] \in candidate
  BY <1>1, <1>2 DEF ApplyLocals, ComposedInv, AppliesHold, ApplyHolds, SentIsPending
<1>4. plan \in Seq(Edits)
  BY <1>2, PlansAssumption DEF Copied, ComposedInv, PlansStored, Proposed
<1>5. PICK out \in Outcomes :
         /\ PostEdit(plan[next], out)
         /\ IF out = "ok" THEN appl' = [appl EXCEPT ![a] = l] ELSE ApplyGoto(a, "apply_revert")
  BY DEF ApplyPush
<1>6. pc \in {"apply_push", "apply_after"}
  OBVIOUS
<1>7. pc = "apply_after" <=> next = Len(plan)
  OBVIOUS
<1>8. next \in Nat /\ next \in 1..Len(plan)
  BY <1>3, <1>4
<1>9. plan[next] \in Edits
  BY <1>4, <1>8
<1>10. candidate \subseteq candidate' /\ candidate' \in Config
  BY <1>5, <1>9, Types DEF PostEdit, Config, ComposedInv
<1> HIDE DEF pc
<1>11. /\ l.pc = pc /\ l.cs = appl[a].cs /\ l.op = appl[a].op /\ l.cset = appl[a].cset
       /\ l.rec = appl[a].rec /\ l.applied = next
  BY <1>2 DEF ApplyLocals
<1>12. ASSUME out = "ok" PROVE ApplyWrites /\ ApplierMoves(a)
  <2>1. appl' = [appl EXCEPT ![a] = l]
    BY <1>5, <1>12
  <2>2. candidate' = candidate \union {plan[next]}
    BY <1>5, <1>12 DEF PostEdit
  <2>3. \A i \in 1..next : plan[i] \in candidate'
    <3>1. \A i \in 1..next : i = next \/ i \in 1..appl[a].applied
      BY <1>3
    <3> HIDE DEF next, plan
    <3> QED
      BY <1>3, <2>2, <3>1
  <2>4. /\ pc = "apply_push" => next < Len(plan)
        /\ pc = "apply_after" => next = Len(plan)
    <3>1. pc = "apply_push" => pc # "apply_after"
      OBVIOUS
    <3>2. next # Len(plan) => next < Len(plan)
      BY <1>3, <1>4
    <3> QED
      BY <1>7, <3>1, <3>2
  <2>5. rec'[appl[a].op].state # "Fresh" /\ rec'[appl[a].op].policy = appl[a].rec.policy
    BY <1>1, <1>2
  <2>6. pc \in ApplyGuarded /\ pc \notin Unsent
    BY <1>6 DEF ApplyGuarded, ApplyPcs, Unsent
  <2> HIDE DEF l, next
  <2>7. ApplierMoves(a)
    BY <1>1, <1>2, <1>11, <2>1, <2>3, <2>4, <2>5, <2>6, GoesOn
  <2> QED
    BY <1>1, <2>7 DEF ApplyWrites
<1>13. ASSUME out # "ok" PROVE ApplyWrites /\ ApplierMoves(a)
  <2>1. "apply_revert" \in ApplyGuarded \ {"apply_push", "apply_after"}
        /\ "apply_revert" \notin Unsent
    BY DEF ApplyGuarded, ApplyPcs, Unsent
  <2>2. ApplyGoto(a, "apply_revert")
    BY <1>5, <1>13
  <2> QED
    BY <1>1, <2>1, <2>2, GoesTo
<1>14. ApplyFrame(a)
  BY <1>1, <1>10, Types DEF ApplyFrame, lifeVars, planVars, ComposedInv
<1> QED
  BY <1>1, <1>12, <1>13, <1>14, SamePlans, ApplyStepCovers

\* The record after the last action: with the fingerprint in hand, it vouches for the
\* whole plan, all of which was accepted and nothing of which anybody took back.
LEMMA ApplyAfterCovers ==
    ASSUME ComposedInv, StepOK, NEW a \in Appliers, ApplyAfter(a),
           appl[a].pc = "apply_after" => OwnEdits(candidate) \subseteq Vetted(cset)
    PROVE  StaysCovered
<1> DEFINE plan == appl[a].cset.actions
           c == appl[a].cs
           staged == [appl[a].rec EXCEPT !.state = "Staged", !.current = Fingerprint]
           lost == WithState(appl[a].rec, "Indeterminate")
<1>1. /\ appl[a].pc = "apply_after" /\ appl[a].pc \in ApplyGuarded \ {"apply_settle"}
      /\ UNCHANGED <<candidate, running, job, lock, lifeVars, cset, planVars>>
  BY DEF ApplyAfter, ApplyAt, ApplyGuarded, ApplyPcs, deviceVars
<1>2. /\ appl[a] \in ApplyLocals /\ appl[a].cs \in ChangeSetIds
      /\ appl[a].rec \in Records /\ appl[a].rec.changeSet = c
      /\ Copied(plan, c)
  BY <1>1, Applying
<1>3. appl[a].applied = Len(plan) /\ \A i \in 1..appl[a].applied : plan[i] \in candidate
  BY <1>1 DEF ComposedInv, AppliesHold, ApplyHolds, SentIsPending
<1>4. Fingerprint \in SUBSET Roots /\ "Staged" \in Lifecycle /\ "Indeterminate" \in Lifecycle
      /\ "Indeterminate" \notin Trusted
  BY DEF Fingerprint, Lifecycle, Trusted
<1>5. EditsOf(plan) \subseteq Fingerprint
  <2>1. \A i \in 1..Len(plan) : plan[i] \in candidate
    BY <1>3
  <2>2. plan \in Seq(Edits)
    BY <1>2, PlansAssumption DEF Copied, ComposedInv, PlansStored, Proposed
  <2> HIDE DEF plan
  <2> QED
    BY <2>1, <2>2, EditsAssumption DEF EditsOf, Fingerprint
<1>6. /\ staged \in Records /\ staged.state = "Staged" /\ staged.current = Fingerprint
      /\ staged.policy = appl[a].rec.policy /\ staged.changeSet = appl[a].rec.changeSet
  BY <1>2, <1>4 DEF Records
<1>7. /\ lost \in Records /\ lost.state = "Indeterminate"
      /\ lost.policy = appl[a].rec.policy /\ lost.changeSet = appl[a].rec.changeSet
  BY <1>2, <1>4, WithStateType
<1>8. PICK r \in {staged, lost}, saved \in Saves :
         /\ Update(appl[a].op, r, saved)
         /\ IF saved THEN ApplyKeep(a, "apply_settle", r) /\ UNCHANGED guard
            ELSE ApplyFinish(a) /\ Release(a)
  BY DEF ApplyAfter
<1>9. Covered(staged, cset)
  <2>1. OwnEdits(Fingerprint) \subseteq Vetted(cset)
    BY <1>1 DEF OwnEdits, Fingerprint
  <2> HIDE DEF staged, plan
  <2> QED
    BY <1>2, <1>5, <1>6, <2>1 DEF Covered, Copied, plan
<1> HIDE DEF staged, lost, plan, c
<1>10. /\ r \in Records /\ r.state \in Lifecycle /\ r.state # "Fresh"
       /\ r.policy = appl[a].rec.policy /\ r.changeSet = appl[a].rec.changeSet
       /\ r.state \in Trusted => Covered(r, cset)
  <2>1. "Staged" # "Fresh" /\ "Indeterminate" # "Fresh"
    OBVIOUS
  <2> QED
    BY <1>4, <1>6, <1>7, <1>9, <2>1
<1>11. rec' = rec \/ rec' = [rec EXCEPT ![appl[a].op] = r]
  BY <1>8, Zenon DEF Update
<1>12. /\ ApplyWrites /\ rec'[appl[a].op].state # "Fresh"
       /\ rec'[appl[a].op].policy = appl[a].rec.policy
  BY <1>1, <1>10, <1>11, OwnWrite
<1>13. ApplierMoves(a)
  <2>1. CASE ApplyKeep(a, "apply_settle", r) /\ UNCHANGED guard
    <3>1. /\ "apply_settle" \in ApplyGuarded \ {"apply_push", "apply_after"}
          /\ "apply_settle" \notin Unsent
      BY DEF ApplyGuarded, ApplyPcs, Unsent
    <3> QED
      BY <1>1, <1>10, <1>12, <2>1, <3>1, GoesToWith
  <2>2. CASE ApplyFinish(a) /\ Release(a)
    BY <2>2, Returns
  <2> QED
    BY <1>8, <2>1, <2>2
<1>14. ApplyFrame(a)
  BY <1>1, QuietFrame, Types DEF ComposedInv
<1> QED
  BY <1>1, <1>12, <1>13, <1>14, SamePlans, ApplyStepCovers

\* The plan is settled, as applied or as failed.
LEMMA ApplySettleCovers ==
    ASSUME ComposedInv, StepOK, NEW a \in Appliers, ApplySettle(a) \/ ApplyFailSet(a)
    PROVE  StaysCovered
<1> DEFINE c == appl[a].cs
           r(s) == [appl[a].cset EXCEPT !.state = s]
<1>1. /\ appl[a].pc \in {"apply_settle", "apply_failset"} /\ appl[a].pc \in ApplyGuarded
      /\ UNCHANGED <<candidate, running, job, lock, rec, lifeVars, planVars>>
  BY DEF ApplySettle, ApplyFailSet, ApplyAt, ApplyGuarded, ApplyPcs, deviceVars
<1>2. /\ c \in ChangeSetIds /\ appl[a].cset \in ChangeSetRecords
      /\ Copied(appl[a].cset.actions, c)
  BY <1>1, Applying DEF ApplyLocals
<1>3. PICK s \in {"Applied", "Failed"}, saved \in Saves : UpdateChangeSet(c, r(s), saved)
  <2>1. CASE ApplySettle(a)
    BY <2>1 DEF ApplySettle
  <2>2. CASE ApplyFailSet(a)
    BY <2>2 DEF ApplyFailSet
  <2> QED
    BY <2>1, <2>2
<1>4. Copied(r(s).actions, c) /\ r(s).state # "Fresh"
  BY <1>2 DEF ChangeSetRecords
<1>5. cset' = cset \/ cset' = [cset EXCEPT ![c] = r(s)]
  BY <1>3, Zenon DEF UpdateChangeSet
<1>6. PlansKept /\ Proposed'
  <2> HIDE DEF r
  <2> QED
    BY <1>2, <1>4, <1>5, OverwriteKeepsPlans
<1>7. ApplierMoves(a)
  <2>1. \/ ApplyFinish(a) /\ Release(a)
        \/ /\ appl[a].pc = "apply_failset"
           /\ ApplyGoto(a, "apply_failunlock") /\ UNCHANGED guard
    BY DEF ApplySettle, ApplyFailSet, ApplyAt
  <2>2. /\ "apply_failunlock" \in ApplyGuarded \ {"apply_push", "apply_after"}
        /\ "apply_failunlock" \notin Unsent
    BY DEF ApplyGuarded, ApplyPcs, Unsent
  <2>3. CASE ApplyFinish(a) /\ Release(a)
    BY <2>3, Returns
  <2>4. CASE /\ appl[a].pc = "apply_failset"
             /\ ApplyGoto(a, "apply_failunlock") /\ UNCHANGED guard
    BY <1>1, <2>2, <2>4, GoesTo
  <2> QED
    BY <2>1, <2>3, <2>4
<1>8. ApplyFrame(a) /\ ApplyWrites
  BY <1>1, QuietFrame, Types DEF ApplyWrites, ComposedInv
<1> QED
  BY <1>6, <1>7, <1>8, ApplyStepCovers

\* The revert after a failed action, under the mutex, and its record.
LEMMA ApplyRevertCovers ==
    ASSUME ComposedInv, StepOK, NEW a \in Appliers, ApplyRevert(a) \/ ApplyFailSave(a)
    PROVE  StaysCovered
<1>1. /\ appl[a].pc \in {"apply_revert", "apply_failsave"}
      /\ appl[a].pc \in ApplyGuarded \ {"apply_settle"}
      /\ UNCHANGED <<running, job, lock, lifeVars, cset, planVars>>
  BY DEF ApplyRevert, ApplyFailSave, ApplyAt, ApplyGuarded, ApplyPcs, deviceVars
<1>2. /\ appl[a].rec \in Records /\ appl[a].rec.state \in Lifecycle \ Trusted
      /\ rec[appl[a].op].state # "Fresh" /\ rec[appl[a].op].policy = appl[a].rec.policy
      /\ guard = a
  BY <1>1, Applying
<1>3. \A pc \in {"apply_failsave", "apply_failset"} :
         pc \in ApplyGuarded \ {"apply_push", "apply_after"} /\ pc \notin Unsent
  BY DEF ApplyGuarded, ApplyPcs, Unsent
<1>4. CASE ApplyRevert(a)
  <2>1. PICK s \in {"Discarded", "Indeterminate"} :
          ApplyKeep(a, "apply_failsave", WithState(appl[a].rec, s))
    BY <1>4 DEF ApplyRevert
  <2> DEFINE r == WithState(appl[a].rec, s)
  <2>2. s \in Lifecycle \ Trusted
    BY DEF Lifecycle, Trusted
  <2>3. /\ r \in Records /\ r.policy = appl[a].rec.policy
        /\ r.changeSet = appl[a].rec.changeSet /\ r.state \in Lifecycle \ Trusted
    BY <1>2, <2>2, WithStateType
  <2>4. ApplyKeep(a, "apply_failsave", r)
    BY <2>1
  <2> HIDE DEF r
  <2>5. UNCHANGED <<rec, guard>> /\ candidate' \in Config
    BY <1>4, Types DEF ApplyRevert, RevertAdmin, coordinatorVars, Config, OwnEdits, ComposedInv
  <2>6. rec'[appl[a].op].state # "Fresh" /\ rec'[appl[a].op].policy = appl[a].rec.policy
    BY <1>2, <2>5
  <2>7. ApplierMoves(a)
    BY <1>1, <1>3, <2>3, <2>4, <2>5, <2>6, GoesToWith
  <2>8. ApplyFrame(a) /\ ApplyWrites
    BY <1>1, <1>2, <2>5, Types DEF ApplyFrame, ApplyWrites, lifeVars, planVars, ComposedInv
  <2> QED
    BY <1>1, <2>7, <2>8, SamePlans, ApplyStepCovers
<1>5. CASE ApplyFailSave(a)
  <2> DEFINE q == [appl[a].rec EXCEPT !.current = Fingerprint]
  <2>1. /\ q \in Records /\ q.policy = appl[a].rec.policy
        /\ q.changeSet = appl[a].rec.changeSet /\ q.state = appl[a].rec.state
    <3>1. Fingerprint \in SUBSET Roots
      BY DEF Fingerprint
    <3> QED
      BY <1>2, <3>1, WithCurrentType
  <2>2. PICK r \in {q, appl[a].rec}, saved \in Saves :
          /\ Update(appl[a].op, r, saved)
          /\ IF saved THEN ApplyKeep(a, "apply_failset", r) /\ UNCHANGED guard
             ELSE ApplyFinish(a) /\ Release(a)
    BY <1>5 DEF ApplyFailSave
  <2> HIDE DEF q
  <2>3. /\ r \in Records /\ r.policy = appl[a].rec.policy
        /\ r.changeSet = appl[a].rec.changeSet /\ r.state \in Lifecycle \ Trusted
        /\ r.state # "Fresh"
    BY <1>2, <2>1 DEF Lifecycle
  <2>4. rec' = rec \/ rec' = [rec EXCEPT ![appl[a].op] = r]
    BY <2>2, Zenon DEF Update
  <2>5. /\ ApplyWrites /\ rec'[appl[a].op].state # "Fresh"
        /\ rec'[appl[a].op].policy = appl[a].rec.policy
    BY <1>1, <2>3, <2>4, OwnWrite
  <2>6. ApplierMoves(a)
    <3>1. CASE ApplyKeep(a, "apply_failset", r) /\ UNCHANGED guard
      BY <1>1, <1>3, <2>3, <2>5, <3>1, GoesToWith
    <3>2. CASE ApplyFinish(a) /\ Release(a)
      BY <3>2, Returns
    <3> QED
      BY <2>2, <3>1, <3>2
  <2>7. ApplyFrame(a)
    BY <1>1, <1>5, QuietFrame, Types DEF ApplyFailSave, deviceVars, ComposedInv
  <2> QED
    BY <1>1, <2>5, <2>6, <2>7, SamePlans, ApplyStepCovers
<1> QED
  BY <1>4, <1>5

\* The last steps of a call that failed: unlock, or remove the record it had inserted.
LEMMA ApplyEndCovers ==
    ASSUME ComposedInv, StepOK, NEW a \in Appliers, ApplyFailUnlock(a) \/ ApplyRemove(a)
    PROVE  StaysCovered
<1>1. /\ appl[a].pc \in ApplyGuarded
      /\ ApplyFinish(a) /\ Release(a)
      /\ UNCHANGED <<candidate, running, job, cset, lifeVars, planVars>> /\ lock' \in BOOLEAN
  BY Types DEF ApplyFailUnlock, ApplyRemove, ApplyAt, ApplyGuarded, ApplyPcs, BestEffortUnlock,
     ReleaseLock, deviceVars, ComposedInv
<1>2. ApplyWrites
  <2>1. CASE ApplyFailUnlock(a)
    BY <2>1 DEF ApplyFailUnlock, ApplyWrites
  <2>2. CASE ApplyRemove(a)
    <3> DEFINE o == appl[a].op
               r == [rec[o] EXCEPT !.state = "Gone"]
    <3>1. o \in Ops /\ rec[o] \in Records /\ rec[o].policy = appl[a].rec.policy
      BY <1>1, Applying, Types DEF ComposedInv
    <3>2. r \in Records /\ r.state = "Gone" /\ r.policy = appl[a].rec.policy
      BY <3>1 DEF Records, Unused
    <3>3. rec' = [rec EXCEPT ![o] = r]
      BY <2>2 DEF ApplyRemove, Remove
    <3>4. r.state # "Fresh" /\ r.state \notin Trusted
      BY <3>2 DEF Trusted
    <3> HIDE DEF r
    <3> QED
      BY <1>1, <3>2, <3>3, <3>4, OwnWrite
  <2> QED
    BY <2>1, <2>2
<1>3. ApplierMoves(a)
  BY <1>1, Returns
<1> QED
  BY <1>1, <1>2, <1>3, QuietFrame, SamePlans, ApplyStepCovers

-----------------------------------------------------------------------------
(* The theorems. *)

\* The empty server.
LEMMA ComposedInit == CSInit => ComposedInv
<1> SUFFICES ASSUME CSInit PROVE ComposedInv
  OBVIOUS
<1>1. LifecycleInv /\ ApprovalInv
  BY InitHolds, ApprovalInit DEF CSInit
<1>2. /\ rec = [o \in Ops |-> FreshRecord] /\ guard = None
      /\ task = [t \in Calls \union Workers |-> Idle]
      /\ cset = [c \in ChangeSetIds |-> FreshChangeSet]
      /\ view = [v \in Viewers |-> NoView] /\ appl = [a \in Appliers |-> IdleApply]
  BY DEF CSInit, Init, CoordinatorInit
<1>3. RecordsCover
  BY <1>2 DEF RecordsCover, FreshRecord, Trusted
<1>4. TasksCover
  BY <1>2 DEF TasksCover, TaskCovers, Tasked, Idle, StagePcs, CopyPcs, WorkerPcs
<1>5. PlansStored
  BY <1>2 DEF PlansStored, Proposed, FreshChangeSet, NoView, IdleApply
<1>6. AppliesHold
  <2> SUFFICES ASSUME NEW a \in Appliers PROVE ApplyHolds(a)
    BY DEF AppliesHold
  <2>1. appl[a].pc = "idle" /\ guard # a
    BY <1>2, AppliersApart DEF IdleApply
  <2> QED
    BY <2>1 DEF ApplyHolds, SentIsPending, HoldsRecord, Unsent, ApplyGuarded
<1> QED
  BY <1>1, <1>3, <1>4, <1>5, <1>6 DEF ComposedInv

\* Every step of an apply call.
LEMMA ApplyCovers ==
    ASSUME ComposedInv, StepOK, NEW a \in Appliers, ApplyStep(a),
           appl[a].pc = "apply_after" => OwnEdits(candidate) \subseteq Vetted(cset)
    PROVE  StaysCovered
BY ApplyExpireCovers, ApplyInsertCovers, ApplyLockCovers, ApplyReadCovers, ApplyClaimCovers,
   ApplyLinkCovers, ApplyPushCovers, ApplyAfterCovers, ApplySettleCovers, ApplyRevertCovers,
   ApplyEndCovers DEF ApplyStep

\* Every step of the whole system keeps the invariant, if the candidate of an apply that has
\* sent all its actions holds nothing unapproved.
LEMMA ComposedNext ==
    ASSUME ComposedInv, [CSNext]_allVars,
           \A a \in Appliers :
              appl[a].pc = "apply_after" => OwnEdits(candidate) \subseteq Vetted(cset)
    PROVE  StaysCovered
<1>1. StepOK /\ ApprovalInv'
  BY ApprovalNext DEF ComposedInv, StepOK
<1>2. UNCHANGED cset => ApprovalsKept
  BY DEF ApprovalsKept
<1>3. CASE Serve /\ UNCHANGED csVars
  BY <1>1, <1>2, <1>3, ServeCovers DEF StaysCovered, csVars
<1>4. CASE PlanStep
  BY <1>1, <1>4, CreateCovers, DecisionsCover, StatusReadCovers DEF PlanStep
<1>5. CASE \E v \in Viewers : StatusWrite(v)
  BY <1>1, <1>5, StatusWriteCovers
<1>6. CASE \E a \in Appliers : (\E c \in ChangeSetIds : ApplyCall(a, c)) \/ ApplyStep(a)
  BY <1>1, <1>6, ApplyCallCovers, ApplyCovers
<1>7. CASE CSRestart
  BY <1>1, <1>2, <1>7, RestartCovers DEF StaysCovered, CSRestart
<1>8. CASE \E o \in Ops : CSResolve(o)
  BY <1>1, <1>2, <1>8, ResolveCovers DEF StaysCovered, CSResolve, csVars
<1>9. CASE UNCHANGED allVars
  <2>1. UNCHANGED vars /\ UNCHANGED <<cset, appl, view>>
    BY <1>9 DEF allVars, csVars
  <2> QED
    BY <1>1, <2>1, SamePlans, LayerCovers
<1> QED
  BY <1>3, <1>4, <1>5, <1>6, <1>7, <1>8, <1>9 DEF CSNext

-----------------------------------------------------------------------------
(* Only approved edits run. *)

\* The candidate holds no edit of this administrator that was not approved.
VettedCandidate == OwnEdits(candidate) \subseteq Vetted(cset)

\* A commit that has compared its fingerprint and not posted yet: commit_candidate does
\* not hold the mutex there, and commit_worker does not compare again.
ReadyPcs == {"commit_mark", "worker_guard", "worker_post"}

ReadyToCommit == \E t \in Tasked : task[t].pc \in ReadyPcs

\* An apply that has found the candidate clean, up to the last fingerprint.
SendingPcs == {"apply_claim", "apply_link", "apply_push", "apply_after"}

Sending == \E a \in Appliers : appl[a].pc \in SendingPcs

\* Only operations with a plan are committed, and nobody stages without the tool.
Gated(t) ==
    /\ task[t].pc \in ReadyPcs \union {"commit_fp"} =>
         task[t].rec.changeSet # None \/ AllowDirectCommit
    /\ task[t].pc \in StagePcs => StageTool

\* Somebody waits for the worker.
Awaited(w) ==
    task[w].pc # "idle" => \E t \in Calls : task[t].pc = "commit_wait" /\ task[t].worker = w

DeviceVetted ==
    /\ OwnEdits(running) \subseteq Vetted(cset)
    /\ \A w \in Workers : job[w].status = "active" => job[w].content \subseteq Vetted(cset)

TasksVetted ==
    /\ \A t \in Tasked : Gated(t)
    /\ ~MayDetach => \A w \in Workers : Awaited(w)

VettedInv ==
    /\ DeviceVetted
    /\ TasksVetted
    /\ ReadyToCommit \/ Sending => VettedCandidate

\* Where approvals are not demanded every edit is vetted.
LEMMA NotRestrained == Restrained \/ Vetted(cset) = Edits
BY DEF Vetted

\* The device after a step that changes nothing there but the candidate, and brings
\* nothing unapproved into it.
LEMMA CandidateStaysVetted ==
    ASSUME VettedInv, ApprovalsKept, VettedCandidate,
           OwnEdits(candidate') \subseteq
              OwnEdits(candidate) \union OwnEdits(running) \union Vetted(cset)
    PROVE  VettedCandidate'
BY DEF VettedInv, DeviceVetted, VettedCandidate, ApprovalsKept

-----------------------------------------------------------------------------
(* The steps of the layer. *)

\* A step of an apply call sends only what was approved, and begins on a clean candidate.
LEMMA ApplySends ==
    ASSUME ComposedInv, VettedInv, NEW a \in Appliers, ApplyStep(a)
    PROVE  /\ UNCHANGED <<running, job, task>>
           /\ \A b \in Appliers \ {a} : appl'[b] = appl[b]
           /\ appl'[a].pc \in SendingPcs => appl[a].pc \in SendingPcs \/ candidate = running
           /\ OwnEdits(candidate') \subseteq
                 OwnEdits(candidate) \union OwnEdits(running) \union Vetted(cset)
<1>1. UNCHANGED <<running, job, task>>
  BY Zenon DEF ApplyStep, ApplyExpire, ApplyInsert, ApplyLock, ApplySaveLock, ApplyFingerprint,
     ApplyClean, ApplyClaim, ApplyLink, ApplyPush, ApplyAfter, ApplySettle, ApplyRevert,
     ApplyFailSave, ApplyFailSet, ApplyFailUnlock, ApplyUnlock, ApplyRemove, vars, deviceVars,
     lifeVars
<1>2. appl \in [Appliers -> ApplyLocals]
  BY DEF ComposedInv, ApprovalInv, CSTypeOK
<1>3. ASSUME NEW pc, ApplyGoto(a, pc)
      PROVE  appl'[a].pc = pc /\ \A b \in Appliers \ {a} : appl'[b] = appl[b]
  BY <1>2, <1>3 DEF ApplyGoto, ApplyLocals
<1>4. ASSUME NEW pc, NEW r, ApplyKeep(a, pc, r)
      PROVE  appl'[a].pc = pc /\ \A b \in Appliers \ {a} : appl'[b] = appl[b]
  BY <1>2, <1>4 DEF ApplyKeep, ApplyLocals
<1>5. ASSUME ApplyFinish(a)
      PROVE  appl'[a].pc = "idle" /\ \A b \in Appliers \ {a} : appl'[b] = appl[b]
  BY <1>2, <1>5 DEF ApplyFinish, IdleApply
<1>6. /\ \A b \in Appliers \ {a} : appl'[b] = appl[b]
      /\ appl'[a].pc \in SendingPcs => appl[a].pc \in SendingPcs \/ candidate = running
  <2>1. CASE ApplyExpire(a) \/ ApplySettle(a) \/ ApplyFailUnlock(a) \/ ApplyRemove(a)
    BY <1>5, <2>1 DEF ApplyExpire, ApplySettle, ApplyFailUnlock, ApplyRemove, SendingPcs
  <2>2. ASSUME NEW o \in Ops, ApplyInsert(a, o)
        PROVE  /\ \A b \in Appliers \ {a} : appl'[b] = appl[b]
               /\ appl'[a].pc \notin SendingPcs
    <3> DEFINE c == appl[a].cs
               r == StagingRecord(cset[c].base, appl[a].policy, EditsOf(cset[c].actions), c)
    <3>1. \/ ApplyFinish(a)
          \/ appl' = [appl EXCEPT ![a].pc = "apply_lock", ![a].op = o, ![a].rec = r,
                                  ![a].cset = cset[c]]
      BY <2>2 DEF ApplyInsert
    <3> HIDE DEF r, c
    <3> QED
      BY <1>2, <1>5, <3>1 DEF ApplyLocals, SendingPcs
  <2>3. CASE ApplyLock(a) \/ ApplySaveLock(a) \/ ApplyUnlock(a)
    <3>1. \/ \E pc \in {"apply_fp", "apply_unlock", "apply_remove"} : ApplyGoto(a, pc)
          \/ \E r : ApplyKeep(a, "apply_savelock", r)
      BY <2>3, Zenon DEF ApplyLock, ApplySaveLock, ApplyUnlock, ApplyAbort
    <3> QED
      BY <1>3, <1>4, <3>1 DEF SendingPcs
  <2>4. CASE ApplyFingerprint(a) \/ ApplyClean(a)
    <3>1. \/ \E pc \in {"apply_clean", "apply_unlock"} : ApplyGoto(a, pc)
          \/ ApplyGoto(a, "apply_claim") /\ candidate = running
      BY <2>4, Zenon DEF ApplyFingerprint, ApplyClean, ApplyAbort, PendingChanges
    <3> QED
      BY <1>3, <3>1 DEF SendingPcs
  <2>5. CASE ApplyClaim(a) \/ ApplyLink(a) \/ ApplyPush(a)
    <3>1. appl[a].pc \in SendingPcs
      BY <2>5 DEF ApplyClaim, ApplyLink, ApplyPush, ApplyAt, SendingPcs
    <3>2. \A b \in Appliers \ {a} : appl'[b] = appl[b]
      <4>1. \/ \E pc : ApplyGoto(a, pc)
            \/ \E pc, r : appl' = [appl EXCEPT ![a].pc = pc, ![a].cset = r]
            \/ \E pc, n : appl' = [appl EXCEPT ![a].applied = n, ![a].pc = pc]
        BY <2>5, Zenon DEF ApplyClaim, ApplyLink, ApplyPush, ApplyAbort
      <4> QED
        BY <1>2, <1>3, <4>1
    <3> QED
      BY <3>1, <3>2
  <2>6. CASE ApplyAfter(a) \/ ApplyRevert(a) \/ ApplyFailSave(a) \/ ApplyFailSet(a)
    <3>1. \/ ApplyFinish(a) \/ ApplyGoto(a, "apply_failunlock")
          \/ \E pc \in {"apply_settle", "apply_failsave", "apply_failset"} : \E r : ApplyKeep(a, pc, r)
      BY <2>6, Zenon DEF ApplyAfter, ApplyRevert, ApplyFailSave, ApplyFailSet
    <3> QED
      BY <1>3, <1>4, <1>5, <3>1 DEF SendingPcs
  <2> QED
    BY <2>1, <2>2, <2>3, <2>4, <2>5, <2>6 DEF ApplyStep
<1>7. OwnEdits(candidate') \subseteq
         OwnEdits(candidate) \union OwnEdits(running) \union Vetted(cset)
  <2>1. CASE ApplyPush(a)
    <3> DEFINE c == appl[a].cs
               e == appl[a].cset.actions[appl[a].applied + 1]
    <3>1. appl[a].pc = "apply_push" /\ appl[a].pc \in ApplyGuarded /\ appl[a].pc # "idle"
      BY <2>1 DEF ApplyPush, ApplyAt, ApplyGuarded, ApplyPcs
    <3>2. c \in ChangeSetIds /\ Copied(appl[a].cset.actions, c) /\ appl[a] \in ApplyLocals
      BY <3>1, Applying
    <3>3. cset[c].approver \in Humans \ {cset[c].owner}
      <4>1. cset[c].approver # None
        BY <3>1 DEF ComposedInv, ApprovalInv, CopyInv, SamePeople
      <4> QED
        BY <3>2, <4>1 DEF ComposedInv, ApprovalInv, PeopleInv
    <3>4. appl[a].applied + 1 \in 1..Len(appl[a].cset.actions)
      <4>1. appl[a].applied \in Nat /\ appl[a].applied < Len(appl[a].cset.actions)
        BY <3>1, <3>2 DEF ApplyLocals, ComposedInv, AppliesHold, ApplyHolds, SentIsPending
      <4>2. appl[a].cset.actions \in Seq(Edits)
        BY <3>2, PlansAssumption DEF Copied, ComposedInv, PlansStored, Proposed
      <4> QED
        BY <4>1, <4>2
    <3>5. e \in EditsOf(appl[a].cset.actions)
      BY <3>4 DEF EditsOf
    <3>6. e \in EditsOf(cset[c].actions)
      BY <3>2, <3>5 DEF Copied
    <3>7. candidate' \subseteq candidate \union {e}
      BY <2>1 DEF ApplyPush, PostEdit
    <3> HIDE DEF e, c
    <3>8. e \in Edits => e \in Vetted(cset)
      BY <3>2, <3>3, <3>6 DEF Vetted
    <3> QED
      BY <3>7, <3>8 DEF OwnEdits
  <2>2. CASE ApplyRevert(a)
    BY <2>2 DEF ApplyRevert, RevertAdmin, OwnEdits
  <2>3. CASE ~ApplyPush(a) /\ ~ApplyRevert(a)
    <3>1. UNCHANGED candidate
      BY <2>3, Zenon DEF ApplyStep, ApplyExpire, ApplyInsert, ApplyLock, ApplySaveLock,
         ApplyFingerprint, ApplyClean, ApplyClaim, ApplyLink, ApplyAfter, ApplySettle,
         ApplyFailSave, ApplyFailSet, ApplyFailUnlock, ApplyUnlock, ApplyRemove, vars, deviceVars
    <3> QED
      BY <3>1
  <2> QED
    BY <2>1, <2>2, <2>3
<1> QED
  BY <1>1, <1>6, <1>7

\* Every step that leaves the running configuration, the jobs and the tasks alone.
LEMMA QuietVetted ==
    ASSUME VettedInv, ApprovalsKept, UNCHANGED <<running, job, task>>,
           Sending' => Sending \/ candidate = running,
           OwnEdits(candidate') \subseteq
              OwnEdits(candidate) \union OwnEdits(running) \union Vetted(cset)
    PROVE  VettedInv'
<1>1. DeviceVetted'
  BY DEF VettedInv, DeviceVetted, ApprovalsKept
<1>2. TasksVetted' /\ (ReadyToCommit' => ReadyToCommit)
  BY DEF VettedInv, TasksVetted, Gated, Awaited, ReadyToCommit
<1>3. candidate = running => VettedCandidate
  BY DEF VettedInv, DeviceVetted, VettedCandidate
<1>4. ReadyToCommit' \/ Sending' => VettedCandidate'
  BY <1>2, <1>3, CandidateStaysVetted DEF VettedInv
<1> QED
  BY <1>1, <1>2, <1>4 DEF VettedInv

\* Proposals, approvals, status calls and applies.
LEMMA LayerVetted ==
    ASSUME ComposedInv, VettedInv, ApprovalsKept,
           \/ PlanStep
           \/ \E v \in Viewers : StatusWrite(v)
           \/ \E a \in Appliers : (\E c \in ChangeSetIds : ApplyCall(a, c)) \/ ApplyStep(a)
           \/ UNCHANGED allVars
    PROVE  VettedInv'
<1>1. ASSUME UNCHANGED vars, Sending' => Sending PROVE VettedInv'
  <2>1. UNCHANGED <<candidate, running, job, task>>
    BY <1>1 DEF vars
  <2> QED
    BY <1>1, <2>1, QuietVetted
<1>2. CASE PlanStep \/ \E v \in Viewers : StatusWrite(v)
  <2>1. UNCHANGED vars /\ UNCHANGED appl
    BY <1>2 DEF PlanStep, Create, Waive, Approve, Lapse, StatusRead, StatusWrite
  <2> QED
    BY <1>1, <2>1 DEF Sending
<1>3. CASE UNCHANGED allVars
  <2>1. UNCHANGED vars /\ UNCHANGED appl
    BY <1>3 DEF allVars, csVars
  <2> QED
    BY <1>1, <2>1 DEF Sending
<1>4. ASSUME NEW a \in Appliers, NEW c \in ChangeSetIds, ApplyCall(a, c) PROVE VettedInv'
  <2> DEFINE pc == IF c \in lapsed THEN "apply_expire" ELSE "apply_guard"
             l == [IdleApply EXCEPT !.pc = pc, !.cs = c, !.cset = cset[c], !.policy = policy]
  <2>1. pc \notin SendingPcs
    BY DEF SendingPcs
  <2> HIDE DEF pc
  <2>2. l.pc = pc
    BY DEF IdleApply
  <2>3. appl' = [appl EXCEPT ![a] = l] /\ UNCHANGED vars
    BY <1>4 DEF ApplyCall, pc
  <2> HIDE DEF l
  <2>4. Sending' => Sending
    BY <2>1, <2>2, <2>3 DEF Sending, ComposedInv, ApprovalInv, CSTypeOK
  <2> QED
    BY <1>1, <2>3, <2>4
<1>5. ASSUME NEW a \in Appliers, ApplyStep(a) PROVE VettedInv'
  <2>1. Sending' => Sending \/ candidate = running
    BY <1>5, ApplySends DEF Sending
  <2> QED
    BY <1>5, <2>1, ApplySends, QuietVetted
<1> QED
  BY <1>2, <1>3, <1>4, <1>5

-----------------------------------------------------------------------------
(* The steps of calls and workers. *)

\* Task t, and no other, moves to one of the places pcs.
Lands(t, pcs) ==
    /\ \A u \in Tasked \ {t} : task'[u] = task[u]
    /\ task'[t].pc \in pcs

\* The forms in which a task moves.
LEMMA TaskLands ==
    ASSUME ComposedInv, NEW t \in Tasked, NEW pcs,
           \/ \E pc \in pcs : Goto(t, pc)
           \/ \E pc \in pcs : \E r : Keep(t, pc, r)
           \/ "idle" \in pcs /\ Finish(t)
    PROVE  Lands(t, pcs)
<1>1. task \in [Tasked -> Locals]
  BY Types DEF ComposedInv
<1>2. ASSUME NEW pc \in pcs, Goto(t, pc) PROVE Lands(t, pcs)
  BY <1>1, <1>2 DEF Goto, Lands, Locals
<1>3. ASSUME NEW pc \in pcs, NEW r, Keep(t, pc, r) PROVE Lands(t, pcs)
  BY <1>1, <1>3 DEF Keep, Lands, Locals
<1>4. ASSUME "idle" \in pcs, Finish(t) PROVE Lands(t, pcs)
  BY <1>1, <1>4 DEF Finish, Lands, Idle
<1> QED
  BY <1>2, <1>3, <1>4

\* A task may move when it is ready only on a vetted candidate, when the jobs it starts carry
\* only what was approved, and when it does not leave a worker alone.
LEMMA MoveVetted ==
    ASSUME VettedInv, UNCHANGED csVars, NEW t \in Tasked, NEW pcs, Lands(t, pcs),
           task[t].pc # "idle" \/ t \in Calls, Gated(t)',
           t \in Calls /\ task[t].pc = "commit_wait" => MayDetach \/ task[task[t].worker].pc = "idle",
           running' = running,
           \A w \in Workers : \/ job'[w] = job[w]
                              \/ job'[w].status = "active" => job'[w].content \subseteq Vetted(cset),
           ReadyToCommit' \/ Sending' => VettedCandidate'
    PROVE  VettedInv'
<1>1. cset' = cset /\ appl' = appl /\ \A u \in Tasked \ {t} : task'[u] = task[u]
  BY DEF csVars, Lands
<1>2. DeviceVetted'
  BY <1>1 DEF VettedInv, DeviceVetted
<1>3. \A u \in Tasked : Gated(u)'
  <2> SUFFICES ASSUME NEW u \in Tasked, u # t PROVE Gated(u)'
    OBVIOUS
  <2>1. task'[u] = task[u] /\ Gated(u)
    BY <1>1 DEF VettedInv, TasksVetted
  <2> QED
    BY <2>1 DEF Gated
<1>4. ASSUME ~MayDetach, NEW w \in Workers PROVE Awaited(w)'
  <2> SUFFICES ASSUME task'[w].pc # "idle"
               PROVE  \E c \in Calls : task'[c].pc = "commit_wait" /\ task'[c].worker = w
    BY DEF Awaited
  <2>1. task[w].pc # "idle"
    BY <1>1, TasksAssumption DEF Tasked
  <2>2. PICK c \in Calls : task[c].pc = "commit_wait" /\ task[c].worker = w
    BY <1>4, <2>1 DEF VettedInv, TasksVetted, Awaited
  <2>3. c # t
    BY <1>4, <2>1, <2>2
  <2> QED
    BY <1>1, <2>2, <2>3 DEF Tasked
<1> QED
  BY <1>2, <1>3, <1>4 DEF VettedInv, TasksVetted

\* A task that does not become ready, on a candidate that only shrinks.
LEMMA QuietMoveVetted ==
    ASSUME VettedInv, UNCHANGED csVars, NEW t \in Tasked, NEW pcs, Lands(t, pcs),
           task[t].pc # "idle",
           pcs \intersect (ReadyPcs \union {"commit_fp"}) = {},
           pcs \intersect StagePcs = {} \/ task[t].pc \in StagePcs,
           t \in Calls /\ task[t].pc = "commit_wait" => MayDetach \/ task[task[t].worker].pc = "idle",
           running' = running, job' = job,
           OwnEdits(candidate') \subseteq OwnEdits(candidate) \union OwnEdits(running)
    PROVE  VettedInv'
<1>1. cset' = cset /\ appl' = appl
  BY DEF csVars
<1>2. Gated(t)'
  BY DEF Lands, VettedInv, TasksVetted, Gated
<1>3. ReadyToCommit' => ReadyToCommit
  BY DEF Lands, ReadyToCommit
<1>4. ReadyToCommit' \/ Sending' => VettedCandidate
  BY <1>1, <1>3 DEF Sending, VettedInv
<1>5. VettedCandidate => VettedCandidate'
  BY <1>1 DEF VettedInv, DeviceVetted, VettedCandidate
<1> QED
  BY <1>2, <1>4, <1>5, MoveVetted

\* stage_config sends its edit under the mutex: no apply is sending, and where it matters
\* nobody else works.
LEMMA StageVetted ==
    ASSUME ComposedInv, VettedInv, UNCHANGED csVars, NEW t \in Calls, StageStep(t)
    PROVE  VettedInv'
<1> DEFINE pcs == StagePcs \union {"idle"}
<1>1. t \in Tasked /\ task[t].pc \in StagePcs /\ task[t].pc # "idle" /\ task[t].pc # "commit_wait"
  BY DEF Tasked, StageStep, StageInsert, StageLock, StageFingerprint, StageClean, StagePost,
     StageAfter, StageUnlock, StageRemove, At, StagePcs
<1>2. Lands(t, pcs)
  <2>1. \/ \E pc \in pcs : Goto(t, pc)
        \/ \E pc \in pcs : \E r : Keep(t, pc, r)
        \/ Finish(t)
    BY Zenon DEF StageStep, StageInsert, StageLock, StageFingerprint, StageClean, StagePost,
       StageAfter, StageUnlock, StageRemove, StageAbort, StagePcs
  <2> QED
    BY <1>1, <2>1, TaskLands
<1>3. UNCHANGED <<running, job>>
  BY Zenon DEF StageStep, StageInsert, StageLock, StageFingerprint, StageClean, StagePost,
     StageAfter, StageUnlock, StageRemove, deviceVars
<1>4. pcs \intersect (ReadyPcs \union {"commit_fp"}) = {}
  BY DEF StagePcs, ReadyPcs
<1>5. CASE ~StagePost(t)
  <2>1. UNCHANGED candidate
    BY <1>5, Zenon DEF StageStep, StageInsert, StageLock, StageFingerprint, StageClean,
       StageAfter, StageUnlock, StageRemove, deviceVars
  <2> QED
    BY <1>1, <1>2, <1>3, <1>4, <2>1, QuietMoveVetted
<1>6. CASE StagePost(t)
  <2>1. cset' = cset /\ appl' = appl
    BY DEF csVars
  <2>2. Gated(t)'
    BY <1>1, <1>2, <1>4 DEF Lands, VettedInv, TasksVetted, Gated
  <2>3. task[t].pc = "stage_post" /\ guard = t
    BY <1>1, <1>6 DEF StagePost, At, GuardedPcs, ComposedInv, LifecycleInv, GuardDiscipline, Tasked
  <2>4. ~Sending'
    <3> SUFFICES ASSUME NEW a \in Appliers, appl[a].pc \in SendingPcs PROVE FALSE
      BY <2>1 DEF Sending
    <3>1. appl[a].pc \in ApplyGuarded
      BY DEF SendingPcs, ApplyGuarded, ApplyPcs
    <3>2. guard = a
      BY <3>1 DEF ComposedInv, AppliesHold, ApplyHolds, HoldsRecord
    <3> QED
      BY <1>1, <2>3, <3>2, AppliersApart
  <2>5. CASE Restrained
    <3>1. ~MayDetach /\ \A u \in Calls : u = t
      BY <1>1, <2>5 DEF Restrained, Undisturbed, VettedInv, TasksVetted, Gated
    <3>2. ~ReadyToCommit'
      <4> SUFFICES ASSUME NEW u \in Tasked, task'[u].pc \in ReadyPcs PROVE FALSE
        BY DEF ReadyToCommit
      <4>1. u # t
        BY <1>2, <1>4 DEF Lands
      <4>2. u \in Workers /\ task[u].pc \in ReadyPcs
        BY <1>2, <3>1, <4>1 DEF Lands, Tasked
      <4>3. task[u].pc # "idle"
        BY <4>2 DEF ReadyPcs
      <4>4. PICK c \in Calls : task[c].pc = "commit_wait"
        BY <3>1, <4>2, <4>3 DEF VettedInv, TasksVetted, Awaited
      <4> QED
        BY <1>1, <3>1, <4>4
    <3> QED
      BY <1>1, <1>2, <1>3, <2>2, <2>4, <3>2, MoveVetted
  <2>6. CASE Vetted(cset) = Edits
    <3>1. VettedCandidate'
      BY <2>1, <2>6 DEF VettedCandidate, OwnEdits
    <3> QED
      BY <1>1, <1>2, <1>3, <2>2, <3>1, MoveVetted
  <2> QED
    BY <2>5, <2>6, NotRestrained
<1> QED
  BY <1>5, <1>6

\* validate_candidate and discard_candidate prepare no commit; a revert only brings back
\* what runs.
LEMMA ValidateDiscardVetted ==
    ASSUME ComposedInv, VettedInv, UNCHANGED csVars, NEW t \in Calls,
           ValidateStep(t) \/ DiscardStep(t)
    PROVE  VettedInv'
<1> DEFINE pcs == {"idle", "validate_post", "validate_poll", "discard_revert", "discard_fp",
                   "discard_unlock", "discard_save"}
<1>1. t \in Tasked /\ task[t].pc # "idle" /\ task[t].pc # "commit_wait"
  BY DEF Tasked, ValidateStep, ValidateGuard, ValidatePost, ValidatePoll, DiscardStep,
     DiscardGuard, DiscardRevert, DiscardFingerprint, DiscardUnlock, DiscardSave, At
<1>2. Lands(t, pcs)
  <2>1. ASSUME NEW r, NEW seen, task' = [task EXCEPT ![t].pc = "validate_poll", ![t].rec = r,
                                                     ![t].seen = seen]
        PROVE  Lands(t, pcs)
    <3>1. task \in [Tasked -> Locals]
      BY Types DEF ComposedInv
    <3> QED
      BY <1>1, <2>1, <3>1 DEF Lands, Locals
  <2>2. CASE ValidatePost(t)
    <3>1. \/ Finish(t)
          \/ \E r, seen : task' = [task EXCEPT ![t].pc = "validate_poll", ![t].rec = r,
                                               ![t].seen = seen]
      BY <2>2, Zenon DEF ValidatePost
    <3> QED
      BY <1>1, <2>1, <3>1, TaskLands
  <2>3. CASE ~ValidatePost(t)
    <3>1. \/ \E pc \in pcs : Goto(t, pc)
          \/ \E pc \in pcs : \E r : Keep(t, pc, r)
          \/ Finish(t)
      <4>1. CASE DiscardFingerprint(t)
        <5>1. PICK r0 : \/ Keep(t, IF r0.lock THEN "discard_unlock" ELSE "discard_save",
                                IF r0.lock THEN r0 ELSE WithState(r0, "Discarded"))
                        \/ Finish(t)
          BY <4>1, Zenon DEF DiscardFingerprint
        <5> QED
          BY <5>1
      <4> QED
        BY <2>3, <4>1, Zenon DEF ValidateStep, ValidateGuard, GuardAndCompare, ValidatePoll,
           DiscardStep, DiscardGuard, DiscardRevert, DiscardUnlock, DiscardSave
    <3> QED
      BY <1>1, <3>1, TaskLands
  <2> QED
    BY <2>2, <2>3
<1>3. UNCHANGED <<running, job>>
  BY Zenon DEF ValidateStep, ValidateGuard, GuardAndCompare, ValidatePost, ValidatePoll,
     DiscardStep, DiscardGuard, DiscardRevert, DiscardFingerprint, DiscardUnlock, DiscardSave,
     deviceVars
<1>4. OwnEdits(candidate') \subseteq OwnEdits(candidate) \union OwnEdits(running)
  <2>1. CASE DiscardRevert(t)
    BY <2>1 DEF DiscardRevert, RevertAdmin, OwnEdits
  <2>2. CASE ~DiscardRevert(t)
    <3>1. UNCHANGED candidate
      BY <2>2, Zenon DEF ValidateStep, ValidateGuard, GuardAndCompare, ValidatePost,
         ValidatePoll, DiscardStep, DiscardGuard, DiscardFingerprint, DiscardUnlock,
         DiscardSave, deviceVars
    <3> QED
      BY <3>1
  <2> QED
    BY <2>1, <2>2
<1>5. /\ pcs \intersect (ReadyPcs \union {"commit_fp"}) = {}
      /\ pcs \intersect StagePcs = {}
  BY DEF StagePcs, ReadyPcs
<1> QED
  BY <1>1, <1>2, <1>3, <1>4, <1>5, QuietMoveVetted

\* commit_candidate compares the fingerprint: the candidate is what was recorded with a plan
\* whose edits were all approved.
LEMMA CommitCompareVetted ==
    ASSUME ComposedInv, VettedInv, UNCHANGED csVars, NEW t \in Calls, CommitCompare(t)
    PROVE  VettedInv'
<1>1. /\ t \in Tasked /\ task[t].pc = "commit_fp" /\ cset' = cset
      /\ UNCHANGED <<candidate, running, job>>
  BY DEF CommitCompare, At, Tasked, csVars, deviceVars
<1>2. CASE Finish(t)
  <2>1. Lands(t, {"idle"})
    BY <1>1, <1>2, TaskLands
  <2> QED
    BY <1>1, <2>1, QuietMoveVetted DEF ReadyPcs, StagePcs
<1>3. CASE SameFingerprint(task[t].rec) /\ Goto(t, "commit_mark")
  <2>1. Lands(t, {"commit_mark"})
    BY <1>1, <1>3, TaskLands
  <2>2. task'[t].rec = task[t].rec
    <3>1. task \in [Tasked -> Locals]
      BY Types DEF ComposedInv
    <3> QED
      BY <1>1, <1>3, <3>1 DEF Goto, Locals
  <2>3. task[t].rec.changeSet # None \/ AllowDirectCommit
    BY <1>1 DEF VettedInv, TasksVetted, Gated
  <2>4. Gated(t)'
    BY <2>1, <2>2, <2>3 DEF Gated, Lands, StagePcs
  <2>5. VettedCandidate
    <3>1. CASE task[t].rec.changeSet # None
      <4>1. OwnEdits(task[t].rec.current) \subseteq Vetted(cset)
        BY <1>1, <3>1 DEF ComposedInv, TasksCover, TaskCovers, CopyPcs, Covered
      <4>2. OwnEdits(candidate) \subseteq OwnEdits(task[t].rec.current)
        BY <1>3, EditsAssumption DEF SameFingerprint, Fingerprint, OwnEdits
      <4> QED
        BY <4>1, <4>2 DEF VettedCandidate
    <3>2. CASE Vetted(cset) = Edits
      BY <3>2 DEF VettedCandidate, OwnEdits
    <3>3. CASE Restrained
      BY <2>3, <3>1, <3>3 DEF Restrained
    <3> QED
      BY <3>2, <3>3, NotRestrained
  <2>6. VettedCandidate'
    BY <1>1, <2>5 DEF VettedCandidate
  <2> QED
    BY <1>1, <2>1, <2>4, <2>6, MoveVetted
<1> QED
  BY <1>2, <1>3 DEF CommitCompare

\* The caller hears of the worker's end, or is cancelled.
LEMMA CommitReturnVetted ==
    ASSUME ComposedInv, VettedInv, UNCHANGED csVars, NEW t \in Calls, CommitReturn(t)
    PROVE  VettedInv'
<1>1. /\ t \in Tasked /\ task[t].pc = "commit_wait"
      /\ MayDetach \/ task[task[t].worker].pc = "idle"
      /\ Finish(t) /\ UNCHANGED <<candidate, running, job>>
  BY DEF CommitReturn, At, Tasked, deviceVars
<1>2. Lands(t, {"idle"})
  BY <1>1, TaskLands
<1> QED
  BY <1>1, <1>2, QuietMoveVetted DEF ReadyPcs, StagePcs

\* The worker starts with the caller's record, and the caller waits for it.
LEMMA CommitMarkVetted ==
    ASSUME ComposedInv, VettedInv, UNCHANGED csVars, NEW t \in Calls, NEW w \in Workers,
           CommitMark(t, w)
    PROVE  VettedInv'
<1>1. /\ t \in Tasked /\ w \in Tasked /\ t # w /\ cset' = cset /\ appl' = appl
      /\ task[t].pc = "commit_mark" /\ task[w].pc = "idle"
      /\ UNCHANGED <<candidate, running>>
  BY TasksAssumption DEF CommitMark, FreeWorker, At, Tasked, csVars
<1>2. CASE task' = [task EXCEPT ![t] = Idle] /\ job' = job
  <2>1. Lands(t, {"idle"})
    BY <1>1, <1>2, TaskLands DEF Finish
  <2> QED
    BY <1>1, <1>2, <2>1, QuietMoveVetted DEF ReadyPcs, StagePcs
<1> DEFINE r == WithState(task[t].rec, "Committing")
           l == [task[t] EXCEPT !.pc = "worker_guard", !.rec = r]
           m == [task[t] EXCEPT !.pc = "commit_wait", !.worker = w]
<1>3. CASE task' = [task EXCEPT ![t] = m, ![w] = l] /\ job' = [job EXCEPT ![w] = NoJob]
  <2>1. task \in [Tasked -> Locals] /\ job \in [Workers -> Jobs] /\ task[t].rec \in Records
    BY <1>1, Types, Underway DEF ComposedInv
  <2>2. r.changeSet = task[t].rec.changeSet
    BY <2>1 DEF WithState, Records
  <2> HIDE DEF r
  <2>3. /\ m.pc = "commit_wait" /\ m.worker = w
        /\ l.pc = "worker_guard" /\ l.rec = r
    BY <2>1 DEF Locals
  <2> HIDE DEF l, m
  <2>4. task'[t] = m /\ task'[w] = l /\ \A u \in Tasked \ {t, w} : task'[u] = task[u]
    BY <1>1, <1>3, <2>1
  <2>5. \A v \in Workers : job'[v] = job[v] \/ job'[v].status = "none"
    BY <1>3, <2>1 DEF NoJob
  <2>6. task[t].rec.changeSet # None \/ AllowDirectCommit
    BY <1>1 DEF VettedInv, TasksVetted, Gated, ReadyPcs
  <2>7. DeviceVetted'
    <3>1. \A v \in Workers : job'[v].status = "active" => job'[v] = job[v]
      BY <2>5
    <3> QED
      BY <1>1, <3>1 DEF VettedInv, DeviceVetted
  <2>8. ASSUME NEW u \in Tasked PROVE Gated(u)'
    <3>1. CASE u = t
      BY <2>3, <2>4, <3>1 DEF Gated, ReadyPcs, StagePcs
    <3>2. CASE u = w
      BY <2>2, <2>3, <2>4, <2>6, <3>2 DEF Gated, ReadyPcs, StagePcs
    <3>3. CASE u \notin {t, w}
      BY <2>4, <3>3 DEF Gated, VettedInv, TasksVetted
    <3> QED
      BY <3>1, <3>2, <3>3
  <2>9. ASSUME ~MayDetach, NEW v \in Workers PROVE Awaited(v)'
    <3>1. CASE v = w
      BY <2>3, <2>4, <3>1 DEF Awaited
    <3>2. CASE v # w
      <4> SUFFICES ASSUME task'[v].pc # "idle"
                   PROVE  \E c \in Calls : task'[c].pc = "commit_wait" /\ task'[c].worker = v
        BY DEF Awaited
      <4>1. task'[v] = task[v]
        BY <2>4, <3>2, TasksAssumption DEF Tasked
      <4>2. PICK c \in Calls : task[c].pc = "commit_wait" /\ task[c].worker = v
        BY <2>9, <4>1 DEF VettedInv, TasksVetted, Awaited
      <4>3. c \in Tasked \ {t, w}
        BY <1>1, <4>2 DEF Tasked
      <4> QED
        BY <2>4, <4>2, <4>3
    <3> QED
      BY <3>1, <3>2
  <2>10. VettedCandidate'
    <3>1. ReadyToCommit
      BY <1>1 DEF ReadyToCommit, ReadyPcs
    <3> QED
      BY <1>1, <3>1 DEF VettedInv, VettedCandidate
  <2> QED
    BY <2>7, <2>8, <2>9, <2>10 DEF VettedInv, TasksVetted
<1>4. PICK saved \in Saves :
        /\ task' = IF saved THEN [task EXCEPT ![t].pc = "commit_wait", ![t].worker = w, ![w] = l]
                            ELSE [task EXCEPT ![t] = Idle]
        /\ job' = IF saved THEN [job EXCEPT ![w] = NoJob] ELSE job
  BY DEF CommitMark
<1>5. [task EXCEPT ![t].pc = "commit_wait", ![t].worker = w, ![w] = l]
        = [task EXCEPT ![t] = m, ![w] = l]
  <2>1. task \in [Tasked -> Locals]
    BY Types DEF ComposedInv
  <2> HIDE DEF l
  <2> QED
    BY <1>1, <2>1
<1> HIDE DEF l, m, r
<1> QED
  BY <1>2, <1>3, <1>4, <1>5

\* commit_worker posts what the candidate holds, and nobody has changed that.
LEMMA WorkerVetted ==
    ASSUME ComposedInv, VettedInv, UNCHANGED csVars, NEW w \in Workers, WorkerStep(w)
    PROVE  VettedInv'
<1>1. /\ w \in Tasked /\ w \notin Calls /\ cset' = cset /\ appl' = appl /\ task[w].pc # "idle"
      /\ UNCHANGED <<candidate, running>>
  <2>1. w \in Tasked /\ w \notin Calls
    BY TasksAssumption DEF Tasked
  <2>2. UNCHANGED <<candidate, running>>
    BY Zenon DEF WorkerStep, WorkerGuard, WorkerPost, WorkerJob, WorkerPoll, WorkerAfter,
       WorkerUnlock, WorkerReceipt, deviceVars
  <2> QED
    BY <2>1, <2>2, StepsAreUnderway DEF csVars
<1> DEFINE pcs == {"idle", "worker_job", "worker_poll", "worker_after", "worker_unlock",
                   "worker_receipt"}
<1>2. pcs \intersect (ReadyPcs \union {"commit_fp"}) = {} /\ pcs \intersect StagePcs = {}
  BY DEF ReadyPcs, StagePcs
<1>3. CASE WorkerGuard(w)
  <2>1. task[w].pc = "worker_guard" /\ job' = job
    BY <1>3 DEF WorkerGuard, At, deviceVars
  <2>2. CASE Finish(w)
    <3>1. Lands(w, pcs)
      BY <1>1, <2>2, TaskLands
    <3> QED
      BY <1>1, <1>2, <2>1, <3>1, QuietMoveVetted
  <2>3. CASE Goto(w, "worker_post")
    <3>1. Lands(w, {"worker_post"})
      BY <1>1, <2>3, TaskLands
    <3>2. task'[w].rec = task[w].rec
      <4>1. task \in [Tasked -> Locals]
        BY Types DEF ComposedInv
      <4> QED
        BY <1>1, <2>3, <4>1 DEF Goto, Locals
    <3>3. Gated(w)'
      BY <1>1, <2>1, <3>1, <3>2 DEF VettedInv, TasksVetted, Gated, Lands, ReadyPcs, StagePcs
    <3>4. VettedCandidate'
      <4>1. ReadyToCommit
        BY <1>1, <2>1 DEF ReadyToCommit, ReadyPcs
      <4> QED
        BY <1>1, <4>1 DEF VettedInv, VettedCandidate
    <3> QED
      BY <1>1, <2>1, <3>1, <3>3, <3>4, MoveVetted
  <2> QED
    BY <1>3, <2>2, <2>3 DEF WorkerGuard
<1>4. CASE ~WorkerGuard(w)
  <2>1. Lands(w, pcs)
    <3>1. CASE WorkerAfter(w)
      <4>1. task \in [Tasked -> Locals]
        BY Types DEF ComposedInv
      <4>2. ASSUME NEW next, NEW v,
                   task' = [task EXCEPT
                     ![w].pc = IF next.state = "Committing" THEN "worker_unlock"
                               ELSE "worker_receipt",
                     ![w].rec = next, ![w].verdict = v]
            PROVE  Lands(w, pcs)
        BY <1>1, <4>1, <4>2 DEF Lands, Locals
      <4>3. \/ \E r : Keep(w, "worker_receipt", r)
            \/ \E next, v : task' = [task EXCEPT
                     ![w].pc = IF next.state = "Committing" THEN "worker_unlock"
                               ELSE "worker_receipt",
                     ![w].rec = next, ![w].verdict = v]
        BY <3>1, Zenon DEF WorkerAfter, WorkerError
      <4> QED
        BY <1>1, <4>2, <4>3, TaskLands
    <3>2. CASE ~WorkerAfter(w)
      <4>1. \/ \E pc \in pcs : Goto(w, pc)
            \/ \E pc \in pcs : \E r : Keep(w, pc, r)
            \/ Finish(w)
        BY <1>4, <3>2, Zenon DEF WorkerStep, WorkerPost, WorkerJob, WorkerPoll, WorkerUnlock,
           WorkerReceipt, WorkerError
      <4> QED
        BY <1>1, <4>1, TaskLands
    <3> QED
      BY <3>1, <3>2
  <2>2. CASE ~WorkerPost(w)
    <3>1. job' = job
      BY <1>4, <2>2, Zenon DEF WorkerStep, WorkerJob, WorkerPoll, WorkerAfter, WorkerUnlock,
         WorkerReceipt, deviceVars
    <3> QED
      BY <1>1, <1>2, <2>1, <3>1, QuietMoveVetted
  <2>3. CASE WorkerPost(w)
    <3>1. VettedCandidate
      <4>1. task[w].pc = "worker_post"
        BY <2>3 DEF WorkerPost, At
      <4>2. ReadyToCommit
        BY <1>1, <4>1 DEF ReadyToCommit, ReadyPcs
      <4> QED
        BY <4>2 DEF VettedInv
    <3>2. \A v \in Workers : \/ job'[v] = job[v]
                             \/ job'[v].content \subseteq Vetted(cset)
      <4>1. job \in [Workers -> Jobs]
        BY Types DEF ComposedInv
      <4>2. \/ job' = job
            \/ job' = [job EXCEPT ![w] = [status |-> "active", op |-> task[w].op,
                                          content |-> OwnEdits(candidate)]]
        BY <2>3 DEF WorkerPost, PostCommit
      <4> QED
        BY <3>1, <4>1, <4>2 DEF VettedCandidate
    <3>3. Gated(w)'
      BY <1>2, <2>1 DEF Lands, Gated
    <3>4. VettedCandidate'
      BY <1>1, <3>1 DEF VettedCandidate
    <3> QED
      BY <1>1, <2>1, <3>2, <3>3, <3>4, MoveVetted
  <2> QED
    BY <2>2, <2>3
<1> QED
  BY <1>3, <1>4

\* A new call starts with the record it has read, behind the gates of commit_candidate.
LEMMA NewCallVetted ==
    ASSUME ComposedInv, VettedInv, UNCHANGED csVars, NEW t \in Calls, NewCall(t)
    PROVE  VettedInv'
<1>1. ASSUME NEW o \in Ops, NEW pc, NEW r \in Records, Began(t, o, pc, r), task[t].pc = "idle",
             pc \notin ReadyPcs, pc \in StagePcs => StageTool,
             pc = "commit_fp" => r.changeSet # None \/ AllowDirectCommit,
             UNCHANGED deviceVars
      PROVE  VettedInv'
  <2> DEFINE l == [Idle EXCEPT !.pc = pc, !.op = o, !.policy = policy, !.rec = r]
  <2>1. l.pc = pc /\ l.rec = r
    BY DEF Idle
  <2>2. task' = [task EXCEPT ![t] = l] /\ task \in [Tasked -> Locals] /\ t \in Tasked
    BY <1>1, Types DEF Began, ComposedInv, Tasked
  <2> HIDE DEF l
  <2>3. task'[t] = l /\ \A u \in Tasked \ {t} : task'[u] = task[u]
    BY <2>2
  <2>4. Lands(t, {pc})
    BY <2>1, <2>3 DEF Lands
  <2>5. Gated(t)'
    BY <1>1, <2>1, <2>3 DEF Gated
  <2>6. UNCHANGED <<candidate, running, job, cset, appl>>
    BY <1>1 DEF deviceVars, csVars
  <2>7. ReadyToCommit' => ReadyToCommit
    BY <1>1, <2>1, <2>3 DEF ReadyToCommit
  <2>8. ReadyToCommit' \/ Sending' => VettedCandidate'
    BY <2>6, <2>7 DEF VettedInv, VettedCandidate, Sending
  <2> QED
    BY <1>1, <2>2, <2>4, <2>5, <2>6, <2>8, MoveVetted
<1>2. PICK o \in Ops : \/ \E e \in Edits : StageCall(t, o, e)
                       \/ ValidateCall(t, o) \/ CommitCall(t, o) \/ DiscardCall(t, o)
  BY DEF NewCall
<1>3. rec[o] \in Records
  BY Types DEF ComposedInv
<1>4. CASE \E e \in Edits : StageCall(t, o, e)
  <2>1. PICK e \in Edits : StageCall(t, o, e)
    BY <1>4
  <2> DEFINE r == StagingRecord(Fingerprint, policy, {e}, None)
  <2>2. r \in Records
    BY PoliciesAssumption, Types
       DEF ComposedInv, StagingRecord, Records, Unused, Lifecycle, Fingerprint
  <2>3. StageTool /\ Began(t, o, "stage_guard", r) /\ task[t].pc = "idle" /\ UNCHANGED deviceVars
    BY <2>1 DEF StageCall, At
  <2> HIDE DEF r
  <2> QED
    BY <1>1, <2>2, <2>3 DEF ReadyPcs
<1>5. CASE ValidateCall(t, o)
  BY <1>1, <1>3, <1>5 DEF ValidateCall, At, ReadyPcs, StagePcs
<1>6. CASE CommitCall(t, o)
  BY <1>1, <1>3, <1>6 DEF CommitCall, CommitGates, At, ReadyPcs, StagePcs
<1>7. CASE DiscardCall(t, o)
  BY <1>1, <1>3, <1>7 DEF DiscardCall, At, ReadyPcs, StagePcs
<1> QED
  BY <1>2, <1>4, <1>5, <1>6, <1>7

\* The end of a job publishes its content; other administrators move no edit of ours.
LEMMA EnvironmentVetted ==
    ASSUME ComposedInv, VettedInv, UNCHANGED csVars, Environment
    PROVE  VettedInv'
<1>1. UNCHANGED <<task, cset, appl>>
  BY DEF Environment, Reload, csVars
<1>2. ASSUME OwnEdits(candidate') = OwnEdits(candidate), OwnEdits(running') \subseteq Vetted(cset),
             \A w \in Workers : job'[w].status = "active" => job'[w] = job[w]
      PROVE  VettedInv'
  <2>1. DeviceVetted'
    BY <1>1, <1>2 DEF VettedInv, DeviceVetted
  <2>2. TasksVetted'
    BY <1>1 DEF VettedInv, TasksVetted, Gated, Awaited
  <2>3. ReadyToCommit' \/ Sending' => VettedCandidate'
    BY <1>1, <1>2 DEF VettedInv, ReadyToCommit, Sending, VettedCandidate
  <2> QED
    BY <2>1, <2>2, <2>3 DEF VettedInv
<1>3. OwnEdits(running) \subseteq Vetted(cset)
  BY DEF VettedInv, DeviceVetted
<1>4. ASSUME NEW w \in Workers, FinishJob(w) PROVE VettedInv'
  <2>1. job \in [Workers -> Jobs] /\ job[w].content \subseteq Vetted(cset)
    BY <1>4, Types DEF ComposedInv, FinishJob, VettedInv, DeviceVetted
  <2>2. \A v \in Workers : job'[v].status = "active" => job'[v] = job[v]
    BY <1>4, <2>1 DEF FinishJob, Jobs
  <2>3. OwnEdits(running') \subseteq Vetted(cset) /\ candidate' = candidate
    BY <1>3, <1>4, <2>1 DEF FinishJob, OwnEdits
  <2> QED
    BY <1>2, <2>2, <2>3
<1>5. ASSUME NEW f \in Foreign, ForeignEdit(f) \/ ForeignCommit(f) PROVE VettedInv'
  <2>1. f \notin Edits
    BY EditsAssumption
  <2>2. OwnEdits(candidate') = OwnEdits(candidate) /\ OwnEdits(running') = OwnEdits(running)
    BY <1>5, <2>1 DEF ForeignEdit, ForeignCommit, OwnEdits
  <2>3. job' = job
    BY <1>5 DEF ForeignEdit, ForeignCommit
  <2> QED
    BY <1>2, <1>3, <2>2, <2>3
<1>6. ASSUME NEW p \in Policies, Reload(p) PROVE VettedInv'
  BY <1>2, <1>3, <1>6 DEF Reload, deviceVars
<1> QED
  BY <1>4, <1>5, <1>6 DEF Environment, DeviceNext

\* Every step of the candidate lifecycle beside the applies.
LEMMA ServeVetted ==
    ASSUME ComposedInv, VettedInv, UNCHANGED csVars, Serve
    PROVE  VettedInv'
<1>1. ASSUME NEW t \in Calls, CallStep(t) PROVE VettedInv'
  BY <1>1, StageVetted, ValidateDiscardVetted, CommitCompareVetted, CommitReturnVetted,
     CommitMarkVetted DEF CallStep, CommitStep
<1> QED
  BY <1>1, NewCallVetted, WorkerVetted, EnvironmentVetted DEF Serve

\* A restart drops every task, and the jobs it leaves behind carry what was approved.
LEMMA RestartVetted ==
    ASSUME ComposedInv, VettedInv, CSRestart
    PROVE  VettedInv'
<1>1. /\ UNCHANGED <<candidate, running, job, cset>>
      /\ task' = [t \in Calls \union Workers |-> Idle]
      /\ appl' = [a \in Appliers |-> IdleApply]
  BY DEF CSRestart, Restart, deviceVars
<1>2. \A t \in Tasked : task'[t].pc = "idle"
  BY <1>1 DEF Tasked, Idle
<1>3. \A a \in Appliers : appl'[a].pc = "idle"
  BY <1>1 DEF IdleApply
<1>4. DeviceVetted'
  BY <1>1 DEF VettedInv, DeviceVetted
<1>5. TasksVetted'
  BY <1>2 DEF TasksVetted, Gated, Awaited, ReadyPcs, StagePcs, Tasked
<1>6. ~ReadyToCommit' /\ ~Sending'
  BY <1>2, <1>3 DEF ReadyToCommit, Sending, ReadyPcs, SendingPcs
<1> QED
  BY <1>4, <1>5, <1>6 DEF VettedInv

\* "state resolve" follows a revert by hand.
LEMMA ResolveVetted ==
    ASSUME VettedInv, NEW o \in Ops, CSResolve(o)
    PROVE  VettedInv'
<1>1. UNCHANGED <<running, job, task, cset, appl>>
  BY DEF CSResolve, Resolve, csVars
<1>2. OwnEdits(candidate') \subseteq OwnEdits(running)
  BY DEF CSResolve, Resolve, OwnEdits
<1> QED
  BY <1>1, <1>2, QuietVetted DEF ApprovalsKept, Sending

-----------------------------------------------------------------------------
(* The theorems. *)

\* The invariant of the whole system.
WholeInv == ComposedInv /\ VettedInv

\* The empty server.
LEMMA WholeInit == CSInit => WholeInv
<1> SUFFICES ASSUME CSInit PROVE VettedInv
  BY ComposedInit DEF WholeInv
<1>1. /\ candidate = {} /\ running = {} /\ job = [w \in Workers |-> NoJob]
      /\ task = [t \in Calls \union Workers |-> Idle]
      /\ appl = [a \in Appliers |-> IdleApply]
  BY DEF CSInit, Init, DeviceInit
<1>2. DeviceVetted
  BY <1>1 DEF DeviceVetted, OwnEdits, NoJob
<1>3. TasksVetted
  BY <1>1 DEF TasksVetted, Gated, Awaited, Tasked, Idle, ReadyPcs, StagePcs
<1>4. VettedCandidate
  BY <1>1 DEF VettedCandidate, OwnEdits
<1> QED
  BY <1>2, <1>3, <1>4 DEF VettedInv

\* Every step.
LEMMA WholeNext == WholeInv /\ [CSNext]_allVars => WholeInv'
<1> SUFFICES ASSUME ComposedInv, VettedInv, [CSNext]_allVars PROVE ComposedInv' /\ VettedInv'
  BY DEF WholeInv
<1>1. ASSUME NEW a \in Appliers, appl[a].pc = "apply_after"
      PROVE  OwnEdits(candidate) \subseteq Vetted(cset)
  <2>1. Sending
    BY <1>1 DEF Sending, SendingPcs
  <2> QED
    BY <2>1 DEF VettedInv, VettedCandidate
<1>2. StaysCovered
  BY <1>1, ComposedNext
<1>3. ComposedInv' /\ ApprovalsKept
  BY <1>2 DEF StaysCovered
<1>4. VettedInv'
  BY <1>3, LayerVetted, ServeVetted, RestartVetted, ResolveVetted DEF CSNext
<1> QED
  BY <1>3, <1>4

\* Calls, workers and applies together, over one coordinator and one device: the types,
\* the mutex discipline and, where a recorder is configured, the apply intent hold when
\* plans are applied beside the calls.
THEOREM LifecycleHoldsBesideApplies ==
    CSSpec => [](TypeOK /\ CSTypeOK /\ GuardDiscipline /\ IntentBeforeCommit)
<1>1. WholeInv => TypeOK /\ CSTypeOK /\ GuardDiscipline /\ IntentBeforeCommit
  BY DEF WholeInv, ComposedInv, LifecycleInv, ApprovalInv
<1> QED
  BY <1>1, WholeInit, WholeNext, PTL DEF CSSpec

\* apply_change_set: an operation that is staged, validating or validated for a change set,
\* and whose fingerprint still matches, has every action of the approved plan in the
\* candidate, whatever other calls, applies, failures and restarts came between.
THEOREM StagedPlansAreWhole == CSSpec => []StagedIsWholePlan
<1>1. WholeInv => StagedIsWholePlan
  <2> SUFFICES ASSUME ComposedInv, NEW o \in Ops, rec[o].state \in Trusted,
                      rec[o].changeSet # None, SameFingerprint(rec[o])
               PROVE  EditsOf(cset[rec[o].changeSet].actions) \subseteq candidate
    BY DEF StagedIsWholePlan, Trusted, WholeInv
  <2>1. Covered(rec[o], cset)
    BY DEF ComposedInv, RecordsCover
  <2> QED
    BY <2>1 DEF Covered, SameFingerprint, Fingerprint
<1> QED
  BY <1>1, WholeInit, WholeNext, PTL DEF CSSpec

\* commit_candidate, commit_worker and apply_change_set: without --allow-direct-commit every
\* edit of this server that runs is in a plan that a human other than its owner approved,
\* across failed and retried commits, lost answers, reverts, foreign commits and restarts.
\* It needs that nobody stages without a plan while a commit is under way: either no token
\* may call stage_config, or one client works at a time and waits for its commits.
THEOREM OnlyApprovedEditsRun ==
    ASSUME Undisturbed
    PROVE  CSSpec => []RunningIsApproved
<1>1. WholeInv => RunningIsApproved
  <2> SUFFICES ASSUME VettedInv, ~AllowDirectCommit, NEW e \in OwnEdits(running)
               PROVE  \E c \in ChangeSetIds : /\ cset[c].approver \in Humans \ {cset[c].owner}
                                              /\ e \in EditsOf(cset[c].actions)
    BY DEF RunningIsApproved, WholeInv
  <2>1. e \in Vetted(cset) /\ Restrained
    BY DEF VettedInv, DeviceVetted, Restrained
  <2> QED
    BY <2>1 DEF Vetted
<1> QED
  BY <1>1, WholeInit, WholeNext, PTL DEF CSSpec
=============================================================================
