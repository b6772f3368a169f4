------------------------------ MODULE ChangeSets ------------------------------
(***************************************************************************)
(* The two-person change-set layer of rust-panosmcp-core/src/mutation.rs:  *)
(* create_change_set (with the lab-mode waiver), approve_change_set,       *)
(* change_set_status and apply_change_set, composed with the candidate     *)
(* lifecycle that validates, commits or discards what an apply staged.     *)
(*                                                                         *)
(* A plan is the ordered list of its edits.  The digest binds owner,       *)
(* device, fingerprint and actions of a stored, immutable plan: quoting it *)
(* exactly is naming the plan, so calls name the change set.  Time is the  *)
(* set of change sets whose expires_at_unix has passed.                    *)
(***************************************************************************)
EXTENDS CandidateLifecycle, Sequences

CONSTANTS
    Plans,          \* the action lists writers propose
    Principals,     \* token names
    Humans,         \* the principals whose actor type is human
    Viewers,        \* concurrent change_set_status calls
    LabMode         \* --lab-mode

ASSUME PlansAssumption == Plans \subseteq Seq(Edits) \ {<<>>}

ASSUME PrincipalsAssumption ==
    /\ Humans \subseteq Principals
    /\ None \notin Principals
    /\ LabMode \in BOOLEAN

VARIABLES
    cset,       \* cset[c]: the stored ChangeSetRecord of c
    lapsed,     \* the change sets past expires_at_unix
    waiving,    \* created in lab mode, waiver not yet written
    view,       \* view[v]: the record a status call is about to write back
    appl,       \* appl[a]: program counter and locals of an apply call
    pushed      \* history: pushed[c] holds the operations that sent c's edits

csVars == <<cset, lapsed, waiving, view, appl, pushed>>
allVars == <<vars, csVars>>

ChangeSetStates == {"Fresh", "Planned", "Approved", "Applying", "Applied",
                    "Expired", "Failed"}

ChangeSetRecords == [state : ChangeSetStates,
                     owner : Principals \union {None},
                     approver : Principals \union {None},
                     waived : BOOLEAN,
                     base : SUBSET Roots,       \* expected_candidate_fingerprint
                     actions : Plans \union {<<>>},
                     op : Ops \union {None}]

FreshChangeSet == [state |-> "Fresh", owner |-> None, approver |-> None,
                   waived |-> FALSE, base |-> {}, actions |-> <<>>, op |-> None]

NoView == [cs |-> None, cset |-> FreshChangeSet]

ApplyPcs == {"idle", "apply_expire", "apply_guard", "apply_lock", "apply_savelock",
             "apply_fp", "apply_clean", "apply_claim", "apply_link", "apply_push",
             "apply_after", "apply_settle", "apply_revert", "apply_failsave",
             "apply_failset", "apply_failunlock", "apply_unlock", "apply_remove"}

ApplyGuarded == ApplyPcs \ {"idle", "apply_expire", "apply_guard"}

ApplyLocals == [pc : ApplyPcs, cs : ChangeSetIds \union {None},
                cset : ChangeSetRecords, op : Ops \union {None}, rec : Records,
                policy : Policies \union {None}, applied : Nat]

IdleApply == [pc |-> "idle", cs |-> None, cset |-> FreshChangeSet, op |-> None,
              rec |-> FreshRecord, policy |-> None, applied |-> 0]

\* Every change-set variable holds a value of its type.
CSTypeOK ==
    /\ cset \in [ChangeSetIds -> ChangeSetRecords]
    /\ lapsed \subseteq ChangeSetIds
    /\ waiving \subseteq ChangeSetIds
    /\ view \in [Viewers -> [cs : ChangeSetIds \union {None}, cset : ChangeSetRecords]]
    /\ appl \in [Appliers -> ApplyLocals]
    /\ pushed \in [ChangeSetIds -> SUBSET Ops]

CSInit ==
    /\ Init
    /\ cset = [c \in ChangeSetIds |-> FreshChangeSet]
    /\ lapsed = {}
    /\ waiving = {}
    /\ view = [v \in Viewers |-> NoView]
    /\ appl = [a \in Appliers |-> IdleApply]
    /\ pushed = [c \in ChangeSetIds |-> {}]

EditsOf(plan) == {plan[i] : i \in 1..Len(plan)}

\* update_change_set: a blind overwrite that refuses the Approved -> Applying
\* edge, which belongs to claim_change_set_for_apply.
Updatable(c, r) == ~(cset[c].state = "Approved" /\ r.state = "Applying")
UpdateChangeSet(c, r, saved) ==
    cset' = IF saved /\ Updatable(c, r) THEN [cset EXCEPT ![c] = r] ELSE cset

-----------------------------------------------------------------------------
(* create_change_set, approve_change_set, change_set_status                *)

\* Faulty: the stored plan misses its first action.
CreateTail(c, owner, plan) ==
    /\ cset[c].state = "Fresh"
    /\ cset' = [cset EXCEPT ![c] = [FreshChangeSet EXCEPT
                  !.state = "Planned", !.owner = owner,
                  !.base = Fingerprint, !.actions = Tail(plan)]]
    /\ UNCHANGED <<vars, lapsed, waiving, view, appl, pushed>>

\* The reads of create_change_set and its insert are one step: what changes
\* in between is caught by apply, which repeats the reads under the mutex.
Create(c, owner, plan) ==
    /\ cset[c].state = "Fresh"
    /\ EditsOf(plan) \subseteq Allowed[policy]
    /\ ~PendingChanges
    /\ cset' = [cset EXCEPT ![c] = [FreshChangeSet EXCEPT
                  !.state = "Planned", !.owner = owner,
                  !.base = Fingerprint, !.actions = plan]]
    /\ waiving' = IF LabMode THEN waiving \union {c} ELSE waiving
    /\ UNCHANGED <<vars, lapsed, view, appl, pushed>>

\* waive_approval: approved, with no approver.
Waive(c) ==
    /\ c \in waiving
    /\ waiving' = waiving \ {c}
    /\ cset' = IF cset[c].state = "Planned" /\ c \notin lapsed
               THEN [cset EXCEPT ![c].state = "Approved", ![c].waived = TRUE] ELSE cset
    /\ UNCHANGED <<vars, lapsed, view, appl, pushed>>

\* Faulty: the owner may approve.
ApproveOwn(c, p) ==
    /\ cset[c].state = "Planned"
    /\ c \notin lapsed
    /\ p \in Humans
    /\ cset' = [cset EXCEPT ![c].state = "Approved", ![c].approver = p]
    /\ UNCHANGED <<vars, lapsed, waiving, view, appl, pushed>>

\* Self-approval, agents, expired plans and repeated approvals are refused.
Approve(c, p) ==
    /\ cset[c].state = "Planned"
    /\ c \notin lapsed
    /\ p \in Humans /\ p # cset[c].owner
    /\ cset' = [cset EXCEPT ![c].state = "Approved", ![c].approver = p]
    /\ UNCHANGED <<vars, lapsed, waiving, view, appl, pushed>>

Lapse(c) ==
    /\ cset[c].state # "Fresh"
    /\ lapsed' = lapsed \union {c}
    /\ UNCHANGED <<vars, cset, waiving, view, appl, pushed>>

\* change_set_status reads the record, and writes it back expired.
StatusRead(v, c) ==
    /\ view[v] = NoView
    /\ cset[c].state \in {"Planned", "Approved"}
    /\ c \in lapsed
    /\ view' = [view EXCEPT ![v] = [cs |-> c, cset |-> [cset[c] EXCEPT !.state = "Expired"]]]
    /\ UNCHANGED <<vars, cset, lapsed, waiving, appl, pushed>>

StatusWrite(v) ==
    /\ view[v] # NoView
    /\ \E saved \in Saves : UpdateChangeSet(view[v].cs, view[v].cset, saved)
    /\ view' = [view EXCEPT ![v] = NoView]
    /\ UNCHANGED <<vars, lapsed, waiving, appl, pushed>>

-----------------------------------------------------------------------------
(* apply_change_set                                                        *)

ApplyAt(a, pc) == appl[a].pc = pc
ApplyGoto(a, pc) == appl' = [appl EXCEPT ![a].pc = pc]
ApplyKeep(a, pc, r) == appl' = [appl EXCEPT ![a].pc = pc, ![a].rec = r]
ApplyFinish(a) == appl' = [appl EXCEPT ![a] = IdleApply]

lifeVars == <<task, policy, evidence, validated>>
planVars == <<lapsed, waiving, view>>

\* Faulty: a waiver counts as an approval.
ApplicableWaived(r) == r.state = "Approved"

\* What apply demands of the record, before and under the mutex.
Applicable(r) == r.state = "Approved" /\ r.approver # None

\* The checks made before the mutex; an expired plan is written back.
ApplyCall(a, c) ==
    /\ ApplyAt(a, "idle")
    /\ Applicable(cset[c])
    /\ c \in lapsed \/ EditsOf(cset[c].actions) \subseteq Allowed[policy]
    /\ appl' = [appl EXCEPT ![a] = [IdleApply EXCEPT
                  !.pc = IF c \in lapsed THEN "apply_expire" ELSE "apply_guard",
                  !.cs = c, !.cset = cset[c], !.policy = policy]]
    /\ UNCHANGED <<vars, cset, planVars, pushed>>

ApplyExpire(a) ==
    /\ ApplyAt(a, "apply_expire")
    /\ \E saved \in Saves :
         UpdateChangeSet(appl[a].cs, [appl[a].cset EXCEPT !.state = "Expired"], saved)
    /\ ApplyFinish(a)
    /\ UNCHANGED <<vars, planVars, pushed>>

\* Under the mutex the plan is read and checked again, then the operation
\* record is inserted.
ApplyInsert(a, o) ==
    LET c == appl[a].cs
        r == StagingRecord(cset[c].base, appl[a].policy, EditsOf(cset[c].actions), c)
    IN  /\ ApplyAt(a, "apply_guard")
        /\ guard = None
        /\ \E saved \in Saves :
             IF saved /\ Applicable(cset[c]) /\ c \notin lapsed /\ CanInsert
             THEN /\ NewId(o)
                  /\ Acquire(a)
                  /\ Insert(o, r)
                  /\ appl' = [appl EXCEPT ![a].pc = "apply_lock", ![a].op = o,
                                          ![a].rec = r, ![a].cset = cset[c]]
             ELSE ApplyFinish(a) /\ UNCHANGED coordinatorVars
        /\ UNCHANGED <<deviceVars, lifeVars, cset, planVars, pushed>>

ApplyLock(a) ==
    /\ ApplyAt(a, "apply_lock")
    /\ \/ /\ appl[a].policy \notin LockPolicies
          /\ ApplyGoto(a, "apply_fp")
          /\ UNCHANGED lock
       \/ /\ appl[a].policy \in LockPolicies
          /\ \E out \in {"ok", "refused", "lost"} :
               /\ AcquireLock(out)
               /\ IF out = "ok"
                  THEN ApplyKeep(a, "apply_savelock", [appl[a].rec EXCEPT !.lock = TRUE])
                  ELSE ApplyGoto(a, "apply_remove")
    /\ UNCHANGED <<candidate, running, job, coordinatorVars, lifeVars, cset, planVars, pushed>>

ApplyAbort(a) == ApplyGoto(a, "apply_unlock")

ApplySaveLock(a) ==
    /\ ApplyAt(a, "apply_savelock")
    /\ \E saved \in Saves :
         /\ Update(appl[a].op, appl[a].rec, saved)
         /\ IF saved THEN ApplyGoto(a, "apply_fp") ELSE ApplyAbort(a)
    /\ UNCHANGED <<deviceVars, guard, lifeVars, cset, planVars, pushed>>

ApplyFingerprint(a) ==
    /\ ApplyAt(a, "apply_fp")
    /\ \E out \in Reads :
         IF out = "ok" /\ SameFingerprint(appl[a].rec)
         THEN ApplyGoto(a, "apply_clean") ELSE ApplyAbort(a)
    /\ UNCHANGED <<deviceVars, coordinatorVars, lifeVars, cset, planVars, pushed>>

ApplyClean(a) ==
    /\ ApplyAt(a, "apply_clean")
    /\ \E out \in Reads :
         IF out = "ok" /\ ~PendingChanges
         THEN ApplyGoto(a, "apply_claim") ELSE ApplyAbort(a)
    /\ UNCHANGED <<deviceVars, coordinatorVars, lifeVars, cset, planVars, pushed>>

\* claim_change_set_for_apply reads and writes under one lock.
ApplyClaim(a) ==
    /\ ApplyAt(a, "apply_claim")
    /\ \E saved \in Saves :
         LET c == appl[a].cs
             claimed == [cset[c] EXCEPT !.state = "Applying"]
         IN  IF saved /\ cset[c].state = "Approved"
             THEN /\ cset' = [cset EXCEPT ![c] = claimed]
                  /\ appl' = [appl EXCEPT ![a].pc = "apply_link", ![a].cset = claimed]
             ELSE ApplyAbort(a) /\ UNCHANGED cset
    /\ UNCHANGED <<deviceVars, coordinatorVars, lifeVars, planVars, pushed>>

\* Store the operation id, or settle the claimed plan as failed.
ApplyLink(a) ==
    /\ ApplyAt(a, "apply_link")
    /\ \E saved, settled \in Saves :
         LET c == appl[a].cs
             linked == [appl[a].cset EXCEPT !.op = appl[a].op]
         IN  IF saved /\ Updatable(c, linked)
             THEN /\ UpdateChangeSet(c, linked, saved)
                  /\ appl' = [appl EXCEPT ![a].pc = "apply_push", ![a].cset = linked]
             ELSE /\ UpdateChangeSet(c, [linked EXCEPT !.state = "Failed", !.op = None], settled)
                  /\ ApplyAbort(a)
    /\ UNCHANGED <<deviceVars, coordinatorVars, lifeVars, planVars, pushed>>

\* Faulty: the loop ends one action early.
ApplyPushShort(a) ==
    /\ ApplyAt(a, "apply_push")
    /\ \E out \in Outcomes :
         /\ PostEdit(appl[a].cset.actions[appl[a].applied + 1], out)
         /\ ApplyGoto(a, IF out = "ok" THEN "apply_after" ELSE "apply_revert")
    /\ pushed' = [pushed EXCEPT ![appl[a].cs] = @ \union {appl[a].op}]
    /\ UNCHANGED <<running, lock, job, coordinatorVars, lifeVars, cset, planVars>>

\* Send the actions in order; the first error ends the loop.
ApplyPush(a) ==
    /\ ApplyAt(a, "apply_push")
    /\ LET next == appl[a].applied + 1
           plan == appl[a].cset.actions
       IN  \E out \in Outcomes :
             /\ PostEdit(plan[next], out)
             /\ IF out = "ok"
                THEN appl' = [appl EXCEPT ![a].applied = next,
                       ![a].pc = IF next = Len(plan) THEN "apply_after" ELSE "apply_push"]
                ELSE ApplyGoto(a, "apply_revert")
    /\ pushed' = [pushed EXCEPT ![appl[a].cs] = @ \union {appl[a].op}]
    /\ UNCHANGED <<running, lock, job, coordinatorVars, lifeVars, cset, planVars>>

\* The fingerprint after the last action decides the operation's state.
ApplyAfter(a) ==
    /\ ApplyAt(a, "apply_after")
    /\ \E out \in Reads, saved \in Saves :
         LET r == IF out = "ok" THEN [appl[a].rec EXCEPT !.state = "Staged",
                                                         !.current = Fingerprint]
                  ELSE WithState(appl[a].rec, "Indeterminate")
         IN  /\ Update(appl[a].op, r, saved)
             /\ IF saved THEN ApplyKeep(a, "apply_settle", r) /\ UNCHANGED guard
                ELSE ApplyFinish(a) /\ Release(a)
    /\ UNCHANGED <<deviceVars, lifeVars, cset, planVars, pushed>>

\* Faulty: the claimed plan is not settled.
ApplyUnsettled(a) ==
    /\ ApplyAt(a, "apply_settle")
    /\ ApplyFinish(a)
    /\ Release(a)
    /\ UNCHANGED <<deviceVars, rec, lifeVars, cset, planVars, pushed>>

ApplySettle(a) ==
    /\ ApplyAt(a, "apply_settle")
    /\ \E saved \in Saves :
         UpdateChangeSet(appl[a].cs, [appl[a].cset EXCEPT
             !.state = IF appl[a].rec.state = "Staged" THEN "Applied" ELSE "Failed"], saved)
    /\ ApplyFinish(a)
    /\ Release(a)
    /\ UNCHANGED <<deviceVars, rec, lifeVars, planVars, pushed>>

\* An action failed.  Revert, unless no action had been accepted.
ApplyRevert(a) ==
    /\ ApplyAt(a, "apply_revert")
    /\ \/ /\ appl[a].applied > 0
          /\ \E out \in Outcomes :
               /\ RevertAdmin(out)
               /\ ApplyKeep(a, "apply_failsave", WithState(appl[a].rec,
                    IF out = "ok" THEN "Discarded" ELSE "Indeterminate"))
       \/ /\ appl[a].applied = 0
          /\ ApplyKeep(a, "apply_failsave", WithState(appl[a].rec, "Discarded"))
          /\ UNCHANGED candidate
    /\ UNCHANGED <<running, lock, job, coordinatorVars, lifeVars, cset, planVars, pushed>>

\* Record the outcome; an error here returns without the remaining steps.
ApplyFailSave(a) ==
    /\ ApplyAt(a, "apply_failsave")
    /\ \E out \in Reads, saved \in Saves :
         LET r == IF out = "ok" THEN [appl[a].rec EXCEPT !.current = Fingerprint]
                  ELSE appl[a].rec
         IN  /\ Update(appl[a].op, r, saved)
             /\ IF saved THEN ApplyKeep(a, "apply_failset", r) /\ UNCHANGED guard
                ELSE ApplyFinish(a) /\ Release(a)
    /\ UNCHANGED <<deviceVars, lifeVars, cset, planVars, pushed>>

\* Faulty: a failed plan returns to its approved state for another try.
ApplyFailRetry(a) ==
    /\ ApplyAt(a, "apply_failset")
    /\ UpdateChangeSet(appl[a].cs, [appl[a].cset EXCEPT !.state = "Approved"], TRUE)
    /\ ApplyGoto(a, "apply_failunlock")
    /\ UNCHANGED <<deviceVars, coordinatorVars, lifeVars, planVars, pushed>>

ApplyFailSet(a) ==
    /\ ApplyAt(a, "apply_failset")
    /\ \E saved \in Saves :
         /\ UpdateChangeSet(appl[a].cs, [appl[a].cset EXCEPT !.state = "Failed"], saved)
         /\ IF saved THEN ApplyGoto(a, "apply_failunlock") /\ UNCHANGED guard
            ELSE ApplyFinish(a) /\ Release(a)
    /\ UNCHANGED <<deviceVars, rec, lifeVars, planVars, pushed>>

BestEffortUnlock(a) ==
    IF appl[a].rec.lock THEN \E out \in Outcomes : ReleaseLock(out) ELSE UNCHANGED lock

ApplyFailUnlock(a) ==
    /\ ApplyAt(a, "apply_failunlock")
    /\ BestEffortUnlock(a)
    /\ ApplyFinish(a)
    /\ Release(a)
    /\ UNCHANGED <<candidate, running, job, rec, lifeVars, cset, planVars, pushed>>

\* Nothing was sent: release the lock and remove the operation record.
ApplyUnlock(a) ==
    /\ ApplyAt(a, "apply_unlock")
    /\ BestEffortUnlock(a)
    /\ ApplyGoto(a, "apply_remove")
    /\ UNCHANGED <<candidate, running, job, coordinatorVars, lifeVars, cset, planVars, pushed>>

ApplyRemove(a) ==
    /\ ApplyAt(a, "apply_remove")
    /\ Remove(appl[a].op)
    /\ ApplyFinish(a)
    /\ Release(a)
    /\ UNCHANGED <<deviceVars, lifeVars, cset, planVars, pushed>>

-----------------------------------------------------------------------------
ApplyStep(a) ==
    \/ ApplyExpire(a) \/ (\E o \in Ops : ApplyInsert(a, o))
    \/ ApplyLock(a) \/ ApplySaveLock(a) \/ ApplyFingerprint(a) \/ ApplyClean(a)
    \/ ApplyClaim(a) \/ ApplyLink(a) \/ ApplyPush(a)
    \/ ApplyAfter(a) \/ ApplySettle(a)
    \/ ApplyRevert(a) \/ ApplyFailSave(a) \/ ApplyFailSet(a) \/ ApplyFailUnlock(a)
    \/ ApplyUnlock(a) \/ ApplyRemove(a)

PlanStep ==
    \E c \in ChangeSetIds :
        \/ \E p \in Principals, plan \in Plans : Create(c, p, plan)
        \/ Waive(c)
        \/ \E p \in Principals : Approve(c, p)
        \/ Lapse(c)
        \/ \E v \in Viewers : StatusRead(v, c)

CSRestart ==
    /\ Restart
    /\ waiving' = {}
    /\ view' = [v \in Viewers |-> NoView]
    /\ appl' = [a \in Appliers |-> IdleApply]
    /\ UNCHANGED <<cset, lapsed, pushed>>

CSResolve(o) ==
    /\ Resolve(o)
    /\ \A a \in Appliers : ApplyAt(a, "idle")
    /\ UNCHANGED csVars

CSNext ==
    \/ Serve /\ UNCHANGED csVars
    \/ PlanStep
    \/ \E v \in Viewers : StatusWrite(v)
    \/ \E a \in Appliers : (\E c \in ChangeSetIds : ApplyCall(a, c)) \/ ApplyStep(a)
    \/ CSRestart
    \/ \E o \in Ops : CSResolve(o)

CSSpec == CSInit /\ [][CSNext]_allVars

(* Every call runs on a tokio thread and every request it waits for ends,  *)
(* by an answer or by its deadline.  The mutex is handed to waiters in     *)
(* turn, hence strong fairness.  PAN-OS ends every commit job.             *)
CSFairness ==
    /\ \A t \in Calls : SF_allVars(CallStep(t) /\ UNCHANGED csVars)
    /\ \A w \in Workers : SF_allVars(WorkerStep(w) /\ UNCHANGED csVars)
    /\ \A a \in Appliers : SF_allVars(ApplyStep(a))
    /\ \A w \in Workers : WF_allVars(FinishJob(w) /\ UNCHANGED <<coordinatorVars, lifeVars,
                                     csVars>>)

CSFairSpec == CSSpec /\ CSFairness

-----------------------------------------------------------------------------
(* Properties.                                                             *)

\* An approval is used once: at most one operation ever sends a change set's
\* actions, across concurrent applies, expiry write-backs and restarts.
SingleUse == \A c \in ChangeSetIds : \A o, q \in pushed[c] : o = q

\* Actions reach the candidate only under the approval of a second, human
\* principal, and the record still names that approver afterwards.
PushedWasApproved ==
    \A c \in ChangeSetIds :
        pushed[c] # {} => cset[c].approver \in Humans \ {cset[c].owner}

\* Without --allow-direct-commit only edits of independently approved plans
\* ever run, whatever else was staged, lost or left in the candidate.
RunningIsApproved ==
    ~AllowDirectCommit =>
        \A e \in OwnEdits(running) :
            \E c \in ChangeSetIds : /\ cset[c].approver \in Humans \ {cset[c].owner}
                                    /\ e \in EditsOf(cset[c].actions)

\* An apply is all or nothing: pending edits always belong to an operation
\* that still blocks the endpoint, so a partial apply is never forgotten.
PendingIsTracked == Pending # {} => \E o \in Ops : Unreconciled(o)

\* An operation staged by an apply holds the complete approved plan.
StagedIsWholePlan ==
    \A o \in Ops :
        /\ rec[o].state \in {"Staged", "Validating", "Validated"}
        /\ rec[o].changeSet # None
        /\ SameFingerprint(rec[o])
        => EditsOf(cset[rec[o].changeSet].actions) \subseteq candidate

\* The promise of the layer (module ApprovalLedger), under the refinement
\* mapping: the ledger shows who proposed a plan, which second person granted
\* it, and the one operation that used the grant.
Ledger == INSTANCE ApprovalLedger WITH
    Plan <- ChangeSetIds,
    proposer <- [c \in ChangeSetIds |-> cset[c].owner],
    grantor <- [c \in ChangeSetIds |-> cset[c].approver],
    users <- pushed

\* create, approve and apply implement the ledger.
LedgerSpec == Ledger!Spec

\* Every change set that is approved, by a reviewer or by the lab-mode waiver,
\* passes the approval check of apply_change_set.
ApprovedIsApplicable ==
    \A c \in ChangeSetIds : cset[c].state = "Approved" => Applicable(cset[c])

\* Unless the process stops, an apply settles the plan it claimed.
ApplyingEnds ==
    \A c \in ChangeSetIds : cset[c].state = "Applying" ~> cset[c].state # "Applying"
=============================================================================
