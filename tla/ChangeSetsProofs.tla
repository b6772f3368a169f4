--------------------------- MODULE ChangeSetsProofs ---------------------------
(***************************************************************************)
(* Proofs about ChangeSets: the type invariant of the change-set layer,    *)
(* that an approval is used at most once and only after a second human     *)
(* approved the plan, and that the layer implements ApprovalLedger.        *)
(***************************************************************************)
EXTENDS ChangeSets, TLAPS

\* The program counters between a successful claim and the end of the apply.
Claimed == {"apply_link", "apply_push", "apply_after", "apply_settle",
            "apply_revert", "apply_failsave", "apply_failset", "apply_failunlock"}

Claims(a, c) == appl[a].pc \in Claimed /\ appl[a].cs = c

\* Before a claim nothing was sent and nobody holds a claim.
UnspentInv ==
    \A c \in ChangeSetIds :
        cset[c].state \in {"Fresh", "Planned", "Approved"} =>
            /\ pushed[c] = {}
            /\ \A a \in Appliers : ~Claims(a, c)

\* One claim per plan; a claim's local record is the claimed one, and what was
\* sent so far was sent by its operation.
ClaimInv ==
    \A a \in Appliers : appl[a].pc \in Claimed =>
        /\ appl[a].cs \in ChangeSetIds
        /\ appl[a].cset.state = "Applying"
        /\ pushed[appl[a].cs] \subseteq {appl[a].op}
        /\ \A b \in Appliers : Claims(b, appl[a].cs) => b = a

\* A call that holds the mutex has its operation.
OpInv == \A a \in Appliers : appl[a].pc \in ApplyGuarded => appl[a].op \in Ops

\* Owner and approver are written once, in this order.
PeopleInv ==
    \A c \in ChangeSetIds :
        /\ cset[c].state = "Fresh" => cset[c].owner = None
        /\ cset[c].state # "Fresh" => cset[c].owner # None
        /\ cset[c].state \in {"Fresh", "Planned"} => cset[c].approver = None
        /\ cset[c].approver # None => cset[c].approver \in Humans \ {cset[c].owner}
        /\ c \in lapsed => cset[c].state # "Fresh"
        /\ pushed[c] # {} => cset[c].approver # None

\* Every copy of a record that a call may write back agrees with the store on
\* owner and approver: a status call copies only lapsed plans, which can no
\* longer be approved, an apply only approved ones.
SamePeople(r, c) == r.owner = cset[c].owner /\ r.approver = cset[c].approver

CopyInv ==
    /\ \A v \in Viewers : view[v].cs # None =>
            /\ view[v].cset.state = "Expired"
            /\ view[v].cs \in lapsed
            /\ SamePeople(view[v].cset, view[v].cs)
    /\ \A v \in Viewers : view[v] # NoView => view[v].cs # None
    /\ \A a \in Appliers : appl[a].pc # "idle" =>
            /\ appl[a].cs \in ChangeSetIds
            /\ appl[a].cset.approver # None
            /\ SamePeople(appl[a].cset, appl[a].cs)

ApprovalInv ==
    /\ policy \in Policies
    /\ CSTypeOK
    /\ SingleUse
    /\ UnspentInv
    /\ ClaimInv
    /\ OpInv
    /\ PeopleInv
    /\ CopyInv

-----------------------------------------------------------------------------
(* How the store and one apply call may move.                              *)

Unspent == {"Fresh", "Planned", "Approved"}

\* The store moves forward: owners and approvers stay, no plan becomes
\* unspent again.
CsetStep ==
    /\ cset' \in [ChangeSetIds -> ChangeSetRecords]
    /\ \A c \in ChangeSetIds :
         /\ cset'[c].owner = cset[c].owner
         /\ cset'[c].approver = cset[c].approver
         /\ cset'[c].state \in Unspent => cset'[c].state = cset[c].state
         /\ cset[c].state = "Fresh" => cset'[c].state = "Fresh"

\* The call returns, or goes on with the same plan and keeps its claim.
ApplyMove(a) ==
    /\ appl' \in [Appliers -> ApplyLocals]
    /\ \A b \in Appliers \ {a} : appl'[b] = appl[b]
    /\ \/ appl'[a].pc = "idle"
       \/ /\ appl[a].pc # "idle"
          /\ appl'[a].pc # "idle"
          /\ appl'[a].cs = appl[a].cs
          /\ appl'[a].cset.owner = appl[a].cset.owner
          /\ appl'[a].cset.approver = appl[a].cset.approver
          /\ appl'[a].pc \in ApplyGuarded => appl'[a].op \in Ops
          /\ appl'[a].pc \in Claimed =>
                /\ appl[a].pc \in Claimed
                /\ appl'[a].op = appl[a].op
                /\ appl'[a].cset.state = "Applying"

\* What is shown of every step: it preserves the invariant and is a step of the
\* ledger or leaves the ledger alone.
StepOK == ApprovalInv' /\ [Ledger!Next]_(Ledger!ledger)

\* A forward move of the store that sends nothing leaves the ledger alone.
LEMMA SameLedger ==
    ASSUME CsetStep, UNCHANGED pushed
    PROVE  UNCHANGED Ledger!ledger
BY DEF CsetStep, Ledger!ledger

\* A blind overwrite by a copy that agrees on the people moves the store
\* forward when the copy carries a spent state.
LEMMA UpdateMovesForward ==
    ASSUME ApprovalInv, NEW c \in ChangeSetIds, NEW r \in ChangeSetRecords,
           NEW saved \in BOOLEAN, UpdateChangeSet(c, r, saved),
           SamePeople(r, c), r.state \notin Unspent, cset[c].state # "Fresh"
    PROVE  CsetStep
BY DEF ApprovalInv, CSTypeOK, UpdateChangeSet, SamePeople, CsetStep, Unspent

\* A step of one apply call that moves the store forward and sends nothing
\* preserves the invariant.
LEMMA ApplyMovePreserves ==
    ASSUME ApprovalInv, NEW a \in Appliers, CsetStep, ApplyMove(a),
           UNCHANGED <<policy, lapsed, waiving, view, pushed>>
    PROVE  StepOK
<1>1. policy' \in Policies /\ CSTypeOK'
  BY DEF ApprovalInv, CSTypeOK, CsetStep, ApplyMove
<1>2. UnspentInv'
  BY DEF ApprovalInv, CSTypeOK, UnspentInv, ClaimInv, CsetStep, ApplyMove, Claims, Unspent, Claimed
<1>3. ClaimInv'
  BY DEF ApprovalInv, CSTypeOK, UnspentInv, ClaimInv, CsetStep, ApplyMove, Claims, Unspent, Claimed
<1>4. PeopleInv'
  BY DEF ApprovalInv, CSTypeOK, PeopleInv, CsetStep, Unspent
<1>5. CopyInv'
  BY DEF ApprovalInv, CSTypeOK, CopyInv, CsetStep, ApplyMove, SamePeople, NoView
<1>6. OpInv' /\ SingleUse'
  BY DEF ApprovalInv, SingleUse, OpInv, ApplyMove, ApplyGuarded
<1> QED
  BY <1>1, <1>2, <1>3, <1>4, <1>5, <1>6, SameLedger DEF ApprovalInv, StepOK

-----------------------------------------------------------------------------
(* Types of the values the actions build.                                  *)

\* The edits of a stored plan are edits this server may write.
LEMMA PlanEdits ==
    ASSUME NEW plan \in Plans \union {<<>>}
    PROVE  EditsOf(plan) \subseteq Edits
BY PlansAssumption DEF EditsOf

\* The operation record that ApplyInsert builds has the record type.
LEMMA StagingRecordType ==
    ASSUME NEW base \in SUBSET Roots, NEW p \in Policies \union {None},
           NEW es \in SUBSET Edits, NEW c \in ChangeSetIds
    PROVE  StagingRecord(base, p, es, c) \in Records
BY DEF StagingRecord, Records, Lifecycle

\* The values a call starts from have their types.
LEMMA FreshTypes ==
    /\ FreshRecord \in Records
    /\ FreshChangeSet \in ChangeSetRecords
    /\ IdleApply \in ApplyLocals
    /\ NoView \in [cs : ChangeSetIds \union {None}, cset : ChangeSetRecords]
<1>1. FreshRecord \in Records
  BY DEF FreshRecord, Records, Unused
<1>2. FreshChangeSet \in ChangeSetRecords
  BY DEF FreshChangeSet, ChangeSetRecords, ChangeSetStates
<1>3. IdleApply \in ApplyLocals
  BY <1>1, <1>2 DEF IdleApply, ApplyLocals, ApplyPcs
<1>4. NoView \in [cs : ChangeSetIds \union {None}, cset : ChangeSetRecords]
  BY <1>2 DEF NoView
<1> QED
  BY <1>1, <1>2, <1>3, <1>4

-----------------------------------------------------------------------------
(* Steps of an apply call that touch neither the store of change sets nor  *)
(* the device's edits: each is an ApplyMove.                               *)

\* A call that returns is an ApplyMove.
LEMMA FinishIsMove ==
    ASSUME ApprovalInv, NEW a \in Appliers, ApplyFinish(a)
    PROVE  ApplyMove(a)
BY FreshTypes DEF ApprovalInv, CSTypeOK, ApplyFinish, ApplyMove, IdleApply

\* A call that only moves on is an ApplyMove unless it enters the claimed part.
LEMMA GotoIsMove ==
    ASSUME ApprovalInv, NEW a \in Appliers, NEW pc \in ApplyPcs, ApplyGoto(a, pc),
           appl[a].pc # "idle", pc # "idle", pc \in Claimed => appl[a].pc \in Claimed,
           pc \in ApplyGuarded => appl[a].pc \in ApplyGuarded
    PROVE  ApplyMove(a)
<1>1. appl[a] \in ApplyLocals /\ [appl[a] EXCEPT !.pc = pc] \in ApplyLocals
  BY DEF ApprovalInv, CSTypeOK, ApplyLocals
<1> QED
  BY <1>1 DEF ApprovalInv, CSTypeOK, ClaimInv, OpInv, ApplyGoto, ApplyMove, ApplyLocals

\* The same for a call that also replaces its operation record.
LEMMA KeepIsMove ==
    ASSUME ApprovalInv, NEW a \in Appliers, NEW pc \in ApplyPcs, NEW r \in Records,
           ApplyKeep(a, pc, r),
           appl[a].pc # "idle", pc # "idle", pc \in Claimed => appl[a].pc \in Claimed,
           pc \in ApplyGuarded => appl[a].pc \in ApplyGuarded
    PROVE  ApplyMove(a)
<1>1. appl[a] \in ApplyLocals /\ [appl[a] EXCEPT !.pc = pc, !.rec = r] \in ApplyLocals
  BY DEF ApprovalInv, CSTypeOK, ApplyLocals
<1> QED
  BY <1>1 DEF ApprovalInv, CSTypeOK, ClaimInv, OpInv, ApplyKeep, ApplyMove, ApplyLocals

\* Leaving the store alone moves it forward.
LEMMA SameStore ==
    ASSUME ApprovalInv, UNCHANGED cset
    PROVE  CsetStep
BY DEF ApprovalInv, CSTypeOK, CsetStep

\* The locals of a call that is not idle, and what its step leaves alone.
LEMMA LocalTypes ==
    ASSUME ApprovalInv, NEW a \in Appliers
    PROVE  /\ appl[a].pc \in ApplyPcs
           /\ appl[a].rec \in Records
           /\ appl[a].cset \in ChangeSetRecords
           /\ appl[a].op \in Ops \union {None}
           /\ appl[a].policy \in Policies \union {None}
           /\ appl[a].applied \in Nat
           /\ appl[a].pc # "idle" =>
                /\ appl[a].cs \in ChangeSetIds
                /\ cset[appl[a].cs] \in ChangeSetRecords
                /\ SamePeople(appl[a].cset, appl[a].cs)
                /\ cset[appl[a].cs].state # "Fresh"
BY DEF ApprovalInv, CSTypeOK, ApplyLocals, CopyInv, PeopleInv, SamePeople

\* Before the claim, an apply call inserts its record, takes the lock, saves it
\* and makes its two reads.
LEMMA EarlySteps ==
    ASSUME ApprovalInv, NEW a \in Appliers,
           \/ \E o \in Ops : ApplyInsert(a, o)
           \/ ApplyLock(a)
           \/ ApplySaveLock(a)
           \/ ApplyFingerprint(a)
           \/ ApplyClean(a)
    PROVE  StepOK
<1> USE DEF ApplyAt, ApplyPcs, ApplyGuarded, Claimed
<1>1. ASSUME NEW o \in Ops, ApplyInsert(a, o) PROVE StepOK
  <2> DEFINE c == appl[a].cs
             r == StagingRecord(cset[c].base, appl[a].policy, EditsOf(cset[c].actions), c)
  <2>1. c \in ChangeSetIds /\ appl[a].pc = "apply_guard" /\ cset[c] \in ChangeSetRecords
    BY <1>1, LocalTypes DEF ApplyInsert
  <2>2. r \in Records
    <3>1. EditsOf(cset[c].actions) \in SUBSET Edits
      BY <2>1, PlanEdits DEF ChangeSetRecords
    <3> QED
      BY <2>1, <3>1, StagingRecordType, LocalTypes DEF ChangeSetRecords
  <2> HIDE DEF r
  <2>3. \/ ApplyFinish(a)
        \/ /\ Applicable(cset[c])
           /\ appl' = [appl EXCEPT ![a].pc = "apply_lock", ![a].op = o,
                                   ![a].rec = r, ![a].cset = cset[c]]
    BY <1>1 DEF ApplyInsert, r
  <2>4. ASSUME appl' = [appl EXCEPT ![a].pc = "apply_lock", ![a].op = o,
                                    ![a].rec = r, ![a].cset = cset[c]]
        PROVE  ApplyMove(a)
    <3>1. appl' \in [Appliers -> ApplyLocals]
      <4> DEFINE new == [appl[a] EXCEPT !.pc = "apply_lock", !.op = o, !.rec = r,
                                        !.cset = cset[c]]
      <4>1. appl[a] \in ApplyLocals
        BY DEF ApprovalInv, CSTypeOK
      <4>2. new \in ApplyLocals
        BY <2>1, <2>2, <4>1 DEF ApplyLocals
      <4>3. appl' = [appl EXCEPT ![a] = new]
        BY <2>4
      <4> HIDE DEF new
      <4> QED
        BY <4>2, <4>3 DEF ApprovalInv, CSTypeOK
    <3>2. /\ appl'[a].pc = "apply_lock"
          /\ appl'[a].cs = c
          /\ appl'[a].op = o
          /\ appl'[a].cset = cset[c]
          /\ \A b \in Appliers \ {a} : appl'[b] = appl[b]
      BY <2>4 DEF ApprovalInv, CSTypeOK, ApplyLocals
    <3>3. cset[c].owner = appl[a].cset.owner /\ cset[c].approver = appl[a].cset.approver
      BY <2>1, LocalTypes DEF SamePeople
    <3> QED
      BY <2>1, <3>1, <3>2, <3>3 DEF ApplyMove
  <2>5. ApplyMove(a)
    BY <2>3, <2>4, FinishIsMove
  <2>6. UNCHANGED <<policy, cset, lapsed, waiving, view, pushed>>
    BY <1>1 DEF ApplyInsert, lifeVars, planVars
  <2> QED
    BY <2>5, <2>6, SameStore, ApplyMovePreserves
<1>2. ASSUME ApplyLock(a) PROVE StepOK
  <2>1. [appl[a].rec EXCEPT !.lock = TRUE] \in Records
    BY LocalTypes DEF Records
  <2>2. \/ ApplyGoto(a, "apply_fp")
        \/ ApplyKeep(a, "apply_savelock", [appl[a].rec EXCEPT !.lock = TRUE])
        \/ ApplyGoto(a, "apply_remove")
    BY <1>2 DEF ApplyLock
  <2>3. ApplyMove(a)
    BY <1>2, <2>1, <2>2, GotoIsMove, KeepIsMove DEF ApplyLock
  <2>4. UNCHANGED <<policy, cset, lapsed, waiving, view, pushed>>
    BY <1>2 DEF ApplyLock, lifeVars, planVars
  <2> QED
    BY <2>3, <2>4, SameStore, ApplyMovePreserves
<1>3. ASSUME ApplySaveLock(a) \/ ApplyFingerprint(a) \/ ApplyClean(a) PROVE StepOK
  <2>1. \/ appl[a].pc \in {"apply_savelock", "apply_fp", "apply_clean"}
           /\ \/ ApplyGoto(a, "apply_fp")
              \/ ApplyGoto(a, "apply_clean")
              \/ ApplyGoto(a, "apply_claim")
              \/ ApplyGoto(a, "apply_unlock")
    BY <1>3 DEF ApplySaveLock, ApplyFingerprint, ApplyClean, ApplyAbort
  <2>2. ApplyMove(a)
    BY <2>1, GotoIsMove
  <2>3. UNCHANGED <<policy, cset, lapsed, waiving, view, pushed>>
    BY <1>3 DEF ApplySaveLock, ApplyFingerprint, ApplyClean, lifeVars, planVars
  <2> QED
    BY <2>2, <2>3, SameStore, ApplyMovePreserves
<1> QED
  BY <1>1, <1>2, <1>3

\* After the last action, or after a failed one, the call records the outcome
\* of its operation, reverts, unlocks or removes, without a change-set write.
LEMMA LateSteps ==
    ASSUME ApprovalInv, NEW a \in Appliers,
           \/ ApplyAfter(a) \/ ApplyRevert(a) \/ ApplyFailSave(a)
           \/ ApplyFailUnlock(a) \/ ApplyUnlock(a) \/ ApplyRemove(a)
    PROVE  StepOK
<1> USE DEF ApplyAt, ApplyPcs, ApplyGuarded, Claimed
<1>1. ASSUME ApplyAfter(a) PROVE ApplyMove(a)
  <2>1. PICK r \in Records : ApplyKeep(a, "apply_settle", r) \/ ApplyFinish(a)
    <3>1. \A fp \in SUBSET Roots :
             [appl[a].rec EXCEPT !.state = "Staged", !.current = fp] \in Records
      BY LocalTypes DEF Records, Lifecycle
    <3>2. WithState(appl[a].rec, "Indeterminate") \in Records
      BY LocalTypes DEF Records, Lifecycle, WithState
    <3>3. Fingerprint \in SUBSET Roots
      BY DEF Fingerprint
    <3> QED
      BY <1>1, <3>1, <3>2, <3>3 DEF ApplyAfter
  <2> QED
    BY <1>1, <2>1, KeepIsMove, FinishIsMove DEF ApplyAfter
<1>2. ASSUME ApplyRevert(a) PROVE ApplyMove(a)
  <2>1. \A s \in {"Discarded", "Indeterminate"} : WithState(appl[a].rec, s) \in Records
    BY LocalTypes DEF Records, Lifecycle, WithState
  <2>2. PICK r \in Records : ApplyKeep(a, "apply_failsave", r)
    BY <1>2, <2>1 DEF ApplyRevert
  <2> QED
    BY <1>2, <2>2, KeepIsMove DEF ApplyRevert
<1>3. ASSUME ApplyFailSave(a) PROVE ApplyMove(a)
  <2>1. [appl[a].rec EXCEPT !.current = Fingerprint] \in Records
    BY LocalTypes DEF Records, Fingerprint
  <2>2. PICK r \in Records : ApplyKeep(a, "apply_failset", r) \/ ApplyFinish(a)
    BY <1>3, <2>1, LocalTypes DEF ApplyFailSave
  <2> QED
    BY <1>3, <2>2, KeepIsMove, FinishIsMove DEF ApplyFailSave
<1>4. ASSUME ApplyFailUnlock(a) \/ ApplyUnlock(a) \/ ApplyRemove(a) PROVE ApplyMove(a)
  BY <1>4, GotoIsMove, FinishIsMove DEF ApplyFailUnlock, ApplyUnlock, ApplyRemove
<1>5. UNCHANGED <<policy, cset, lapsed, waiving, view, pushed>>
  BY DEF ApplyAfter, ApplyRevert, ApplyFailSave, ApplyFailUnlock, ApplyUnlock, ApplyRemove,
         lifeVars, planVars
<1> QED
  BY <1>1, <1>2, <1>3, <1>4, <1>5, SameStore, ApplyMovePreserves

-----------------------------------------------------------------------------
(* Steps that write a change set back.                                     *)

\* An apply call that writes its copy back in a spent state moves the store
\* forward.
LEMMA WriteBack ==
    ASSUME ApprovalInv, NEW a \in Appliers, appl[a].pc # "idle",
           NEW r \in ChangeSetRecords, NEW saved \in BOOLEAN,
           UpdateChangeSet(appl[a].cs, r, saved),
           r.owner = appl[a].cset.owner, r.approver = appl[a].cset.approver,
           r.state \notin Unspent
    PROVE  CsetStep
BY LocalTypes, UpdateMovesForward DEF SamePeople

\* A save either succeeds or not.
LEMMA SavesAreBoolean == Saves \subseteq BOOLEAN
BY DEF Saves

\* The terminal writes: expired, applied or failed.
LEMMA SettleSteps ==
    ASSUME ApprovalInv, NEW a \in Appliers,
           ApplyExpire(a) \/ ApplySettle(a) \/ ApplyFailSet(a)
    PROVE  StepOK
<1> USE DEF ApplyAt, ApplyPcs, ApplyGuarded, Claimed
<1>1. ASSUME NEW s \in {"Expired", "Applied", "Failed"}
      PROVE  /\ [appl[a].cset EXCEPT !.state = s] \in ChangeSetRecords
             /\ [appl[a].cset EXCEPT !.state = s].owner = appl[a].cset.owner
             /\ [appl[a].cset EXCEPT !.state = s].approver = appl[a].cset.approver
             /\ [appl[a].cset EXCEPT !.state = s].state \notin Unspent
  BY LocalTypes DEF ChangeSetRecords, ChangeSetStates, Unspent
<1>2. appl[a].pc # "idle"
  BY DEF ApplyExpire, ApplySettle, ApplyFailSet
<1>3. PICK s \in {"Expired", "Applied", "Failed"}, saved \in Saves :
         UpdateChangeSet(appl[a].cs, [appl[a].cset EXCEPT !.state = s], saved)
  <2>1. CASE ApplyExpire(a)
    BY <2>1 DEF ApplyExpire
  <2>2. CASE ApplySettle(a)
    BY <2>2 DEF ApplySettle
  <2>3. CASE ApplyFailSet(a)
    BY <2>3 DEF ApplyFailSet
  <2> QED
    BY <2>1, <2>2, <2>3
<1>4. CsetStep
  <2> DEFINE r == [appl[a].cset EXCEPT !.state = s]
  <2>1. /\ r \in ChangeSetRecords
        /\ r.owner = appl[a].cset.owner
        /\ r.approver = appl[a].cset.approver
        /\ r.state \notin Unspent
    BY <1>1
  <2>2. UpdateChangeSet(appl[a].cs, r, saved) /\ saved \in BOOLEAN
    BY <1>3, SavesAreBoolean
  <2> HIDE DEF r
  <2> QED
    BY <1>2, <2>1, <2>2, WriteBack
<1>5. ApplyMove(a)
  <2>1. \/ ApplyFinish(a)
        \/ appl[a].pc = "apply_failset" /\ ApplyGoto(a, "apply_failunlock")
    BY DEF ApplyExpire, ApplySettle, ApplyFailSet
  <2> QED
    BY <2>1, FinishIsMove, GotoIsMove
<1>6. UNCHANGED <<policy, lapsed, waiving, view, pushed>>
  BY DEF ApplyExpire, ApplySettle, ApplyFailSet, lifeVars, planVars, vars
<1> QED
  BY <1>4, <1>5, <1>6, ApplyMovePreserves

\* Linking the operation, or failing the claimed plan.
LEMMA LinkStep ==
    ASSUME ApprovalInv, NEW a \in Appliers, ApplyLink(a)
    PROVE  StepOK
<1> USE DEF ApplyAt, ApplyPcs, ApplyGuarded, Claimed
<1> DEFINE linked == [appl[a].cset EXCEPT !.op = appl[a].op]
           failed == [linked EXCEPT !.state = "Failed", !.op = None]
<1>1. appl[a].pc = "apply_link" /\ appl[a].cset.state = "Applying"
  BY DEF ApplyLink, ApprovalInv, ClaimInv
<1>2. /\ linked \in ChangeSetRecords /\ linked.state = "Applying"
      /\ linked.owner = appl[a].cset.owner /\ linked.approver = appl[a].cset.approver
  BY <1>1, LocalTypes DEF ChangeSetRecords
<1>3. /\ failed \in ChangeSetRecords /\ failed.state = "Failed"
      /\ failed.owner = appl[a].cset.owner /\ failed.approver = appl[a].cset.approver
  <2> HIDE DEF linked
  <2> QED
    BY <1>2 DEF ChangeSetRecords, ChangeSetStates
<1>4. PICK saved \in Saves, settled \in Saves :
         \/ /\ UpdateChangeSet(appl[a].cs, linked, saved)
            /\ appl' = [appl EXCEPT ![a].pc = "apply_push", ![a].cset = linked]
         \/ /\ UpdateChangeSet(appl[a].cs, failed, settled)
            /\ ApplyGoto(a, "apply_unlock")
  BY DEF ApplyLink, ApplyAbort
<1>5. saved \in BOOLEAN /\ settled \in BOOLEAN
  BY SavesAreBoolean
<1> HIDE DEF linked, failed
<1>6. CsetStep
  BY <1>1, <1>2, <1>3, <1>4, <1>5, WriteBack DEF Unspent
<1>7. ApplyMove(a)
  <2>1. ASSUME appl' = [appl EXCEPT ![a].pc = "apply_push", ![a].cset = linked]
        PROVE  ApplyMove(a)
    <3>1. appl[a] \in ApplyLocals
      BY DEF ApprovalInv, CSTypeOK
    <3>2. [appl[a] EXCEPT !.pc = "apply_push", !.cset = linked] \in ApplyLocals
      BY <1>2, <3>1 DEF ApplyLocals
    <3> QED
      BY <1>1, <1>2, <2>1, <3>1, <3>2 DEF ApprovalInv, CSTypeOK, OpInv, ApplyMove, ApplyLocals
  <2> QED
    BY <1>1, <1>4, <2>1, GotoIsMove
<1>8. UNCHANGED <<policy, lapsed, waiving, view, pushed>>
  BY DEF ApplyLink, lifeVars, planVars
<1> QED
  BY <1>6, <1>7, <1>8, ApplyMovePreserves

\* The claim: the plan was approved, so nothing of it was sent and nobody else
\* claims it.
LEMMA ClaimStep ==
    ASSUME ApprovalInv, NEW a \in Appliers, ApplyClaim(a)
    PROVE  StepOK
<1> DEFINE c == appl[a].cs
           claimed == [cset[c] EXCEPT !.state = "Applying"]
<1>1. appl[a].pc = "apply_claim" /\ c \in ChangeSetIds
  BY LocalTypes DEF ApplyClaim, ApplyAt
<1>2. UNCHANGED <<policy, lapsed, waiving, view, pushed>>
  BY DEF ApplyClaim, lifeVars, planVars
<1>3. CASE ApplyGoto(a, "apply_unlock") /\ UNCHANGED cset
  BY <1>1, <1>2, <1>3, GotoIsMove, SameStore, ApplyMovePreserves
     DEF ApplyPcs, ApplyGuarded, Claimed
<1>4. CASE /\ cset[c].state = "Approved"
           /\ cset' = [cset EXCEPT ![c] = claimed]
           /\ appl' = [appl EXCEPT ![a].pc = "apply_link", ![a].cset = claimed]
  <2>1. /\ cset[c] \in ChangeSetRecords /\ claimed \in ChangeSetRecords
        /\ claimed.state = "Applying"
        /\ claimed.owner = cset[c].owner /\ claimed.approver = cset[c].approver
    BY <1>1, LocalTypes DEF ChangeSetRecords, ChangeSetStates
  <2> HIDE DEF claimed
  <2>2. CsetStep
    BY <1>1, <1>4, <2>1 DEF ApprovalInv, CSTypeOK, CsetStep, Unspent
  <2>3. /\ appl' \in [Appliers -> ApplyLocals]
        /\ appl'[a].pc = "apply_link"
        /\ appl'[a].cs = c
        /\ appl'[a].op = appl[a].op
        /\ appl'[a].cset = claimed
        /\ \A b \in Appliers \ {a} : appl'[b] = appl[b]
    <3>1. appl[a] \in ApplyLocals
      BY DEF ApprovalInv, CSTypeOK
    <3>2. [appl[a] EXCEPT !.pc = "apply_link", !.cset = claimed] \in ApplyLocals
      BY <2>1, <3>1 DEF ApplyLocals, ApplyPcs
    <3> QED
      BY <1>4, <3>1, <3>2 DEF ApprovalInv, CSTypeOK, ApplyLocals
  <2>4. policy' \in Policies /\ CSTypeOK'
    BY <1>2, <2>2, <2>3 DEF ApprovalInv, CSTypeOK, CsetStep
  <2>5. UnspentInv'
    BY <1>1, <1>2, <1>4, <2>1, <2>3
       DEF ApprovalInv, CSTypeOK, UnspentInv, Claims, Claimed
  <2>6. ClaimInv'
    BY <1>1, <1>2, <1>4, <2>1, <2>3
       DEF ApprovalInv, CSTypeOK, UnspentInv, ClaimInv, Claims, Claimed
  <2>7. PeopleInv'
    BY <1>2, <2>2 DEF ApprovalInv, PeopleInv, CsetStep, Unspent
  <2>8. CopyInv'
    BY <1>1, <1>2, <2>1, <2>2, <2>3, LocalTypes
       DEF ApprovalInv, CSTypeOK, CopyInv, CsetStep, SamePeople, NoView
  <2>9. OpInv' /\ SingleUse'
    BY <1>1, <1>2, <2>3 DEF ApprovalInv, OpInv, SingleUse, ApplyGuarded, ApplyPcs
  <2> QED
    BY <1>2, <2>2, <2>4, <2>5, <2>6, <2>7, <2>8, <2>9, SameLedger DEF ApprovalInv, StepOK
<1> QED
  BY <1>3, <1>4 DEF ApplyClaim, ApplyAbort

\* Sending an action: the claim is the caller's alone, so its operation is the
\* only one in the history.
LEMMA PushStep ==
    ASSUME ApprovalInv, NEW a \in Appliers, ApplyPush(a)
    PROVE  StepOK
<1> DEFINE c == appl[a].cs
           o == appl[a].op
<1>1. appl[a].pc = "apply_push" /\ c \in ChangeSetIds /\ o \in Ops
  BY LocalTypes DEF ApplyPush, ApplyAt, ApprovalInv, OpInv, ApplyGuarded, ApplyPcs
<1>2. UNCHANGED <<policy, cset, lapsed, waiving, view>>
  BY DEF ApplyPush, lifeVars, planVars
<1>3. pushed[c] \subseteq {o}
  BY <1>1 DEF ApprovalInv, ClaimInv, Claimed
<1>4. pushed' = [pushed EXCEPT ![c] = {o}]
  BY <1>1, <1>3 DEF ApplyPush, ApprovalInv, CSTypeOK
<1>5. /\ appl' \in [Appliers -> ApplyLocals]
      /\ appl'[a].pc \in {"apply_push", "apply_after", "apply_revert"}
      /\ appl'[a].cs = c /\ appl'[a].op = o /\ appl'[a].cset = appl[a].cset
      /\ \A b \in Appliers \ {a} : appl'[b] = appl[b]
  <2>1. appl[a] \in ApplyLocals /\ appl[a].applied \in Nat
    BY DEF ApprovalInv, CSTypeOK, ApplyLocals
  <2>2. ASSUME NEW pc \in {"apply_push", "apply_after"}
        PROVE  [appl[a] EXCEPT !.applied = appl[a].applied + 1, !.pc = pc] \in ApplyLocals
    <3>1. \A x \in ApplyLocals, n \in Nat :
             [x EXCEPT !.applied = n, !.pc = pc] \in ApplyLocals
      BY DEF ApplyLocals, ApplyPcs
    <3>2. appl[a].applied + 1 \in Nat
      BY <2>1
    <3> QED
      BY <2>1, <3>1, <3>2
  <2>3. [appl[a] EXCEPT !.pc = "apply_revert"] \in ApplyLocals
    BY <2>1 DEF ApplyLocals, ApplyPcs
  <2>4. \/ \E pc \in {"apply_push", "apply_after"} :
             appl' = [appl EXCEPT ![a].applied = appl[a].applied + 1, ![a].pc = pc]
        \/ appl' = [appl EXCEPT ![a].pc = "apply_revert"]
    BY DEF ApplyPush, ApplyGoto
  <2>5. CASE appl' = [appl EXCEPT ![a].pc = "apply_revert"]
    BY <2>1, <2>3, <2>5 DEF ApprovalInv, CSTypeOK, ApplyLocals
  <2>6. ASSUME NEW pc \in {"apply_push", "apply_after"},
               appl' = [appl EXCEPT ![a].applied = appl[a].applied + 1, ![a].pc = pc]
        PROVE  /\ appl' \in [Appliers -> ApplyLocals]
               /\ appl'[a].pc = pc
               /\ appl'[a].cs = c /\ appl'[a].op = o /\ appl'[a].cset = appl[a].cset
               /\ \A b \in Appliers \ {a} : appl'[b] = appl[b]
    <3> DEFINE new == [appl[a] EXCEPT !.applied = appl[a].applied + 1, !.pc = pc]
    <3>1. /\ new \in ApplyLocals
          /\ new.pc = pc /\ new.cs = c /\ new.op = o /\ new.cset = appl[a].cset
      BY <2>1, <2>2 DEF ApplyLocals
    <3>2. appl' = [appl EXCEPT ![a] = new]
      BY <2>6
    <3> HIDE DEF new
    <3> QED
      BY <3>1, <3>2 DEF ApprovalInv, CSTypeOK
  <2> QED
    BY <2>4, <2>5, <2>6
<1>6. policy' \in Policies /\ CSTypeOK'
  BY <1>1, <1>2, <1>4, <1>5 DEF ApprovalInv, CSTypeOK
<1>7. UnspentInv' /\ ClaimInv' /\ OpInv' /\ SingleUse'
  <2>1. UnspentInv'
    BY <1>1, <1>2, <1>4, <1>5 DEF ApprovalInv, CSTypeOK, UnspentInv, Claims, Claimed
  <2>2. ClaimInv'
    BY <1>1, <1>2, <1>4, <1>5 DEF ApprovalInv, CSTypeOK, ClaimInv, Claims, Claimed
  <2>3. OpInv'
    BY <1>1, <1>5 DEF ApprovalInv, OpInv
  <2>4. SingleUse'
    BY <1>1, <1>4 DEF ApprovalInv, CSTypeOK, SingleUse
  <2> QED
    BY <2>1, <2>2, <2>3, <2>4
<1>8. PeopleInv'
  BY <1>1, <1>2, <1>4 DEF ApprovalInv, CSTypeOK, PeopleInv, CopyInv, SamePeople
<1>9. CopyInv'
  BY <1>1, <1>2, <1>5 DEF ApprovalInv, CopyInv, SamePeople, NoView
<1>10. Ledger!Use(c, o) \/ UNCHANGED Ledger!ledger
  <2>1. cset[c].approver # None
    BY <1>1 DEF ApprovalInv, CopyInv, SamePeople
  <2>2. CASE pushed[c] = {}
    BY <1>1, <1>2, <1>4, <2>1, <2>2 DEF Ledger!Use
  <2>3. CASE pushed[c] # {}
    <3>1. pushed' = pushed
      BY <1>1, <1>3, <1>4, <2>3 DEF ApprovalInv, CSTypeOK
    <3> QED
      BY <1>2, <3>1 DEF Ledger!ledger
  <2> QED
    BY <2>2, <2>3
<1> QED
  BY <1>1, <1>6, <1>7, <1>8, <1>9, <1>10 DEF ApprovalInv, StepOK, Ledger!Next

\* A new call copies an approved plan and claims nothing.
LEMMA CallStepPreserves ==
    ASSUME ApprovalInv, NEW a \in Appliers, NEW c \in ChangeSetIds, ApplyCall(a, c)
    PROVE  StepOK
<1>1. UNCHANGED <<policy, cset, lapsed, waiving, view, pushed>>
  BY DEF ApplyCall, planVars, vars
<1>2. /\ appl' \in [Appliers -> ApplyLocals]
      /\ appl'[a].pc \in {"apply_expire", "apply_guard"}
      /\ appl'[a].cs = c /\ appl'[a].cset = cset[c]
      /\ \A b \in Appliers \ {a} : appl'[b] = appl[b]
  <2> DEFINE new(pc) == [IdleApply EXCEPT !.pc = pc, !.cs = c, !.cset = cset[c],
                                          !.policy = policy]
  <2>1. \A pc \in {"apply_expire", "apply_guard"} :
           /\ new(pc) \in ApplyLocals
           /\ new(pc).pc = pc /\ new(pc).cs = c /\ new(pc).cset = cset[c]
    BY FreshTypes DEF ApprovalInv, CSTypeOK, ApplyLocals, ApplyPcs, IdleApply
  <2>2. \E pc \in {"apply_expire", "apply_guard"} : appl' = [appl EXCEPT ![a] = new(pc)]
    BY DEF ApplyCall
  <2> HIDE DEF new
  <2> QED
    BY <2>1, <2>2 DEF ApprovalInv, CSTypeOK
<1>3. policy' \in Policies /\ CSTypeOK'
  BY <1>1, <1>2 DEF ApprovalInv, CSTypeOK
<1>4. UnspentInv' /\ ClaimInv' /\ OpInv' /\ SingleUse'
  BY <1>1, <1>2 DEF ApprovalInv, UnspentInv, ClaimInv, OpInv, SingleUse, Claims, Claimed,
                    ApplyGuarded
<1>5. PeopleInv'
  BY <1>1 DEF ApprovalInv, PeopleInv
<1>6. CopyInv'
  BY <1>1, <1>2 DEF ApprovalInv, CopyInv, SamePeople, NoView, ApplyCall, Applicable
<1> QED
  BY <1>1, <1>3, <1>4, <1>5, <1>6 DEF ApprovalInv, StepOK, Ledger!ledger

\* Every step of an apply call preserves the invariant.
LEMMA ApplyPreserves ==
    ASSUME ApprovalInv, NEW a \in Appliers, ApplyStep(a)
    PROVE  StepOK
BY EarlySteps, LateSteps, SettleSteps, LinkStep, ClaimStep, PushStep DEF ApplyStep

-----------------------------------------------------------------------------
(* Proposals, approvals and status calls.                                  *)

\* A proposal fills a fresh record and is a Propose step.
LEMMA CreatePreserves ==
    ASSUME ApprovalInv, NEW c \in ChangeSetIds, NEW p \in Principals, NEW plan \in Plans,
           Create(c, p, plan)
    PROVE  StepOK
<1> DEFINE new == [FreshChangeSet EXCEPT !.state = "Planned", !.owner = p,
                                         !.base = Fingerprint, !.actions = plan]
<1>1. /\ new \in ChangeSetRecords
      /\ new.state = "Planned" /\ new.owner = p /\ new.approver = None
  BY DEF FreshChangeSet, ChangeSetRecords, ChangeSetStates, Fingerprint
<1>2. /\ cset[c].state = "Fresh"
      /\ cset' = [cset EXCEPT ![c] = new]
      /\ waiving' \in {waiving, waiving \union {c}}
      /\ UNCHANGED <<policy, lapsed, view, appl, pushed>>
  BY DEF Create, vars
<1> HIDE DEF new
<1>3. p # None
  BY PrincipalsAssumption
<1>4. policy' \in Policies /\ CSTypeOK'
  BY <1>1, <1>2 DEF ApprovalInv, CSTypeOK
<1>5. UnspentInv' /\ ClaimInv' /\ OpInv' /\ SingleUse'
  BY <1>1, <1>2
     DEF ApprovalInv, CSTypeOK, UnspentInv, ClaimInv, OpInv, SingleUse, Claims
<1>6. PeopleInv'
  BY <1>1, <1>2, <1>3 DEF ApprovalInv, CSTypeOK, PeopleInv
<1>7. CopyInv'
  BY <1>1, <1>2 DEF ApprovalInv, CSTypeOK, CopyInv, PeopleInv, SamePeople, NoView
<1>8. Ledger!Propose(c, p)
  BY <1>1, <1>2 DEF ApprovalInv, CSTypeOK, PeopleInv, Ledger!Propose
<1> QED
  BY <1>4, <1>5, <1>6, <1>7, <1>8 DEF ApprovalInv, StepOK, Ledger!Next

\* An approval is a Grant step by a second human.
LEMMA ApprovePreserves ==
    ASSUME ApprovalInv, NEW c \in ChangeSetIds, NEW p \in Principals, Approve(c, p)
    PROVE  StepOK
<1> DEFINE new == [cset[c] EXCEPT !.state = "Approved", !.approver = p]
<1>1. cset[c] \in ChangeSetRecords
  BY DEF ApprovalInv, CSTypeOK
<1>2. /\ new \in ChangeSetRecords
      /\ new.state = "Approved" /\ new.owner = cset[c].owner /\ new.approver = p
  BY <1>1 DEF ChangeSetRecords, ChangeSetStates
<1>3. /\ cset[c].state = "Planned"
      /\ c \notin lapsed
      /\ p \in Humans /\ p # cset[c].owner
      /\ cset' = [cset EXCEPT ![c] = new]
      /\ UNCHANGED <<policy, lapsed, waiving, view, appl, pushed>>
  BY <1>1 DEF Approve, vars, ChangeSetRecords
<1> HIDE DEF new
<1>4. p # None
  BY PrincipalsAssumption
<1>5. policy' \in Policies /\ CSTypeOK'
  BY <1>2, <1>3 DEF ApprovalInv, CSTypeOK
<1>6. UnspentInv' /\ ClaimInv' /\ OpInv' /\ SingleUse'
  BY <1>2, <1>3
     DEF ApprovalInv, CSTypeOK, UnspentInv, ClaimInv, OpInv, SingleUse, Claims
<1>7. PeopleInv'
  BY <1>2, <1>3, <1>4 DEF ApprovalInv, CSTypeOK, PeopleInv
<1>8. CopyInv'
  BY <1>2, <1>3 DEF ApprovalInv, CSTypeOK, CopyInv, PeopleInv, SamePeople, NoView
<1>9. Ledger!Grant(c, p)
  BY <1>2, <1>3 DEF ApprovalInv, CSTypeOK, PeopleInv, Ledger!Grant
<1> QED
  BY <1>3, <1>5, <1>6, <1>7, <1>8, <1>9 DEF ApprovalInv, StepOK, Ledger!Next

\* The waiver approves without an approver and leaves the ledger alone.
LEMMA WaivePreserves ==
    ASSUME ApprovalInv, NEW c \in ChangeSetIds, Waive(c)
    PROVE  StepOK
<1> DEFINE new == [cset[c] EXCEPT !.state = "Approved", !.waived = TRUE]
<1>1. cset[c] \in ChangeSetRecords
  BY DEF ApprovalInv, CSTypeOK
<1>2. /\ new \in ChangeSetRecords
      /\ new.state = "Approved" /\ new.owner = cset[c].owner
      /\ new.approver = cset[c].approver
  BY <1>1 DEF ChangeSetRecords, ChangeSetStates
<1>3. /\ \/ cset' = cset
         \/ cset[c].state = "Planned" /\ cset' = [cset EXCEPT ![c] = new]
      /\ waiving' \subseteq waiving
      /\ UNCHANGED <<policy, lapsed, view, appl, pushed>>
  BY <1>1 DEF Waive, vars, ChangeSetRecords
<1> HIDE DEF new
<1>4. policy' \in Policies /\ CSTypeOK'
  BY <1>2, <1>3 DEF ApprovalInv, CSTypeOK
<1>5. UnspentInv' /\ ClaimInv' /\ OpInv' /\ SingleUse'
  BY <1>2, <1>3
     DEF ApprovalInv, CSTypeOK, UnspentInv, ClaimInv, OpInv, SingleUse, Claims
<1>6. PeopleInv'
  BY <1>2, <1>3 DEF ApprovalInv, CSTypeOK, PeopleInv
<1>7. CopyInv'
  BY <1>2, <1>3 DEF ApprovalInv, CSTypeOK, CopyInv, PeopleInv, SamePeople, NoView
<1>8. UNCHANGED Ledger!ledger
  BY <1>2, <1>3 DEF ApprovalInv, CSTypeOK, Ledger!ledger
<1> QED
  BY <1>4, <1>5, <1>6, <1>7, <1>8 DEF ApprovalInv, StepOK

\* Time passing, and a status call that copies a lapsed plan.
LEMMA LapsePreserves ==
    ASSUME ApprovalInv, NEW c \in ChangeSetIds,
           Lapse(c) \/ \E v \in Viewers : StatusRead(v, c)
    PROVE  StepOK
<1>1. UNCHANGED <<policy, cset, waiving, appl, pushed>>
  BY DEF Lapse, StatusRead, vars
<1>2. CASE Lapse(c)
  <2>1. /\ cset[c].state # "Fresh"
        /\ lapsed' = lapsed \union {c}
        /\ UNCHANGED view
    BY <1>2 DEF Lapse
  <2> QED
    BY <1>1, <2>1 DEF ApprovalInv, CSTypeOK, UnspentInv, ClaimInv, OpInv, SingleUse,
                      PeopleInv, CopyInv, Claims, SamePeople, NoView, StepOK, Ledger!ledger
<1>3. ASSUME NEW v \in Viewers, StatusRead(v, c) PROVE StepOK
  <2> DEFINE copy == [cset[c] EXCEPT !.state = "Expired"]
             new == [cs |-> c, cset |-> copy]
  <2>1. cset[c] \in ChangeSetRecords
    BY DEF ApprovalInv, CSTypeOK
  <2>2. /\ copy \in ChangeSetRecords
        /\ copy.state = "Expired" /\ copy.owner = cset[c].owner
        /\ copy.approver = cset[c].approver
    BY <2>1 DEF ChangeSetRecords, ChangeSetStates
  <2>3. c \in lapsed /\ view' = [view EXCEPT ![v] = new] /\ UNCHANGED lapsed
    BY <1>3 DEF StatusRead
  <2> HIDE DEF copy
  <2>4. new \in [cs : ChangeSetIds \union {None}, cset : ChangeSetRecords]
    BY <2>2
  <2>5. new.cs = c /\ new.cset = copy
    OBVIOUS
  <2> HIDE DEF new
  <2>6. policy' \in Policies /\ CSTypeOK'
    BY <1>1, <2>3, <2>4 DEF ApprovalInv, CSTypeOK
  <2>7. c # None
    BY PoliciesAssumption
  <2>8. CopyInv'
    <3>1. view'[v] = new /\ \A u \in Viewers \ {v} : view'[u] = view[u]
      BY <2>3 DEF ApprovalInv, CSTypeOK
    <3>2. \A u \in Viewers : view'[u] # NoView => view'[u].cs # None
      BY <2>5, <2>7, <3>1 DEF ApprovalInv, CopyInv
    <3>3. \A u \in Viewers : view'[u].cs # None =>
             /\ view'[u].cset.state = "Expired"
             /\ view'[u].cs \in lapsed
             /\ SamePeople(view'[u].cset, view'[u].cs)
      BY <2>2, <2>3, <2>5, <3>1 DEF ApprovalInv, CopyInv, SamePeople
    <3> QED
      BY <1>1, <2>3, <3>2, <3>3 DEF ApprovalInv, CopyInv, SamePeople, NoView
  <2>9. UnspentInv' /\ ClaimInv' /\ OpInv' /\ SingleUse' /\ PeopleInv'
    BY <1>1, <2>3 DEF ApprovalInv, UnspentInv, ClaimInv, OpInv, SingleUse, PeopleInv, Claims
  <2>10. UNCHANGED Ledger!ledger
    BY <1>1 DEF Ledger!ledger
  <2> QED
    BY <2>6, <2>8, <2>9, <2>10 DEF ApprovalInv, StepOK
<1> QED
  BY <1>2, <1>3

\* A status call writes its copy back, whatever has happened since.
LEMMA StatusWritePreserves ==
    ASSUME ApprovalInv, NEW v \in Viewers, StatusWrite(v)
    PROVE  StepOK
<1>1. /\ view[v].cs \in lapsed /\ view[v].cs \in ChangeSetIds
      /\ view[v].cset \in ChangeSetRecords
      /\ view[v].cset.state = "Expired"
      /\ SamePeople(view[v].cset, view[v].cs)
  <2>1. view[v] # NoView
    BY DEF StatusWrite
  <2>2. view[v].cs # None
    BY <2>1 DEF ApprovalInv, CopyInv
  <2> QED
    BY <2>2 DEF ApprovalInv, CSTypeOK, CopyInv
<1>2. CsetStep
  <2>1. \E saved \in BOOLEAN : UpdateChangeSet(view[v].cs, view[v].cset, saved)
    BY SavesAreBoolean DEF StatusWrite
  <2>2. cset[view[v].cs].state # "Fresh"
    BY <1>1 DEF ApprovalInv, PeopleInv
  <2> QED
    BY <1>1, <2>1, <2>2, UpdateMovesForward DEF Unspent
<1>3. view' = [view EXCEPT ![v] = NoView] /\ UNCHANGED <<policy, lapsed, waiving, appl, pushed>>
  BY DEF StatusWrite, vars
<1>4. policy' \in Policies /\ CSTypeOK'
  BY <1>2, <1>3, FreshTypes DEF ApprovalInv, CSTypeOK, CsetStep
<1>5. UnspentInv' /\ ClaimInv' /\ OpInv' /\ SingleUse'
  <2>1. UnspentInv'
    BY <1>2, <1>3 DEF ApprovalInv, UnspentInv, Claims, CsetStep, Unspent
  <2>2. ClaimInv' /\ OpInv' /\ SingleUse'
    BY <1>3 DEF ApprovalInv, ClaimInv, OpInv, SingleUse, Claims
  <2> QED
    BY <2>1, <2>2
<1>6. PeopleInv'
  BY <1>2, <1>3 DEF ApprovalInv, PeopleInv, CsetStep, Unspent
<1>7. CopyInv'
  BY <1>2, <1>3 DEF ApprovalInv, CSTypeOK, CopyInv, CsetStep, SamePeople, NoView
<1> QED
  BY <1>2, <1>3, <1>4, <1>5, <1>6, <1>7, SameLedger DEF ApprovalInv, StepOK

-----------------------------------------------------------------------------
(* The rest of the system.                                                 *)

\* Only a reload changes the policy, to another policy of the inventory.
LEMMA PolicyType ==
    ASSUME policy \in Policies, Serve
    PROVE  policy' \in Policies
<1>1. ASSUME NEW t \in Calls, NewCall(t) PROVE UNCHANGED policy
  BY <1>1 DEF NewCall, StageCall, ValidateCall, CommitCall, DiscardCall
<1>2. ASSUME NEW t \in Calls, StageStep(t) PROVE UNCHANGED policy
  BY <1>2 DEF StageStep, StageInsert, StageLock, StageFingerprint, StageClean, StagePost,
              StageAfter, StageUnlock, StageRemove
<1>3. ASSUME NEW t \in Calls, ValidateStep(t) \/ CommitStep(t) PROVE UNCHANGED policy
  BY <1>3 DEF ValidateStep, ValidateGuard, GuardAndCompare, ValidatePost, ValidatePoll,
              CommitStep, CommitCompare, CommitReturn, CommitMark
<1>4. ASSUME NEW t \in Calls, DiscardStep(t) PROVE UNCHANGED policy
  BY <1>4 DEF DiscardStep, DiscardGuard, GuardAndCompare, DiscardRevert,
              DiscardFingerprint, DiscardUnlock, DiscardSave
<1>5. ASSUME NEW w \in Workers, WorkerStep(w) PROVE UNCHANGED policy
  BY <1>5 DEF WorkerStep, WorkerGuard, WorkerPost, WorkerJob, WorkerPoll, WorkerAfter,
              WorkerUnlock, WorkerReceipt
<1>6. ASSUME Environment PROVE policy' \in Policies
  BY <1>6 DEF Environment, Reload
<1> QED
  BY <1>1, <1>2, <1>3, <1>4, <1>5, <1>6 DEF Serve, CallStep

\* Steps of the candidate lifecycle and stuttering leave the layer alone.
LEMMA ServePreserves ==
    ASSUME ApprovalInv, policy' \in Policies, UNCHANGED csVars
    PROVE  StepOK
<1>1. UNCHANGED <<cset, lapsed, waiving, view, appl, pushed>>
  BY DEF csVars
<1>2. CSTypeOK' /\ SingleUse' /\ UnspentInv'
  BY <1>1 DEF ApprovalInv, CSTypeOK, SingleUse, UnspentInv, Claims
<1>3. ClaimInv' /\ OpInv' /\ PeopleInv' /\ CopyInv'
  BY <1>1 DEF ApprovalInv, ClaimInv, OpInv, PeopleInv, CopyInv, Claims, SamePeople, NoView
<1>4. UNCHANGED Ledger!ledger
  BY <1>1 DEF Ledger!ledger
<1> QED
  BY <1>2, <1>3, <1>4 DEF ApprovalInv, StepOK

\* A restart forgets every call and copy, and keeps the store.
LEMMA ForgettingPreserves ==
    ASSUME ApprovalInv, CSRestart
    PROVE  StepOK
<1>1. /\ waiving' = {}
      /\ view' = [v \in Viewers |-> NoView]
      /\ appl' = [a \in Appliers |-> IdleApply]
      /\ UNCHANGED <<policy, cset, lapsed, pushed>>
  BY DEF CSRestart, Restart
<1>2. policy' \in Policies /\ CSTypeOK'
  BY <1>1, FreshTypes DEF ApprovalInv, CSTypeOK
<1>3. /\ \A a \in Appliers : appl'[a].pc = "idle"
      /\ \A v \in Viewers : view'[v] = NoView /\ view'[v].cs = None
  BY <1>1 DEF IdleApply, NoView
<1>4. UnspentInv' /\ ClaimInv' /\ OpInv'
  BY <1>1, <1>3 DEF ApprovalInv, UnspentInv, ClaimInv, OpInv, Claims, Claimed, ApplyGuarded
<1>5. PeopleInv' /\ SingleUse'
  BY <1>1 DEF ApprovalInv, PeopleInv, SingleUse
<1>6. CopyInv'
  BY <1>3 DEF CopyInv, NoView
<1>7. UNCHANGED Ledger!ledger
  BY <1>1 DEF Ledger!ledger
<1> QED
  BY <1>2, <1>4, <1>5, <1>6, <1>7 DEF ApprovalInv, StepOK

\* Every step of the system preserves the invariant and is a ledger step.
LEMMA ApprovalNext ==
    ASSUME ApprovalInv, [CSNext]_allVars
    PROVE  StepOK
<1>1. CASE Serve /\ UNCHANGED csVars
  BY <1>1, PolicyType, ServePreserves DEF ApprovalInv
<1>2. CASE PlanStep
  BY <1>2, CreatePreserves, WaivePreserves, ApprovePreserves, LapsePreserves DEF PlanStep
<1>3. CASE \E v \in Viewers : StatusWrite(v)
  BY <1>3, StatusWritePreserves
<1>4. CASE \E a \in Appliers : (\E c \in ChangeSetIds : ApplyCall(a, c)) \/ ApplyStep(a)
  BY <1>4, CallStepPreserves, ApplyPreserves
<1>5. CASE CSRestart
  BY <1>5, ForgettingPreserves
<1>6. CASE \E o \in Ops : CSResolve(o)
  <2>1. UNCHANGED <<policy, csVars>>
    BY <1>6 DEF CSResolve, Resolve
  <2> QED
    BY <2>1, ServePreserves DEF ApprovalInv
<1>7. CASE UNCHANGED allVars
  <2>1. UNCHANGED policy /\ UNCHANGED csVars
    BY <1>7 DEF allVars, vars
  <2> QED
    BY <2>1, ServePreserves DEF ApprovalInv
<1> QED
  BY <1>1, <1>2, <1>3, <1>4, <1>5, <1>6, <1>7 DEF CSNext

\* The invariant holds of an empty store.
LEMMA ApprovalInit ==
    ASSUME CSInit
    PROVE  ApprovalInv /\ Ledger!Init
<1>1. /\ \A c \in ChangeSetIds : /\ cset[c].state = "Fresh"
                                 /\ cset[c].owner = None /\ cset[c].approver = None
      /\ \A a \in Appliers : appl[a].pc = "idle"
      /\ \A v \in Viewers : view[v] = NoView /\ view[v].cs = None
  BY DEF CSInit, FreshChangeSet, IdleApply, NoView
<1>2. policy \in Policies /\ lapsed = {} /\ pushed = [c \in ChangeSetIds |-> {}]
  BY DEF CSInit, Init
<1>3. CSTypeOK
  BY FreshTypes DEF CSInit, CSTypeOK
<1>4. SingleUse /\ UnspentInv /\ ClaimInv /\ OpInv
  BY <1>1, <1>2 DEF SingleUse, UnspentInv, ClaimInv, OpInv, Claims, Claimed, ApplyGuarded
<1>5. PeopleInv /\ CopyInv
  BY <1>1, <1>2 DEF PeopleInv, CopyInv, NoView
<1>6. Ledger!Init
  BY <1>1, <1>2 DEF Ledger!Init
<1> QED
  BY <1>2, <1>3, <1>4, <1>5, <1>6 DEF ApprovalInv

-----------------------------------------------------------------------------
(* Theorems.                                                               *)

\* The inductive invariant holds in every reachable state, for any number of
\* concurrent applies, status calls, principals, plans and operations.
THEOREM ApprovalInvariant == CSSpec => []ApprovalInv
<1>1. CSInit => ApprovalInv
  BY ApprovalInit
<1>2. ApprovalInv /\ [CSNext]_allVars => ApprovalInv'
  BY ApprovalNext DEF StepOK
<1> QED
  BY <1>1, <1>2, PTL DEF CSSpec

\* Type correctness of the change-set layer.
THEOREM ChangeSetTypes == CSSpec => []CSTypeOK
<1>1. ApprovalInv => CSTypeOK
  BY DEF ApprovalInv
<1> QED
  BY <1>1, ApprovalInvariant, PTL

\* An approval is used by at most one operation: concurrent applies, expiry
\* write-backs, failed saves and restarts of apply_change_set cannot reuse it.
THEOREM ApprovalUsedOnce == CSSpec => []SingleUse
<1>1. ApprovalInv => SingleUse
  BY DEF ApprovalInv
<1> QED
  BY <1>1, ApprovalInvariant, PTL

\* apply_change_set sends actions only of plans that a human other than the
\* owner approved, and the stored record keeps naming that approver.
THEOREM SentPlansWereApproved == CSSpec => []PushedWasApproved
<1>1. ApprovalInv => PushedWasApproved
  BY DEF ApprovalInv, PeopleInv, PushedWasApproved
<1> QED
  BY <1>1, ApprovalInvariant, PTL

\* create, approve and apply implement the ledger: every step is a Propose, a
\* Grant or a Use, or leaves the ledger alone.
THEOREM ImplementsLedger == CSSpec => LedgerSpec
<1>1. CSInit => Ledger!Init
  BY ApprovalInit
<1>2. ApprovalInv /\ [CSNext]_allVars => [Ledger!Next]_(Ledger!ledger)
  BY ApprovalNext DEF StepOK
<1> QED
  BY <1>1, <1>2, ApprovalInvariant, PTL DEF CSSpec, LedgerSpec, Ledger!Spec
=============================================================================
