---------------------------- MODULE LifecycleProofs ----------------------------
(***************************************************************************)
(* Proofs about CandidateLifecycle for every number of clients, workers,   *)
(* operations, edits and policies, and every combination of faults.        *)
(***************************************************************************)
EXTENDS CandidateLifecycle, TLAPS

Tasked == Calls \union Workers

\* A call under way has an operation and the policy it was started under; once the
\* record is inserted, it is an operation of that policy.
TaskOK(t) ==
    /\ task[t].pc # "idle" =>
        /\ task[t].op \in Ops
        /\ task[t].policy \in Policies
        /\ task[t].rec.policy = task[t].policy
        /\ task[t].rec.state \in Lifecycle
    /\ task[t].pc \notin {"idle", "stage_guard"} =>
        /\ rec[task[t].op].policy = task[t].policy
        /\ rec[task[t].op].state # "Fresh"
    /\ task[t].pc = "stage_guard" => task[t].rec.state = "Staging"

TasksOK == \A t \in Tasked : TaskOK(t)

\* Where evidence is recorded, a job was started for an operation whose apply intent
\* had been written before.
WorkerOK(w) ==
    /\ Recorder /\ task[w].pc = "worker_post" => "intent" \in evidence[task[w].op]
    /\ task[w].pc = "worker_after" => job[w].status \in {"ok", "failed"}
    /\ job[w].status # "none" => job[w].op \in Ops

WorkersOK == \A w \in Workers : WorkerOK(w)

LifecycleInv ==
    /\ TypeOK
    /\ TasksOK
    /\ WorkersOK
    /\ GuardDiscipline
    /\ IntentBeforeCommit

-----------------------------------------------------------------------------
(* What a step of one task may do to its locals, the records and the mutex. *)

PcsOf(t) == {pc \in CallPcs : t \in Calls} \union {pc \in WorkerPcs : t \in Workers}

\* Task t goes on with its operation under its policy, or ends.
Advances(t) ==
    /\ task' \in [Tasked -> Locals]
    /\ \A u \in Tasked \ {t} : task'[u] = task[u]
    /\ task'[t].pc \in (PcsOf(t) \union {"idle"}) \ {"stage_guard"}
    /\ task'[t].pc # "idle" =>
        /\ task'[t].op = task[t].op
        /\ task'[t].policy = task[t].policy
        /\ task'[t].rec.policy = task[t].policy
        /\ task'[t].rec.state \in Lifecycle

\* Task t writes the record of its own operation, or none.
Writes(t) ==
    \/ UNCHANGED rec /\ task[t].pc # "stage_guard"
    \/ UNCHANGED rec /\ task'[t].pc = "idle"
    \/ /\ task[t].pc = "stage_guard" => rec[task[t].op].state = "Fresh"
       /\ \E r \in Records :
            /\ r.policy = task[t].policy /\ r.state # "Fresh"
            /\ rec' = [rec EXCEPT ![task[t].op] = r]

\* Task t takes, keeps or drops the mutex, as its next program counter demands.
GuardMoves(t) ==
    /\ guard' = guard \/ (guard \in {None, t} /\ guard' \in {None, t})
    /\ guard' = t <=> task'[t].pc \in GuardedPcs

\* The types of the variables, one by one.
LEMMA Types ==
    ASSUME LifecycleInv
    PROVE  /\ candidate \in Config /\ running \in Config /\ lock \in BOOLEAN
           /\ job \in [Workers -> Jobs] /\ rec \in [Ops -> Records]
           /\ guard \in Tasks \union {None} /\ task \in [Tasked -> Locals]
           /\ policy \in Policies /\ evidence \in [Ops -> SUBSET {"intent", "ok", "failed"}]
           /\ validated \in [Ops -> SUBSET (SUBSET Edits)]
BY Zenon DEF LifecycleInv, TypeOK, DeviceTypeOK, CoordinatorTypeOK, Tasked

\* The operation, policy and record of a task under way.
LEMMA Underway ==
    ASSUME LifecycleInv, NEW t \in Tasked, task[t].pc # "idle"
    PROVE  /\ task[t] \in Locals /\ task[t].op \in Ops /\ task[t].policy \in Policies
           /\ task[t].rec \in Records /\ task[t].rec.policy = task[t].policy
           /\ task[t].rec.state \in Lifecycle /\ t # None
           /\ task[t].pc # "stage_guard" =>
                rec[task[t].op].policy = task[t].policy /\ rec[task[t].op].state # "Fresh"
<1>1. TaskOK(t) /\ task[t] \in Locals
  BY Types DEF LifecycleInv, TasksOK
<1>2. t # None
  BY TasksAssumption DEF Tasked
<1>3. task[t].rec \in Records
  BY <1>1 DEF Locals
<1> QED
  BY <1>1, <1>2, <1>3, Zenon DEF TaskOK

\* Going to another place.
LEMMA GotoAdvances ==
    ASSUME LifecycleInv, NEW t \in Tasked, task[t].pc # "idle",
           NEW pc \in PcsOf(t) \ {"stage_guard"}, Goto(t, pc)
    PROVE  /\ Advances(t) /\ task'[t].pc = pc /\ task'[t].op = task[t].op
           /\ task'[t].rec = task[t].rec /\ task'[t].seen = task[t].seen
           /\ task'[t].verdict = task[t].verdict
<1>1. task \in [Tasked -> Locals]
  BY Types
<1> DEFINE l == [task[t] EXCEPT !.pc = pc]
<1>2. pc \in CallPcs \union WorkerPcs
  BY DEF PcsOf
<1>3. /\ l \in Locals /\ l.pc = pc /\ l.op = task[t].op /\ l.policy = task[t].policy
      /\ l.rec = task[t].rec /\ l.seen = task[t].seen /\ l.verdict = task[t].verdict
  BY <1>1, <1>2 DEF Locals
<1>4. task' = [task EXCEPT ![t] = l]
  BY DEF Goto
<1> HIDE DEF l
<1>5. task' \in [Tasked -> Locals] /\ task'[t] = l /\ \A u \in Tasked \ {t} : task'[u] = task[u]
  BY <1>1, <1>3, <1>4
<1>6. task[t].rec.policy = task[t].policy /\ task[t].rec.state \in Lifecycle
  BY Underway
<1>7. Advances(t)
  BY <1>3, <1>5, <1>6 DEF Advances
<1> QED
  BY <1>3, <1>5, <1>7

\* Going to another place with another record.
LEMMA KeepAdvances ==
    ASSUME LifecycleInv, NEW t \in Tasked, task[t].pc # "idle",
           NEW pc \in PcsOf(t) \ {"stage_guard"}, NEW r \in Records, Keep(t, pc, r),
           r.policy = task[t].policy, r.state \in Lifecycle
    PROVE  /\ Advances(t) /\ task'[t].pc = pc /\ task'[t].op = task[t].op
           /\ task'[t].rec = r /\ task'[t].seen = task[t].seen
           /\ task'[t].verdict = task[t].verdict
<1>1. task \in [Tasked -> Locals]
  BY Types
<1> DEFINE l == [task[t] EXCEPT !.pc = pc, !.rec = r]
<1>2. pc \in CallPcs \union WorkerPcs
  BY DEF PcsOf
<1>3. /\ l \in Locals /\ l.pc = pc /\ l.op = task[t].op /\ l.policy = task[t].policy
      /\ l.rec = r /\ l.seen = task[t].seen /\ l.verdict = task[t].verdict
  BY <1>1, <1>2 DEF Locals
<1>4. task' = [task EXCEPT ![t] = l]
  BY DEF Keep
<1> HIDE DEF l
<1>5. task' \in [Tasked -> Locals] /\ task'[t] = l /\ \A u \in Tasked \ {t} : task'[u] = task[u]
  BY <1>1, <1>3, <1>4
<1>6. Advances(t)
  BY <1>3, <1>5 DEF Advances
<1> QED
  BY <1>3, <1>5, <1>6

\* The locals of a task that does nothing.
LEMMA IdleType == Idle \in Locals /\ Idle.pc = "idle"
<1>1. FreshRecord \in Records
  BY DEF FreshRecord, Records, Unused
<1> QED
  BY <1>1 DEF Idle, Locals

\* Returning.
LEMMA FinishAdvances ==
    ASSUME LifecycleInv, NEW t \in Tasked, Finish(t)
    PROVE  Advances(t) /\ task'[t] = Idle /\ task'[t].pc = "idle"
<1>1. task \in [Tasked -> Locals]
  BY Types
<1>3. Idle \in Locals /\ Idle.pc = "idle"
  BY IdleType
<1>4. task' \in [Tasked -> Locals] /\ task'[t] = Idle /\ \A u \in Tasked \ {t} : task'[u] = task[u]
  BY <1>1, <1>3 DEF Finish
<1> QED
  BY <1>3, <1>4 DEF Advances

\* The mutex through a step that neither enters nor leaves the guarded part.
LEMMA GuardKept ==
    ASSUME LifecycleInv, NEW t \in Tasked, UNCHANGED guard,
           task[t].pc \in GuardedPcs <=> task'[t].pc \in GuardedPcs
    PROVE  GuardMoves(t)
BY Zenon DEF LifecycleInv, GuardDiscipline, GuardMoves, Tasked

\* The mutex through a step that enters the guarded part.
LEMMA GuardTaken ==
    ASSUME NEW t, Acquire(t), task'[t].pc \in GuardedPcs
    PROVE  GuardMoves(t)
BY DEF Acquire, GuardMoves

\* The mutex through a step that leaves the guarded part, or ends outside it.
LEMMA GuardReleased ==
    ASSUME NEW t \in Tasked, Release(t), task'[t].pc \notin GuardedPcs
    PROVE  GuardMoves(t)
<1>1. t # None
  BY TasksAssumption DEF Tasked
<1> QED
  BY <1>1 DEF Release, GuardMoves

\* A record that is written back.
LEMMA UpdateWrites ==
    ASSUME NEW t, task[t].pc # "stage_guard", NEW r \in Records, NEW saved,
           Update(task[t].op, r, saved), r.policy = task[t].policy, r.state # "Fresh"
    PROVE  Writes(t)
<1>1. CASE saved
  BY <1>1, Zenon DEF Writes, Update
<1>2. CASE ~saved
  BY <1>2, Zenon DEF Writes, Update
<1> QED
  BY <1>1, <1>2

\* What is shown of every step of a task: the invariant is kept, and the task writes its
\* own record and moves its own mutex only.
StepKept(t) == LifecycleInv' /\ Writes(t) /\ GuardMoves(t)

\* Every step of a task keeps the invariant, if it advances its task and its record as
\* it may, follows the mutex, starts a job only from "worker_post" and goes there only
\* with an apply intent, where there is a recorder.
LEMMA StepPreserves ==
    ASSUME LifecycleInv, NEW t \in Tasked, task[t].pc # "idle",
           Advances(t), Writes(t), GuardMoves(t),
           candidate' \in Config, running' \in Config, lock' \in BOOLEAN,
           job' \in [Workers -> Jobs], UNCHANGED policy,
           \A w \in Workers :
              job'[w] = job[w] \/ (w = t /\ task[t].pc = "worker_post"
                                   /\ job'[w].op = task[t].op /\ task'[t].pc # "worker_after"),
           evidence' \in [Ops -> SUBSET {"intent", "ok", "failed"}],
           \A o \in Ops : evidence[o] \subseteq evidence'[o],
           validated' \in [Ops -> SUBSET (SUBSET Edits)],
           Recorder /\ task'[t].pc = "worker_post" => "intent" \in evidence'[task[t].op],
           task'[t].pc = "worker_after" => job[t].status \in {"ok", "failed"}
    PROVE  LifecycleInv'
<1>1. /\ task[t].op \in Ops /\ t # None /\ rec \in [Ops -> Records]
      /\ task[t].pc # "stage_guard" =>
            rec[task[t].op].policy = task[t].policy /\ rec[task[t].op].state # "Fresh"
  BY Types, Underway
<1>2. rec' \in [Ops -> Records] /\ \A o \in Ops : o # task[t].op => rec'[o] = rec[o]
  BY <1>1 DEF Writes
<1>3. task'[t].pc # "idle" =>
        rec'[task[t].op].policy = task[t].policy /\ rec'[task[t].op].state # "Fresh"
  BY <1>1 DEF Writes
<1>4. TypeOK'
  <2>1. \A u \in Calls : task'[u].pc \in CallPcs \union {"idle"}
    <3>1. t \in Calls => t \notin Workers
      BY TasksAssumption
    <3> QED
      BY <3>1 DEF Advances, PcsOf, Tasked, LifecycleInv, TypeOK
  <2>2. \A u \in Workers : task'[u].pc \in WorkerPcs \union {"idle"}
    <3>1. t \in Workers => t \notin Calls
      BY TasksAssumption
    <3> QED
      BY <3>1 DEF Advances, PcsOf, Tasked, LifecycleInv, TypeOK
  <2>3. guard' \in Tasks \union {None}
    BY Types DEF GuardMoves, Tasked, Tasks
  <2>4. task' \in [Calls \union Workers -> Locals] /\ policy' \in Policies
    BY Types DEF Advances, Tasked
  <2> QED
    BY <1>2, <2>1, <2>2, <2>3, <2>4, Zenon DEF TypeOK, DeviceTypeOK, CoordinatorTypeOK
<1>5. TasksOK'
  <2>1. TaskOK(t)'
    BY <1>1, <1>3, Underway DEF Advances, TaskOK
  <2>2. ASSUME NEW u \in Tasked, u # t PROVE TaskOK(u)'
    <3>1. task'[u] = task[u] /\ TaskOK(u)
      BY <2>2 DEF Advances, LifecycleInv, TasksOK
    <3>2. CASE rec' = rec
      BY <3>1, <3>2 DEF TaskOK
    <3>3. CASE rec' # rec
      <4>1. PICK r \in Records : /\ r.policy = task[t].policy /\ r.state # "Fresh"
                                 /\ rec' = [rec EXCEPT ![task[t].op] = r]
        BY <3>3 DEF Writes
      <4>2. rec'[task[t].op] = r
        BY <1>1, <4>1
      <4>3. CASE task[u].pc \in {"idle", "stage_guard"}
        BY <3>1, <4>3 DEF TaskOK
      <4>4. CASE task[u].pc \notin {"idle", "stage_guard"} /\ task[u].op = task[t].op
        <5>1. rec[task[t].op].state # "Fresh" /\ rec[task[t].op].policy = task[u].policy
          BY <3>1, <4>4 DEF TaskOK
        <5>2. task[t].policy = task[u].policy
          BY <1>1, <3>3, <5>1 DEF Writes
        <5> QED
          BY <3>1, <4>1, <4>2, <4>4, <5>2 DEF TaskOK
      <4>5. CASE task[u].pc \notin {"idle", "stage_guard"} /\ task[u].op # task[t].op
        BY <1>2, <3>1, <4>5 DEF TaskOK
      <4> QED
        BY <4>3, <4>4, <4>5
    <3> QED
      BY <3>2, <3>3
  <2> QED
    BY <2>1, <2>2 DEF TasksOK
<1>6. WorkersOK'
  <2> SUFFICES ASSUME NEW w \in Workers PROVE WorkerOK(w)'
    BY DEF WorkersOK
  <2>1. WorkerOK(w) /\ w \in Tasked
    BY DEF LifecycleInv, WorkersOK, Tasked
  <2>2. CASE w = t
    BY <1>1, <2>1, <2>2 DEF WorkerOK, Advances
  <2>3. CASE w # t
    <3>1. task'[w] = task[w] /\ job'[w] = job[w]
      BY <2>1, <2>3 DEF Advances
    <3>2. task[w].pc = "worker_post" => task[w].op \in Ops
      BY <2>1 DEF LifecycleInv, TasksOK, TaskOK
    <3> QED
      BY <2>1, <3>1, <3>2 DEF WorkerOK
  <2> QED
    BY <2>2, <2>3
<1>7. GuardDiscipline'
  <2> SUFFICES ASSUME NEW u \in Tasked PROVE task'[u].pc \in GuardedPcs <=> guard' = u
    BY DEF GuardDiscipline, Tasked
  <2>1. CASE u = t
    BY <2>1 DEF GuardMoves
  <2>2. CASE u # t
    <3>1. task'[u] = task[u] /\ (task[u].pc \in GuardedPcs <=> guard = u)
      BY <2>2 DEF Advances, LifecycleInv, GuardDiscipline, Tasked
    <3>2. u # None
      BY TasksAssumption DEF Tasked
    <3>3. guard' = u <=> guard = u
      BY <2>2, <3>2 DEF GuardMoves
    <3> QED
      BY <3>1, <3>3, Zenon
  <2> QED
    BY <2>1, <2>2
<1>8. IntentBeforeCommit'
  <2> SUFFICES ASSUME Recorder, NEW w \in Workers, job'[w].status # "none"
               PROVE  "intent" \in evidence'[job'[w].op]
    BY DEF IntentBeforeCommit
  <2>1. WorkerOK(w) /\ (job[w].status # "none" => "intent" \in evidence[job[w].op])
    BY DEF LifecycleInv, WorkersOK, IntentBeforeCommit
  <2>2. CASE job'[w] = job[w]
    BY <2>1, <2>2 DEF WorkerOK
  <2>3. CASE job'[w] # job[w]
    BY <1>1, <2>1, <2>3 DEF WorkerOK
  <2> QED
    BY <2>2, <2>3
<1> QED
  BY <1>4, <1>5, <1>6, <1>7, <1>8 DEF LifecycleInv

-----------------------------------------------------------------------------
(* The start of a call. *)

\* The process starts with no record, no task and no job.
LEMMA InitHolds == Init => LifecycleInv
<1> SUFFICES ASSUME Init PROVE LifecycleInv
  OBVIOUS
<1>1. FreshRecord \in Records
  BY DEF FreshRecord, Records, Unused
<1>2. Idle \in Locals /\ Idle.pc = "idle"
  BY IdleType
<1>3. NoJob \in Jobs /\ NoJob.status = "none"
  BY DEF NoJob, Jobs
<1>4. /\ candidate = {} /\ running = {} /\ lock = FALSE /\ job = [w \in Workers |-> NoJob]
      /\ rec = [o \in Ops |-> FreshRecord] /\ guard = None
      /\ task = [t \in Calls \union Workers |-> Idle]
      /\ policy \in Policies /\ evidence = [o \in Ops |-> {}] /\ validated = [o \in Ops |-> {}]
  BY DEF Init, DeviceInit, CoordinatorInit
<1>5. candidate \in Config /\ running \in Config /\ lock \in BOOLEAN /\ job \in [Workers -> Jobs]
  BY <1>3, <1>4 DEF Config
<1>6. rec \in [Ops -> Records] /\ guard \in Tasks \union {None}
  BY <1>1, <1>4
<1>7. /\ task \in [Calls \union Workers -> Locals]
      /\ evidence \in [Ops -> SUBSET {"intent", "ok", "failed"}]
      /\ validated \in [Ops -> SUBSET (SUBSET Edits)]
  BY <1>2, <1>4
<1>8. \A t \in Tasked : task[t] = Idle /\ task[t].pc = "idle" /\ t # None
  BY <1>2, <1>4, TasksAssumption DEF Tasked
<1>9. TypeOK
  <2>1. DeviceTypeOK /\ CoordinatorTypeOK
    BY <1>5, <1>6, Zenon DEF DeviceTypeOK, CoordinatorTypeOK
  <2>2. \A t \in Calls \union Workers : task[t].pc = "idle"
    BY <1>8 DEF Tasked
  <2> QED
    BY <1>4, <1>7, <2>1, <2>2 DEF TypeOK
<1>10. TasksOK
  BY <1>8 DEF TasksOK, TaskOK
<1>11. WorkersOK /\ IntentBeforeCommit
  BY <1>3, <1>4, <1>8 DEF WorkersOK, WorkerOK, IntentBeforeCommit, Tasked
<1>12. GuardDiscipline
  BY <1>4, <1>8 DEF GuardDiscipline, GuardedPcs, Tasked
<1> QED
  BY <1>9, <1>10, <1>11, <1>12 DEF LifecycleInv

\* A new call takes up an operation: a new one, or one whose record it has read.
LEMMA BeganPreserves ==
    ASSUME LifecycleInv, NEW t \in Calls, At(t, "idle"), NEW o \in Ops, NEW r \in Records,
           NEW pc \in {"stage_guard", "validate_guard", "commit_fp", "discard_guard"},
           Began(t, o, pc, r), r.policy = policy,
           pc = "stage_guard" => r.state = "Staging",
           pc # "stage_guard" => r = rec[o] /\ r.state \in Lifecycle,
           UNCHANGED <<deviceVars, coordinatorVars, policy, evidence, validated>>
    PROVE  LifecycleInv'
<1> DEFINE l == [Idle EXCEPT !.pc = pc, !.op = o, !.policy = policy, !.rec = r]
<1>1. UNCHANGED <<candidate, running, lock, job, rec, guard, policy, evidence, validated>>
  BY DEF deviceVars, coordinatorVars
<1>2. task \in [Tasked -> Locals] /\ policy \in Policies /\ t \in Tasked /\ t \notin Workers
  BY Types, TasksAssumption DEF Tasked
<1>3. Idle \in Locals
  BY IdleType
<1>4. /\ l \in Locals /\ l.pc = pc /\ l.op = o /\ l.policy = policy /\ l.rec = r
  <2>1. pc \in CallPcs
    BY DEF CallPcs, StagePcs
  <2> QED
    BY <1>2, <1>3, <2>1 DEF Locals
<1>5. task' = [task EXCEPT ![t] = l]
  BY DEF Began
<1> HIDE DEF l
<1>6. task' \in [Tasked -> Locals] /\ task'[t] = l /\ \A u \in Tasked \ {t} : task'[u] = task[u]
  BY <1>2, <1>4, <1>5
<1>7. TypeOK'
  <2>1. \A u \in Calls : task'[u].pc \in CallPcs \union {"idle"}
    BY <1>4, <1>6 DEF Tasked, LifecycleInv, TypeOK, CallPcs, StagePcs
  <2>2. \A u \in Workers : task'[u].pc \in WorkerPcs \union {"idle"}
    BY <1>2, <1>6 DEF Tasked, LifecycleInv, TypeOK
  <2> QED
    BY <1>1, <1>6, <2>1, <2>2, Types, Zenon
       DEF TypeOK, DeviceTypeOK, CoordinatorTypeOK, Tasked
<1>8. TasksOK'
  <2>1. TaskOK(t)'
    BY <1>1, <1>2, <1>4, <1>6 DEF TaskOK, Lifecycle
  <2>2. ASSUME NEW u \in Tasked, u # t PROVE TaskOK(u)'
    BY <1>1, <1>6, <2>2 DEF LifecycleInv, TasksOK, TaskOK
  <2> QED
    BY <2>1, <2>2 DEF TasksOK
<1>9. WorkersOK' /\ IntentBeforeCommit'
  BY <1>1, <1>2, <1>6 DEF LifecycleInv, WorkersOK, WorkerOK, IntentBeforeCommit, Tasked
<1>10. GuardDiscipline'
  <2>1. guard # t /\ pc \notin GuardedPcs
    BY DEF LifecycleInv, GuardDiscipline, At, GuardedPcs
  <2> QED
    BY <1>1, <1>4, <1>6, <2>1 DEF LifecycleInv, GuardDiscipline, Tasked
<1> QED
  BY <1>7, <1>8, <1>9, <1>10 DEF LifecycleInv

\* Calls to stage, validate, commit and discard.
LEMMA NewCallPreserves ==
    ASSUME LifecycleInv, NEW t \in Calls, NewCall(t)
    PROVE  LifecycleInv'
<1>1. PICK o \in Ops : \/ \E e \in Edits : StageCall(t, o, e)
                       \/ ValidateCall(t, o) \/ CommitCall(t, o) \/ DiscardCall(t, o)
  BY DEF NewCall
<1>2. rec[o] \in Records /\ candidate \in Config /\ policy \in Policies
  BY Types
<1>3. CASE \E e \in Edits : StageCall(t, o, e)
  <2>1. PICK e \in Edits : StageCall(t, o, e)
    BY <1>3
  <2> DEFINE r == StagingRecord(Fingerprint, policy, {e}, None)
  <2>2. r \in Records /\ r.policy = policy /\ r.state = "Staging"
    BY <1>2 DEF StagingRecord, Records, Fingerprint, Lifecycle, Unused
  <2>3. /\ At(t, "idle") /\ Began(t, o, "stage_guard", r)
        /\ UNCHANGED <<deviceVars, coordinatorVars, policy, evidence, validated>>
    BY <2>1 DEF StageCall
  <2> HIDE DEF r
  <2> QED
    BY <2>2, <2>3, BeganPreserves
<1>4. CASE ValidateCall(t, o)
  BY <1>2, <1>4, BeganPreserves DEF ValidateCall, SamePolicy, Lifecycle
<1>5. CASE CommitCall(t, o)
  BY <1>2, <1>5, BeganPreserves DEF CommitCall, SamePolicy, Lifecycle
<1>6. CASE DiscardCall(t, o)
  BY <1>2, <1>6, BeganPreserves DEF DiscardCall, DiscardAdmits, Discardable, SamePolicy, Lifecycle
<1> QED
  BY <1>1, <1>3, <1>4, <1>5, <1>6

-----------------------------------------------------------------------------
(* The steps of stage, validate and discard. *)

\* A step that starts no job and writes no evidence.
LEMMA QuietStep ==
    ASSUME LifecycleInv, NEW t \in Tasked, task[t].pc # "idle",
           Advances(t), Writes(t), GuardMoves(t),
           candidate' \in Config, lock' \in BOOLEAN,
           UNCHANGED <<running, job, policy, evidence>>,
           validated' \in [Ops -> SUBSET (SUBSET Edits)],
           task'[t].pc \notin {"worker_post", "worker_after"}
    PROVE  StepKept(t)
<1>1. /\ running' \in Config /\ job' \in [Workers -> Jobs]
      /\ evidence' \in [Ops -> SUBSET {"intent", "ok", "failed"}]
      /\ \A o \in Ops : evidence[o] \subseteq evidence'[o]
      /\ \A w \in Workers : job'[w] = job[w]
  BY Types
<1> QED
  BY <1>1, StepPreserves DEF StepKept

\* A record with another state.
LEMMA WithStateType ==
    ASSUME NEW r \in Records, NEW s \in Lifecycle
    PROVE  /\ WithState(r, s) \in Records /\ WithState(r, s).state = s
           /\ WithState(r, s).policy = r.policy /\ WithState(r, s).actions = r.actions
           /\ WithState(r, s).lock = r.lock /\ WithState(r, s).current = r.current
           /\ WithState(r, s).changeSet = r.changeSet
<1>1. s \in Unused \union Lifecycle
  OBVIOUS
<1> QED
  BY <1>1 DEF WithState, Records

\* A record with another fingerprint.
LEMMA WithCurrentType ==
    ASSUME NEW r \in Records, NEW f \in SUBSET Roots
    PROVE  LET q == [r EXCEPT !.current = f]
           IN  /\ q \in Records /\ q.current = f
               /\ q.policy = r.policy /\ q.actions = r.actions /\ q.lock = r.lock
               /\ q.changeSet = r.changeSet /\ q.state = r.state
BY DEF Records

\* A record whose lock is taken or given back.
LEMMA WithLockType ==
    ASSUME NEW r \in Records, NEW l \in BOOLEAN
    PROVE  LET q == [r EXCEPT !.lock = l]
           IN  /\ q \in Records /\ q.lock = l
               /\ q.policy = r.policy /\ q.actions = r.actions /\ q.current = r.current
               /\ q.changeSet = r.changeSet /\ q.state = r.state
BY DEF Records

\* A record whose lock is given back as it reaches another state.
LEMMA UnlockedType ==
    ASSUME NEW r \in Records, NEW s \in Lifecycle
    PROVE  LET q == [r EXCEPT !.lock = FALSE, !.state = s]
           IN  /\ q \in Records /\ q.lock = FALSE /\ q.state = s
               /\ q.policy = r.policy /\ q.actions = r.actions /\ q.current = r.current
               /\ q.changeSet = r.changeSet
<1>1. s \in Unused \union Lifecycle
  OBVIOUS
<1> QED
  BY <1>1 DEF Records

\* Where each kind of task may be.
LEMMA Places ==
    /\ \A t \in Calls : \A pc \in CallPcs : pc \in PcsOf(t)
    /\ \A w \in Workers : \A pc \in WorkerPcs : pc \in PcsOf(w)
    /\ Calls \subseteq Tasked /\ Workers \subseteq Tasked
BY DEF PcsOf, Tasked

\* stage_config inserts its record under the mutex, or returns with an error.
LEMMA StageInsertPreserves ==
    ASSUME LifecycleInv, NEW t \in Calls, StageInsert(t)
    PROVE  StepKept(t)
<1>1. /\ t \in Tasked /\ task[t].pc = "stage_guard"
      /\ UNCHANGED <<candidate, running, lock, job, policy, evidence, validated>>
  BY Places DEF StageInsert, At, deviceVars
<1>2. candidate' \in Config /\ lock' \in BOOLEAN /\ validated' \in [Ops -> SUBSET (SUBSET Edits)]
  BY <1>1, Types
<1>3. CASE Acquire(t) /\ Insert(task[t].op, task[t].rec) /\ Goto(t, "stage_lock")
  <2>1. "stage_lock" \in PcsOf(t)
    BY Places DEF CallPcs, StagePcs
  <2>2. Advances(t) /\ task'[t].pc = "stage_lock"
    BY <1>1, <1>3, <2>1, GotoAdvances
  <2>3. Writes(t)
    BY <1>1, <1>3, Underway DEF Insert, Writes, Lifecycle
  <2>4. GuardMoves(t)
    BY <1>3, <2>2, GuardTaken DEF GuardedPcs
  <2> QED
    BY <1>1, <1>2, <2>2, <2>3, <2>4, QuietStep
<1>4. CASE Finish(t) /\ UNCHANGED coordinatorVars
  <2>1. Advances(t) /\ task'[t].pc = "idle"
    BY <1>1, <1>4, FinishAdvances
  <2>2. Writes(t)
    BY <1>4, <2>1 DEF Writes, coordinatorVars
  <2>3. GuardMoves(t)
    BY <1>1, <1>4, <2>1, GuardKept DEF GuardedPcs, coordinatorVars
  <2> QED
    BY <1>1, <1>2, <2>1, <2>2, <2>3, QuietStep
<1> QED
  BY <1>3, <1>4 DEF StageInsert

\* A step that stays under the mutex and writes no record.
LEMMA GuardedStep ==
    ASSUME LifecycleInv, NEW t \in Tasked, task[t].pc \in GuardedPcs, Advances(t),
           task'[t].pc \in GuardedPcs \ {"worker_post", "worker_after"},
           candidate' \in Config, lock' \in BOOLEAN,
           UNCHANGED <<running, job, rec, guard, policy, evidence, validated>>
    PROVE  StepKept(t)
<1>1. task[t].pc # "idle" /\ task[t].pc # "stage_guard" /\ Writes(t)
  BY DEF GuardedPcs, Writes
<1>2. GuardMoves(t)
  BY GuardKept
<1>3. validated' \in [Ops -> SUBSET (SUBSET Edits)]
  BY Types
<1> QED
  BY <1>1, <1>2, <1>3, QuietStep

\* A step that drops the mutex, or had none, and returns.
LEMMA ReturnStep ==
    ASSUME LifecycleInv, NEW t \in Tasked, task[t].pc \notin {"idle", "stage_guard"},
           Finish(t), Writes(t), Release(t) \/ (task[t].pc \notin GuardedPcs /\ UNCHANGED guard),
           candidate' \in Config, lock' \in BOOLEAN,
           UNCHANGED <<running, job, policy, evidence>>,
           validated' \in [Ops -> SUBSET (SUBSET Edits)]
    PROVE  StepKept(t)
<1>1. Advances(t) /\ task'[t].pc = "idle"
  BY FinishAdvances
<1>2. GuardMoves(t)
  BY <1>1, GuardReleased, GuardKept DEF GuardedPcs
<1> QED
  BY <1>1, <1>2, QuietStep

\* The steps of stage_config that read, lock, post or unlock.
LEMMA StageMovesPreserve ==
    ASSUME LifecycleInv, NEW t \in Calls,
           \/ StageLock(t) \/ StageFingerprint(t) \/ StageClean(t) \/ StagePost(t)
           \/ StageUnlock(t)
    PROVE  StepKept(t)
<1>1. /\ t \in Tasked /\ task[t].pc \in GuardedPcs /\ task[t].pc # "idle"
      /\ UNCHANGED <<running, job, rec, guard, policy, evidence, validated>>
  BY Places DEF StageLock, StageFingerprint, StageClean, StagePost, StageUnlock, At, GuardedPcs,
     deviceVars, coordinatorVars
<1>2. candidate' \in Config
  <2>1. CASE StagePost(t)
    <3>1. PICK e \in task[t].rec.actions, out \in Outcomes : PostEdit(e, out)
      BY <2>1 DEF StagePost
    <3>2. e \in Edits
      BY <1>1, Underway DEF Records
    <3> QED
      BY <3>1, <3>2, Types DEF PostEdit, Config
  <2>2. CASE UNCHANGED candidate
    BY <2>2, Types
  <2> QED
    BY <2>1, <2>2 DEF StageLock, StageFingerprint, StageClean, StageUnlock, deviceVars
<1>3. lock' \in BOOLEAN
  BY Types, Zenon DEF StageLock, StageFingerprint, StageClean, StagePost, StageUnlock, deviceVars,
     AcquireLock, ReleaseLock
<1>4. Advances(t) /\ task'[t].pc \in GuardedPcs \ {"worker_post", "worker_after"}
  <2> DEFINE Next1 == {"stage_fp", "stage_clean", "stage_post", "stage_after", "stage_unlock",
                       "stage_remove"}
  <2>1. Next1 \subseteq PcsOf(t) \ {"stage_guard"}
        /\ Next1 \subseteq GuardedPcs \ {"worker_post", "worker_after"}
    BY Places DEF CallPcs, StagePcs, GuardedPcs
  <2>2. CASE \E pc \in Next1 : Goto(t, pc)
    BY <1>1, <2>1, <2>2, GotoAdvances
  <2>3. CASE Keep(t, "stage_fp", [task[t].rec EXCEPT !.lock = TRUE])
    <3>1. task[t].rec \in Records /\ task[t].rec.policy = task[t].policy
          /\ task[t].rec.state \in Lifecycle
      BY <1>1, Underway
    <3>2. LET r == [task[t].rec EXCEPT !.lock = TRUE]
          IN  r \in Records /\ r.policy = task[t].policy /\ r.state \in Lifecycle
      BY <3>1, WithLockType
    <3> QED
      BY <1>1, <2>1, <2>3, <3>2, KeepAdvances
  <2> QED
    BY <2>2, <2>3 DEF StageLock, StageFingerprint, StageClean, StagePost, StageUnlock, StageAbort
<1> QED
  BY <1>1, <1>2, <1>3, <1>4, GuardedStep

\* The end of stage_config: the record becomes staged, or is removed.
LEMMA StageEndPreserves ==
    ASSUME LifecycleInv, NEW t \in Calls, StageAfter(t) \/ StageRemove(t)
    PROVE  StepKept(t)
<1>1. /\ t \in Tasked /\ task[t].pc \in GuardedPcs \ {"stage_guard"} /\ task[t].pc # "idle"
      /\ UNCHANGED <<candidate, running, lock, job, policy, evidence, validated>>
  BY Places DEF StageAfter, StageRemove, At, GuardedPcs, deviceVars
<1>2. /\ candidate' \in Config /\ lock' \in BOOLEAN
      /\ validated' \in [Ops -> SUBSET (SUBSET Edits)]
      /\ Fingerprint \subseteq Roots
  BY <1>1, Types DEF Fingerprint
<1>3. /\ task[t].rec \in Records /\ task[t].rec.policy = task[t].policy /\ task[t].op \in Ops
      /\ rec \in [Ops -> Records] /\ rec[task[t].op].policy = task[t].policy
  BY <1>1, Types, Underway
<1>4. ASSUME NEW saved, Finish(t), Release(t),
             Update(task[t].op, [task[t].rec EXCEPT !.state = "Staged", !.current = Fingerprint],
                    saved)
      PROVE  StepKept(t)
  <2> DEFINE r == [task[t].rec EXCEPT !.state = "Staged", !.current = Fingerprint]
  <2>1. r \in Records /\ r.policy = task[t].policy /\ r.state = "Staged"
    <3>1. "Staged" \in Lifecycle /\ Fingerprint \in SUBSET Roots
      BY <1>2 DEF Lifecycle
    <3>2. r \in Records
      BY <1>3, <3>1 DEF Records
    <3>3. r.policy = task[t].policy
      BY <1>3 DEF Records
    <3>4. r.state = "Staged"
      BY <1>3 DEF Records
    <3> QED
      BY <3>2, <3>3, <3>4
  <2>2. Update(task[t].op, r, saved)
    BY <1>4
  <2> HIDE DEF r
  <2>3. Writes(t)
    BY <1>1, <2>1, <2>2, UpdateWrites
  <2> QED
    BY <1>1, <1>2, <1>4, <2>3, ReturnStep
<1>5. CASE StageRemove(t)
  <2> DEFINE r == [rec[task[t].op] EXCEPT !.state = "Gone"]
  <2>1. r \in Records /\ r.policy = task[t].policy /\ r.state = "Gone"
    BY <1>3 DEF Records, Unused
  <2>2. rec' = [rec EXCEPT ![task[t].op] = r]
    BY <1>5 DEF StageRemove, Remove
  <2> HIDE DEF r
  <2>3. Writes(t)
    BY <1>1, <2>1, <2>2 DEF Writes
  <2> QED
    BY <1>1, <1>2, <1>5, <2>3, ReturnStep DEF StageRemove
<1>6. CASE StageAbort(t) /\ UNCHANGED coordinatorVars
  <2>1. "stage_unlock" \in PcsOf(t) \ {"stage_guard"} /\ "stage_unlock" \in GuardedPcs
    BY Places DEF CallPcs, StagePcs, GuardedPcs
  <2>2. Advances(t) /\ task'[t].pc = "stage_unlock"
    BY <1>1, <1>6, <2>1, GotoAdvances DEF StageAbort
  <2> QED
    BY <1>1, <1>2, <1>6, <2>1, <2>2, GuardedStep DEF coordinatorVars
<1> QED
  BY <1>4, <1>5, <1>6 DEF StageAfter

\* validate and discard take the mutex and compare the fingerprint.
LEMMA GuardAndComparePreserves ==
    ASSUME LifecycleInv, NEW t \in Calls, ValidateGuard(t) \/ DiscardGuard(t)
    PROVE  StepKept(t)
<1>1. /\ t \in Tasked /\ task[t].pc \in {"validate_guard", "discard_guard"}
      /\ UNCHANGED <<candidate, running, lock, job, rec, policy, evidence, validated>>
  BY Places DEF ValidateGuard, DiscardGuard, GuardAndCompare, At, deviceVars
<1>2. /\ candidate' \in Config /\ lock' \in BOOLEAN /\ Writes(t)
      /\ validated' \in [Ops -> SUBSET (SUBSET Edits)]
  BY <1>1, Types DEF Writes
<1>3. CASE Finish(t) /\ UNCHANGED guard
  BY <1>1, <1>2, <1>3, ReturnStep DEF GuardedPcs
<1>4. ASSUME NEW pc \in {"validate_post", "discard_revert"}, Acquire(t), Goto(t, pc)
      PROVE  StepKept(t)
  <2>1. pc \in PcsOf(t) \ {"stage_guard"} /\ pc \in GuardedPcs
    BY Places DEF CallPcs, GuardedPcs
  <2>2. Advances(t) /\ task'[t].pc = pc
    BY <1>1, <1>4, <2>1, GotoAdvances
  <2>3. GuardMoves(t)
    BY <1>4, <2>1, <2>2, GuardTaken
  <2> QED
    BY <1>1, <1>2, <2>2, <2>3, QuietStep
<1> QED
  BY <1>3, <1>4 DEF ValidateGuard, DiscardGuard, GuardAndCompare

\* validate_candidate starts its job and records it.
LEMMA ValidatePostPreserves ==
    ASSUME LifecycleInv, NEW t \in Calls, ValidatePost(t)
    PROVE  StepKept(t)
<1>1. /\ t \in Tasked /\ task[t].pc = "validate_post"
      /\ UNCHANGED <<candidate, running, lock, job, policy, evidence, validated>>
  BY Places DEF ValidatePost, At, deviceVars
<1>2. /\ candidate' \in Config /\ lock' \in BOOLEAN
      /\ validated' \in [Ops -> SUBSET (SUBSET Edits)]
      /\ task \in [Tasked -> Locals] /\ task[t] \in Locals /\ OwnEdits(candidate) \subseteq Edits
  BY <1>1, Types DEF OwnEdits
<1> DEFINE r == WithState(task[t].rec, "Validating")
           l == [task[t] EXCEPT !.pc = "validate_poll", !.rec = r, !.seen = OwnEdits(candidate)]
<1>3. r \in Records /\ r.policy = task[t].policy /\ r.state = "Validating"
  BY <1>1, Underway, WithStateType DEF Lifecycle
<1>4. CASE Release(t) /\ Finish(t) /\ UNCHANGED rec
  <2>1. Writes(t)
    BY <1>1, <1>4 DEF Writes
  <2> QED
    BY <1>1, <1>2, <1>4, <2>1, ReturnStep
<1>5. ASSUME NEW saved, Release(t), Finish(t), Update(task[t].op, r, saved)
      PROVE  StepKept(t)
  <2>1. Writes(t)
    BY <1>1, <1>3, <1>5, UpdateWrites
  <2> QED
    BY <1>1, <1>2, <1>5, <2>1, ReturnStep
<1>6. ASSUME NEW saved, Update(task[t].op, r, saved), UNCHANGED guard,
             task' = [task EXCEPT ![t].pc = "validate_poll", ![t].rec = r,
                                  ![t].seen = OwnEdits(candidate)]
      PROVE  StepKept(t)
  <2>1. task' = [task EXCEPT ![t] = l]
    BY <1>6
  <2>2. l \in Locals /\ l.pc = "validate_poll" /\ l.op = task[t].op
        /\ l.policy = task[t].policy /\ l.rec = r
    BY <1>2, <1>3 DEF Locals, CallPcs
  <2> HIDE DEF l, r
  <2>3. task' \in [Tasked -> Locals] /\ task'[t] = l /\ \A u \in Tasked \ {t} : task'[u] = task[u]
    BY <1>1, <1>2, <2>1, <2>2
  <2>4. Advances(t)
    BY <1>3, <2>2, <2>3, Places DEF Advances, Lifecycle, CallPcs
  <2>5. Writes(t)
    BY <1>1, <1>3, <1>6, UpdateWrites
  <2>6. GuardMoves(t)
    BY <1>1, <1>6, <2>2, <2>3, GuardKept DEF GuardedPcs
  <2> QED
    BY <1>1, <1>2, <2>2, <2>3, <2>4, <2>5, <2>6, QuietStep
<1> HIDE DEF r
<1> QED
  BY <1>4, <1>5, <1>6 DEF ValidatePost, r

\* validate_candidate records the verdict.
LEMMA ValidatePollPreserves ==
    ASSUME LifecycleInv, NEW t \in Calls, ValidatePoll(t)
    PROVE  StepKept(t)
<1>1. /\ t \in Tasked /\ task[t].pc = "validate_poll"
      /\ UNCHANGED <<candidate, running, lock, job, policy, evidence>>
      /\ Release(t) /\ Finish(t)
  BY Places DEF ValidatePoll, At, deviceVars
<1>2. PICK succeeded \in BOOLEAN, saved \in Saves :
        /\ Update(task[t].op,
                  WithState(task[t].rec, IF succeeded THEN "Validated" ELSE "Failed"), saved)
        /\ validated' = IF succeeded
                        THEN [validated EXCEPT ![task[t].op] = @ \union {task[t].seen}]
                        ELSE validated
  BY DEF ValidatePoll
<1> DEFINE s == IF succeeded THEN "Validated" ELSE "Failed"
<1>3. s \in Lifecycle /\ s # "Fresh"
  BY DEF Lifecycle
<1> HIDE DEF s
<1>4. WithState(task[t].rec, s) \in Records /\ WithState(task[t].rec, s).policy = task[t].policy
      /\ WithState(task[t].rec, s).state = s
  BY <1>1, <1>3, Underway, WithStateType
<1>5. Writes(t)
  BY <1>1, <1>2, <1>3, <1>4, UpdateWrites DEF s
<1>6. validated' \in [Ops -> SUBSET (SUBSET Edits)]
  <2>1. task[t].seen \subseteq Edits /\ task[t].op \in Ops
    BY <1>1, Types, Underway DEF Locals
  <2> QED
    BY <1>2, <2>1, Types
<1>7. candidate' \in Config /\ lock' \in BOOLEAN
  BY <1>1, Types
<1> QED
  BY <1>1, <1>5, <1>6, <1>7, ReturnStep

\* discard_candidate: revert, fingerprint, unlock and save.
LEMMA DiscardPreserves ==
    ASSUME LifecycleInv, NEW t \in Calls,
           DiscardRevert(t) \/ DiscardFingerprint(t) \/ DiscardUnlock(t) \/ DiscardSave(t)
    PROVE  StepKept(t)
<1>1. /\ t \in Tasked /\ task[t].pc \notin {"idle", "stage_guard"} /\ task[t].pc \in GuardedPcs
      /\ UNCHANGED <<running, job, policy, evidence, validated>>
  BY Places DEF DiscardRevert, DiscardFingerprint, DiscardUnlock, DiscardSave, At, GuardedPcs,
     deviceVars, coordinatorVars
<1>2. candidate' \in Config
  BY Types DEF DiscardRevert, RevertAdmin, DiscardFingerprint, DiscardUnlock, DiscardSave,
     deviceVars, Config, OwnEdits
<1>3. lock' \in BOOLEAN
  BY Types, Zenon DEF DiscardRevert, DiscardFingerprint, DiscardUnlock, DiscardSave, ReleaseLock,
     deviceVars
<1>4. /\ task[t].rec \in Records /\ task[t].rec.policy = task[t].policy
      /\ task[t].rec.state \in Lifecycle
      /\ Fingerprint \subseteq Roots /\ validated' \in [Ops -> SUBSET (SUBSET Edits)]
  BY <1>1, Types, Underway DEF Fingerprint
<1>5. /\ {"discard_fp", "discard_unlock", "discard_save"} \subseteq PcsOf(t) \ {"stage_guard"}
      /\ {"discard_fp", "discard_unlock", "discard_save"}
            \subseteq GuardedPcs \ {"worker_post", "worker_after"}
  BY Places DEF CallPcs, GuardedPcs
<1>6. CASE UNCHANGED rec /\ Release(t) /\ Finish(t)
  <2>1. Writes(t)
    BY <1>1, <1>6 DEF Writes
  <2> QED
    BY <1>1, <1>2, <1>3, <1>4, <1>6, <2>1, ReturnStep
<1>7. CASE UNCHANGED <<rec, guard>> /\ Goto(t, "discard_fp")
  <2>1. Advances(t) /\ task'[t].pc = "discard_fp"
    BY <1>1, <1>5, <1>7, GotoAdvances
  <2> QED
    BY <1>1, <1>2, <1>3, <1>5, <1>7, <2>1, GuardedStep
<1>8. ASSUME NEW pc \in {"discard_unlock", "discard_save"}, NEW r \in Records, Keep(t, pc, r),
             r.policy = task[t].policy, r.state \in Lifecycle, UNCHANGED <<rec, guard>>
      PROVE  StepKept(t)
  <2>0. pc \in PcsOf(t) \ {"stage_guard"} /\ pc \in GuardedPcs \ {"worker_post", "worker_after"}
    BY <1>5
  <2>1. Advances(t) /\ task'[t].pc = pc
    BY <1>1, <2>0, <1>8, KeepAdvances
  <2> QED
    BY <1>1, <1>2, <1>3, <1>8, <2>0, <2>1, GuardedStep
<1>9. CASE DiscardFingerprint(t) /\ ~(UNCHANGED rec /\ Release(t) /\ Finish(t))
  <2> DEFINE r == [task[t].rec EXCEPT !.current = Fingerprint]
             s == WithState(r, "Discarded")
  <2>1. Keep(t, IF r.lock THEN "discard_unlock" ELSE "discard_save", IF r.lock THEN r ELSE s)
        /\ UNCHANGED <<rec, guard>>
    BY <1>9, Zenon DEF DiscardFingerprint
  <2>2. r \in Records /\ r.policy = task[t].policy /\ r.state \in Lifecycle
    BY <1>4, WithCurrentType
  <2>3. s \in Records /\ s.policy = task[t].policy /\ s.state \in Lifecycle
    <3> HIDE DEF r
    <3> QED
      BY <1>4, <2>2, WithStateType DEF Lifecycle
  <2> HIDE DEF r, s
  <2>4. CASE r.lock
    <3>1. Keep(t, "discard_unlock", r)
      BY <2>1, <2>4, Zenon
    <3> QED
      BY <1>8, <2>1, <2>2, <3>1
  <2>5. CASE ~r.lock
    <3>1. Keep(t, "discard_save", s)
      BY <2>1, <2>5, Zenon
    <3> QED
      BY <1>8, <2>1, <2>3, <3>1
  <2> QED
    BY <2>4, <2>5
<1>10. CASE DiscardUnlock(t)
  <2>1. PICK out \in Outcomes :
          Keep(t, "discard_save",
               IF out = "ok" THEN [task[t].rec EXCEPT !.lock = FALSE, !.state = "Discarded"]
               ELSE WithState(task[t].rec, "Indeterminate"))
    BY <1>10 DEF DiscardUnlock
  <2> DEFINE r == [task[t].rec EXCEPT !.lock = FALSE, !.state = "Discarded"]
             s == WithState(task[t].rec, "Indeterminate")
  <2>2. r \in Records /\ r.policy = task[t].policy /\ r.state \in Lifecycle
    BY <1>4, UnlockedType DEF Lifecycle
  <2>3. s \in Records /\ s.policy = task[t].policy /\ s.state \in Lifecycle
    BY <1>4, WithStateType DEF Lifecycle
  <2>4. UNCHANGED <<rec, guard>>
    BY <1>10 DEF DiscardUnlock, coordinatorVars
  <2>5. Keep(t, "discard_save", r) \/ Keep(t, "discard_save", s)
    BY <2>1
  <2> HIDE DEF r, s
  <2> QED
    BY <1>8, <2>2, <2>3, <2>4, <2>5
<1>11. CASE DiscardSave(t)
  <2>1. PICK saved \in Saves : Update(task[t].op, task[t].rec, saved)
    BY <1>11 DEF DiscardSave
  <2>2. Writes(t)
    BY <1>1, <1>4, <2>1, UpdateWrites DEF Lifecycle
  <2> QED
    BY <1>1, <1>2, <1>3, <1>4, <1>11, <2>2, ReturnStep DEF DiscardSave
<1> QED
  BY <1>6, <1>7, <1>9, <1>10, <1>11 DEF DiscardRevert

-----------------------------------------------------------------------------
(* The steps of commit_candidate. *)

\* commit_candidate compares the fingerprint, and later returns with its worker.
LEMMA CommitMovesPreserve ==
    ASSUME LifecycleInv, NEW t \in Calls, CommitCompare(t) \/ CommitReturn(t)
    PROVE  StepKept(t)
<1>1. /\ t \in Tasked /\ task[t].pc \in {"commit_fp", "commit_wait"}
      /\ UNCHANGED <<candidate, running, lock, job, rec, guard, policy, evidence, validated>>
  BY Places DEF CommitCompare, CommitReturn, At, deviceVars, coordinatorVars
<1>2. /\ candidate' \in Config /\ lock' \in BOOLEAN /\ Writes(t)
      /\ validated' \in [Ops -> SUBSET (SUBSET Edits)]
  BY <1>1, Types DEF Writes
<1>3. CASE Finish(t)
  BY <1>1, <1>2, <1>3, ReturnStep DEF GuardedPcs
<1>4. CASE Goto(t, "commit_mark")
  <2>1. "commit_mark" \in PcsOf(t) \ {"stage_guard"}
    BY Places DEF CallPcs
  <2>2. Advances(t) /\ task'[t].pc = "commit_mark"
    BY <1>1, <1>4, <2>1, GotoAdvances
  <2>3. GuardMoves(t)
    BY <1>1, <2>2, GuardKept DEF GuardedPcs
  <2> QED
    BY <1>1, <1>2, <2>2, <2>3, QuietStep
<1> QED
  BY <1>3, <1>4 DEF CommitCompare, CommitReturn

\* commit_candidate records "Committing" and hands its operation to a worker.
LEMMA CommitMarkPreserves ==
    ASSUME LifecycleInv, NEW t \in Calls, NEW w \in Workers, CommitMark(t, w)
    PROVE  StepKept(t)
<1> DEFINE r == WithState(task[t].rec, "Committing")
           lt == [task[t] EXCEPT !.pc = "commit_wait", !.worker = w]
           lw == [task[t] EXCEPT !.pc = "worker_guard", !.rec = r]
<1>1. /\ t \in Tasked /\ w \in Tasked /\ t # w /\ task[t].pc = "commit_mark" /\ task[w].pc = "idle"
      /\ UNCHANGED <<candidate, running, lock, guard, policy, evidence, validated>>
  BY Places, TasksAssumption DEF CommitMark, FreeWorker, At
<1>2. /\ task \in [Tasked -> Locals] /\ rec \in [Ops -> Records] /\ job \in [Workers -> Jobs]
      /\ task[t] \in Locals /\ task[t].op \in Ops /\ task[t].policy \in Policies
      /\ rec[task[t].op].policy = task[t].policy
  BY <1>1, Types, Underway
<1>3. r \in Records /\ r.policy = task[t].policy /\ r.state = "Committing"
  BY <1>1, Underway, WithStateType DEF Lifecycle
<1>4. PICK saved \in Saves :
        /\ Update(task[t].op, r, saved)
        /\ task' = IF saved
                   THEN [task EXCEPT ![t].pc = "commit_wait", ![t].worker = w,
                                     ![w] = [task[t] EXCEPT !.pc = "worker_guard", !.rec = r]]
                   ELSE [task EXCEPT ![t] = Idle]
        /\ job' = IF saved THEN [job EXCEPT ![w] = NoJob] ELSE job
  BY DEF CommitMark
<1>5. CASE ~saved
  <2>1. Finish(t) /\ UNCHANGED <<rec, job>>
    BY <1>4, <1>5, Zenon DEF Finish, Update
  <2>2. Writes(t)
    BY <1>1, <2>1 DEF Writes
  <2>3. candidate' \in Config /\ lock' \in BOOLEAN /\ validated' \in [Ops -> SUBSET (SUBSET Edits)]
    BY <1>1, Types
  <2> QED
    BY <1>1, <2>1, <2>2, <2>3, ReturnStep DEF GuardedPcs
<1>6. CASE saved
  <2>1. /\ rec' = [rec EXCEPT ![task[t].op] = r]
        /\ task' = [task EXCEPT ![t].pc = "commit_wait", ![t].worker = w,
                                ![w] = [task[t] EXCEPT !.pc = "worker_guard", !.rec = r]]
        /\ job' = [job EXCEPT ![w] = NoJob]
    BY <1>4, <1>6, Zenon DEF Update
  <2>2. /\ lt \in Locals /\ lt.pc = "commit_wait" /\ lt.op = task[t].op
        /\ lt.policy = task[t].policy /\ lt.rec = task[t].rec
    BY <1>2 DEF Locals, CallPcs
  <2>3. /\ lw \in Locals /\ lw.pc = "worker_guard" /\ lw.op = task[t].op
        /\ lw.policy = task[t].policy /\ lw.rec = r
    BY <1>2, <1>3 DEF Locals, WorkerPcs
  <2>4. task' = [task EXCEPT ![t] = lt, ![w] = lw]
    BY <1>1, <1>2, <2>1
  <2> HIDE DEF r, lt, lw
  <2>5. /\ task' \in [Tasked -> Locals] /\ task'[t] = lt /\ task'[w] = lw
        /\ \A u \in Tasked \ {t, w} : task'[u] = task[u]
    BY <1>1, <1>2, <2>2, <2>3, <2>4
  <2>6. /\ rec' \in [Ops -> Records] /\ rec'[task[t].op] = r
        /\ \A o \in Ops : o # task[t].op => rec'[o] = rec[o]
    BY <1>2, <1>3, <2>1
  <2>7. NoJob \in Jobs /\ NoJob.status = "none"
    BY DEF NoJob, Jobs
  <2>8. /\ job' \in [Workers -> Jobs] /\ job'[w] = NoJob
        /\ \A v \in Workers \ {w} : job'[v] = job[v]
    BY <1>2, <2>1, <2>7
  <2>9. TypeOK'
    <3>1. \A u \in Calls : task'[u].pc \in CallPcs \union {"idle"}
      <4>1. w \notin Calls /\ lt.pc \in CallPcs
        BY <2>2, TasksAssumption DEF CallPcs
      <4> QED
        BY <2>5, <4>1 DEF LifecycleInv, TypeOK, Tasked
    <3>2. \A u \in Workers : task'[u].pc \in WorkerPcs \union {"idle"}
      <4>1. t \notin Workers /\ lw.pc \in WorkerPcs
        BY <2>3, TasksAssumption DEF WorkerPcs
      <4> QED
        BY <2>5, <4>1 DEF LifecycleInv, TypeOK, Tasked
    <3> QED
      BY <1>1, <2>5, <2>6, <2>8, <3>1, <3>2, Types, Zenon
         DEF TypeOK, DeviceTypeOK, CoordinatorTypeOK, Tasked
  <2>10. TasksOK'
    <3>1. TaskOK(t)' /\ TaskOK(w)'
      <4>1. task[t].rec.policy = task[t].policy /\ task[t].rec.state \in Lifecycle
        BY <1>1, Underway
      <4> QED
        BY <1>2, <1>3, <2>2, <2>3, <2>5, <2>6, <4>1 DEF TaskOK, Lifecycle
    <3>2. ASSUME NEW u \in Tasked \ {t, w} PROVE TaskOK(u)'
      <4>1. TaskOK(u) /\ task'[u] = task[u]
        BY <2>5 DEF LifecycleInv, TasksOK
      <4>2. CASE task[u].op = task[t].op
        BY <1>2, <1>3, <2>6, <4>1, <4>2 DEF TaskOK
      <4>3. CASE task[u].op # task[t].op
        BY <2>6, <4>1, <4>3 DEF TaskOK
      <4> QED
        BY <4>2, <4>3
    <3> QED
      BY <3>1, <3>2 DEF TasksOK
  <2>11. WorkersOK' /\ IntentBeforeCommit'
    <3>1. WorkerOK(w)'
      BY <2>3, <2>5, <2>7, <2>8 DEF WorkerOK
    <3>2. ASSUME NEW v \in Workers \ {w} PROVE WorkerOK(v)'
      <4>1. WorkerOK(v) /\ v \in Tasked \ {t, w}
        BY TasksAssumption DEF LifecycleInv, WorkersOK, Tasked
      <4> QED
        BY <1>1, <2>5, <2>8, <4>1 DEF WorkerOK
    <3>3. IntentBeforeCommit'
      BY <1>1, <2>7, <2>8 DEF LifecycleInv, IntentBeforeCommit
    <3> QED
      BY <3>1, <3>2, <3>3 DEF WorkersOK
  <2>12. GuardDiscipline'
    <3>1. guard # t /\ guard # w
      BY <1>1 DEF LifecycleInv, GuardDiscipline, Tasked, GuardedPcs
    <3>2. lt.pc \notin GuardedPcs /\ lw.pc \notin GuardedPcs
      BY <2>2, <2>3 DEF GuardedPcs
    <3> QED
      BY <1>1, <2>5, <3>1, <3>2 DEF LifecycleInv, GuardDiscipline, Tasked
  <2>13. Writes(t) /\ GuardMoves(t)
    <3>1. Writes(t)
      BY <1>1, <1>3, <2>1, Zenon DEF Writes
    <3>2. task'[t].pc \notin GuardedPcs
      BY <2>2, <2>5 DEF GuardedPcs
    <3> QED
      BY <1>1, <3>1, <3>2, GuardKept DEF GuardedPcs
  <2> QED
    BY <2>9, <2>10, <2>11, <2>12, <2>13 DEF LifecycleInv, StepKept
<1> QED
  BY <1>5, <1>6

-----------------------------------------------------------------------------
(* The steps of commit_worker. *)

\* The commit block ends in an error: the outcome is indeterminate, the mutex dropped.
LEMMA WorkerErrorMoves ==
    ASSUME LifecycleInv, NEW w \in Workers, task[w].pc # "idle", WorkerError(w)
    PROVE  Advances(w) /\ task'[w].pc = "worker_receipt" /\ GuardMoves(w)
<1>1. w \in Tasked /\ "worker_receipt" \in PcsOf(w) \ {"stage_guard"}
  BY Places DEF WorkerPcs
<1>2. /\ task[w].rec \in Records /\ task[w].rec.policy = task[w].policy
      /\ "Indeterminate" \in Lifecycle
  BY <1>1, Underway DEF Lifecycle
<1> DEFINE r == WithState(task[w].rec, "Indeterminate")
<1>3. r \in Records /\ r.policy = task[w].policy /\ r.state \in Lifecycle
  BY <1>2, WithStateType
<1>4. Keep(w, "worker_receipt", r) /\ Release(w)
  BY DEF WorkerError
<1> HIDE DEF r
<1>5. Advances(w) /\ task'[w].pc = "worker_receipt"
  BY <1>1, <1>3, <1>4, KeepAdvances
<1>6. GuardMoves(w)
  BY <1>1, <1>4, <1>5, GuardReleased DEF GuardedPcs
<1> QED
  BY <1>5, <1>6

\* The worker takes the mutex and writes the apply intent, or gives up without it.
LEMMA WorkerGuardPreserves ==
    ASSUME LifecycleInv, NEW w \in Workers, WorkerGuard(w)
    PROVE  StepKept(w)
<1>1. /\ w \in Tasked /\ task[w].pc = "worker_guard"
      /\ UNCHANGED <<candidate, running, lock, job, policy, validated>>
  BY Places DEF WorkerGuard, At, deviceVars
<1>2. /\ candidate' \in Config /\ running' \in Config /\ lock' \in BOOLEAN
      /\ job' \in [Workers -> Jobs] /\ validated' \in [Ops -> SUBSET (SUBSET Edits)]
      /\ evidence \in [Ops -> SUBSET {"intent", "ok", "failed"}]
      /\ task[w].op \in Ops
  BY <1>1, Types, Underway
<1>3. CASE /\ Acquire(w) /\ Goto(w, "worker_post") /\ UNCHANGED rec
           /\ Record(task[w].op, {"intent"})
  <2>1. "worker_post" \in PcsOf(w) \ {"stage_guard"}
    BY Places DEF WorkerPcs
  <2>2. Advances(w) /\ task'[w].pc = "worker_post"
    BY <1>1, <1>3, <2>1, GotoAdvances
  <2>3. Writes(w) /\ GuardMoves(w)
    BY <1>1, <1>3, <2>2, GuardTaken DEF Writes, GuardedPcs
  <2>4. /\ evidence' \in [Ops -> SUBSET {"intent", "ok", "failed"}]
        /\ \A o \in Ops : evidence[o] \subseteq evidence'[o]
        /\ Recorder => "intent" \in evidence'[task[w].op]
    BY <1>2, <1>3 DEF Record
  <2> QED
    BY <1>1, <1>2, <2>2, <2>3, <2>4, StepPreserves DEF StepKept
<1>4. CASE /\ Finish(w) /\ UNCHANGED <<guard, evidence>>
           /\ \E saved \in Saves :
                Update(task[w].op, WithState(task[w].rec, "Validated"), saved)
  <2> DEFINE r == WithState(task[w].rec, "Validated")
  <2>1. PICK saved \in Saves : Update(task[w].op, r, saved)
    BY <1>4
  <2>2. r \in Records /\ r.policy = task[w].policy /\ r.state = "Validated"
    BY <1>1, Underway, WithStateType DEF Lifecycle
  <2> HIDE DEF r
  <2>3. Writes(w)
    BY <1>1, <2>1, <2>2, UpdateWrites
  <2> QED
    BY <1>1, <1>2, <1>4, <2>3, ReturnStep DEF GuardedPcs
<1> QED
  BY <1>3, <1>4 DEF WorkerGuard

\* The worker starts its commit job.
LEMMA WorkerPostPreserves ==
    ASSUME LifecycleInv, NEW w \in Workers, WorkerPost(w)
    PROVE  StepKept(w)
<1>1. /\ w \in Tasked /\ task[w].pc = "worker_post"
      /\ UNCHANGED <<candidate, running, lock, rec, policy, evidence, validated>>
  BY Places DEF WorkerPost, At
<1>2. /\ candidate' \in Config /\ running' \in Config /\ lock' \in BOOLEAN
      /\ evidence' \in [Ops -> SUBSET {"intent", "ok", "failed"}]
      /\ validated' \in [Ops -> SUBSET (SUBSET Edits)]
      /\ job \in [Workers -> Jobs] /\ task[w].op \in Ops /\ OwnEdits(candidate) \subseteq Edits
      /\ \A o \in Ops : evidence[o] \subseteq evidence'[o]
  BY <1>1, Types, Underway DEF OwnEdits
<1>3. PICK out \in Outcomes :
        /\ PostCommit(w, task[w].op, out)
        /\ IF out = "ok" THEN Goto(w, "worker_job") /\ UNCHANGED guard ELSE WorkerError(w)
  BY DEF WorkerPost
<1>4. /\ job' \in [Workers -> Jobs]
      /\ \A v \in Workers : job'[v] = job[v] \/ (v = w /\ job'[v].op = task[w].op)
  <2> DEFINE j == [status |-> "active", op |-> task[w].op, content |-> OwnEdits(candidate)]
  <2>1. j \in Jobs /\ j.op = task[w].op
    BY <1>2 DEF Jobs
  <2>2. job' = job \/ job' = [job EXCEPT ![w] = j]
    BY <1>3, Zenon DEF PostCommit
  <2> HIDE DEF j
  <2> QED
    BY <1>2, <2>1, <2>2
<1>5. Advances(w) /\ GuardMoves(w) /\ task'[w].pc \in {"worker_job", "worker_receipt"}
  <2>1. CASE Goto(w, "worker_job") /\ UNCHANGED guard
    <3>1. "worker_job" \in PcsOf(w) \ {"stage_guard"}
      BY Places DEF WorkerPcs
    <3>2. Advances(w) /\ task'[w].pc = "worker_job"
      BY <1>1, <2>1, <3>1, GotoAdvances
    <3> QED
      BY <1>1, <2>1, <3>2, GuardKept DEF GuardedPcs
  <2>2. CASE WorkerError(w)
    BY <1>1, <2>2, WorkerErrorMoves
  <2> QED
    BY <1>3, <2>1, <2>2, Zenon
<1>6. Writes(w)
  BY <1>1 DEF Writes
<1> QED
  BY <1>1, <1>2, <1>4, <1>5, <1>6, StepPreserves DEF StepKept

\* The worker persists the job id.
LEMMA WorkerJobPreserves ==
    ASSUME LifecycleInv, NEW w \in Workers, WorkerJob(w)
    PROVE  StepKept(w)
<1>1. /\ w \in Tasked /\ task[w].pc = "worker_job"
      /\ UNCHANGED <<candidate, running, lock, job, policy, evidence, validated>>
  BY Places DEF WorkerJob, At, deviceVars
<1>2. /\ candidate' \in Config /\ lock' \in BOOLEAN
      /\ validated' \in [Ops -> SUBSET (SUBSET Edits)]
      /\ task[w].rec \in Records /\ task[w].rec.policy = task[w].policy
      /\ task[w].rec.state # "Fresh"
  BY <1>1, Types, Underway DEF Lifecycle
<1>3. PICK saved \in Saves :
        /\ Update(task[w].op, task[w].rec, saved)
        /\ IF saved THEN Goto(w, "worker_poll") /\ UNCHANGED guard ELSE WorkerError(w)
  BY DEF WorkerJob
<1>4. Writes(w)
  BY <1>1, <1>2, <1>3, UpdateWrites
<1>5. Advances(w) /\ GuardMoves(w) /\ task'[w].pc \in {"worker_poll", "worker_receipt"}
  <2>1. CASE Goto(w, "worker_poll") /\ UNCHANGED guard
    <3>1. "worker_poll" \in PcsOf(w) \ {"stage_guard"}
      BY Places DEF WorkerPcs
    <3>2. Advances(w) /\ task'[w].pc = "worker_poll"
      BY <1>1, <2>1, <3>1, GotoAdvances
    <3> QED
      BY <1>1, <2>1, <3>2, GuardKept DEF GuardedPcs
  <2>2. CASE WorkerError(w)
    BY <1>1, <2>2, WorkerErrorMoves
  <2> QED
    BY <1>3, <2>1, <2>2, Zenon
<1> QED
  BY <1>1, <1>2, <1>4, <1>5, QuietStep

\* The job has ended, or polling has.
LEMMA WorkerPollPreserves ==
    ASSUME LifecycleInv, NEW w \in Workers, WorkerPoll(w)
    PROVE  StepKept(w)
<1>1. /\ w \in Tasked /\ task[w].pc = "worker_poll"
      /\ UNCHANGED <<candidate, running, lock, job, rec, policy, evidence, validated>>
  BY Places DEF WorkerPoll, At, deviceVars
<1>2. /\ candidate' \in Config /\ running' \in Config /\ lock' \in BOOLEAN
      /\ job' \in [Workers -> Jobs] /\ evidence' \in [Ops -> SUBSET {"intent", "ok", "failed"}]
      /\ validated' \in [Ops -> SUBSET (SUBSET Edits)] /\ Writes(w)
      /\ \A o \in Ops : evidence[o] \subseteq evidence'[o]
  BY <1>1, Types DEF Writes
<1>3. CASE /\ job[w].status \in {"ok", "failed"}
           /\ Goto(w, "worker_after") /\ UNCHANGED guard
  <2>1. "worker_after" \in PcsOf(w) \ {"stage_guard"}
    BY Places DEF WorkerPcs
  <2>2. Advances(w) /\ task'[w].pc = "worker_after"
    BY <1>1, <1>3, <2>1, GotoAdvances
  <2>3. GuardMoves(w)
    BY <1>1, <1>3, <2>2, GuardKept DEF GuardedPcs
  <2> QED
    BY <1>1, <1>2, <1>3, <2>2, <2>3, StepPreserves DEF StepKept
<1>4. CASE WorkerError(w)
  <2>1. Advances(w) /\ GuardMoves(w) /\ task'[w].pc = "worker_receipt"
    BY <1>1, <1>4, WorkerErrorMoves
  <2> QED
    BY <1>1, <1>2, <2>1, QuietStep
<1> QED
  BY <1>3, <1>4 DEF WorkerPoll

\* The worker reads the fingerprint, records the verdict and drops the mutex.
LEMMA WorkerAfterPreserves ==
    ASSUME LifecycleInv, NEW w \in Workers, WorkerAfter(w)
    PROVE  StepKept(w)
<1> DEFINE verdict == job[w].status
           r == [task[w].rec EXCEPT !.current = Fingerprint,
                                    !.state = IF verdict = "ok" THEN "Committing" ELSE "Failed"]
           next(saved) == CASE ~saved -> WithState(r, "Indeterminate")
                            [] saved /\ verdict = "ok" /\ ~r.lock -> WithState(r, "Committed")
                            [] OTHER -> r
<1>1. /\ w \in Tasked /\ task[w].pc = "worker_after"
      /\ UNCHANGED <<candidate, running, lock, job, policy, evidence, validated>>
  BY Places DEF WorkerAfter, At, deviceVars
<1>2. /\ candidate' \in Config /\ lock' \in BOOLEAN
      /\ validated' \in [Ops -> SUBSET (SUBSET Edits)]
      /\ task \in [Tasked -> Locals] /\ task[w] \in Locals
      /\ task[w].rec \in Records /\ task[w].rec.policy = task[w].policy
      /\ Fingerprint \in SUBSET Roots
  BY <1>1, Types, Underway DEF Fingerprint
<1>3. verdict \in {"ok", "failed"}
  BY <1>1 DEF LifecycleInv, WorkersOK, WorkerOK
<1>4. PICK out \in Reads, saved \in Saves :
        IF out # "ok" THEN WorkerError(w) /\ UNCHANGED rec
        ELSE /\ Update(task[w].op, r, saved)
             /\ Release(w)
             /\ task' = [task EXCEPT
                  ![w].pc = IF next(saved).state = "Committing" THEN "worker_unlock"
                            ELSE "worker_receipt",
                  ![w].rec = next(saved),
                  ![w].verdict = IF saved THEN verdict ELSE "unknown"]
  BY DEF WorkerAfter
<1>5. CASE out # "ok"
  <2>1. WorkerError(w) /\ UNCHANGED rec
    BY <1>4, <1>5, Zenon
  <2>2. Writes(w)
    BY <1>1, <2>1 DEF Writes
  <2>3. Advances(w) /\ GuardMoves(w) /\ task'[w].pc = "worker_receipt"
    BY <1>1, <2>1, WorkerErrorMoves
  <2> QED
    BY <1>1, <1>2, <2>2, <2>3, QuietStep
<1>6. CASE out = "ok"
  <2> DEFINE s == IF verdict = "ok" THEN "Committing" ELSE "Failed"
             pc == IF next(saved).state = "Committing" THEN "worker_unlock" ELSE "worker_receipt"
             v == IF saved THEN verdict ELSE "unknown"
             l == [task[w] EXCEPT !.pc = pc, !.rec = next(saved), !.verdict = v]
  <2>1. s \in Lifecycle /\ s # "Fresh"
    BY DEF Lifecycle
  <2>2. r \in Records /\ r.policy = task[w].policy /\ r.state = s
    <3>1. r = [task[w].rec EXCEPT !.current = Fingerprint, !.state = s]
      OBVIOUS
    <3> HIDE DEF s, r, verdict
    <3>2. s \in Unused \union Lifecycle
      BY <2>1
    <3>3. r \in Records
      BY <1>2, <3>1, <3>2 DEF Records
    <3>4. r.policy = task[w].policy
      BY <1>2, <3>1 DEF Records
    <3>5. r.state = s
      BY <1>2, <3>1 DEF Records
    <3> QED
      BY <3>3, <3>4, <3>5
  <2>3. /\ Update(task[w].op, r, saved) /\ Release(w)
        /\ task' = [task EXCEPT ![w].pc = pc, ![w].rec = next(saved), ![w].verdict = v]
    BY <1>4, <1>6, Zenon
  <2>4. next(saved) \in Records /\ next(saved).policy = task[w].policy
        /\ next(saved).state \in Lifecycle
    <3>1. \A q \in {"Indeterminate", "Committed"} :
            /\ WithState(r, q) \in Records /\ WithState(r, q).policy = task[w].policy
            /\ WithState(r, q).state \in Lifecycle
      <4> HIDE DEF r, s, verdict
      <4> QED
        BY <2>2, WithStateType DEF Lifecycle
    <3>2. next(saved) \in {r, WithState(r, "Indeterminate"), WithState(r, "Committed")}
      <4> HIDE DEF r, verdict
      <4> QED
        BY Zenon
    <3> HIDE DEF next, r, s, verdict
    <3> QED
      BY <2>1, <2>2, <3>1, <3>2
  <2>5. pc \in {"worker_unlock", "worker_receipt"} /\ v \in {"unknown", "ok", "failed"}
    <3> HIDE DEF next, verdict
    <3> QED
      BY <1>3
  <2> HIDE DEF next, pc, v, r, s, verdict
  <2>6. task' = [task EXCEPT ![w] = l]
    BY <2>3
  <2>7. /\ l \in Locals /\ l.pc = pc /\ l.op = task[w].op
        /\ l.policy = task[w].policy /\ l.rec = next(saved)
    BY <1>2, <2>4, <2>5 DEF Locals, WorkerPcs
  <2> HIDE DEF l
  <2>8. task' \in [Tasked -> Locals] /\ task'[w] = l /\ \A u \in Tasked \ {w} : task'[u] = task[u]
    BY <1>1, <1>2, <2>6, <2>7
  <2>9. Advances(w)
    BY <2>4, <2>5, <2>7, <2>8, Places DEF Advances, WorkerPcs
  <2>10. Writes(w)
    BY <1>1, <2>1, <2>2, <2>3, UpdateWrites
  <2>11. GuardMoves(w)
    BY <1>1, <2>3, <2>5, <2>7, <2>8, GuardReleased DEF GuardedPcs
  <2> QED
    BY <1>1, <1>2, <2>5, <2>7, <2>8, <2>9, <2>10, <2>11, QuietStep
<1> QED
  BY <1>5, <1>6

\* The worker releases the configuration lock, after the mutex.
LEMMA WorkerUnlockPreserves ==
    ASSUME LifecycleInv, NEW w \in Workers, WorkerUnlock(w)
    PROVE  StepKept(w)
<1> DEFINE r == [task[w].rec EXCEPT !.lock = FALSE, !.state = "Committed"]
           s == WithState(task[w].rec, "Indeterminate")
<1>1. /\ w \in Tasked /\ task[w].pc = "worker_unlock"
      /\ UNCHANGED <<candidate, running, job, rec, guard, policy, evidence, validated>>
  BY Places DEF WorkerUnlock, At, coordinatorVars
<1>2. /\ candidate' \in Config /\ validated' \in [Ops -> SUBSET (SUBSET Edits)]
      /\ task[w].rec \in Records /\ task[w].rec.policy = task[w].policy /\ Writes(w)
  BY <1>1, Types, Underway DEF Writes
<1>3. lock' \in BOOLEAN
  BY Types, Zenon DEF WorkerUnlock, ReleaseLock
<1>4. /\ r \in Records /\ r.policy = task[w].policy /\ r.state \in Lifecycle
      /\ s \in Records /\ s.policy = task[w].policy /\ s.state \in Lifecycle
  BY <1>2, UnlockedType, WithStateType DEF Lifecycle
<1>5. Keep(w, "worker_receipt", r) \/ Keep(w, "worker_receipt", s)
  BY DEF WorkerUnlock
<1>6. "worker_receipt" \in PcsOf(w) \ {"stage_guard"}
  BY Places DEF WorkerPcs
<1> HIDE DEF r, s
<1>7. Advances(w) /\ task'[w].pc = "worker_receipt"
  BY <1>1, <1>4, <1>5, <1>6, KeepAdvances
<1>8. GuardMoves(w)
  BY <1>1, <1>7, GuardKept DEF GuardedPcs
<1> QED
  BY <1>1, <1>2, <1>3, <1>7, <1>8, QuietStep

\* The worker writes its receipt and its last record.
LEMMA WorkerReceiptPreserves ==
    ASSUME LifecycleInv, NEW w \in Workers, WorkerReceipt(w)
    PROVE  StepKept(w)
<1>1. /\ w \in Tasked /\ task[w].pc = "worker_receipt" /\ Finish(w)
      /\ UNCHANGED <<candidate, running, lock, job, guard, policy, validated>>
  BY Places DEF WorkerReceipt, At, deviceVars
<1>2. /\ candidate' \in Config /\ running' \in Config /\ lock' \in BOOLEAN
      /\ job' \in [Workers -> Jobs] /\ validated' \in [Ops -> SUBSET (SUBSET Edits)]
      /\ evidence \in [Ops -> SUBSET {"intent", "ok", "failed"}]
      /\ task[w].op \in Ops /\ task[w].verdict \in {"unknown", "ok", "failed"}
      /\ task[w].rec \in Records /\ task[w].rec.policy = task[w].policy
      /\ task[w].rec.state # "Fresh"
  BY <1>1, Types, Underway DEF Locals, Lifecycle
<1>3. PICK saved \in Saves : Update(task[w].op, task[w].rec, saved)
  BY DEF WorkerReceipt
<1>4. Writes(w)
  BY <1>1, <1>2, <1>3, UpdateWrites
<1>5. /\ evidence' \in [Ops -> SUBSET {"intent", "ok", "failed"}]
      /\ \A o \in Ops : evidence[o] \subseteq evidence'[o]
  BY <1>2 DEF WorkerReceipt, Record
<1>6. Advances(w) /\ task'[w].pc = "idle"
  BY <1>1, FinishAdvances
<1>7. GuardMoves(w)
  BY <1>1, <1>6, GuardKept DEF GuardedPcs
<1> QED
  BY <1>1, <1>2, <1>4, <1>5, <1>6, <1>7, StepPreserves DEF StepKept

-----------------------------------------------------------------------------
(* The process, its operator and the device. *)

\* A stop and start of the process: no task, no mutex, the state file recovered.
LEMMA RestartPreserves == LifecycleInv /\ Restart => LifecycleInv'
<1> SUFFICES ASSUME LifecycleInv, Restart PROVE LifecycleInv'
  OBVIOUS
<1>1. /\ UNCHANGED <<candidate, running, lock, job, policy, evidence, validated>>
      /\ task' = [t \in Calls \union Workers |-> Idle] /\ guard' = None
      /\ rec' = [o \in Ops |-> Recovered(rec[o])]
  BY DEF Restart, deviceVars
<1>2. Idle \in Locals /\ Idle.pc = "idle"
  BY IdleType
<1>3. \A o \in Ops : Recovered(rec[o]) \in Records
  <2> SUFFICES ASSUME NEW o \in Ops PROVE Recovered(rec[o]) \in Records
    OBVIOUS
  <2>1. rec[o] \in Records
    BY Types
  <2>2. [rec[o] EXCEPT !.state = "Indeterminate"] \in Records
    BY <2>1, WithStateType DEF Lifecycle, WithState
  <2> QED
    BY <2>1, <2>2, Zenon DEF Recovered
<1>4. rec' \in [Ops -> Records] /\ task' \in [Calls \union Workers -> Locals]
  BY <1>1, <1>2, <1>3
<1>5. \A t \in Tasked : task'[t].pc = "idle" /\ t # None
  BY <1>1, <1>2, TasksAssumption DEF Tasked
<1>6. TypeOK'
  <2>1. DeviceTypeOK' /\ CoordinatorTypeOK'
    BY <1>1, <1>4, Types, Zenon DEF DeviceTypeOK, CoordinatorTypeOK
  <2>2. \A t \in Calls \union Workers : task'[t].pc = "idle"
    BY <1>5 DEF Tasked
  <2> QED
    BY <1>1, <1>4, <2>1, <2>2, Types DEF TypeOK
<1>7. TasksOK'
  BY <1>5 DEF TasksOK, TaskOK
<1>8. WorkersOK' /\ IntentBeforeCommit'
  BY <1>1, <1>5 DEF LifecycleInv, WorkersOK, WorkerOK, IntentBeforeCommit, Tasked
<1>9. GuardDiscipline'
  BY <1>1, <1>5 DEF GuardDiscipline, GuardedPcs, Tasked
<1> QED
  BY <1>6, <1>7, <1>8, <1>9 DEF LifecycleInv

\* The offline command settles an operation while no task runs.
LEMMA ResolvePreserves ==
    ASSUME LifecycleInv, NEW o \in Ops, Resolve(o)
    PROVE  LifecycleInv'
<1> DEFINE s == IF rec[o].actions \subseteq running THEN "Committed" ELSE "Discarded"
           r == [rec[o] EXCEPT !.lock = FALSE, !.state = s]
<1>1. /\ UNCHANGED <<running, job, guard, task, policy, evidence, validated>>
      /\ candidate' = (candidate \ Edits) \union OwnEdits(running) /\ lock' = FALSE
      /\ rec' = [rec EXCEPT ![o].lock = FALSE, ![o].state = s]
  BY DEF Resolve
<1>2. rec \in [Ops -> Records] /\ rec[o] \in Records
  BY Types
<1>3. s \in Lifecycle
  BY DEF Lifecycle
<1> HIDE DEF s
<1>4. r \in Records
  BY <1>2, <1>3, UnlockedType
<1>5. rec' = [rec EXCEPT ![o] = r]
  BY <1>1, <1>2
<1> HIDE DEF r
<1>6. rec' \in [Ops -> Records]
  BY <1>2, <1>4, <1>5
<1>7. \A t \in Tasked : task[t].pc = "idle" /\ task' = task
  BY <1>1 DEF Resolve, ServiceStopped, At, Tasked
<1>8. TypeOK'
  <2>1. candidate' \in Config
    BY <1>1, Types DEF Config, OwnEdits
  <2> QED
    BY <1>1, <1>6, <2>1, Types, Zenon
       DEF TypeOK, DeviceTypeOK, CoordinatorTypeOK, LifecycleInv
<1>9. TasksOK'
  BY <1>7 DEF TasksOK, TaskOK
<1>10. WorkersOK' /\ IntentBeforeCommit' /\ GuardDiscipline'
  BY <1>1 DEF LifecycleInv, WorkersOK, WorkerOK, IntentBeforeCommit, GuardDiscipline
<1> QED
  BY <1>8, <1>9, <1>10 DEF LifecycleInv

\* A reload changes the policy of calls that start later.
LEMMA ReloadPreserves ==
    ASSUME LifecycleInv, NEW p \in Policies, Reload(p)
    PROVE  LifecycleInv'
<1>1. /\ UNCHANGED <<candidate, running, lock, job, rec, guard, task, evidence, validated>>
      /\ policy' \in Policies
  BY DEF Reload, deviceVars, coordinatorVars
<1>2. TypeOK'
  BY <1>1, Zenon DEF LifecycleInv, TypeOK, DeviceTypeOK, CoordinatorTypeOK
<1>3. TasksOK' /\ WorkersOK' /\ GuardDiscipline' /\ IntentBeforeCommit'
  BY <1>1 DEF LifecycleInv, TasksOK, TaskOK, WorkersOK, WorkerOK, GuardDiscipline,
     IntentBeforeCommit
<1> QED
  BY <1>2, <1>3 DEF LifecycleInv

\* A job ends, or another administrator edits or commits.
LEMMA DevicePreserves ==
    ASSUME LifecycleInv, DeviceNext,
           UNCHANGED <<coordinatorVars, task, policy, evidence, validated>>
    PROVE  LifecycleInv'
<1>1. UNCHANGED <<rec, guard, task, policy, evidence, validated>>
  BY DEF coordinatorVars
<1>2. candidate' \in Config /\ lock' \in BOOLEAN
  BY Types DEF DeviceNext, FinishJob, ForeignEdit, ForeignCommit, Config
<1>3. /\ running' \in Config /\ job' \in [Workers -> Jobs]
      /\ \A v \in Workers : \/ job'[v] = job[v]
                            \/ /\ job[v].status = "active" /\ job'[v].op = job[v].op
                               /\ job'[v].status \in {"ok", "failed"}
  <2>1. CASE \E w \in Workers : FinishJob(w)
    <3>1. PICK w \in Workers : FinishJob(w)
      BY <2>1
    <3>2. job \in [Workers -> Jobs] /\ job[w] \in Jobs
      BY Types
    <3>3. PICK s \in {"ok", "failed"} : job' = [job EXCEPT ![w].status = s]
      BY <3>1 DEF FinishJob
    <3> DEFINE j == [job[w] EXCEPT !.status = s]
    <3>4. j \in Jobs /\ j.op = job[w].op /\ j.status = s
      BY <3>2 DEF Jobs
    <3>5. job' = [job EXCEPT ![w] = j]
      BY <3>2, <3>3
    <3> HIDE DEF j
    <3>6. running' \in Config
      BY <3>1, <3>2, Types DEF FinishJob, Jobs, Config
    <3>7. job[w].status = "active"
      BY <3>1 DEF FinishJob
    <3> QED
      BY <3>2, <3>4, <3>5, <3>6, <3>7
  <2>2. CASE \E f \in Foreign : ForeignEdit(f) \/ ForeignCommit(f)
    BY <2>2, Types DEF ForeignEdit, ForeignCommit, Config
  <2> QED
    BY <2>1, <2>2 DEF DeviceNext
<1>4. TypeOK'
  BY <1>1, <1>2, <1>3, Zenon DEF LifecycleInv, TypeOK, DeviceTypeOK, CoordinatorTypeOK
<1>5. TasksOK' /\ GuardDiscipline'
  BY <1>1 DEF LifecycleInv, TasksOK, TaskOK, GuardDiscipline
<1>6. WorkersOK' /\ IntentBeforeCommit'
  <2> SUFFICES ASSUME NEW v \in Workers
               PROVE  /\ WorkerOK(v)'
                      /\ Recorder /\ job'[v].status # "none" => "intent" \in evidence'[job'[v].op]
    BY DEF WorkersOK, IntentBeforeCommit
  <2>1. /\ WorkerOK(v)
        /\ Recorder /\ job[v].status # "none" => "intent" \in evidence[job[v].op]
    BY DEF LifecycleInv, WorkersOK, IntentBeforeCommit
  <2>2. CASE job'[v] = job[v]
    BY <1>1, <2>1, <2>2 DEF WorkerOK
  <2>3. CASE job'[v] # job[v]
    BY <1>1, <1>3, <2>1, <2>3 DEF WorkerOK
  <2> QED
    BY <2>2, <2>3
<1> QED
  BY <1>4, <1>5, <1>6 DEF LifecycleInv

-----------------------------------------------------------------------------
(* The theorems. *)

\* Every step of a call keeps the invariant, its own record and its own mutex.
LEMMA CallStepKept ==
    ASSUME LifecycleInv, NEW t \in Calls, CallStep(t)
    PROVE  StepKept(t)
<1>1. CASE StageStep(t)
  BY <1>1, StageInsertPreserves, StageMovesPreserve, StageEndPreserves DEF StageStep
<1>2. CASE ValidateStep(t)
  BY <1>2, GuardAndComparePreserves, ValidatePostPreserves, ValidatePollPreserves DEF ValidateStep
<1>3. CASE CommitStep(t)
  BY <1>3, CommitMovesPreserve, CommitMarkPreserves DEF CommitStep
<1>4. CASE DiscardStep(t)
  BY <1>4, GuardAndComparePreserves, DiscardPreserves DEF DiscardStep
<1> QED
  BY <1>1, <1>2, <1>3, <1>4 DEF CallStep

\* The same for the steps of workers.
LEMMA WorkerStepKept ==
    ASSUME LifecycleInv, NEW w \in Workers, WorkerStep(w)
    PROVE  StepKept(w)
BY WorkerGuardPreserves, WorkerPostPreserves, WorkerJobPreserves, WorkerPollPreserves,
   WorkerAfterPreserves, WorkerUnlockPreserves, WorkerReceiptPreserves DEF WorkerStep

\* Every step of the server, its operator and the device keeps the invariant.
LEMMA NextPreserves == LifecycleInv /\ [Next]_vars => LifecycleInv'
<1> SUFFICES ASSUME LifecycleInv, [Next]_vars PROVE LifecycleInv'
  OBVIOUS
<1>1. CASE UNCHANGED vars
  <2>1. /\ UNCHANGED <<candidate, running, lock, job, rec, guard>>
        /\ UNCHANGED <<task, policy, evidence, validated>>
    BY <1>1 DEF vars
  <2>2. TypeOK'
    BY <2>1, Zenon DEF LifecycleInv, TypeOK, DeviceTypeOK, CoordinatorTypeOK
  <2>3. TasksOK' /\ WorkersOK' /\ GuardDiscipline' /\ IntentBeforeCommit'
    BY <2>1 DEF LifecycleInv, TasksOK, TaskOK, WorkersOK, WorkerOK, GuardDiscipline,
       IntentBeforeCommit
  <2> QED
    BY <2>2, <2>3 DEF LifecycleInv
<1>2. ASSUME NEW t \in Calls, NewCall(t) PROVE LifecycleInv'
  BY <1>2, NewCallPreserves
<1>3. ASSUME NEW t \in Calls, CallStep(t) PROVE LifecycleInv'
  BY <1>3, CallStepKept DEF StepKept
<1>4. ASSUME NEW w \in Workers, WorkerStep(w) PROVE LifecycleInv'
  BY <1>4, WorkerStepKept DEF StepKept
<1>5. CASE Environment
  BY <1>5, DevicePreserves, ReloadPreserves DEF Environment
<1>6. CASE Restart
  BY <1>6, RestartPreserves
<1>7. CASE \E o \in Ops : Resolve(o)
  BY <1>7, ResolvePreserves
<1> QED
  BY <1>1, <1>2, <1>3, <1>4, <1>5, <1>6, <1>7 DEF Next, Serve

\* Every reachable state is one of LifecycleInv: the variables are typed, and every task
\* under way serves an existing operation under the policy it was staged under.
THEOREM LifecycleInvariant == Spec => [](LifecycleInv /\ TypeOK)
<1>1. LifecycleInv => TypeOK
  BY DEF LifecycleInv
<1> QED
  BY <1>1, InitHolds, NextPreserves, PTL DEF Spec

\* device_guard: a task holds the endpoint mutex exactly between taking and dropping it,
\* through every error return of every call and of commit_worker, and through restarts.
THEOREM TheMutexFollowsTheCode == Spec => []GuardDiscipline
<1>1. LifecycleInv => GuardDiscipline
  BY DEF LifecycleInv
<1> QED
  BY <1>1, InitHolds, NextPreserves, PTL DEF Spec

\* commit_worker, with an evidence recorder configured: no commit job exists on the device
\* without a persisted apply intent of its operation, whatever fails and however often a
\* commit is retried.
THEOREM NoCommitWithoutIntent == Spec => []IntentBeforeCommit
<1>1. LifecycleInv => IntentBeforeCommit
  BY DEF LifecycleInv
<1> QED
  BY <1>1, InitHolds, NextPreserves, PTL DEF Spec

\* A task writes the record of its own operation only.
LEMMA OwnRecordOnly ==
    ASSUME NEW t \in Tasked, CallStep(t) \/ WorkerStep(t), rec \in [Ops -> Records],
           NEW o \in Ops, rec'[o] # rec[o]
    PROVE  o = task[t].op
<1> DEFINE Own(q) == rec' = [rec EXCEPT ![task[t].op] = q]
<1>1. CASE rec' = rec
  BY <1>1
<1>2. CASE \E q : Own(q)
  BY <1>2
<1>3. (\E q : Own(q)) \/ rec' = rec
  <2>1. ASSUME NEW q, NEW saved, Update(task[t].op, q, saved) PROVE Own(q) \/ rec' = rec
    BY <2>1, Zenon DEF Update
  <2>2. CASE StageStep(t)
    <3>1. CASE StageInsert(t)
      BY <3>1, Zenon DEF StageInsert, Insert, coordinatorVars
    <3>2. CASE StageAfter(t)
      <4>1. ASSUME NEW saved \in Saves,
                   Update(task[t].op, [task[t].rec EXCEPT !.state = "Staged",
                                                          !.current = Fingerprint], saved)
            PROVE (\E q : Own(q)) \/ rec' = rec
        BY <2>1, <4>1, Zenon
      <4> QED
        BY <3>2, <4>1, Zenon DEF StageAfter, coordinatorVars
    <3>3. CASE StageRemove(t)
      <4>1. rec' = [rec EXCEPT ![task[t].op] = [rec[task[t].op] EXCEPT !.state = "Gone"]]
        BY <3>3 DEF StageRemove, Remove
      <4> QED
        BY <4>1, Zenon
    <3> QED
      BY <2>2, <3>1, <3>2, <3>3, Zenon
         DEF StageStep, StageLock, StageFingerprint, StageClean, StagePost, StageUnlock,
             coordinatorVars
  <2>3. CASE ValidateStep(t)
    <3>1. CASE ValidatePost(t)
      <4>1. ASSUME NEW saved \in Saves,
                   Update(task[t].op, WithState(task[t].rec, "Validating"), saved)
            PROVE (\E q : Own(q)) \/ rec' = rec
        BY <2>1, <4>1, Zenon
      <4> QED
        BY <3>1, <4>1, Zenon DEF ValidatePost
    <3>2. CASE ValidatePoll(t)
      <4>1. PICK q : \E saved \in Saves : Update(task[t].op, q, saved)
        BY <3>2, Zenon DEF ValidatePoll
      <4> QED
        BY <2>1, <4>1, Zenon
    <3> QED
      BY <2>3, <3>1, <3>2, Zenon DEF ValidateStep, ValidateGuard, GuardAndCompare
  <2>4. CASE CommitStep(t)
    <3>1. CASE \E w \in Workers : CommitMark(t, w)
      <4>1. PICK q : \E saved \in Saves : Update(task[t].op, q, saved)
        BY <3>1, Zenon DEF CommitMark
      <4> QED
        BY <2>1, <4>1, Zenon
    <3> QED
      BY <2>4, <3>1, Zenon DEF CommitStep, CommitCompare, CommitReturn, coordinatorVars
  <2>5. CASE DiscardStep(t)
    <3>1. CASE DiscardSave(t)
      <4>1. PICK q : \E saved \in Saves : Update(task[t].op, q, saved)
        BY <3>1, Zenon DEF DiscardSave
      <4> QED
        BY <2>1, <4>1, Zenon
    <3> QED
      BY <2>5, <3>1, Zenon DEF DiscardStep, DiscardGuard, GuardAndCompare, DiscardRevert,
         DiscardFingerprint, DiscardUnlock, coordinatorVars
  <2>6. CASE WorkerStep(t)
    <3>1. CASE WorkerGuard(t)
      <4>1. ASSUME NEW saved \in Saves,
                   Update(task[t].op, WithState(task[t].rec, "Validated"), saved)
            PROVE (\E q : Own(q)) \/ rec' = rec
        BY <2>1, <4>1, Zenon
      <4> QED
        BY <3>1, <4>1, Zenon DEF WorkerGuard
    <3>2. CASE WorkerJob(t) \/ WorkerReceipt(t)
      <4>1. PICK q : \E saved \in Saves : Update(task[t].op, q, saved)
        BY <3>2, Zenon DEF WorkerJob, WorkerReceipt
      <4> QED
        BY <2>1, <4>1, Zenon
    <3>3. CASE WorkerAfter(t)
      <4>1. ASSUME NEW q, NEW saved \in Saves, Update(task[t].op, q, saved)
            PROVE (\E p : Own(p)) \/ rec' = rec
        BY <2>1, <4>1, Zenon
      <4>2. (\E q : \E saved \in Saves : Update(task[t].op, q, saved)) \/ rec' = rec
        BY <3>3, Zenon DEF WorkerAfter
      <4> QED
        BY <4>1, <4>2, Zenon
    <3> QED
      BY <2>6, <3>1, <3>2, <3>3, Zenon
         DEF WorkerStep, WorkerPost, WorkerPoll, WorkerUnlock, coordinatorVars
  <2> QED
    BY <2>2, <2>3, <2>4, <2>5, <2>6 DEF CallStep
<1> QED
  BY <1>1, <1>2, <1>3

\* The device, the inventory and new calls write no record.
LEMMA EnvironmentWritesNoRecord ==
    ASSUME Environment \/ UNCHANGED vars \/ \E t \in Calls : NewCall(t)
    PROVE  UNCHANGED rec
BY Zenon DEF Environment, Reload, NewCall, StageCall, ValidateCall, CommitCall, DiscardCall,
   vars, coordinatorVars

\* Every step of a task is a step of a call or worker under way.
LEMMA StepsAreUnderway ==
    ASSUME NEW t \in Tasked, CallStep(t) \/ WorkerStep(t)
    PROVE  task[t].pc # "idle"
BY DEF CallStep, StageStep, ValidateStep, CommitStep, DiscardStep, WorkerStep,
   StageInsert, StageLock, StageFingerprint, StageClean, StagePost, StageAfter, StageUnlock,
   StageRemove, ValidateGuard, ValidatePost, ValidatePoll, CommitCompare, CommitReturn,
   CommitMark, DiscardGuard, DiscardRevert, DiscardFingerprint, DiscardUnlock, DiscardSave,
   WorkerGuard, WorkerPost, WorkerJob, WorkerPoll, WorkerAfter, WorkerUnlock, WorkerReceipt, At

\* What DriftStopsNewCalls says of one step.
DriftStep ==
    \A o \in Ops :
        rec'[o].state # rec[o].state
        /\ rec'[o].state \in {"Validating", "Validated", "Committing", "Discarded"}
           => \/ ServiceStopped
              \/ \E t \in Calls \union Workers :
                   task[t].op = o /\ task[t].policy = rec[o].policy

\* Only a task of the record's own policy moves it on.
LEMMA StepsKeepThePolicy == LifecycleInv /\ [Next]_vars => DriftStep
<1> SUFFICES ASSUME LifecycleInv, [Next]_vars, NEW o \in Ops, ~ServiceStopped,
                    rec'[o].state # rec[o].state,
                    rec'[o].state \in {"Validating", "Validated", "Committing", "Discarded"}
             PROVE  \E t \in Tasked : task[t].op = o /\ task[t].policy = rec[o].policy
  BY DEF DriftStep, Tasked
<1>1. rec \in [Ops -> Records] /\ rec'[o] # rec[o]
  BY Types
<1>2. ASSUME NEW t \in Tasked, CallStep(t) \/ WorkerStep(t), task[t].pc # "idle"
      PROVE task[t].op = o /\ task[t].policy = rec[o].policy
  <2>1. task[t].op = o
    BY <1>1, <1>2, OwnRecordOnly
  <2>2. CASE task[t].pc # "stage_guard"
    BY <1>2, <2>1, <2>2, Underway
  <2>3. CASE task[t].pc = "stage_guard"
    <3>1. StageInsert(t)
      BY <1>2, <2>3 DEF CallStep, StageStep, ValidateStep, CommitStep, DiscardStep, WorkerStep,
         StageLock, StageFingerprint, StageClean, StagePost, StageAfter, StageUnlock, StageRemove,
         ValidateGuard, ValidatePost, ValidatePoll, CommitCompare, CommitReturn, CommitMark,
         DiscardGuard, DiscardRevert, DiscardFingerprint, DiscardUnlock, DiscardSave, WorkerGuard,
         WorkerPost, WorkerJob, WorkerPoll, WorkerAfter, WorkerUnlock, WorkerReceipt, At
    <3>2. rec' = [rec EXCEPT ![o] = task[t].rec]
      BY <1>1, <2>1, <3>1, Zenon DEF StageInsert, Insert, coordinatorVars
    <3>3. task[t].rec.state = "Staging"
      BY <1>2, <2>3 DEF LifecycleInv, TasksOK, TaskOK
    <3> QED
      BY <1>1, <3>2, <3>3
  <2> QED
    BY <2>2, <2>3
<1>3. ASSUME NEW t \in Tasked, CallStep(t) \/ WorkerStep(t)
      PROVE  task[t].pc # "idle"
  BY <1>3, StepsAreUnderway
<1>4. CASE Restart
  <2>1. rec'[o] = Recovered(rec[o])
    BY <1>4 DEF Restart
  <2>2. rec'[o] = rec[o] \/ rec'[o] = [rec[o] EXCEPT !.state = "Indeterminate"]
    BY <2>1, Zenon DEF Recovered
  <2>3. rec[o] \in Records
    BY <1>1
  <2> QED
    BY <1>1, <2>2, <2>3 DEF Records
<1>5. CASE \E p \in Ops : Resolve(p)
  BY <1>5 DEF Resolve
<1>6. CASE Environment \/ UNCHANGED vars \/ \E t \in Calls : NewCall(t)
  <2>1. UNCHANGED rec
    BY <1>6, EnvironmentWritesNoRecord
  <2> QED
    BY <1>1, <2>1
<1> QED
  BY <1>2, <1>3, <1>4, <1>5, <1>6 DEF Next, Serve, Tasked

\* require_operation_policy: after a reload with another write policy, no call that
\* starts then moves an operation on; only a task of the policy the operation was staged
\* under, or the offline command, takes a record towards commit or discard.
THEOREM DriftIsRefused == Spec => DriftStopsNewCalls
<1>1. LifecycleInv /\ [Next]_vars => [DriftStep]_rec
  BY StepsKeepThePolicy
<1> QED
  BY <1>1, InitHolds, NextPreserves, PTL DEF Spec, DriftStopsNewCalls, DriftStep

-----------------------------------------------------------------------------
(* Operations of known or unknown outcome that nobody works on. *)

\* Going on, with the same record or another, and returning take up no operation.
LEMMA MovesKeepTheirOperation ==
    ASSUME task \in [Tasked -> Locals], NEW t \in Tasked,
           (\E pc : Goto(t, pc)) \/ (\E pc, r : Keep(t, pc, r)) \/ Finish(t)
    PROVE  \A u \in Tasked : task'[u].op \in {task[u].op, None}
<1> SUFFICES ASSUME NEW u \in Tasked PROVE task'[u].op \in {task[u].op, None}
  OBVIOUS
<1>1. task[t] \in Locals
  OBVIOUS
<1>2. CASE \E pc : Goto(t, pc)
  BY <1>1, <1>2 DEF Goto, Locals
<1>3. CASE \E pc, r : Keep(t, pc, r)
  <2>1. PICK pc, r : task' = [task EXCEPT ![t].pc = pc, ![t].rec = r]
    BY <1>3 DEF Keep
  <2>2. task'[u] = IF u = t THEN [task[t] EXCEPT !.pc = pc, !.rec = r] ELSE task[u]
    BY <2>1
  <2>3. [task[t] EXCEPT !.pc = pc, !.rec = r].op = task[t].op
    BY <1>1 DEF Locals
  <2> QED
    BY <2>2, <2>3
<1>4. CASE Finish(t)
  BY <1>4 DEF Finish, Idle
<1> QED
  BY <1>2, <1>3, <1>4

\* A step of a task hands on its own operation only.
LEMMA OwnOperationOnly ==
    ASSUME task \in [Tasked -> Locals], NEW t \in Tasked, CallStep(t) \/ WorkerStep(t),
           NEW u \in Tasked
    PROVE  task'[u].op \in {task[u].op, task[t].op, None}
<1> DEFINE Moves == (\E pc : Goto(t, pc)) \/ (\E pc, r : Keep(t, pc, r)) \/ Finish(t)
<1>1. CASE Moves
  BY <1>1, MovesKeepTheirOperation
<1>2. CASE StageStep(t)
  <2>1. Moves
    BY <1>2, Zenon DEF StageStep, StageInsert, StageLock, StageFingerprint, StageClean,
       StagePost, StageAfter, StageAbort, StageUnlock, StageRemove
  <2> QED
    BY <1>1, <2>1
<1>3. CASE ValidateStep(t)
  <2>1. CASE ValidatePost(t)
    <3>1. CASE Finish(t)
      BY <1>1, <3>1
    <3>2. CASE task' = [task EXCEPT ![t].pc = "validate_poll",
                                    ![t].rec = WithState(task[t].rec, "Validating"),
                                    ![t].seen = OwnEdits(candidate)]
      BY <3>2 DEF Locals
    <3> QED
      BY <2>1, <3>1, <3>2, Zenon DEF ValidatePost
  <2>2. CASE ValidateGuard(t) \/ ValidatePoll(t)
    <3>1. Moves
      BY <2>2, Zenon DEF ValidateGuard, GuardAndCompare, ValidatePoll
    <3> QED
      BY <1>1, <3>1
  <2> QED
    BY <1>3, <2>1, <2>2 DEF ValidateStep
<1>4. CASE CommitStep(t)
  <2>1. CASE \E w \in Workers : CommitMark(t, w)
    <3>1. PICK w \in Workers : CommitMark(t, w)
      BY <2>1
    <3> DEFINE r == WithState(task[t].rec, "Committing")
               lw == [task[t] EXCEPT !.pc = "worker_guard", !.rec = r]
    <3>2. CASE task' = [task EXCEPT ![t] = Idle]
      BY <3>2 DEF Idle
    <3>3. CASE task' = [task EXCEPT ![t].pc = "commit_wait", ![t].worker = w, ![w] = lw]
      <4>1. (w \in Tasked /\ t # w) \/ w = t
        BY DEF Tasked
      <4>2. lw.op = task[t].op
        BY DEF Locals
      <4> HIDE DEF lw
      <4> QED
        BY <3>3, <4>1, <4>2 DEF Locals, Tasked
    <3> QED
      BY <3>1, <3>2, <3>3, Zenon DEF CommitMark
  <2>2. CASE CommitCompare(t) \/ CommitReturn(t)
    <3>1. Moves
      BY <2>2, Zenon DEF CommitCompare, CommitReturn
    <3> QED
      BY <1>1, <3>1
  <2> QED
    BY <1>4, <2>1, <2>2 DEF CommitStep
<1>5. CASE DiscardStep(t)
  <2>1. Moves
    BY <1>5, Zenon DEF DiscardStep, DiscardGuard, GuardAndCompare, DiscardRevert,
       DiscardFingerprint, DiscardUnlock, DiscardSave
  <2> QED
    BY <1>1, <2>1
<1>6. CASE WorkerStep(t)
  <2>1. CASE WorkerAfter(t)
    <3>1. CASE WorkerError(t)
      BY <1>1, <3>1, Zenon DEF WorkerError
    <3>2. ASSUME NEW pc, NEW r, NEW v,
                 task' = [task EXCEPT ![t].pc = pc, ![t].rec = r, ![t].verdict = v]
          PROVE  task'[u].op \in {task[u].op, None}
      BY <3>2 DEF Locals
    <3> DEFINE Last(saved) ==
                 LET r == [task[t].rec EXCEPT
                             !.current = Fingerprint,
                             !.state = IF job[t].status = "ok" THEN "Committing" ELSE "Failed"]
                 IN  CASE ~saved -> WithState(r, "Indeterminate")
                       [] saved /\ job[t].status = "ok" /\ ~r.lock -> WithState(r, "Committed")
                       [] OTHER -> r
               Place(saved) == IF Last(saved).state = "Committing" THEN "worker_unlock"
                               ELSE "worker_receipt"
               Verdict(saved) == IF saved THEN job[t].status ELSE "unknown"
    <3>3. PICK saved \in Saves :
            \/ WorkerError(t)
            \/ task' = [task EXCEPT ![t].pc = Place(saved), ![t].rec = Last(saved),
                                    ![t].verdict = Verdict(saved)]
      BY <2>1, Zenon DEF WorkerAfter
    <3> HIDE DEF Last, Place, Verdict
    <3> QED
      BY <3>1, <3>2, <3>3
  <2>2. CASE ~WorkerAfter(t)
    <3>1. Moves
      BY <1>6, <2>2, Zenon DEF WorkerStep, WorkerGuard, WorkerPost, WorkerJob, WorkerPoll,
         WorkerUnlock, WorkerReceipt, WorkerError
    <3> QED
      BY <1>1, <3>1
  <2> QED
    BY <2>1, <2>2
<1> QED
  BY <1>2, <1>3, <1>4, <1>5, <1>6 DEF CallStep

\* A new call takes up an operation that is not settled.
LEMMA NewCallsFindOpen ==
    ASSUME task \in [Tasked -> Locals], NEW t \in Calls, NewCall(t), NEW o \in Ops, Settled(o),
           NEW u \in Tasked
    PROVE  task'[u].op # o
<1>1. PICK p \in Ops : \/ \E e \in Edits : StageCall(t, p, e)
                       \/ ValidateCall(t, p) \/ CommitCall(t, p) \/ DiscardCall(t, p)
  BY DEF NewCall
<1>2. rec[p].state \in {"Fresh", "Staged", "Validated"} \union Discardable
  BY <1>1, Zenon DEF StageCall, NewId, ValidateCall, CommitCall, DiscardCall, DiscardAdmits
<1>3. p # o
  BY <1>2 DEF Settled, Terminal, Discardable
<1>4. PICK pc, r : Began(t, p, pc, r)
  BY <1>1, Zenon DEF StageCall, ValidateCall, CommitCall, DiscardCall
<1>5. \/ task'[u] = task[u]
      \/ task'[u] = [Idle EXCEPT !.pc = pc, !.op = p, !.policy = policy, !.rec = r]
  BY <1>4 DEF Began
<1>6. task[u].op # o
  BY DEF Settled, Tasked
<1> QED
  BY <1>3, <1>5, <1>6 DEF Idle

\* What SettledIsFinal says of one step.
SettledStep ==
    \A o \in Ops :
        Settled(o) =>
            /\ Settled(o)'
            /\ rec'[o] = rec[o] \/ (rec[o].state = "Indeterminate" /\ ServiceStopped)

\* No step takes a settled operation up, and only the offline command writes it.
LEMMA StepsLeaveTheSettled == LifecycleInv /\ [Next]_vars => SettledStep
<1> SUFFICES ASSUME LifecycleInv, [Next]_vars, NEW o \in Ops, Settled(o)
             PROVE  /\ Settled(o)'
                    /\ rec'[o] = rec[o] \/ (rec[o].state = "Indeterminate" /\ ServiceStopped)
  BY DEF SettledStep
<1> DEFINE Kept == rec'[o] = rec[o] /\ \A u \in Tasked : task'[u].op # o
<1>1. /\ rec \in [Ops -> Records] /\ task \in [Tasked -> Locals] /\ o # None
      /\ \A u \in Tasked : task[u].op # o
  BY Types, NoneIsNoOp DEF Settled, Tasked
<1>2. CASE Kept
  BY <1>2 DEF Settled, Tasked
<1>3. ASSUME NEW t \in Tasked, CallStep(t) \/ WorkerStep(t) PROVE Kept
  <2>1. rec'[o] = rec[o]
    BY <1>1, <1>3, OwnRecordOnly
  <2>2. \A u \in Tasked : task'[u].op # o
    BY <1>1, <1>3, OwnOperationOnly
  <2> QED
    BY <2>1, <2>2
<1>4. ASSUME NEW t \in Calls, NewCall(t) PROVE Kept
  BY <1>1, <1>4, NewCallsFindOpen, EnvironmentWritesNoRecord
<1>5. CASE Restart
  <2>1. rec'[o] = rec[o]
    BY <1>5, Zenon DEF Restart, Recovered, Settled, Terminal
  <2>2. \A u \in Tasked : task'[u].op # o
    BY <1>1, <1>5 DEF Restart, Idle, Tasked
  <2> QED
    BY <1>2, <2>1, <2>2
<1>6. ASSUME NEW p \in Ops, Resolve(p)
      PROVE  /\ Settled(o)'
             /\ rec'[o] = rec[o] \/ (rec[o].state = "Indeterminate" /\ ServiceStopped)
  <2>1. /\ task' = task /\ ServiceStopped /\ rec[p].state = "Indeterminate"
        /\ rec' = [rec EXCEPT ![p].lock = FALSE,
                              ![p].state = IF rec[p].actions \subseteq running
                                           THEN "Committed" ELSE "Discarded"]
    BY <1>6 DEF Resolve
  <2>2. CASE p # o
    BY <1>1, <1>2, <2>1, <2>2
  <2>3. CASE p = o
    <3>1. rec[o] \in Records
      BY <1>1
    <3>2. rec'[o].state \in Terminal
      BY <1>1, <2>1, <2>3, <3>1 DEF Records, Terminal
    <3> QED
      BY <1>1, <2>1, <2>3, <3>2 DEF Settled, Tasked
  <2> QED
    BY <2>2, <2>3
<1>7. CASE Environment \/ UNCHANGED vars
  <2>1. UNCHANGED <<rec, task>>
    BY <1>7, Zenon DEF Environment, Reload, vars, coordinatorVars
  <2> QED
    BY <1>1, <1>2, <2>1
<1> QED
  BY <1>2, <1>3, <1>4, <1>5, <1>6, <1>7 DEF Next, Serve, Tasked

\* An operation that is committed, discarded or of unknown outcome, and that no task under
\* way has read, is left alone by every later call, worker and restart; only the offline
\* command settles an unknown outcome.  What can still overwrite an outcome are the blind
\* updates of tasks that had read the record before.
THEOREM SettledStays == Spec => SettledIsFinal
<1>1. LifecycleInv /\ [Next]_vars => [SettledStep]_vars
  BY StepsLeaveTheSettled
<1> QED
  BY <1>1, InitHolds, NextPreserves, PTL DEF Spec, SettledIsFinal, SettledStep

-----------------------------------------------------------------------------
(***************************************************************************)
(* Any number of clients on an endpoint where no operation may be          *)
(* committed directly: device_guard and require_clean_candidate keep the   *)
(* clients' edits apart.                                                   *)
(***************************************************************************)

CommitPcs == {"commit_fp", "commit_mark", "commit_wait"}

\* The gate on operations without a change set lets no commit begin, so nothing of this
\* server's administrator is running.
NothingCommitted ==
    /\ \A w \in Workers : task[w].pc = "idle" /\ job[w].status # "active"
    /\ \A t \in Calls : task[t].pc \notin CommitPcs
    /\ OwnEdits(running) = {}

\* What every stored record says.
StoredOK(o) ==
    /\ rec[o].changeSet = None
    /\ rec[o].state = "Fresh" => rec[o].actions = {}

\* What a call under way knows: its copy names the actions that are stored, a stage has
\* one of them, and it posts only to a candidate without edits of this administrator.
CallOK(t) ==
    /\ task[t].pc # "idle" => task[t].rec.changeSet = None
    /\ task[t].pc \in StagePcs => \A a, b \in task[t].rec.actions : a = b
    /\ task[t].pc \notin {"idle", "stage_guard"} =>
         task[t].rec.actions = rec[task[t].op].actions
    /\ task[t].pc = "stage_post" => OwnEdits(candidate) = {}

StagingInv ==
    /\ LifecycleInv
    /\ NothingCommitted
    /\ \A o \in Ops : StoredOK(o)
    /\ \A t \in Calls : CallOK(t)
    /\ NoMixedCandidate

-----------------------------------------------------------------------------
(* A step of one call. *)

\* Call t goes on with the same actions of the same operation, or returns.
Proceeds(t) ==
    /\ \A u \in Tasked \ {t} : task'[u] = task[u]
    /\ \/ task'[t].pc = "idle"
       \/ /\ task'[t].pc \in CallPcs \ (CommitPcs \union {"stage_guard"})
          /\ task'[t].pc \in StagePcs => task[t].pc \in StagePcs
          /\ task'[t].op = task[t].op
          /\ task'[t].rec.actions = task[t].rec.actions
          /\ task'[t].rec.changeSet = None

\* Call t stores those actions under its operation, or nothing.
Stores(t) ==
    \/ rec' = rec /\ (task[t].pc = "stage_guard" => task'[t].pc = "idle")
    \/ /\ task[t].pc = "stage_guard" => rec[task[t].op].state = "Fresh"
       /\ \E r \in Records :
            /\ rec' = [rec EXCEPT ![task[t].op] = r]
            /\ r.actions = task[t].rec.actions /\ r.changeSet = None /\ r.state # "Fresh"

\* Under the mutex, call t adds its own edits to a candidate without any, or reverts.
EditsAlone(t) ==
    /\ \/ OwnEdits(candidate') = OwnEdits(candidate)
       \/ task[t].pc \in GuardedPcs /\ OwnEdits(candidate') \subseteq task[t].rec.actions
    /\ task'[t].pc = "stage_post" => OwnEdits(candidate') = {}

\* Such a step keeps the invariant.
LEMMA CallStepKeepsApart ==
    ASSUME StagingInv, LifecycleInv', NEW t \in Calls, task[t].pc # "idle",
           Proceeds(t), Stores(t), EditsAlone(t), UNCHANGED <<running, job>>
    PROVE  StagingInv'
<1>1. /\ task[t].op \in Ops /\ rec \in [Ops -> Records] /\ t \in Tasked /\ t \notin Workers
      /\ LifecycleInv /\ NothingCommitted /\ CallOK(t) /\ \A o \in Ops : StoredOK(o)
  BY Types, Underway, Places, TasksAssumption DEF StagingInv
<1>2. NothingCommitted'
  BY <1>1, Places DEF NothingCommitted, Proceeds, CommitPcs
<1>3. /\ \A o \in Ops \ {task[t].op} : rec'[o] = rec[o]
      /\ task[t].pc # "stage_guard" => rec'[task[t].op].actions = task[t].rec.actions
      /\ task'[t].pc # "idle" => rec'[task[t].op].actions = task[t].rec.actions
      /\ rec' # rec => rec'[task[t].op].actions = task[t].rec.actions
  BY <1>1 DEF Stores, CallOK
<1>4. ASSUME NEW o \in Ops PROVE StoredOK(o)'
  BY <1>1 DEF Stores, StoredOK
<1>5. ASSUME NEW u \in Calls PROVE CallOK(u)'
  <2>1. CASE u = t
    <3>1. task'[t].pc \in StagePcs => \A a, b \in task'[t].rec.actions : a = b
      BY <1>1 DEF Proceeds, CallOK, StagePcs
    <3> QED
      BY <1>1, <1>3, <2>1, <3>1 DEF Proceeds, CallOK, EditsAlone
  <2>2. CASE u # t
    <3>1. task'[u] = task[u] /\ CallOK(u) /\ u \in Tasked
      BY <2>2, Places DEF Proceeds, StagingInv
    <3>2. task[u].pc \notin {"idle", "stage_guard"} =>
            task[u].rec.actions = rec'[task[u].op].actions
      <4> SUFFICES ASSUME task[u].pc \notin {"idle", "stage_guard"}
                   PROVE  task[u].rec.actions = rec'[task[u].op].actions
        OBVIOUS
      <4>1. /\ task[u].op \in Ops /\ rec[task[u].op].state # "Fresh"
            /\ task[u].rec.actions = rec[task[u].op].actions
        BY <1>1, <3>1, Underway DEF CallOK
      <4>2. CASE task[u].op # task[t].op \/ rec' = rec
        BY <1>3, <4>1, <4>2
      <4>3. CASE task[u].op = task[t].op /\ rec' # rec
        <5>1. task[t].pc # "stage_guard"
          BY <4>1, <4>3 DEF Stores
        <5> QED
          BY <1>1, <1>3, <4>1, <4>3, <5>1 DEF CallOK
      <4> QED
        BY <4>2, <4>3
    <3>3. task[u].pc = "stage_post" => OwnEdits(candidate') = {}
      <4>1. task[u].pc = "stage_post" => task[t].pc \notin GuardedPcs
        BY <1>1, <2>2, <3>1 DEF LifecycleInv, GuardDiscipline, GuardedPcs, Tasked
      <4> QED
        BY <3>1, <4>1 DEF CallOK, EditsAlone
    <3> QED
      BY <3>1, <3>2, <3>3 DEF CallOK
  <2> QED
    BY <2>1, <2>2
<1>6. NoMixedCandidate'
  <2>1. CASE OwnEdits(candidate') = OwnEdits(candidate)
    <3>1. PICK o \in Ops : Pending \subseteq rec[o].actions
      BY DEF StagingInv, NoMixedCandidate
    <3>2. Pending' = Pending
      BY <2>1 DEF Pending
    <3>3. rec'[o].actions = rec[o].actions \/ rec[o].actions = {}
      BY <1>1, <1>3 DEF Stores, CallOK, StoredOK
    <3> QED
      BY <3>1, <3>2, <3>3 DEF NoMixedCandidate
  <2>2. CASE task[t].pc \in GuardedPcs /\ OwnEdits(candidate') \subseteq task[t].rec.actions
    <3>1. Pending' \subseteq rec'[task[t].op].actions
      BY <1>3, <2>2 DEF Pending, GuardedPcs
    <3> QED
      BY <1>1, <3>1 DEF NoMixedCandidate
  <2> QED
    BY <2>1, <2>2 DEF EditsAlone
<1> QED
  BY <1>2, <1>4, <1>5, <1>6 DEF StagingInv

\* Going to another place, with the same record or one of the same operation; returning.
LEMMA Moving ==
    ASSUME StagingInv, NEW t \in Calls, task[t].pc # "idle",
           NEW pc \in CallPcs \ (CommitPcs \union {"stage_guard"}),
           pc \in StagePcs => task[t].pc \in StagePcs
    PROVE  /\ Goto(t, pc) => Proceeds(t) /\ task'[t].pc = pc
           /\ \A r \in Records :
                Keep(t, pc, r) /\ r.policy = task[t].policy /\ r.state \in Lifecycle
                /\ r.actions = task[t].rec.actions /\ r.changeSet = None
                => Proceeds(t) /\ task'[t].pc = pc
<1>1. /\ LifecycleInv /\ t \in Tasked /\ pc \in PcsOf(t) \ {"stage_guard"}
      /\ task[t].rec.changeSet = None
  BY Places DEF StagingInv, CallOK
<1>2. Goto(t, pc) => Proceeds(t) /\ task'[t].pc = pc
  BY <1>1, GotoAdvances DEF Advances, Proceeds
<1>3. ASSUME NEW r \in Records, Keep(t, pc, r), r.policy = task[t].policy, r.state \in Lifecycle,
             r.actions = task[t].rec.actions, r.changeSet = None
      PROVE  Proceeds(t) /\ task'[t].pc = pc
  BY <1>1, <1>3, KeepAdvances DEF Advances, Proceeds
<1> QED
  BY <1>2, <1>3

LEMMA Returning ==
    ASSUME StagingInv, NEW t \in Calls, Finish(t)
    PROVE  Proceeds(t) /\ task'[t].pc = "idle"
BY Places, FinishAdvances DEF StagingInv, Advances, Proceeds

\* The record of a call under way.
LEMMA CallRecord ==
    ASSUME StagingInv, NEW t \in Calls, task[t].pc # "idle"
    PROVE  /\ t \in Tasked /\ task[t].op \in Ops /\ rec \in [Ops -> Records]
           /\ task[t].rec \in Records /\ task[t].rec.changeSet = None
           /\ task[t].rec.policy = task[t].policy /\ task[t].rec.state \in Lifecycle
           /\ task[t].pc # "stage_guard" =>
                /\ task[t].rec.actions = rec[task[t].op].actions
                /\ rec[task[t].op].changeSet = None
BY Places, Underway, Types DEF StagingInv, CallOK, StoredOK

\* A record written back with the call's own actions.
LEMMA UpdateStores ==
    ASSUME NEW t, task[t].pc # "stage_guard", NEW r \in Records, NEW saved,
           Update(task[t].op, r, saved), r.actions = task[t].rec.actions,
           r.changeSet = None, r.state # "Fresh"
    PROVE  Stores(t)
<1>1. CASE saved
  BY <1>1, Zenon DEF Stores, Update
<1>2. CASE ~saved
  BY <1>2, Zenon DEF Stores, Update
<1> QED
  BY <1>1, <1>2

\* A step of a call that writes no record and leaves the candidate alone.
LEMMA QuietKeepsApart ==
    ASSUME StagingInv, LifecycleInv', NEW t \in Calls, task[t].pc # "idle", Proceeds(t),
           UNCHANGED <<candidate, running, job, rec>>,
           task[t].pc = "stage_guard" => task'[t].pc = "idle",
           task'[t].pc = "stage_post" => OwnEdits(candidate) = {}
    PROVE  StagingInv'
<1>1. Stores(t) /\ EditsAlone(t)
  BY DEF Stores, EditsAlone
<1> QED
  BY <1>1, CallStepKeepsApart

-----------------------------------------------------------------------------
(* stage_config *)

LEMMA StageInsertKeepsApart ==
    ASSUME StagingInv, LifecycleInv', NEW t \in Calls, StageInsert(t)
    PROVE  StagingInv'
<1>1. /\ task[t].pc = "stage_guard" /\ task[t].pc # "idle"
      /\ UNCHANGED <<candidate, running, lock, job>>
  BY DEF StageInsert, At, deviceVars
<1>2. CASE Insert(task[t].op, task[t].rec) /\ Goto(t, "stage_lock")
  <2>1. "stage_lock" \in CallPcs \ (CommitPcs \union {"stage_guard"})
    BY DEF CallPcs, StagePcs, CommitPcs
  <2>2. Proceeds(t) /\ task'[t].pc = "stage_lock"
    BY <1>1, <1>2, <2>1, Moving DEF StagePcs
  <2>3. Stores(t)
    BY <1>1, <1>2, CallRecord DEF Insert, Stores, Lifecycle
  <2>4. EditsAlone(t)
    BY <1>1, <2>2 DEF EditsAlone
  <2> QED
    BY <1>1, <2>2, <2>3, <2>4, CallStepKeepsApart
<1>3. CASE Finish(t) /\ UNCHANGED coordinatorVars
  BY <1>1, <1>3, Returning, QuietKeepsApart DEF coordinatorVars
<1> QED
  BY <1>2, <1>3 DEF StageInsert

LEMMA StageMovesKeepApart ==
    ASSUME StagingInv, LifecycleInv', NEW t \in Calls,
           StageLock(t) \/ StageFingerprint(t) \/ StageClean(t) \/ StageUnlock(t)
    PROVE  StagingInv'
<1>1. /\ task[t].pc \in StagePcs \ {"stage_guard"} /\ task[t].pc # "idle"
      /\ UNCHANGED <<candidate, running, job, rec>>
  BY DEF StageLock, StageFingerprint, StageClean, StageUnlock, At, StagePcs,
     deviceVars, coordinatorVars
<1> DEFINE Next1 == {"stage_fp", "stage_clean", "stage_post", "stage_unlock", "stage_remove"}
<1>2. Next1 \subseteq CallPcs \ (CommitPcs \union {"stage_guard"})
  BY DEF CallPcs, StagePcs, CommitPcs
<1>3. \/ \E pc \in Next1 \ {"stage_post"} : Goto(t, pc)
      \/ Keep(t, "stage_fp", [task[t].rec EXCEPT !.lock = TRUE])
      \/ Goto(t, "stage_post") /\ ~PendingChanges
  BY Zenon DEF StageLock, StageFingerprint, StageClean, StageUnlock, StageAbort
<1>4. CASE \E pc \in Next1 \ {"stage_post"} : Goto(t, pc)
  <2>1. PICK pc \in Next1 \ {"stage_post"} : Goto(t, pc)
    BY <1>4
  <2>2. Proceeds(t) /\ task'[t].pc = pc
    BY <1>1, <1>2, <2>1, Moving
  <2> QED
    BY <1>1, <2>1, <2>2, QuietKeepsApart
<1>5. CASE Keep(t, "stage_fp", [task[t].rec EXCEPT !.lock = TRUE])
  <2> DEFINE r == [task[t].rec EXCEPT !.lock = TRUE]
  <2>1. /\ r \in Records /\ r.policy = task[t].policy /\ r.state \in Lifecycle
        /\ r.actions = task[t].rec.actions /\ r.changeSet = None
    <3>1. /\ task[t].rec \in Records /\ task[t].rec.policy = task[t].policy
          /\ task[t].rec.state \in Lifecycle /\ task[t].rec.changeSet = None
      BY <1>1, CallRecord
    <3> QED
      BY <3>1, WithLockType
  <2>2. Keep(t, "stage_fp", r) /\ "stage_fp" \in Next1
    BY <1>5
  <2> HIDE DEF r
  <2>3. Proceeds(t) /\ task'[t].pc = "stage_fp"
    BY <1>1, <1>2, <2>1, <2>2, Moving
  <2> QED
    BY <1>1, <2>3, QuietKeepsApart
<1>6. CASE Goto(t, "stage_post") /\ ~PendingChanges
  <2>1. OwnEdits(candidate) = {}
    BY <1>6 DEF PendingChanges, StagingInv, NothingCommitted
  <2>2. Proceeds(t)
    BY <1>1, <1>2, <1>6, Moving
  <2> QED
    BY <1>1, <2>1, <2>2, QuietKeepsApart
<1> QED
  BY <1>3, <1>4, <1>5, <1>6

LEMMA StagePostKeepsApart ==
    ASSUME StagingInv, LifecycleInv', NEW t \in Calls, StagePost(t)
    PROVE  StagingInv'
<1>1. /\ task[t].pc = "stage_post" /\ task[t].pc # "idle"
      /\ UNCHANGED <<running, job, rec>>
  BY DEF StagePost, At, coordinatorVars
<1>2. PICK out \in Outcomes, e \in task[t].rec.actions :
        PostEdit(e, out) /\ (Goto(t, "stage_after") \/ Goto(t, "stage_unlock"))
  BY Zenon DEF StagePost, StageAbort
<1>3. {"stage_after", "stage_unlock"} \subseteq CallPcs \ (CommitPcs \union {"stage_guard"})
  BY DEF CallPcs, StagePcs, CommitPcs
<1>4. Proceeds(t) /\ task'[t].pc \in {"stage_after", "stage_unlock"}
  BY <1>1, <1>2, <1>3, Moving DEF StagePcs
<1>5. EditsAlone(t)
  <2>1. OwnEdits(candidate) = {}
    BY <1>1 DEF StagingInv, CallOK
  <2>2. OwnEdits(candidate') \subseteq {e}
    BY <1>2, <2>1 DEF PostEdit, OwnEdits
  <2> QED
    BY <1>1, <1>4, <2>2 DEF EditsAlone, GuardedPcs
<1>6. Stores(t)
  BY <1>1 DEF Stores
<1> QED
  BY <1>1, <1>4, <1>5, <1>6, CallStepKeepsApart

LEMMA StageEndKeepsApart ==
    ASSUME StagingInv, LifecycleInv', NEW t \in Calls, StageAfter(t) \/ StageRemove(t)
    PROVE  StagingInv'
<1>1. /\ task[t].pc \in StagePcs \ {"stage_guard"} /\ task[t].pc # "idle"
      /\ UNCHANGED <<candidate, running, job>>
  BY DEF StageAfter, StageRemove, At, StagePcs, deviceVars
<1>2. /\ task[t].rec \in Records /\ task[t].rec.changeSet = None /\ task[t].op \in Ops
      /\ rec \in [Ops -> Records] /\ task[t].rec.actions = rec[task[t].op].actions
      /\ rec[task[t].op].changeSet = None /\ Fingerprint \in SUBSET Roots
  BY <1>1, CallRecord DEF Fingerprint
<1>3. ASSUME Finish(t), Stores(t) PROVE StagingInv'
  <2>1. Proceeds(t) /\ EditsAlone(t)
    BY <1>1, <1>3, Returning DEF EditsAlone
  <2> QED
    BY <1>1, <1>3, <2>1, CallStepKeepsApart
<1>4. ASSUME NEW saved, Finish(t),
             Update(task[t].op, [task[t].rec EXCEPT !.state = "Staged", !.current = Fingerprint],
                    saved)
      PROVE  StagingInv'
  <2> DEFINE r == [task[t].rec EXCEPT !.state = "Staged", !.current = Fingerprint]
  <2>1. r \in Records /\ r.actions = task[t].rec.actions /\ r.changeSet = None
    <3>1. "Staged" \in Unused \union Lifecycle
      BY DEF Lifecycle
    <3>2. r \in Records
      BY <1>2, <3>1 DEF Records
    <3>3. r.actions = task[t].rec.actions /\ r.changeSet = None
      BY <1>2 DEF Records
    <3> QED
      BY <3>2, <3>3
  <2>2. r.state = "Staged"
    BY <1>2 DEF Records
  <2>3. Update(task[t].op, r, saved)
    BY <1>4
  <2> HIDE DEF r
  <2>4. Stores(t)
    BY <1>1, <2>1, <2>2, <2>3, UpdateStores
  <2> QED
    BY <1>3, <1>4, <2>4
<1>5. CASE StageRemove(t)
  <2> DEFINE r == [rec[task[t].op] EXCEPT !.state = "Gone"]
  <2>1. /\ r \in Records /\ r.actions = task[t].rec.actions /\ r.changeSet = None
        /\ r.state = "Gone"
    BY <1>2 DEF Records, Unused
  <2>2. rec' = [rec EXCEPT ![task[t].op] = r]
    BY <1>5 DEF StageRemove, Remove
  <2> HIDE DEF r
  <2>3. Stores(t)
    BY <1>1, <2>1, <2>2 DEF Stores
  <2> QED
    BY <1>3, <1>5, <2>3 DEF StageRemove
<1>6. CASE StageAbort(t) /\ UNCHANGED coordinatorVars
  <2>1. "stage_unlock" \in CallPcs \ (CommitPcs \union {"stage_guard"})
    BY DEF CallPcs, StagePcs, CommitPcs
  <2>2. Proceeds(t) /\ task'[t].pc = "stage_unlock"
    BY <1>1, <1>6, <2>1, Moving DEF StageAbort
  <2> QED
    BY <1>1, <1>6, <2>2, QuietKeepsApart DEF coordinatorVars
<1> QED
  BY <1>4, <1>5, <1>6 DEF StageAfter

-----------------------------------------------------------------------------
(* validate_candidate and discard_candidate *)

LEMMA GuardAndCompareKeepsApart ==
    ASSUME StagingInv, LifecycleInv', NEW t \in Calls, ValidateGuard(t) \/ DiscardGuard(t)
    PROVE  StagingInv'
<1>1. /\ task[t].pc \in {"validate_guard", "discard_guard"} /\ task[t].pc # "idle"
      /\ UNCHANGED <<candidate, running, job, rec>>
  BY DEF ValidateGuard, DiscardGuard, GuardAndCompare, At, deviceVars
<1>2. \/ \E pc \in {"validate_post", "discard_revert"} : Goto(t, pc)
      \/ Finish(t)
  BY Zenon DEF ValidateGuard, DiscardGuard, GuardAndCompare
<1>3. CASE \E pc \in {"validate_post", "discard_revert"} : Goto(t, pc)
  <2>1. PICK pc \in {"validate_post", "discard_revert"} : Goto(t, pc)
    BY <1>3
  <2>2. pc \in CallPcs \ (CommitPcs \union {"stage_guard"}) /\ pc \notin StagePcs
    BY DEF CallPcs, StagePcs, CommitPcs
  <2>3. Proceeds(t) /\ task'[t].pc = pc
    BY <1>1, <2>1, <2>2, Moving
  <2> QED
    BY <1>1, <2>2, <2>3, QuietKeepsApart DEF StagePcs
<1>4. CASE Finish(t)
  BY <1>1, <1>4, Returning, QuietKeepsApart
<1> QED
  BY <1>2, <1>3, <1>4

\* A call that returns after writing its record with another state.
LEMMA SaveAndReturnKeepsApart ==
    ASSUME StagingInv, LifecycleInv', NEW t \in Calls,
           task[t].pc \notin {"idle", "stage_guard"}, Finish(t),
           UNCHANGED <<candidate, running, job>>, NEW saved,
           NEW s \in Lifecycle, Update(task[t].op, WithState(task[t].rec, s), saved)
    PROVE  StagingInv'
<1>1. Proceeds(t) /\ EditsAlone(t)
  BY Returning DEF EditsAlone
<1>2. task[t].rec \in Records /\ task[t].rec.changeSet = None
  BY CallRecord
<1> DEFINE r == WithState(task[t].rec, s)
<1>3. r \in Records /\ r.actions = task[t].rec.actions /\ r.changeSet = None /\ r.state = s
  BY <1>2, WithStateType
<1>4. Update(task[t].op, r, saved) /\ s # "Fresh"
  BY DEF Lifecycle
<1> HIDE DEF r
<1>5. Stores(t)
  BY <1>3, <1>4, UpdateStores
<1> QED
  BY <1>1, <1>5, CallStepKeepsApart

LEMMA ValidatePostKeepsApart ==
    ASSUME StagingInv, LifecycleInv', NEW t \in Calls, ValidatePost(t)
    PROVE  StagingInv'
<1>1. /\ task[t].pc = "validate_post" /\ task[t].pc \notin {"idle", "stage_guard"}
      /\ UNCHANGED <<candidate, running, job>>
  BY DEF ValidatePost, At, deviceVars
<1>2. /\ task \in [Tasked -> Locals] /\ t \in Tasked /\ "Validating" \in Lifecycle
      /\ task[t].rec \in Records /\ task[t].rec.changeSet = None
  BY <1>1, CallRecord, Types DEF StagingInv, Lifecycle
<1> DEFINE r == WithState(task[t].rec, "Validating")
           l == [task[t] EXCEPT !.pc = "validate_poll", !.rec = r, !.seen = OwnEdits(candidate)]
<1>3. CASE Finish(t) /\ UNCHANGED rec
  BY <1>1, <1>3, Returning, QuietKeepsApart
<1>4. ASSUME NEW saved, Finish(t), Update(task[t].op, r, saved)
      PROVE  StagingInv'
  BY <1>1, <1>2, <1>4, SaveAndReturnKeepsApart
<1>5. ASSUME NEW saved, Update(task[t].op, r, saved),
             task' = [task EXCEPT ![t].pc = "validate_poll", ![t].rec = r,
                                  ![t].seen = OwnEdits(candidate)]
      PROVE  StagingInv'
  <2>1. task' = [task EXCEPT ![t] = l]
    BY <1>5
  <2>2. l.pc = "validate_poll" /\ l.op = task[t].op /\ l.rec = r
    BY <1>2 DEF Locals
  <2>3. r \in Records /\ r.actions = task[t].rec.actions /\ r.changeSet = None
        /\ r.state = "Validating"
    BY <1>2, WithStateType
  <2> HIDE DEF l, r
  <2>4. task'[t] = l /\ \A u \in Tasked \ {t} : task'[u] = task[u]
    BY <1>2, <2>1
  <2>5. Proceeds(t) /\ EditsAlone(t)
    BY <1>1, <2>2, <2>3, <2>4 DEF Proceeds, EditsAlone, CallPcs, StagePcs, CommitPcs
  <2>6. Stores(t)
    BY <1>1, <1>5, <2>3, UpdateStores
  <2> QED
    BY <1>1, <2>5, <2>6, CallStepKeepsApart
<1> HIDE DEF r
<1> QED
  BY <1>3, <1>4, <1>5 DEF ValidatePost, r

LEMMA ValidatePollKeepsApart ==
    ASSUME StagingInv, LifecycleInv', NEW t \in Calls, ValidatePoll(t)
    PROVE  StagingInv'
<1>1. /\ task[t].pc \notin {"idle", "stage_guard"} /\ Finish(t)
      /\ UNCHANGED <<candidate, running, job>>
  BY DEF ValidatePoll, At, deviceVars
<1>2. PICK s \in {"Validated", "Failed"} :
        \E saved \in Saves : Update(task[t].op, WithState(task[t].rec, s), saved)
  <2>1. PICK succeeded \in BOOLEAN : \E saved \in Saves :
          Update(task[t].op,
                 WithState(task[t].rec, IF succeeded THEN "Validated" ELSE "Failed"), saved)
    BY Zenon DEF ValidatePoll
  <2> QED
    BY <2>1
<1>3. s \in Lifecycle
  BY DEF Lifecycle
<1> QED
  BY <1>1, <1>2, <1>3, SaveAndReturnKeepsApart

\* The steps of discard_candidate under the mutex.
LEMMA DiscardMovesKeepApart ==
    ASSUME StagingInv, LifecycleInv', NEW t \in Calls,
           DiscardRevert(t) \/ DiscardFingerprint(t) \/ DiscardUnlock(t)
    PROVE  StagingInv'
<1>1. /\ task[t].pc \in {"discard_revert", "discard_fp", "discard_unlock"}
      /\ task[t].pc \notin {"idle", "stage_guard"}
      /\ UNCHANGED <<running, job, rec>>
  BY DEF DiscardRevert, DiscardFingerprint, DiscardUnlock, At, deviceVars, coordinatorVars
<1>2. /\ task[t].rec \in Records /\ task[t].rec.changeSet = None
      /\ task[t].rec.policy = task[t].policy /\ task[t].rec.state \in Lifecycle
      /\ candidate \in Config /\ OwnEdits(running) = {}
  BY <1>1, CallRecord, Types DEF StagingInv, NothingCommitted
<1> DEFINE Next2 == {"discard_fp", "discard_unlock", "discard_save"}
<1>3. Next2 \subseteq CallPcs \ (CommitPcs \union {"stage_guard"}) /\ Next2 \cap StagePcs = {}
  BY DEF CallPcs, StagePcs, CommitPcs
<1>4. Stores(t)
  BY <1>1 DEF Stores
<1>5. ASSUME Proceeds(t), task'[t].pc \in Next2 \union {"idle"} PROVE StagingInv'
  <2>1. OwnEdits(candidate') = OwnEdits(candidate)
        \/ (task[t].pc \in GuardedPcs /\ OwnEdits(candidate') = {})
    <3>1. CASE DiscardRevert(t)
      <4>1. PICK out \in Outcomes : RevertAdmin(out)
        BY <3>1 DEF DiscardRevert
      <4>2. candidate' = candidate \/ candidate' = (candidate \ Edits) \union OwnEdits(running)
        BY <4>1, Zenon DEF RevertAdmin
      <4> QED
        BY <1>1, <1>2, <4>2 DEF OwnEdits, GuardedPcs
    <3>2. CASE DiscardFingerprint(t) \/ DiscardUnlock(t)
      BY <3>2 DEF DiscardFingerprint, DiscardUnlock, deviceVars
    <3> QED
      BY <3>1, <3>2
  <2>2. EditsAlone(t)
    BY <1>5, <2>1 DEF EditsAlone
  <2> QED
    BY <1>1, <1>4, <1>5, <2>2, CallStepKeepsApart
<1>6. CASE Finish(t)
  BY <1>5, <1>6, Returning
<1>7. CASE Goto(t, "discard_fp")
  BY <1>1, <1>3, <1>5, <1>7, Moving
<1>8. ASSUME NEW pc \in Next2, NEW r \in Records, Keep(t, pc, r), r.policy = task[t].policy,
             r.state \in Lifecycle, r.actions = task[t].rec.actions, r.changeSet = None
      PROVE  StagingInv'
  BY <1>1, <1>3, <1>5, <1>8, Moving
<1>9. CASE DiscardFingerprint(t)
  <2> DEFINE q == [task[t].rec EXCEPT !.current = Fingerprint]
  <2>1. Fingerprint \in SUBSET Roots
    BY DEF Fingerprint
  <2>2. /\ q \in Records /\ q.policy = task[t].policy /\ q.state \in Lifecycle
        /\ q.actions = task[t].rec.actions /\ q.changeSet = None
    BY <1>2, <2>1, WithCurrentType
  <2>3. LET d == WithState(q, "Discarded")
        IN  /\ d \in Records /\ d.policy = task[t].policy /\ d.state \in Lifecycle
            /\ d.actions = task[t].rec.actions /\ d.changeSet = None
    BY <2>2, WithStateType DEF Lifecycle
  <2>4. \/ Keep(t, "discard_unlock", q) \/ Keep(t, "discard_save", WithState(q, "Discarded"))
        \/ Finish(t)
    BY <1>9, Zenon DEF DiscardFingerprint
  <2> HIDE DEF q
  <2> QED
    BY <1>6, <1>8, <2>2, <2>3, <2>4
<1>10. CASE DiscardUnlock(t)
  <2>1. \/ Keep(t, "discard_save", [task[t].rec EXCEPT !.lock = FALSE, !.state = "Discarded"])
        \/ Keep(t, "discard_save", WithState(task[t].rec, "Indeterminate"))
    BY <1>10, Zenon DEF DiscardUnlock
  <2>2. LET r == [task[t].rec EXCEPT !.lock = FALSE, !.state = "Discarded"]
        IN  /\ r \in Records /\ r.policy = task[t].policy /\ r.state \in Lifecycle
            /\ r.actions = task[t].rec.actions /\ r.changeSet = None
    BY <1>2, UnlockedType DEF Lifecycle
  <2>3. LET r == WithState(task[t].rec, "Indeterminate")
        IN  /\ r \in Records /\ r.policy = task[t].policy /\ r.state \in Lifecycle
            /\ r.actions = task[t].rec.actions /\ r.changeSet = None
    BY <1>2, WithStateType DEF Lifecycle
  <2> QED
    BY <1>8, <2>1, <2>2, <2>3
<1> QED
  BY <1>6, <1>7, <1>9, <1>10, Zenon DEF DiscardRevert

LEMMA DiscardSaveKeepsApart ==
    ASSUME StagingInv, LifecycleInv', NEW t \in Calls, DiscardSave(t)
    PROVE  StagingInv'
<1>1. /\ task[t].pc \notin {"idle", "stage_guard"} /\ Finish(t)
      /\ UNCHANGED <<candidate, running, job>>
      /\ \E saved \in Saves : Update(task[t].op, task[t].rec, saved)
  BY Zenon DEF DiscardSave, At, deviceVars
<1>2. /\ task[t].rec \in Records /\ task[t].rec.changeSet = None
      /\ task[t].rec.state \in Lifecycle
  BY <1>1, CallRecord
<1>3. Stores(t)
  <2>1. PICK saved \in Saves : Update(task[t].op, task[t].rec, saved)
    BY <1>1
  <2> QED
    BY <1>1, <1>2, <2>1, UpdateStores DEF Lifecycle
<1>4. Proceeds(t) /\ EditsAlone(t)
  BY <1>1, Returning DEF EditsAlone
<1> QED
  BY <1>1, <1>3, <1>4, CallStepKeepsApart

-----------------------------------------------------------------------------
(* New calls, the environment and the operator. *)

\* A new call takes up an operation without a change set; the gate of commit_candidate
\* refuses every one of them.
LEMMA NewCallKeepsApart ==
    ASSUME StagingInv, LifecycleInv', ~AllowDirectCommit, NEW t \in Calls, NewCall(t)
    PROVE  StagingInv'
<1>1. PICK o \in Ops : \/ \E e \in Edits : StageCall(t, o, e)
                       \/ ValidateCall(t, o) \/ CommitCall(t, o) \/ DiscardCall(t, o)
  BY DEF NewCall
<1>2. /\ task \in [Tasked -> Locals] /\ t \in Tasked /\ t \notin Workers /\ StoredOK(o)
      /\ rec \in [Ops -> Records]
  BY Types, Places, TasksAssumption DEF StagingInv
<1>3. ~CommitCall(t, o)
  BY <1>2, Zenon DEF CommitCall, CommitGates, StoredOK
<1>4. /\ task[t].pc = "idle"
      /\ UNCHANGED <<candidate, running, job, rec>>
  BY <1>1, <1>3, Zenon DEF StageCall, ValidateCall, DiscardCall, At, deviceVars, coordinatorVars
<1>5. ASSUME NEW pc \in {"stage_guard", "validate_guard", "discard_guard"}, NEW r \in Records,
             Began(t, o, pc, r), r.changeSet = None,
             pc = "stage_guard" => \A a, b \in r.actions : a = b,
             pc # "stage_guard" => r = rec[o]
      PROVE  StagingInv'
  <2> DEFINE l == [Idle EXCEPT !.pc = pc, !.op = o, !.policy = policy, !.rec = r]
  <2>1. task' = [task EXCEPT ![t] = l]
    BY <1>5 DEF Began
  <2>2. l.pc = pc /\ l.op = o /\ l.rec = r
    BY DEF Idle
  <2> HIDE DEF l
  <2>3. task'[t] = l /\ \A u \in Tasked \ {t} : task'[u] = task[u]
    BY <1>2, <2>1
  <2>4. NothingCommitted'
    BY <1>2, <1>4, <2>2, <2>3, Places DEF StagingInv, NothingCommitted, CommitPcs
  <2>5. \A p \in Ops : StoredOK(p)'
    BY <1>4 DEF StagingInv, StoredOK
  <2>6. CallOK(t)'
    BY <1>4, <1>5, <2>2, <2>3 DEF CallOK, StagePcs
  <2>7. \A u \in Calls \ {t} : CallOK(u)'
    BY <1>4, <2>3, Places DEF StagingInv, CallOK
  <2>8. NoMixedCandidate'
    BY <1>4 DEF StagingInv, NoMixedCandidate, Pending
  <2> QED
    BY <2>4, <2>5, <2>6, <2>7, <2>8 DEF StagingInv
<1>6. CASE \E e \in Edits : StageCall(t, o, e)
  <2>1. PICK e \in Edits : StageCall(t, o, e)
    BY <1>6
  <2> DEFINE r == StagingRecord(Fingerprint, policy, {e}, None)
  <2>2. r \in Records /\ r.changeSet = None /\ r.actions = {e}
    BY Types DEF StagingInv, StagingRecord, Records, Fingerprint, Lifecycle, Unused
  <2>3. Began(t, o, "stage_guard", r)
    BY <2>1 DEF StageCall
  <2> HIDE DEF r
  <2> QED
    BY <1>5, <2>2, <2>3
<1>7. CASE ValidateCall(t, o) \/ DiscardCall(t, o)
  <2>1. Began(t, o, "validate_guard", rec[o]) \/ Began(t, o, "discard_guard", rec[o])
    BY <1>7 DEF ValidateCall, DiscardCall
  <2> QED
    BY <1>2, <1>5, <2>1 DEF StoredOK
<1> QED
  BY <1>1, <1>3, <1>6, <1>7

\* No job runs that could end; another administrator changes none of this one's edits.
LEMMA EnvironmentKeepsApart ==
    ASSUME StagingInv, LifecycleInv', Environment \/ UNCHANGED vars
    PROVE  StagingInv'
<1>1. UNCHANGED <<rec, task>>
  BY DEF Environment, Reload, coordinatorVars, vars
<1>2. /\ OwnEdits(candidate') = OwnEdits(candidate) /\ OwnEdits(running') = OwnEdits(running)
      /\ running \subseteq running' /\ UNCHANGED job
  <2>1. CASE DeviceNext
    <3>1. \A w \in Workers : ~FinishJob(w)
      BY DEF FinishJob, StagingInv, NothingCommitted
    <3>2. PICK f \in Foreign : ForeignEdit(f) \/ ForeignCommit(f)
      BY <2>1, <3>1 DEF DeviceNext
    <3> QED
      BY <3>2, EditsAssumption DEF ForeignEdit, ForeignCommit, OwnEdits
  <2>2. CASE UNCHANGED <<candidate, running, lock, job>>
    BY <2>2
  <2> QED
    BY <2>1, <2>2 DEF Environment, Reload, deviceVars, vars
<1>3. NothingCommitted' /\ (\A o \in Ops : StoredOK(o)') /\ (\A t \in Calls : CallOK(t)')
  BY <1>1, <1>2 DEF StagingInv, NothingCommitted, StoredOK, CallOK
<1>4. NoMixedCandidate'
  BY <1>1, <1>2 DEF StagingInv, NoMixedCandidate, Pending
<1> QED
  BY <1>3, <1>4 DEF StagingInv

\* A restart keeps the actions of every record; "state resolve" follows a revert.
LEMMA OperatorKeepsApart ==
    ASSUME StagingInv, LifecycleInv', Restart \/ \E o \in Ops : Resolve(o)
    PROVE  StagingInv'
<1>1. rec \in [Ops -> Records] /\ task \in [Tasked -> Locals]
  BY Types DEF StagingInv
<1>2. \A o \in Ops : /\ rec'[o].actions = rec[o].actions
                     /\ rec'[o].changeSet = rec[o].changeSet
                     /\ rec'[o].state = "Fresh" => rec[o].state = "Fresh"
  <2>1. CASE Restart
    <3> SUFFICES ASSUME NEW o \in Ops
                 PROVE  /\ rec'[o].actions = rec[o].actions
                        /\ rec'[o].changeSet = rec[o].changeSet
                        /\ rec'[o].state = "Fresh" => rec[o].state = "Fresh"
      OBVIOUS
    <3>1. rec'[o] = rec[o] \/ rec'[o] = WithState(rec[o], "Indeterminate")
      BY <2>1, Zenon DEF Restart, Recovered, WithState
    <3>2. LET r == WithState(rec[o], "Indeterminate")
          IN  r.actions = rec[o].actions /\ r.changeSet = rec[o].changeSet
              /\ r.state = "Indeterminate"
      <4>1. rec[o] \in Records /\ "Indeterminate" \in Lifecycle
        BY <1>1 DEF Lifecycle
      <4> QED
        BY <4>1, WithStateType
    <3> QED
      BY <3>1, <3>2
  <2>2. ASSUME NEW p \in Ops, Resolve(p)
        PROVE  \A o \in Ops : /\ rec'[o].actions = rec[o].actions
                              /\ rec'[o].changeSet = rec[o].changeSet
                              /\ rec'[o].state = "Fresh" => rec[o].state = "Fresh"
    <3>1. PICK s \in {"Committed", "Discarded"} :
            rec' = [rec EXCEPT ![p].lock = FALSE, ![p].state = s]
      <4>1. CASE rec[p].actions \subseteq running
        BY <2>2, <4>1, Zenon DEF Resolve
      <4>2. CASE ~(rec[p].actions \subseteq running)
        BY <2>2, <4>2, Zenon DEF Resolve
      <4> QED
        BY <4>1, <4>2
    <3> DEFINE r == [rec[p] EXCEPT !.lock = FALSE, !.state = s]
    <3>2. r.actions = rec[p].actions /\ r.changeSet = rec[p].changeSet /\ r.state = s
      <4>1. rec[p] \in Records /\ s \in Lifecycle
        BY <1>1 DEF Lifecycle
      <4> QED
        BY <4>1, UnlockedType
    <3>3. rec' = [rec EXCEPT ![p] = r]
      BY <1>1, <3>1
    <3> HIDE DEF r
    <3> QED
      BY <1>1, <3>2, <3>3
  <2> QED
    BY <2>1, <2>2
<1>3. UNCHANGED <<running, job>> /\ \A t \in Tasked : task'[t].pc = "idle"
  <2>1. CASE Restart
    BY <2>1, IdleType DEF Restart, deviceVars, Tasked
  <2>2. CASE \E o \in Ops : Resolve(o)
    BY <2>2 DEF Resolve, ServiceStopped, At, Tasked
  <2> QED
    BY <2>1, <2>2
<1>4. OwnEdits(candidate') = OwnEdits(candidate) \/ OwnEdits(candidate') = {}
  BY DEF Restart, Resolve, OwnEdits, deviceVars, StagingInv, NothingCommitted
<1>5. NothingCommitted' /\ (\A o \in Ops : StoredOK(o)') /\ (\A t \in Calls : CallOK(t)')
  BY <1>2, <1>3, Places DEF StagingInv, NothingCommitted, StoredOK, CallOK, CommitPcs, StagePcs
<1>6. NoMixedCandidate'
  BY <1>2, <1>3, <1>4 DEF StagingInv, NoMixedCandidate, Pending
<1> QED
  BY <1>5, <1>6 DEF StagingInv

-----------------------------------------------------------------------------
(* The theorem. *)

LEMMA StagingStarts == Ops # {} /\ Init => StagingInv
<1> SUFFICES ASSUME Ops # {}, Init PROVE StagingInv
  OBVIOUS
<1>1. LifecycleInv
  BY InitHolds
<1>2. /\ \A t \in Tasked : task[t].pc = "idle"
      /\ \A w \in Workers : job[w] = NoJob
      /\ \A o \in Ops : rec[o] = FreshRecord
      /\ candidate = {} /\ running = {}
  BY IdleType DEF Init, DeviceInit, CoordinatorInit, Tasked
<1>3. NothingCommitted
  BY <1>2, Places DEF NothingCommitted, NoJob, OwnEdits, CommitPcs
<1>4. (\A o \in Ops : StoredOK(o)) /\ (\A t \in Calls : CallOK(t))
  BY <1>2, Places DEF StoredOK, FreshRecord, CallOK, StagePcs
<1>5. NoMixedCandidate
  BY <1>2 DEF NoMixedCandidate, Pending, OwnEdits
<1> QED
  BY <1>1, <1>3, <1>4, <1>5 DEF StagingInv

LEMMA StagingKept == ~AllowDirectCommit /\ StagingInv /\ [Next]_vars => StagingInv'
<1> SUFFICES ASSUME ~AllowDirectCommit, StagingInv, [Next]_vars PROVE StagingInv'
  OBVIOUS
<1>1. LifecycleInv'
  BY NextPreserves DEF StagingInv
<1>2. ASSUME NEW t \in Calls, NewCall(t) PROVE StagingInv'
  BY <1>1, <1>2, NewCallKeepsApart
<1>3. ASSUME NEW t \in Calls, StageStep(t) PROVE StagingInv'
  BY <1>1, <1>3, StageInsertKeepsApart, StageMovesKeepApart, StagePostKeepsApart, StageEndKeepsApart DEF StageStep
<1>4. ASSUME NEW t \in Calls, ValidateStep(t) PROVE StagingInv'
  BY <1>1, <1>4, GuardAndCompareKeepsApart, ValidatePostKeepsApart, ValidatePollKeepsApart DEF ValidateStep
<1>5. ASSUME NEW t \in Calls PROVE ~CommitStep(t)
  BY <1>5 DEF CommitStep, CommitCompare, CommitReturn, CommitMark, At, StagingInv,
     NothingCommitted, CommitPcs
<1>6. ASSUME NEW t \in Calls, DiscardStep(t) PROVE StagingInv'
  BY <1>1, <1>6, GuardAndCompareKeepsApart, DiscardMovesKeepApart, DiscardSaveKeepsApart DEF DiscardStep
<1>7. ASSUME NEW w \in Workers PROVE ~WorkerStep(w)
  BY <1>7 DEF WorkerStep, WorkerGuard, WorkerPost, WorkerJob, WorkerPoll, WorkerAfter,
     WorkerUnlock, WorkerReceipt, At, StagingInv, NothingCommitted
<1>8. CASE Environment \/ UNCHANGED vars
  BY <1>1, <1>8, EnvironmentKeepsApart
<1>9. CASE Restart \/ \E o \in Ops : Resolve(o)
  BY <1>1, <1>9, OperatorKeepsApart
<1> QED
  BY <1>2, <1>3, <1>4, <1>5, <1>6, <1>7, <1>8, <1>9 DEF Next, Serve, CallStep

\* stage_config, discard_candidate and the gate of commit_candidate: whatever calls of any
\* number of clients overlap, fail half way or are cut off by a restart, the candidate
\* never holds pending edits of two operations, because edits are written only under
\* device_guard and after require_clean_candidate.
THEOREM ClientsNeverMix ==
    ASSUME ~AllowDirectCommit, Ops # {}
    PROVE  Spec => []NoMixedCandidate
<1>1. Init => StagingInv
  BY StagingStarts
<1>2. StagingInv /\ [Next]_vars => StagingInv'
  BY StagingKept
<1>3. StagingInv => NoMixedCandidate
  BY DEF StagingInv
<1> QED
  BY <1>1, <1>2, <1>3, PTL DEF Spec
=============================================================================
