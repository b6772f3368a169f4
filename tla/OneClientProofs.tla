---------------------------- MODULE OneClientProofs ----------------------------
(***************************************************************************)
(* Proofs about CandidateLifecycle for one client that waits for its       *)
(* commits: any number of operations, edits, policies and worker slots,    *)
(* every fault, restarts, the offline command, reloads and other           *)
(* administrators.  With a second client the properties fail, because      *)
(* commit_candidate checks before it has the mutex.                        *)
(***************************************************************************)
EXTENDS LifecycleProofs

\* One call at a time, and nobody cancels a commit.
OneClient == (\A t, u \in Calls : t = u) /\ ~MayDetach

\* The states whose operation owns every pending edit.
OwnerStates == {"Staged", "Validating", "Validated", "Committing", "Failed"}

\* The states from which an operation goes on with what it has staged.
KeptStates == {"Staged", "Validating", "Validated", "Committing"}

\* A worker that runs is the one its caller waits for.
Alone ==
    \A w \in Workers : task[w].pc # "idle" =>
        \E t \in Calls : task[t].pc = "commit_wait" /\ task[t].worker = w

\* What a stored record says of the device.
RecordOK(o) ==
    /\ rec[o].state = "Fresh" => rec[o].actions = {} /\ "ok" \notin evidence[o]
    /\ rec[o].state \in {"Staged", "Validating", "Validated"} =>
         rec[o].actions \subseteq rec[o].current
    /\ rec[o].state = "Validated" => rec[o].current \intersect Edits \in validated[o]
    /\ rec[o].state \in OwnerStates => Pending \subseteq rec[o].actions
    /\ rec[o].state = "Committed" \/ "ok" \in evidence[o] => rec[o].actions \subseteq running

NoneActive == \A v \in Workers : job[v].status # "active"

\* What a commit job carries.
JobOK(w) ==
    /\ job[w].status # "none" =>
        /\ rec[job[w].op].state # "Fresh"
        /\ job[w].content \in validated[job[w].op]
    /\ job[w].status = "active" =>
        /\ rec[job[w].op].state \in {"Committing", "Indeterminate"}
        /\ job[w].content = OwnEdits(candidate)
        /\ rec[job[w].op].actions \subseteq job[w].content
        /\ Pending \subseteq rec[job[w].op].actions
        /\ \A v \in Workers : job[v].status = "active" => v = w
    /\ job[w].status = "ok" => rec[job[w].op].actions \subseteq running

\* LockedOperationIsStable, for one operation.
LockOK(o) ==
    /\ rec[o].state \in KeptStates
    /\ rec[o].lock
    /\ Pending \intersect rec[o].actions # {}
    => lock /\ rec[o].current = Fingerprint

\* What holds of the device and the records, whatever the tasks do.
Facts ==
    /\ OneOperationPerEndpoint
    /\ \A o \in Ops : RecordOK(o) /\ LockOK(o)
    /\ \A w \in Workers : JobOK(w)
    /\ OwnEdits(running) \subseteq candidate
    /\ NoMixedCandidate

\* What a task knows at its place: of the record it copied, ...
CopyView(pc, l, s) ==
    /\ pc \in StagePcs => \A a, b \in l.rec.actions : a = b
    /\ pc \in {"stage_guard", "stage_lock"} => l.rec.lock = FALSE
    /\ pc \in StagePcs \ {"stage_guard"} => s.state = "Staging" /\ s.actions = l.rec.actions
    /\ pc \in {"validate_guard", "validate_post"} => s = l.rec /\ s.state = "Staged"
    /\ pc = "validate_poll" =>
         s = l.rec /\ s.state = "Validating" /\ l.seen = l.rec.current \intersect Edits
    /\ pc \in {"commit_fp", "commit_mark"} => s = l.rec /\ s.state = "Validated"
    /\ pc \in {"worker_guard", "worker_post", "worker_job", "worker_poll", "worker_after",
               "worker_unlock"} => s = l.rec /\ s.state = "Committing"
    /\ pc = "worker_receipt" =>
         /\ s.state \in {"Committing", "Failed"} /\ s.actions = l.rec.actions
         /\ l.rec.state \in {"Indeterminate", "Committed", "Failed"}
         /\ l.rec.state = "Failed" => s = l.rec
    /\ pc \in {"discard_guard", "discard_revert", "discard_fp"} =>
         s = l.rec /\ s.state \in Discardable
    /\ pc \in {"discard_unlock", "discard_save"} =>
         s.state \in Discardable /\ s.actions = l.rec.actions
    /\ pc = "discard_save" => l.rec.state \in {"Discarded", "Indeterminate"}
    /\ l.verdict # "unknown" => pc \in {"worker_unlock", "worker_receipt"}

\* ... of the candidate and the lock, ...
CandidateView(pc, l) ==
    /\ pc \in {"stage_fp", "stage_clean", "stage_post", "stage_after"} => (l.rec.lock => lock)
    /\ pc \in {"stage_post", "discard_fp", "discard_unlock", "discard_save"} => Pending = {}
    /\ pc = "stage_after" => Pending \subseteq l.rec.actions /\ l.rec.actions \subseteq candidate
    /\ pc \in {"validate_post", "commit_mark", "worker_guard", "worker_post"} =>
         OwnEdits(candidate) = l.rec.current \intersect Edits

\* ... and of the jobs.
JobView(pc, l, t) ==
    /\ pc \in {"worker_guard", "worker_post"} =>
         /\ l.rec.current \intersect Edits \in validated[l.op]
         /\ l.rec.actions \subseteq l.rec.current
    /\ pc \in {"worker_job", "worker_poll", "worker_after"} =>
         job[t].status # "none" /\ job[t].op = l.op
    /\ pc \in {"worker_job", "worker_poll"} =>
         \A v \in Workers : job[v].status = "active" => v = t
    /\ pc \in {"worker_guard", "worker_post", "worker_after", "worker_unlock"} => NoneActive
    /\ pc = "worker_receipt" /\ l.rec.state # "Indeterminate" => NoneActive
    /\ pc = "worker_unlock" \/ (pc = "worker_receipt" /\ l.rec.state = "Committed")
         \/ l.verdict = "ok" => l.rec.actions \subseteq running

View(t) ==
    /\ CopyView(task[t].pc, task[t], rec[task[t].op])
    /\ CandidateView(task[t].pc, task[t])
    /\ JobView(task[t].pc, task[t], t)

OneInv ==
    /\ LifecycleInv
    /\ Alone
    /\ Facts
    /\ \A t \in Tasked : View(t)

-----------------------------------------------------------------------------
(* Only one task acts at a time. *)

\* A task that does nothing, or waits for its worker, knows nothing.
LEMMA RestingView ==
    ASSUME NEW t, task[t].pc \in {"idle", "commit_wait"}, task[t].verdict = "unknown"
    PROVE  View(t)
BY DEF View, CopyView, CandidateView, JobView, StagePcs

\* While a task acts, every other one rests.
LEMMA Solo ==
    ASSUME OneClient, Alone, NEW t \in Tasked, task[t].pc \notin {"idle", "commit_wait"},
           NEW u \in Tasked \ {t}
    PROVE  task[u].pc \in {"idle", "commit_wait"} /\ (t \in Calls => task[u].pc = "idle")
<1>1. CASE t \in Calls
  BY <1>1 DEF OneClient, Alone, Tasked
<1>2. CASE t \in Workers
  <2>1. PICK c \in Calls : task[c].pc = "commit_wait" /\ task[c].worker = t
    BY <1>2 DEF Alone
  <2>2. t \notin Calls
    BY <1>2, TasksAssumption
  <2> QED
    BY <1>2, <2>1, <2>2 DEF OneClient, Alone, Tasked
<1> QED
  BY <1>1, <1>2 DEF Tasked

\* The resting tasks of a state whose tasks have views.
LEMMA RestingVerdict ==
    ASSUME NEW t, View(t), task[t].pc \in {"idle", "commit_wait"}
    PROVE  task[t].verdict = "unknown"
BY DEF View, CopyView

\* A step of the acting task leaves the others at rest.
LEMMA SoloStep ==
    ASSUME OneClient, OneInv, NEW t \in Tasked, task[t].pc \notin {"idle", "commit_wait"},
           Advances(t)
    PROVE  Alone' /\ \A u \in Tasked \ {t} : View(u)'
<1>1. ASSUME NEW u \in Tasked \ {t}
      PROVE  /\ task'[u] = task[u] /\ task[u].verdict = "unknown"
             /\ task[u].pc \in {"idle", "commit_wait"} /\ (t \in Calls => task[u].pc = "idle")
  <2>1. task'[u] = task[u]
    BY DEF Advances
  <2>2. task[u].pc \in {"idle", "commit_wait"} /\ (t \in Calls => task[u].pc = "idle")
    BY Solo DEF OneInv
  <2> QED
    BY <2>1, <2>2, RestingVerdict DEF OneInv
<1>2. Alone'
  <2> SUFFICES ASSUME NEW w \in Workers, task'[w].pc # "idle"
               PROVE  \E c \in Calls : task'[c].pc = "commit_wait" /\ task'[c].worker = w
    BY DEF Alone
  <2>1. task[w].pc # "idle" /\ t \notin Calls
    <3>1. w = t \/ task'[w] = task[w]
      BY DEF Advances, Tasked
    <3>2. t \in Calls => w # t
      BY TasksAssumption
    <3> QED
      BY <1>1, <3>1, <3>2 DEF Tasked
  <2>2. PICK c \in Calls : task[c].pc = "commit_wait" /\ task[c].worker = w
    BY <2>1 DEF OneInv, Alone
  <2>3. task'[c] = task[c]
    BY <2>1, <2>2 DEF Advances, Tasked
  <2> QED
    BY <2>2, <2>3
<1>3. ASSUME NEW u \in Tasked \ {t} PROVE View(u)'
  <2>1. task'[u].pc \in {"idle", "commit_wait"} /\ task'[u].verdict = "unknown"
    BY <1>1
  <2> QED
    BY <2>1 DEF View, CopyView, CandidateView, JobView, StagePcs
<1> QED
  BY <1>2, <1>3

\* The invariant after a step of the acting task.
LEMMA SoloPreserves ==
    ASSUME OneClient, OneInv, LifecycleInv', NEW t \in Tasked,
           task[t].pc \notin {"idle", "commit_wait"}, Advances(t), Facts', View(t)'
    PROVE  OneInv'
BY SoloStep DEF OneInv

\* The view of a task that has returned.
LEMMA IdleView ==
    ASSUME NEW t, task'[t] = Idle
    PROVE  View(t)'
<1>1. task'[t].pc = "idle" /\ task'[t].verdict = "unknown"
  BY DEF Idle
<1> QED
  BY <1>1 DEF View, CopyView, CandidateView, JobView, StagePcs

-----------------------------------------------------------------------------
(* What happens to the device and the records. *)

\* A step that changes at most the configuration lock.
LEMMA LockChanged ==
    ASSUME Facts, UNCHANGED <<candidate, running, job, rec, evidence, validated>>,
           \A o \in Ops : LockOK(o)'
    PROVE  Facts'
<1>1. candidate' = candidate /\ running' = running /\ job' = job /\ rec' = rec
      /\ evidence' = evidence /\ validated' = validated
  OBVIOUS
<1>2. OneOperationPerEndpoint' /\ NoMixedCandidate' /\ OwnEdits(running)' \subseteq candidate'
  BY <1>1 DEF Facts, OneOperationPerEndpoint, Unreconciled, NoMixedCandidate, Pending, OwnEdits
<1>3. \A o \in Ops : RecordOK(o)'
  BY <1>1 DEF Facts, RecordOK, Pending, OwnEdits
<1>4. \A w \in Workers : JobOK(w)'
  BY <1>1 DEF Facts, JobOK, Pending, OwnEdits
<1> QED
  BY <1>2, <1>3, <1>4 DEF Facts

\* A step that changes nothing of the device and the records.
LEMMA FactsKept ==
    ASSUME Facts, UNCHANGED <<candidate, running, lock, job, rec, evidence, validated>>
    PROVE  Facts'
<1>1. \A o \in Ops : LockOK(o)'
  BY DEF Facts, LockOK, Pending, OwnEdits, Fingerprint
<1> QED
  BY <1>1, LockChanged

\* While an operation is open and not committing or indeterminate, no job is active.
LEMMA OnlyOpen ==
    ASSUME LifecycleInv, Facts, NEW o \in Ops, Unreconciled(o),
           rec[o].state \notin {"Committing", "Indeterminate"}
    PROVE  NoneActive
<1> SUFFICES ASSUME NEW w \in Workers, job[w].status = "active" PROVE FALSE
  BY DEF NoneActive
<1>1. job[w].op \in Ops /\ rec[job[w].op].state \in {"Committing", "Indeterminate"}
  BY DEF LifecycleInv, WorkersOK, WorkerOK, Facts, JobOK
<1>2. Unreconciled(job[w].op)
  BY <1>1 DEF Unreconciled, Lifecycle, Terminal
<1> QED
  BY <1>1, <1>2 DEF Facts, OneOperationPerEndpoint

\* An operation's edits are edits of this server, and its fingerprint is under the roots.
LEMMA RecordTypes ==
    ASSUME LifecycleInv, NEW o \in Ops
    PROVE  /\ rec \in [Ops -> Records] /\ rec[o] \in Records
           /\ rec[o].actions \subseteq Edits /\ rec[o].current \subseteq Roots
BY Types DEF Records

\* An open operation's record is written.
LEMMA RecordWritten ==
    ASSUME LifecycleInv, Facts, NEW o \in Ops, NEW r \in Records, Unreconciled(o),
           rec' = [rec EXCEPT ![o] = r], UNCHANGED <<candidate, running, lock>>,
           r.actions = rec[o].actions, r.state # "Fresh",
           \A w \in Workers : job'[w] = job[w] \/ job'[w].status = "none",
           \A p \in Ops : "ok" \in evidence'[p] =>
              "ok" \in evidence[p] \/ (p = o /\ rec[o].actions \subseteq running),
           \A p \in Ops : validated[p] \subseteq validated'[p],
           r.state \in {"Staged", "Validating", "Validated"} => r.actions \subseteq r.current,
           r.state = "Validated" => r.current \intersect Edits \in validated'[o],
           r.state \in OwnerStates => Pending \subseteq r.actions,
           r.state = "Committed" => r.actions \subseteq running,
           r.state \in {"Committing", "Indeterminate"} \/ NoneActive,
           r.state \in KeptStates /\ r.lock /\ Pending \intersect r.actions # {}
              => lock /\ r.current = Fingerprint
    PROVE  Facts'
<1>1. /\ rec'[o] = r /\ \A p \in Ops \ {o} : rec'[p] = rec[p]
      /\ \A p \in Ops : rec'[p].actions = rec[p].actions
  BY RecordTypes
<1>2. rec[o].state # "Fresh"
  BY DEF Unreconciled, Lifecycle, Terminal
<1>3. Pending' = Pending /\ OwnEdits(candidate)' = OwnEdits(candidate)
      /\ Fingerprint' = Fingerprint
  BY DEF Pending, OwnEdits, Fingerprint
<1>4. OneOperationPerEndpoint'
  <2> SUFFICES ASSUME NEW p \in Ops, Unreconciled(p)' PROVE Unreconciled(p)
    BY DEF Facts, OneOperationPerEndpoint
  <2> QED
    BY <1>1 DEF Unreconciled
<1>5. ASSUME NEW p \in Ops PROVE RecordOK(p)' /\ LockOK(p)'
  <2>1. RecordOK(p) /\ LockOK(p)
    BY DEF Facts
  <2>2. CASE p = o
    <3>1. RecordOK(o)'
      BY <1>1, <1>2, <1>3, <2>1, <2>2 DEF RecordOK
    <3>2. LockOK(o)'
      BY <1>1, <1>3 DEF LockOK
    <3> QED
      BY <2>2, <3>1, <3>2
  <2>3. CASE p # o
    <3>1. rec'[p] = rec[p] /\ ("ok" \in evidence'[p] => "ok" \in evidence[p])
      BY <1>1, <2>3
    <3>2. RecordOK(p)'
      BY <1>3, <2>1, <3>1 DEF RecordOK
    <3>3. LockOK(p)'
      BY <1>3, <2>1, <3>1 DEF LockOK
    <3> QED
      BY <3>2, <3>3
  <2> QED
    BY <2>2, <2>3
<1>6. ASSUME NEW w \in Workers PROVE JobOK(w)'
  <2>1. JobOK(w) /\ (job[w].status # "none" => job[w].op \in Ops)
    BY DEF Facts, LifecycleInv, WorkersOK, WorkerOK
  <2>2. CASE job'[w].status = "none"
    BY <2>2 DEF JobOK
  <2>3. CASE job'[w] = job[w] /\ job[w].status # "none"
    <3>1. /\ job[w].op \in Ops /\ rec'[job[w].op].state # "Fresh"
          /\ job[w].content \in validated'[job[w].op]
          /\ rec'[job[w].op].actions = rec[job[w].op].actions
      BY <1>1, <2>1, <2>3 DEF JobOK
    <3>2. CASE job[w].status = "active"
      <4>1. rec'[job[w].op].state \in {"Committing", "Indeterminate"}
        BY <1>1, <2>1, <2>3, <3>2 DEF JobOK, NoneActive
      <4>2. \A v \in Workers : job'[v].status = "active" => job[v].status = "active"
        OBVIOUS
      <4> QED
        BY <1>3, <2>1, <2>3, <3>1, <3>2, <4>1, <4>2 DEF JobOK
    <3>3. CASE job[w].status # "active"
      BY <2>1, <2>3, <3>1, <3>3 DEF JobOK
    <3> QED
      BY <3>2, <3>3
  <2> QED
    BY <2>2, <2>3
<1>7. OwnEdits(running)' \subseteq candidate' /\ NoMixedCandidate'
  BY <1>1, <1>3 DEF Facts, OwnEdits, NoMixedCandidate
<1> QED
  BY <1>4, <1>5, <1>6, <1>7 DEF Facts

\* Writing back what is stored already.
LEMMA StoredAgain ==
    ASSUME NEW o \in Ops, rec \in [Ops -> Records], rec' = [rec EXCEPT ![o] = rec[o]]
    PROVE  rec' = rec
OBVIOUS

-----------------------------------------------------------------------------
(* Moves of one task. *)

\* What a task that acts knows.
LEMMA Acting ==
    ASSUME OneInv, NEW t \in Tasked, task[t].pc \notin {"idle", "commit_wait"}
    PROVE  /\ LifecycleInv /\ Facts /\ task[t].op \in Ops /\ task[t].rec \in Records
           /\ CopyView(task[t].pc, task[t], rec[task[t].op])
           /\ CandidateView(task[t].pc, task[t])
           /\ JobView(task[t].pc, task[t], t)
           /\ task[t].rec.actions \subseteq Edits /\ task[t].rec.current \subseteq Roots
           /\ rec \in [Ops -> Records] /\ rec[task[t].op] \in Records
           /\ RecordOK(task[t].op) /\ LockOK(task[t].op)
<1>1. LifecycleInv /\ Facts /\ View(t)
  BY DEF OneInv
<1>2. task[t].op \in Ops /\ task[t].rec \in Records
  BY <1>1, Underway
<1>3. task[t].rec.actions \subseteq Edits /\ task[t].rec.current \subseteq Roots
  BY <1>2 DEF Records
<1>4. rec \in [Ops -> Records] /\ rec[task[t].op] \in Records
  BY <1>1, <1>2, RecordTypes
<1> QED
  BY <1>1, <1>2, <1>3, <1>4 DEF View, Facts

\* Returning.
LEMMA FinishPreserves ==
    ASSUME OneClient, OneInv, LifecycleInv', NEW t \in Tasked,
           task[t].pc \notin {"idle", "commit_wait"}, Finish(t), Facts'
    PROVE  OneInv'
<1>1. Advances(t) /\ task'[t] = Idle
  BY FinishAdvances DEF OneInv
<1> QED
  BY <1>1, IdleView, SoloPreserves

\* Returning without a trace.
LEMMA QuietReturn ==
    ASSUME OneClient, OneInv, LifecycleInv', NEW t \in Tasked,
           task[t].pc \notin {"idle", "commit_wait"}, Finish(t),
           UNCHANGED <<candidate, running, lock, job, rec, evidence, validated>>
    PROVE  OneInv'
BY FactsKept, FinishPreserves DEF OneInv

-----------------------------------------------------------------------------
(* stage_config. *)

\* A new call finds every worker at rest.
LEMMA CallersAlone ==
    ASSUME OneClient, OneInv, NEW t \in Calls, task[t].pc = "idle", NEW u \in Tasked \ {t}
    PROVE  task[u].pc = "idle" /\ task[u].verdict = "unknown"
<1>1. task[u].pc = "idle"
  BY DEF OneClient, OneInv, Alone, Tasked
<1> QED
  BY <1>1, RestingVerdict DEF OneInv

\* A new call takes up an operation.
LEMMA BeganKeeps ==
    ASSUME OneClient, OneInv, LifecycleInv', NEW t \in Calls, At(t, "idle"), NEW o, NEW r, NEW pc,
           Began(t, o, pc, r),
           UNCHANGED <<deviceVars, coordinatorVars, policy, evidence, validated>>,
           \/ pc = "stage_guard" /\ r.lock = FALSE /\ \A a, b \in r.actions : a = b
           \/ pc = "validate_guard" /\ r = rec[o] /\ r.state = "Staged"
           \/ pc = "commit_fp" /\ r = rec[o] /\ r.state = "Validated"
           \/ pc = "discard_guard" /\ r = rec[o] /\ r.state \in Discardable
    PROVE  OneInv'
<1> DEFINE l == [Idle EXCEPT !.pc = pc, !.op = o, !.policy = policy, !.rec = r]
<1>1. UNCHANGED <<candidate, running, lock, job, rec, evidence, validated>>
  BY DEF deviceVars, coordinatorVars
<1>2. task \in [Tasked -> Locals] /\ t \in Tasked /\ t \notin Workers /\ task[t].pc = "idle"
  BY Types, TasksAssumption DEF Tasked, At, OneInv
<1>3. l.pc = pc /\ l.rec = r /\ l.op = o /\ l.verdict = "unknown"
  BY DEF Idle
<1>4. task' = [task EXCEPT ![t] = l]
  BY DEF Began
<1> HIDE DEF l
<1>5. task'[t] = l /\ \A u \in Tasked \ {t} : task'[u] = task[u]
  BY <1>2, <1>4
<1>6. Facts'
  BY <1>1, FactsKept DEF OneInv
<1>7. \A u \in Tasked \ {t} : task'[u].pc = "idle" /\ task'[u].verdict = "unknown"
  BY <1>2, <1>5, CallersAlone
<1>8. Alone'
  BY <1>2, <1>7 DEF Alone, Tasked
<1>9. ASSUME NEW u \in Tasked \ {t} PROVE View(u)'
  BY <1>7, <1>9 DEF View, CopyView, CandidateView, JobView, StagePcs
<1>10. View(t)'
  BY <1>1, <1>3, <1>5 DEF View, CopyView, CandidateView, JobView, StagePcs, Discardable
<1> QED
  BY <1>6, <1>8, <1>9, <1>10 DEF OneInv

\* Calls to stage, validate, commit and discard.
LEMMA NewCallKeeps ==
    ASSUME OneClient, OneInv, NEW t \in Calls, NewCall(t)
    PROVE  OneInv'
<1>0. LifecycleInv'
  BY NewCallPreserves DEF OneInv
<1>1. PICK o \in Ops : \/ \E e \in Edits : StageCall(t, o, e)
                       \/ ValidateCall(t, o) \/ CommitCall(t, o) \/ DiscardCall(t, o)
  BY DEF NewCall
<1>2. CASE \E e \in Edits : StageCall(t, o, e)
  <2>1. PICK e \in Edits : StageCall(t, o, e)
    BY <1>2
  <2> DEFINE r == StagingRecord(Fingerprint, policy, {e}, None)
  <2>2. r.lock = FALSE /\ \A a, b \in r.actions : a = b
    BY DEF StagingRecord
  <2>3. /\ At(t, "idle") /\ Began(t, o, "stage_guard", r)
        /\ UNCHANGED <<deviceVars, coordinatorVars, policy, evidence, validated>>
    BY <2>1 DEF StageCall
  <2> HIDE DEF r
  <2> QED
    BY <1>0, <2>2, <2>3, BeganKeeps
<1>3. CASE ValidateCall(t, o)
  BY <1>0, <1>3, BeganKeeps DEF ValidateCall
<1>4. CASE CommitCall(t, o)
  BY <1>0, <1>4, BeganKeeps DEF CommitCall
<1>5. CASE DiscardCall(t, o)
  BY <1>0, <1>5, BeganKeeps DEF DiscardCall, DiscardAdmits
<1> QED
  BY <1>1, <1>2, <1>3, <1>4, <1>5

\* The record of a new operation is inserted.
LEMMA InsertedFacts ==
    ASSUME LifecycleInv, Facts, CanInsert, NEW o \in Ops, NEW r \in Records,
           r.state = "Staging", Insert(o, r),
           UNCHANGED <<candidate, running, lock, job, evidence, validated>>
    PROVE  Facts'
<1>1. /\ rec'[o] = r /\ \A p \in Ops \ {o} : rec'[p] = rec[p]
      /\ rec[o].state = "Fresh"
  BY RecordTypes DEF Insert
<1>2. Pending' = Pending /\ OwnEdits(candidate)' = OwnEdits(candidate)
      /\ Fingerprint' = Fingerprint
  BY DEF Pending, OwnEdits, Fingerprint
<1>3. \A p \in Ops : Unreconciled(p)' => p = o
  BY <1>1 DEF CanInsert, Unreconciled
<1>4. OneOperationPerEndpoint'
  BY <1>3 DEF OneOperationPerEndpoint
<1>5. ASSUME NEW p \in Ops PROVE RecordOK(p)' /\ LockOK(p)'
  <2>1. RecordOK(p) /\ LockOK(p)
    BY DEF Facts
  <2>2. CASE p = o
    BY <1>1, <2>1, <2>2 DEF RecordOK, LockOK, OwnerStates, KeptStates
  <2>3. CASE p # o
    <3>1. rec'[p] = rec[p]
      BY <1>1, <2>3
    <3>2. RecordOK(p)'
      BY <1>2, <2>1, <3>1 DEF RecordOK
    <3>3. LockOK(p)'
      BY <1>2, <2>1, <3>1 DEF LockOK
    <3> QED
      BY <3>2, <3>3
  <2> QED
    BY <2>2, <2>3
<1>6. ASSUME NEW w \in Workers PROVE JobOK(w)'
  <2>1. JobOK(w) /\ (job[w].status # "none" => job[w].op \in Ops)
    BY DEF Facts, LifecycleInv, WorkersOK, WorkerOK
  <2>2. job[w].status # "none" => rec'[job[w].op] = rec[job[w].op]
    BY <1>1, <2>1 DEF JobOK
  <2> QED
    BY <1>2, <2>1, <2>2 DEF JobOK
<1>7. NoMixedCandidate'
  <2>1. PICK p \in Ops : Pending \subseteq rec[p].actions
    BY DEF Facts, NoMixedCandidate
  <2>2. rec[p].actions \subseteq rec'[p].actions
    BY <1>1, <2>1 DEF Facts, RecordOK
  <2> QED
    BY <1>2, <2>1, <2>2 DEF NoMixedCandidate
<1>8. OwnEdits(running)' \subseteq candidate'
  BY DEF Facts, OwnEdits
<1> QED
  BY <1>4, <1>5, <1>6, <1>7, <1>8 DEF Facts

\* stage_config inserts its record, or returns.
LEMMA StageInsertKeeps ==
    ASSUME OneClient, OneInv, NEW t \in Calls, StageInsert(t)
    PROVE  OneInv'
<1>0. LifecycleInv'
  BY StageInsertPreserves DEF OneInv, StepKept
<1>1. /\ t \in Tasked /\ task[t].pc = "stage_guard"
      /\ UNCHANGED <<candidate, running, lock, job, evidence, validated>>
  BY Places DEF StageInsert, At, deviceVars
<1>2. CASE CanInsert /\ Insert(task[t].op, task[t].rec) /\ Goto(t, "stage_lock")
  <2>1. "stage_lock" \in PcsOf(t)
    BY Places DEF CallPcs, StagePcs
  <2>2. Advances(t) /\ task'[t].pc = "stage_lock" /\ task'[t].op = task[t].op
        /\ task'[t].rec = task[t].rec /\ task'[t].verdict = task[t].verdict
    BY <1>1, <1>2, <2>1, GotoAdvances DEF OneInv
  <2>3. /\ task[t].op \in Ops /\ task[t].rec \in Records
        /\ CopyView("stage_guard", task[t], rec[task[t].op])
        /\ JobView("stage_guard", task[t], t) /\ LifecycleInv /\ Facts
        /\ rec \in [Ops -> Records]
    BY <1>1, Acting
  <2>4. task[t].rec.state = "Staging"
    BY <1>1 DEF OneInv, LifecycleInv, TasksOK, TaskOK
  <2>5. Facts'
    BY <1>1, <1>2, <2>3, <2>4, InsertedFacts
  <2>6. rec'[task[t].op] = task[t].rec
    BY <1>2, <2>3 DEF Insert
  <2>7. View(t)'
    BY <2>2, <2>3, <2>4, <2>6 DEF View, CopyView, CandidateView, JobView, StagePcs
  <2> QED
    BY <1>0, <1>1, <2>2, <2>5, <2>7, SoloPreserves
<1>3. CASE Finish(t) /\ UNCHANGED coordinatorVars
  BY <1>0, <1>1, <1>3, QuietReturn DEF coordinatorVars
<1> QED
  BY <1>2, <1>3 DEF StageInsert

\* A staging operation is the only open one: no other is locked, and no job is active.
LEMMA StagingAlone ==
    ASSUME OneInv, NEW t \in Calls, task[t].pc \in StagePcs \ {"stage_guard"}
    PROVE  /\ NoneActive
           /\ \A o \in Ops : rec[o].state \in OwnerStates \union KeptStates => FALSE
<1>1. /\ t \in Tasked /\ LifecycleInv /\ Facts /\ task[t].op \in Ops
      /\ rec[task[t].op].state = "Staging"
  <2>1. t \in Tasked /\ task[t].pc \notin {"idle", "commit_wait"}
    BY Places DEF StagePcs
  <2> QED
    BY <2>1, Acting DEF CopyView
<1>2. Unreconciled(task[t].op)
  BY <1>1 DEF Unreconciled, Lifecycle, Terminal
<1>3. NoneActive
  BY <1>1, <1>2, OnlyOpen
<1>4. ASSUME NEW o \in Ops, rec[o].state \in OwnerStates \union KeptStates PROVE FALSE
  <2>1. Unreconciled(o)
    BY <1>4 DEF Unreconciled, OwnerStates, KeptStates, Lifecycle, Terminal
  <2>2. o = task[t].op
    BY <1>1, <1>2, <2>1 DEF Facts, OneOperationPerEndpoint
  <2> QED
    BY <1>1, <1>4, <2>2 DEF OwnerStates, KeptStates
<1> QED
  BY <1>3, <1>4

\* The steps of stage_config that read, take or release the lock.
LEMMA StageMovesKeep ==
    ASSUME OneClient, OneInv, NEW t \in Calls,
           StageLock(t) \/ StageFingerprint(t) \/ StageClean(t) \/ StageUnlock(t)
    PROVE  OneInv'
<1>0. LifecycleInv'
  BY StageMovesPreserve DEF OneInv, StepKept
<1>1. /\ t \in Tasked /\ task[t].pc \in StagePcs \ {"stage_guard"}
      /\ task[t].pc \notin {"idle", "commit_wait"}
      /\ UNCHANGED <<candidate, running, job, rec, evidence, validated>>
  BY Places DEF StageLock, StageFingerprint, StageClean, StageUnlock, At, StagePcs, deviceVars,
     coordinatorVars
<1>2. /\ task[t].op \in Ops /\ task[t].rec \in Records /\ LifecycleInv /\ Facts
      /\ CopyView(task[t].pc, task[t], rec[task[t].op])
      /\ CandidateView(task[t].pc, task[t]) /\ JobView(task[t].pc, task[t], t)
      /\ task[t].rec.policy = task[t].policy /\ task[t].rec.state \in Lifecycle
  BY <1>1, Acting, Underway
<1>3. Facts'
  <2>1. \A o \in Ops : LockOK(o)'
    BY <1>1, StagingAlone DEF LockOK
  <2> QED
    BY <1>1, <1>2, <2>1, LockChanged
<1>4. {"stage_fp", "stage_clean", "stage_post", "stage_unlock", "stage_remove"}
        \subseteq PcsOf(t) \ {"stage_guard"}
  BY Places DEF CallPcs, StagePcs
<1>5. ASSUME NEW pc \in {"stage_fp", "stage_clean", "stage_post", "stage_unlock", "stage_remove"},
             Goto(t, pc),
             pc \in {"stage_fp", "stage_clean", "stage_post"} => (task[t].rec.lock => lock'),
             pc = "stage_post" => Pending = {}
      PROVE  OneInv'
  <2>1. Advances(t) /\ task'[t].pc = pc /\ task'[t].op = task[t].op
        /\ task'[t].rec = task[t].rec /\ task'[t].verdict = task[t].verdict
    BY <1>1, <1>2, <1>4, <1>5, GotoAdvances
  <2>2. Pending' = Pending
    BY <1>1 DEF Pending, OwnEdits
  <2>3. CopyView(pc, task'[t], rec'[task[t].op])
    BY <1>1, <1>2, <2>1 DEF CopyView, StagePcs
  <2>4. CandidateView(pc, task[t])'
    BY <1>5, <2>1, <2>2 DEF CandidateView
  <2>5. JobView(pc, task[t], t)'
    BY <1>1, <1>2, <2>1 DEF JobView, CopyView
  <2>6. View(t)'
    BY <2>1, <2>3, <2>4, <2>5 DEF View
  <2> QED
    BY <1>0, <1>1, <1>3, <2>1, <2>6, SoloPreserves
<1>6. CASE StageLock(t)
  <2>1. task[t].pc = "stage_lock" /\ task[t].rec.lock = FALSE
    BY <1>2, <1>6 DEF StageLock, At, CopyView
  <2> DEFINE r == [task[t].rec EXCEPT !.lock = TRUE]
  <2>2. CASE Goto(t, "stage_fp") \/ Goto(t, "stage_remove")
    BY <1>5, <2>1, <2>2
  <2>3. CASE Keep(t, "stage_fp", r) /\ lock' = TRUE
    <3>1. /\ r \in Records /\ r.policy = task[t].policy /\ r.state \in Lifecycle
          /\ r.actions = task[t].rec.actions
      BY <1>2, WithLockType
    <3>2. Keep(t, "stage_fp", r)
      BY <2>3
    <3> HIDE DEF r
    <3>3. Advances(t) /\ task'[t].pc = "stage_fp" /\ task'[t].op = task[t].op
          /\ task'[t].rec = r /\ task'[t].verdict = task[t].verdict
      BY <1>1, <1>2, <1>4, <3>1, <3>2, KeepAdvances
    <3>4. View(t)'
      BY <1>1, <1>2, <2>1, <2>3, <3>1, <3>3 DEF View, CopyView, CandidateView, JobView, StagePcs
    <3> QED
      BY <1>0, <1>1, <1>3, <3>3, <3>4, SoloPreserves
  <2> QED
    BY <1>6, <2>2, <2>3, Zenon DEF StageLock, AcquireLock
<1>7. CASE StageFingerprint(t) \/ StageClean(t)
  <2>1. (task[t].rec.lock => lock') /\ (candidate = running => Pending = {})
    <3>1. task[t].pc \in {"stage_fp", "stage_clean"} /\ lock' = lock
      BY <1>7 DEF StageFingerprint, StageClean, At, deviceVars
    <3>2. candidate = running => Pending = {}
      BY DEF Pending, OwnEdits
    <3> QED
      BY <1>2, <3>1, <3>2 DEF CandidateView
  <2>2. \/ Goto(t, "stage_clean") \/ Goto(t, "stage_unlock")
        \/ Goto(t, "stage_post") /\ candidate = running
    BY <1>7, Zenon DEF StageFingerprint, StageClean, StageAbort, PendingChanges
  <2> QED
    BY <1>5, <2>1, <2>2
<1>8. CASE StageUnlock(t)
  BY <1>5, <1>8 DEF StageUnlock
<1> QED
  BY <1>6, <1>7, <1>8

\* The edit is posted, with or without an answer.
LEMMA StagePostKeeps ==
    ASSUME OneClient, OneInv, NEW t \in Calls, StagePost(t)
    PROVE  OneInv'
<1>0. LifecycleInv'
  BY StageMovesPreserve DEF OneInv, StepKept
<1>1. /\ t \in Tasked /\ task[t].pc = "stage_post" /\ task[t].pc \in StagePcs \ {"stage_guard"}
      /\ UNCHANGED <<running, lock, job, rec, evidence, validated>>
  BY Places DEF StagePost, At, StagePcs, coordinatorVars
<1>2. /\ task[t].op \in Ops /\ LifecycleInv /\ Facts
      /\ CopyView("stage_post", task[t], rec[task[t].op])
      /\ CandidateView("stage_post", task[t]) /\ JobView("stage_post", task[t], t)
      /\ task[t].rec.actions \subseteq Edits
  BY <1>1, Acting
<1>3. PICK out \in Outcomes, e \in task[t].rec.actions :
        PostEdit(e, out) /\ IF out = "ok" THEN Goto(t, "stage_after") ELSE StageAbort(t)
  BY DEF StagePost
<1>4. /\ task[t].rec.actions = {e} /\ e \in Edits /\ Pending = {}
      /\ rec[task[t].op].actions = {e}
  BY <1>2 DEF CopyView, CandidateView, StagePcs
<1>5. candidate' \in {candidate, candidate \union {e}}
      /\ (out = "ok" => candidate' = candidate \union {e})
  BY <1>3 DEF PostEdit
<1>6. /\ Pending' \subseteq {e} /\ candidate \subseteq candidate'
      /\ (out = "ok" => e \in candidate')
  BY <1>1, <1>4, <1>5 DEF Pending, OwnEdits
<1>7. Facts'
  <2>1. NoneActive /\ \A o \in Ops : rec[o].state \notin OwnerStates \union KeptStates
    BY <1>1, StagingAlone
  <2>2. OneOperationPerEndpoint'
    BY <1>1, <1>2 DEF Facts, OneOperationPerEndpoint, Unreconciled
  <2>3. ASSUME NEW o \in Ops PROVE RecordOK(o)' /\ LockOK(o)'
    <3>1. RecordOK(o) /\ rec[o].state \notin OwnerStates \union KeptStates
      BY <1>2, <2>1 DEF Facts
    <3> QED
      BY <1>1, <3>1 DEF RecordOK, LockOK
  <2>4. ASSUME NEW w \in Workers PROVE JobOK(w)'
    BY <1>1, <1>2, <2>1 DEF Facts, JobOK, NoneActive
  <2>5. OwnEdits(running)' \subseteq candidate'
    BY <1>1, <1>2, <1>6 DEF Facts, OwnEdits
  <2>6. NoMixedCandidate'
    BY <1>1, <1>2, <1>4, <1>6 DEF NoMixedCandidate
  <2> QED
    BY <2>2, <2>3, <2>4, <2>5, <2>6 DEF Facts
<1>8. ASSUME NEW pc \in {"stage_after", "stage_unlock"}, Goto(t, pc),
             pc = "stage_after" => out = "ok"
      PROVE  OneInv'
  <2>1. pc \in PcsOf(t) \ {"stage_guard"}
    BY Places DEF CallPcs, StagePcs
  <2>2. Advances(t) /\ task'[t].pc = pc /\ task'[t].op = task[t].op
        /\ task'[t].rec = task[t].rec /\ task'[t].verdict = task[t].verdict
    BY <1>1, <1>2, <1>8, <2>1, GotoAdvances
  <2>3. CopyView(pc, task'[t], rec'[task[t].op])
    BY <1>1, <1>2, <2>2 DEF CopyView, StagePcs
  <2>4. CandidateView(pc, task[t])'
    BY <1>1, <1>2, <1>4, <1>6, <1>8, <2>2 DEF CandidateView
  <2>5. JobView(pc, task[t], t)'
    BY <1>2, <2>2 DEF JobView, CopyView
  <2>6. View(t)'
    BY <2>2, <2>3, <2>4, <2>5 DEF View
  <2> QED
    BY <1>0, <1>1, <1>7, <2>2, <2>6, SoloPreserves
<1> QED
  BY <1>3, <1>8 DEF StageAbort

\* The record becomes staged, or the call turns back.
LEMMA StageAfterKeeps ==
    ASSUME OneClient, OneInv, NEW t \in Calls, StageAfter(t)
    PROVE  OneInv'
<1>0. LifecycleInv'
  BY StageEndPreserves DEF OneInv, StepKept
<1>1. /\ t \in Tasked /\ task[t].pc = "stage_after" /\ task[t].pc \in StagePcs \ {"stage_guard"}
      /\ UNCHANGED <<candidate, running, lock, job, evidence, validated>>
  BY Places DEF StageAfter, At, StagePcs, deviceVars
<1>2. /\ task[t].op \in Ops /\ task[t].rec \in Records /\ LifecycleInv /\ Facts
      /\ CopyView("stage_after", task[t], rec[task[t].op])
      /\ CandidateView("stage_after", task[t]) /\ JobView("stage_after", task[t], t)
      /\ task[t].rec.actions \subseteq Edits /\ rec \in [Ops -> Records]
  BY <1>1, Acting
<1>3. /\ rec[task[t].op].state = "Staging" /\ rec[task[t].op].actions = task[t].rec.actions
      /\ Pending \subseteq task[t].rec.actions /\ task[t].rec.actions \subseteq candidate
      /\ (task[t].rec.lock => lock) /\ Unreconciled(task[t].op) /\ NoneActive
  BY <1>1, <1>2, StagingAlone DEF CopyView, CandidateView, StagePcs, Unreconciled, Lifecycle,
     Terminal
<1>4. CASE UNCHANGED coordinatorVars /\ Goto(t, "stage_unlock")
  <2>1. "stage_unlock" \in PcsOf(t) \ {"stage_guard"}
    BY Places DEF CallPcs, StagePcs
  <2>2. Advances(t) /\ task'[t].pc = "stage_unlock" /\ task'[t].op = task[t].op
        /\ task'[t].rec = task[t].rec /\ task'[t].verdict = task[t].verdict
    BY <1>1, <1>2, <1>4, <2>1, GotoAdvances
  <2>3. UNCHANGED rec /\ Facts'
    BY <1>1, <1>2, <1>4, FactsKept DEF coordinatorVars
  <2>4. View(t)'
    BY <1>2, <2>2, <2>3 DEF View, CopyView, CandidateView, JobView, StagePcs
  <2> QED
    BY <1>0, <1>1, <2>2, <2>3, <2>4, SoloPreserves
<1>5. ASSUME NEW saved, saved, Finish(t),
             Update(task[t].op, [task[t].rec EXCEPT !.state = "Staged", !.current = Fingerprint],
                    saved)
      PROVE  OneInv'
  <2> DEFINE r == [task[t].rec EXCEPT !.state = "Staged", !.current = Fingerprint]
  <2>1. "Staged" \in Lifecycle /\ Fingerprint \in SUBSET Roots
    BY DEF Lifecycle, Fingerprint
  <2>2. r \in Records /\ r.actions = task[t].rec.actions /\ r.current = Fingerprint
        /\ r.state = "Staged" /\ r.lock = task[t].rec.lock
    <3>1. task[t].rec \in Records /\ "Staged" \in Unused \union Lifecycle
      BY <1>2, <2>1
    <3>2. r \in Records
      BY <2>1, <3>1 DEF Records
    <3>3. r.actions = task[t].rec.actions /\ r.lock = task[t].rec.lock
      BY <3>1 DEF Records
    <3>4. r.current = Fingerprint /\ r.state = "Staged"
      BY <3>1 DEF Records
    <3> QED
      BY <3>2, <3>3, <3>4
  <2>3. rec' = [rec EXCEPT ![task[t].op] = r]
    BY <1>5, Zenon DEF Update
  <2>4. r.actions \subseteq Fingerprint
    BY <1>2, <1>3, <2>2, EditsAssumption DEF Fingerprint
  <2> HIDE DEF r
  <2>5. Facts'
    BY <1>1, <1>2, <1>3, <2>2, <2>3, <2>4, RecordWritten
  <2> QED
    BY <1>0, <1>1, <1>5, <2>5, FinishPreserves
<1> QED
  BY <1>4, <1>5, Zenon DEF StageAfter, StageAbort

\* The record is removed.
LEMMA StageRemoveKeeps ==
    ASSUME OneClient, OneInv, NEW t \in Calls, StageRemove(t)
    PROVE  OneInv'
<1>0. LifecycleInv'
  BY StageEndPreserves DEF OneInv, StepKept
<1>1. /\ t \in Tasked /\ task[t].pc = "stage_remove" /\ task[t].pc \in StagePcs \ {"stage_guard"}
      /\ UNCHANGED <<candidate, running, lock, job, evidence, validated>> /\ Finish(t)
  BY Places DEF StageRemove, At, StagePcs, deviceVars
<1>2. /\ task[t].op \in Ops /\ LifecycleInv /\ Facts
      /\ CopyView("stage_remove", task[t], rec[task[t].op])
      /\ rec \in [Ops -> Records] /\ rec[task[t].op] \in Records
  BY <1>1, Acting
<1>3. Unreconciled(task[t].op) /\ NoneActive
  BY <1>1, <1>2, StagingAlone DEF CopyView, StagePcs, Unreconciled, Lifecycle, Terminal
<1> DEFINE r == [rec[task[t].op] EXCEPT !.state = "Gone"]
<1>4. r \in Records /\ r.actions = rec[task[t].op].actions /\ r.state = "Gone"
  BY <1>2 DEF Records, Unused
<1>5. rec' = [rec EXCEPT ![task[t].op] = r]
  BY DEF StageRemove, Remove
<1> HIDE DEF r
<1>6. Facts'
  BY <1>1, <1>2, <1>3, <1>4, <1>5, RecordWritten DEF OwnerStates, KeptStates
<1> QED
  BY <1>0, <1>1, <1>6, FinishPreserves

-----------------------------------------------------------------------------
(* validate_candidate, and the mutex of discard_candidate. *)

\* The mutex is taken and the fingerprint compared.
LEMMA GuardAndCompareKeeps ==
    ASSUME OneClient, OneInv, NEW t \in Calls, ValidateGuard(t) \/ DiscardGuard(t)
    PROVE  OneInv'
<1>0. LifecycleInv'
  BY GuardAndComparePreserves DEF OneInv, StepKept
<1>1. /\ t \in Tasked /\ task[t].pc \in {"validate_guard", "discard_guard"}
      /\ UNCHANGED <<candidate, running, lock, job, rec, evidence, validated>>
  BY Places DEF ValidateGuard, DiscardGuard, GuardAndCompare, At, deviceVars
<1>2. /\ LifecycleInv /\ Facts /\ CopyView(task[t].pc, task[t], rec[task[t].op])
      /\ JobView(task[t].pc, task[t], t)
  BY <1>1, Acting
<1>3. CASE Finish(t)
  BY <1>0, <1>1, <1>3, QuietReturn
<1>4. ASSUME NEW pc, SameFingerprint(task[t].rec), Goto(t, pc),
             \/ pc = "validate_post" /\ task[t].pc = "validate_guard"
             \/ pc = "discard_revert" /\ task[t].pc = "discard_guard"
      PROVE  OneInv'
  <2>1. pc \in PcsOf(t) \ {"stage_guard"}
    BY <1>4, Places DEF CallPcs
  <2>2. Advances(t) /\ task'[t].pc = pc /\ task'[t].op = task[t].op
        /\ task'[t].rec = task[t].rec /\ task'[t].verdict = task[t].verdict
    BY <1>1, <1>2, <1>4, <2>1, GotoAdvances
  <2>3. OwnEdits(candidate) = task[t].rec.current \intersect Edits
    BY <1>4, EditsAssumption DEF SameFingerprint, Fingerprint, OwnEdits
  <2>4. CopyView(pc, task'[t], rec'[task[t].op])
    BY <1>1, <1>2, <1>4, <2>2 DEF CopyView, StagePcs
  <2>5. CandidateView(pc, task[t])'
    BY <1>1, <1>4, <2>2, <2>3 DEF CandidateView, OwnEdits
  <2>6. JobView(pc, task[t], t)'
    BY <1>1, <1>2, <1>4, <2>2 DEF JobView, CopyView
  <2>7. View(t)'
    BY <2>2, <2>4, <2>5, <2>6 DEF View
  <2> QED
    BY <1>0, <1>1, <1>2, <2>2, <2>7, FactsKept, SoloPreserves
<1> QED
  BY <1>3, <1>4, Zenon DEF ValidateGuard, DiscardGuard, GuardAndCompare, At

\* The validation job starts, and the record says so.
LEMMA ValidatePostKeeps ==
    ASSUME OneClient, OneInv, NEW t \in Calls, ValidatePost(t)
    PROVE  OneInv'
<1>0. LifecycleInv'
  BY ValidatePostPreserves DEF OneInv, StepKept
<1>1. /\ t \in Tasked /\ task[t].pc = "validate_post"
      /\ UNCHANGED <<candidate, running, lock, job, evidence, validated>>
  BY Places DEF ValidatePost, At, deviceVars
<1>2. /\ task[t].op \in Ops /\ task[t].rec \in Records /\ LifecycleInv /\ Facts
      /\ CopyView("validate_post", task[t], rec[task[t].op])
      /\ CandidateView("validate_post", task[t]) /\ JobView("validate_post", task[t], t)
      /\ RecordOK(task[t].op) /\ LockOK(task[t].op) /\ rec \in [Ops -> Records]
  BY <1>1, Acting
<1>3. /\ rec[task[t].op] = task[t].rec /\ task[t].rec.state = "Staged"
      /\ OwnEdits(candidate) = task[t].rec.current \intersect Edits
      /\ task[t].verdict = "unknown" /\ Unreconciled(task[t].op) /\ NoneActive
  <2>1. /\ rec[task[t].op] = task[t].rec /\ task[t].rec.state = "Staged"
        /\ OwnEdits(candidate) = task[t].rec.current \intersect Edits
        /\ task[t].verdict = "unknown"
    BY <1>2 DEF CopyView, CandidateView
  <2>2. Unreconciled(task[t].op)
    BY <2>1 DEF Unreconciled, Lifecycle, Terminal
  <2> QED
    BY <1>2, <2>1, <2>2, OnlyOpen
<1> DEFINE r == WithState(task[t].rec, "Validating")
           l == [task[t] EXCEPT !.pc = "validate_poll", !.rec = r, !.seen = OwnEdits(candidate)]
<1>4. /\ r \in Records /\ r.state = "Validating" /\ r.actions = task[t].rec.actions
      /\ r.current = task[t].rec.current /\ r.lock = task[t].rec.lock
      /\ r.policy = task[t].rec.policy
  BY <1>2, WithStateType DEF Lifecycle
<1>5. CASE Finish(t) /\ UNCHANGED rec
  BY <1>0, <1>1, <1>5, QuietReturn
<1>6. ASSUME rec' = [rec EXCEPT ![task[t].op] = r] PROVE Facts'
  <2> HIDE DEF r
  <2>1. /\ r.actions = rec[task[t].op].actions /\ r.actions \subseteq r.current
        /\ Pending \subseteq r.actions
    BY <1>2, <1>3, <1>4 DEF RecordOK, OwnerStates
  <2>2. r.lock /\ Pending \intersect r.actions # {} => lock /\ r.current = Fingerprint
    BY <1>2, <1>3, <1>4 DEF LockOK, KeptStates
  <2> QED
    BY <1>1, <1>2, <1>3, <1>4, <1>6, <2>1, <2>2, RecordWritten
<1>7. CASE Finish(t) /\ rec' = [rec EXCEPT ![task[t].op] = r]
  BY <1>0, <1>1, <1>6, <1>7, FinishPreserves
<1>8. CASE /\ rec' = [rec EXCEPT ![task[t].op] = r]
           /\ task' = [task EXCEPT ![t].pc = "validate_poll", ![t].rec = r,
                                   ![t].seen = OwnEdits(candidate)]
  <2>1. /\ task' = [task EXCEPT ![t] = l] /\ task \in [Tasked -> Locals] /\ task[t] \in Locals
        /\ OwnEdits(candidate) \subseteq Edits
    BY <1>1, <1>2, <1>8, Types DEF OwnEdits
  <2>2. l \in Locals /\ l.pc = "validate_poll" /\ l.op = task[t].op
        /\ l.policy = task[t].policy /\ l.rec = r /\ l.seen = OwnEdits(candidate)
        /\ l.verdict = "unknown"
    BY <1>3, <1>4, <2>1 DEF Locals, CallPcs
  <2>3. rec'[task[t].op] = r
    BY <1>2, <1>8
  <2> HIDE DEF l, r
  <2>4. task' \in [Tasked -> Locals] /\ task'[t] = l /\ \A u \in Tasked \ {t} : task'[u] = task[u]
    BY <1>1, <2>1, <2>2
  <2>5. Advances(t)
    <3>1. r.policy = task[t].policy /\ "validate_poll" \in PcsOf(t)
      BY <1>1, <1>2, <1>4, Underway, Places DEF CallPcs
    <3> QED
      BY <1>4, <2>2, <2>4, <3>1 DEF Advances, Lifecycle
  <2>6. View(t)'
    BY <1>3, <1>4, <2>2, <2>3, <2>4 DEF View, CopyView, CandidateView, JobView, StagePcs
  <2> QED
    BY <1>0, <1>1, <1>6, <1>8, <2>5, <2>6, SoloPreserves
<1>9. PICK out \in Outcomes, saved \in Saves :
        IF out = "ok"
        THEN /\ Update(task[t].op, r, saved)
             /\ IF saved
                THEN /\ task' = [task EXCEPT ![t].pc = "validate_poll", ![t].rec = r,
                                             ![t].seen = OwnEdits(candidate)]
                     /\ UNCHANGED guard
                ELSE Release(t) /\ Finish(t)
        ELSE Release(t) /\ Finish(t) /\ UNCHANGED rec
  BY Zenon DEF ValidatePost
<1> HIDE DEF r
<1> QED
  BY <1>5, <1>7, <1>8, <1>9, Zenon DEF Update

\* The verdict is recorded.
LEMMA ValidatePollKeeps ==
    ASSUME OneClient, OneInv, NEW t \in Calls, ValidatePoll(t)
    PROVE  OneInv'
<1>0. LifecycleInv'
  BY ValidatePollPreserves DEF OneInv, StepKept
<1>1. /\ t \in Tasked /\ task[t].pc = "validate_poll" /\ Finish(t)
      /\ UNCHANGED <<candidate, running, lock, job, evidence>>
  BY Places DEF ValidatePoll, At, deviceVars
<1>2. /\ task[t].op \in Ops /\ task[t].rec \in Records /\ LifecycleInv /\ Facts
      /\ CopyView("validate_poll", task[t], rec[task[t].op])
      /\ RecordOK(task[t].op) /\ LockOK(task[t].op) /\ rec \in [Ops -> Records]
  BY <1>1, Acting
<1>3. /\ rec[task[t].op] = task[t].rec /\ task[t].rec.state = "Validating"
      /\ task[t].seen = task[t].rec.current \intersect Edits
      /\ Unreconciled(task[t].op) /\ NoneActive
  <2>1. /\ rec[task[t].op] = task[t].rec /\ task[t].rec.state = "Validating"
        /\ task[t].seen = task[t].rec.current \intersect Edits
    BY <1>2 DEF CopyView
  <2>2. Unreconciled(task[t].op)
    BY <2>1 DEF Unreconciled, Lifecycle, Terminal
  <2> QED
    BY <1>2, <2>1, <2>2, OnlyOpen
<1>4. PICK succeeded \in BOOLEAN, saved \in Saves :
        /\ Update(task[t].op,
                  WithState(task[t].rec, IF succeeded THEN "Validated" ELSE "Failed"), saved)
        /\ validated' = IF succeeded
                        THEN [validated EXCEPT ![task[t].op] = @ \union {task[t].seen}]
                        ELSE validated
  BY DEF ValidatePoll
<1>5. /\ \A p \in Ops : validated[p] \subseteq validated'[p]
      /\ succeeded => task[t].seen \in validated'[task[t].op]
  <2>1. validated \in [Ops -> SUBSET (SUBSET Edits)]
    BY <1>2, Types
  <2> QED
    BY <1>2, <1>4, <2>1
<1> DEFINE s == IF succeeded THEN "Validated" ELSE "Failed"
           r == WithState(task[t].rec, s)
<1>6. s \in Lifecycle /\ s \in OwnerStates /\ (s = "Validated" => succeeded)
      /\ s \in {"Validated", "Failed"}
  BY DEF Lifecycle, OwnerStates
<1> HIDE DEF s
<1>7. /\ r \in Records /\ r.state = s /\ r.actions = task[t].rec.actions
      /\ r.current = task[t].rec.current /\ r.lock = task[t].rec.lock
  BY <1>2, <1>6, WithStateType
<1>8. Update(task[t].op, r, saved)
  BY <1>4 DEF s
<1> HIDE DEF r
<1>9. ASSUME NEW q \in {r, task[t].rec}, rec' = [rec EXCEPT ![task[t].op] = q] PROVE Facts'
  <2>1. /\ q \in Records /\ q.actions = rec[task[t].op].actions /\ q.actions \subseteq q.current
        /\ Pending \subseteq q.actions /\ q.state \in {"Validating", "Validated", "Failed"}
        /\ (q.state = "Validated" => q.current \intersect Edits \in validated'[task[t].op])
    <3>1. /\ task[t].rec.actions \subseteq task[t].rec.current
          /\ Pending \subseteq task[t].rec.actions
      BY <1>2, <1>3 DEF RecordOK, OwnerStates
    <3>2. CASE q = r
      <4>1. s = "Validated" => task[t].rec.current \intersect Edits \in validated'[task[t].op]
        BY <1>3, <1>5, <1>6
      <4> QED
        BY <1>3, <1>6, <1>7, <3>1, <3>2, <4>1
    <3>3. CASE q = task[t].rec
      BY <1>2, <1>3, <3>1, <3>3
    <3> QED
      BY <3>2, <3>3
  <2>2. q.lock /\ Pending \intersect q.actions # {} => lock /\ q.current = Fingerprint
    BY <1>2, <1>3, <1>7 DEF LockOK, KeptStates
  <2> QED
    BY <1>1, <1>2, <1>3, <1>5, <1>9, <2>1, <2>2, RecordWritten
<1>10. Facts'
  <2>1. rec' = [rec EXCEPT ![task[t].op] = r] \/ rec' = rec
    BY <1>8, Zenon DEF Update
  <2>2. rec' = rec => rec' = [rec EXCEPT ![task[t].op] = task[t].rec]
    BY <1>2, <1>3
  <2> QED
    BY <1>9, <2>1, <2>2
<1> QED
  BY <1>0, <1>1, <1>10, FinishPreserves

-----------------------------------------------------------------------------
(* discard_candidate. *)

\* A state in which this server has nothing pending, after a revert.
LEMMA NothingPending ==
    ASSUME LifecycleInv, Facts, NoneActive, NEW o \in Ops,
           candidate' = (candidate \ Edits) \union OwnEdits(running),
           UNCHANGED <<running, job, evidence, validated>>,
           \A p \in Ops :
              \/ rec'[p] = rec[p]
              \/ /\ rec[p].state # "Fresh" /\ rec'[p].actions = rec[p].actions
                 /\ \/ rec'[p].state = "Discarded"
                    \/ rec'[p].state = "Committed" /\ rec[p].actions \subseteq running
    PROVE  Facts' /\ Pending' = {}
<1>1. Pending' = {} /\ OwnEdits(running)' \subseteq candidate'
  BY DEF Pending, OwnEdits
<1>2. OneOperationPerEndpoint'
  <2> SUFFICES ASSUME NEW p \in Ops, Unreconciled(p)' PROVE Unreconciled(p)
    BY DEF Facts, OneOperationPerEndpoint
  <2> QED
    BY DEF Unreconciled, Terminal
<1>3. ASSUME NEW p \in Ops PROVE RecordOK(p)' /\ LockOK(p)'
  <2>1. RecordOK(p)
    BY DEF Facts
  <2>2. RecordOK(p)'
    <3>1. CASE rec'[p] = rec[p]
      BY <1>1, <2>1, <3>1 DEF RecordOK
    <3>2. CASE rec'[p] # rec[p]
      BY <1>1, <2>1, <3>2 DEF RecordOK, OwnerStates
    <3> QED
      BY <3>1, <3>2
  <2>3. LockOK(p)'
    BY <1>1 DEF LockOK
  <2> QED
    BY <2>2, <2>3
<1>4. ASSUME NEW w \in Workers PROVE JobOK(w)'
  <2>1. JobOK(w) /\ job'[w] = job[w] /\ job[w].status # "active"
        /\ (job[w].status # "none" => job[w].op \in Ops)
    BY DEF Facts, NoneActive, LifecycleInv, WorkersOK, WorkerOK
  <2>2. job[w].status # "none" =>
          rec'[job[w].op].actions = rec[job[w].op].actions /\ rec'[job[w].op].state # "Fresh"
    <3>1. job[w].status # "none" => rec[job[w].op].state # "Fresh"
      BY <2>1 DEF JobOK
    <3> QED
      BY <2>1, <3>1
  <2> QED
    BY <2>1, <2>2 DEF JobOK
<1>5. NoMixedCandidate'
  BY <1>1 DEF NoMixedCandidate
<1> QED
  BY <1>1, <1>2, <1>3, <1>4, <1>5 DEF Facts

\* The administrator's edits are reverted, with or without an answer.
LEMMA DiscardRevertKeeps ==
    ASSUME OneClient, OneInv, NEW t \in Calls, DiscardRevert(t)
    PROVE  OneInv'
<1>0. LifecycleInv'
  BY DiscardPreserves DEF OneInv, StepKept
<1>1. /\ t \in Tasked /\ task[t].pc = "discard_revert"
      /\ UNCHANGED <<running, lock, job, rec, evidence, validated>>
  BY Places DEF DiscardRevert, At
<1>2. /\ task[t].op \in Ops /\ LifecycleInv /\ Facts
      /\ CopyView("discard_revert", task[t], rec[task[t].op])
      /\ JobView("discard_revert", task[t], t)
  BY <1>1, Acting
<1>3. rec[task[t].op] = task[t].rec /\ task[t].rec.state \in Discardable
      /\ task[t].verdict = "unknown"
  BY <1>2 DEF CopyView
<1>4. Unreconciled(task[t].op)
  BY <1>3 DEF Unreconciled, Discardable, Lifecycle, Terminal
<1>5. NoneActive
  BY <1>2, <1>3, <1>4, OnlyOpen DEF Discardable
<1>6. PICK out \in Outcomes :
        /\ RevertAdmin(out)
        /\ IF out = "ok" THEN Goto(t, "discard_fp") /\ UNCHANGED guard
           ELSE Release(t) /\ Finish(t)
  BY DEF DiscardRevert
<1>7. CASE candidate' = (candidate \ Edits) \union OwnEdits(running)
  <2>1. Facts' /\ Pending' = {}
    BY <1>1, <1>2, <1>5, <1>7, NothingPending
  <2>2. CASE Finish(t)
    BY <1>0, <1>1, <2>1, <2>2, FinishPreserves
  <2>3. CASE Goto(t, "discard_fp")
    <3>1. "discard_fp" \in PcsOf(t) \ {"stage_guard"}
      BY Places DEF CallPcs
    <3>2. Advances(t) /\ task'[t].pc = "discard_fp" /\ task'[t].op = task[t].op
          /\ task'[t].rec = task[t].rec /\ task'[t].verdict = task[t].verdict
      BY <1>1, <1>2, <2>3, <3>1, GotoAdvances
    <3>3. View(t)'
      BY <1>1, <1>3, <2>1, <3>2 DEF View, CopyView, CandidateView, JobView, StagePcs
    <3> QED
      BY <1>0, <1>1, <2>1, <3>2, <3>3, SoloPreserves
  <2> QED
    BY <1>6, <2>2, <2>3, Zenon
<1>8. CASE candidate' = candidate /\ Finish(t)
  BY <1>0, <1>1, <1>8, QuietReturn
<1>9. \/ candidate' = (candidate \ Edits) \union OwnEdits(running)
      \/ candidate' = candidate /\ out = "refused"
  BY <1>6, Zenon DEF RevertAdmin
<1> QED
  BY <1>6, <1>7, <1>8, <1>9

\* The record to be stored is made up.
LEMMA DiscardFingerprintKeeps ==
    ASSUME OneClient, OneInv, NEW t \in Calls, DiscardFingerprint(t)
    PROVE  OneInv'
<1>0. LifecycleInv'
  BY DiscardPreserves DEF OneInv, StepKept
<1>1. /\ t \in Tasked /\ task[t].pc = "discard_fp"
      /\ UNCHANGED <<candidate, running, lock, job, rec, evidence, validated>>
  BY Places DEF DiscardFingerprint, At, deviceVars
<1>2. /\ task[t].op \in Ops /\ LifecycleInv /\ Facts /\ task[t].rec \in Records
      /\ CopyView("discard_fp", task[t], rec[task[t].op])
      /\ CandidateView("discard_fp", task[t])
      /\ task[t].rec.policy = task[t].policy /\ task[t].rec.state \in Lifecycle
  BY <1>1, Acting, Underway
<1>3. /\ rec[task[t].op] = task[t].rec /\ task[t].rec.state \in Discardable
      /\ task[t].verdict = "unknown" /\ Pending = {}
  BY <1>2 DEF CopyView, CandidateView
<1> DEFINE r == [task[t].rec EXCEPT !.current = Fingerprint]
           s == WithState(r, "Discarded")
<1>4. CASE Finish(t)
  BY <1>0, <1>1, <1>4, QuietReturn
<1>5. ASSUME NEW pc \in {"discard_unlock", "discard_save"}, NEW q \in Records, Keep(t, pc, q),
             q.policy = task[t].policy, q.state \in Lifecycle, q.actions = task[t].rec.actions,
             pc = "discard_save" => q.state = "Discarded"
      PROVE  OneInv'
  <2>1. pc \in PcsOf(t) \ {"stage_guard"}
    BY Places DEF CallPcs
  <2>2. Advances(t) /\ task'[t].pc = pc /\ task'[t].op = task[t].op
        /\ task'[t].rec = q /\ task'[t].verdict = task[t].verdict
    BY <1>1, <1>2, <1>5, <2>1, KeepAdvances
  <2>3. Pending' = Pending
    BY <1>1 DEF Pending, OwnEdits
  <2>4. View(t)'
    BY <1>1, <1>3, <1>5, <2>2, <2>3 DEF View, CopyView, CandidateView, JobView, StagePcs
  <2> QED
    BY <1>0, <1>1, <1>2, <2>2, <2>4, FactsKept, SoloPreserves
<1>6. r \in Records /\ r.policy = task[t].policy /\ r.state \in Lifecycle
      /\ r.actions = task[t].rec.actions
  <2>1. Fingerprint \in SUBSET Roots
    BY DEF Fingerprint
  <2> QED
    BY <1>2, <2>1, WithCurrentType
<1>7. s \in Records /\ s.policy = task[t].policy /\ s.state = "Discarded"
      /\ s.actions = task[t].rec.actions /\ "Discarded" \in Lifecycle
  <2> HIDE DEF r
  <2> QED
    BY <1>6, WithStateType DEF Lifecycle
<1>8. \/ Finish(t)
      \/ Keep(t, IF r.lock THEN "discard_unlock" ELSE "discard_save", IF r.lock THEN r ELSE s)
  BY Zenon DEF DiscardFingerprint
<1> HIDE DEF r, s
<1>9. Finish(t) \/ Keep(t, "discard_unlock", r) \/ Keep(t, "discard_save", s)
  BY <1>8, Zenon
<1> QED
  BY <1>4, <1>5, <1>6, <1>7, <1>9

\* The configuration lock is released.
LEMMA DiscardUnlockKeeps ==
    ASSUME OneClient, OneInv, NEW t \in Calls, DiscardUnlock(t)
    PROVE  OneInv'
<1>0. LifecycleInv'
  BY DiscardPreserves DEF OneInv, StepKept
<1>1. /\ t \in Tasked /\ task[t].pc = "discard_unlock"
      /\ UNCHANGED <<candidate, running, job, rec, evidence, validated>>
  BY Places DEF DiscardUnlock, At, coordinatorVars
<1>2. /\ task[t].op \in Ops /\ LifecycleInv /\ Facts /\ task[t].rec \in Records
      /\ CopyView("discard_unlock", task[t], rec[task[t].op])
      /\ CandidateView("discard_unlock", task[t])
      /\ task[t].rec.policy = task[t].policy
  BY <1>1, Acting, Underway
<1>3. /\ rec[task[t].op].actions = task[t].rec.actions /\ rec[task[t].op].state \in Discardable
      /\ task[t].verdict = "unknown" /\ Pending = {}
  BY <1>2 DEF CopyView, CandidateView
<1>4. Pending' = {}
  BY <1>1, <1>3 DEF Pending, OwnEdits
<1>5. Facts'
  <2>1. \A o \in Ops : LockOK(o)'
    BY <1>4 DEF LockOK
  <2> QED
    BY <1>1, <1>2, <2>1, LockChanged
<1> DEFINE r == [task[t].rec EXCEPT !.lock = FALSE, !.state = "Discarded"]
           s == WithState(task[t].rec, "Indeterminate")
<1>6. r \in Records /\ r.policy = task[t].policy /\ r.state = "Discarded"
      /\ r.actions = task[t].rec.actions
  BY <1>2, UnlockedType DEF Lifecycle
<1>7. s \in Records /\ s.policy = task[t].policy /\ s.state = "Indeterminate"
      /\ s.actions = task[t].rec.actions
  BY <1>2, WithStateType DEF Lifecycle
<1>8. Keep(t, "discard_save", r) \/ Keep(t, "discard_save", s)
  BY Zenon DEF DiscardUnlock
<1> HIDE DEF r, s
<1>9. PICK q \in {r, s} : Keep(t, "discard_save", q)
  BY <1>8
<1>10. /\ q \in Records /\ q.policy = task[t].policy /\ q.state \in {"Discarded", "Indeterminate"}
       /\ q.actions = task[t].rec.actions /\ q.state \in Lifecycle
  BY <1>6, <1>7 DEF Lifecycle
<1>11. "discard_save" \in PcsOf(t) \ {"stage_guard"}
  BY Places DEF CallPcs
<1>12. Advances(t) /\ task'[t].pc = "discard_save" /\ task'[t].op = task[t].op
       /\ task'[t].rec = q /\ task'[t].verdict = task[t].verdict
  BY <1>1, <1>2, <1>9, <1>10, <1>11, KeepAdvances
<1>13. View(t)'
  BY <1>1, <1>3, <1>4, <1>10, <1>12 DEF View, CopyView, CandidateView, JobView, StagePcs
<1> QED
  BY <1>0, <1>1, <1>5, <1>12, <1>13, SoloPreserves

\* The last record write of a discard.
LEMMA DiscardSaveKeeps ==
    ASSUME OneClient, OneInv, NEW t \in Calls, DiscardSave(t)
    PROVE  OneInv'
<1>0. LifecycleInv'
  BY DiscardPreserves DEF OneInv, StepKept
<1>1. /\ t \in Tasked /\ task[t].pc = "discard_save" /\ Finish(t)
      /\ UNCHANGED <<candidate, running, lock, job, evidence, validated>>
  BY Places DEF DiscardSave, At, deviceVars
<1>2. /\ task[t].op \in Ops /\ LifecycleInv /\ Facts /\ task[t].rec \in Records
      /\ CopyView("discard_save", task[t], rec[task[t].op])
      /\ CandidateView("discard_save", task[t])
  BY <1>1, Acting
<1>3. /\ rec[task[t].op].actions = task[t].rec.actions /\ rec[task[t].op].state \in Discardable
      /\ task[t].rec.state \in {"Discarded", "Indeterminate"} /\ Pending = {}
  BY <1>2 DEF CopyView, CandidateView
<1>4. Unreconciled(task[t].op)
  BY <1>3 DEF Unreconciled, Discardable, Lifecycle, Terminal
<1>5. NoneActive
  BY <1>2, <1>3, <1>4, OnlyOpen DEF Discardable
<1>6. rec' = [rec EXCEPT ![task[t].op] = task[t].rec] \/ rec' = rec
  BY Zenon DEF DiscardSave, Update
<1>7. CASE rec' = [rec EXCEPT ![task[t].op] = task[t].rec]
  <2>1. Facts'
    BY <1>1, <1>2, <1>3, <1>4, <1>5, <1>7, RecordWritten DEF OwnerStates, KeptStates
  <2> QED
    BY <1>0, <1>1, <2>1, FinishPreserves
<1>8. CASE rec' = rec
  BY <1>0, <1>1, <1>8, QuietReturn
<1> QED
  BY <1>6, <1>7, <1>8

-----------------------------------------------------------------------------
(* commit_candidate. *)

\* The fingerprint is compared, without the mutex.
LEMMA CommitCompareKeeps ==
    ASSUME OneClient, OneInv, NEW t \in Calls, CommitCompare(t)
    PROVE  OneInv'
<1>0. LifecycleInv'
  BY CommitMovesPreserve DEF OneInv, StepKept
<1>1. /\ t \in Tasked /\ task[t].pc = "commit_fp"
      /\ UNCHANGED <<candidate, running, lock, job, rec, evidence, validated>>
  BY Places DEF CommitCompare, At, deviceVars, coordinatorVars
<1>2. /\ LifecycleInv /\ Facts /\ CopyView("commit_fp", task[t], rec[task[t].op])
  BY <1>1, Acting
<1>3. CASE Finish(t)
  BY <1>0, <1>1, <1>3, QuietReturn
<1>4. CASE SameFingerprint(task[t].rec) /\ Goto(t, "commit_mark")
  <2>1. "commit_mark" \in PcsOf(t) \ {"stage_guard"}
    BY Places DEF CallPcs
  <2>2. Advances(t) /\ task'[t].pc = "commit_mark" /\ task'[t].op = task[t].op
        /\ task'[t].rec = task[t].rec /\ task'[t].verdict = task[t].verdict
    BY <1>1, <1>2, <1>4, <2>1, GotoAdvances
  <2>3. OwnEdits(candidate)' = task[t].rec.current \intersect Edits
    BY <1>1, <1>4, EditsAssumption DEF SameFingerprint, Fingerprint, OwnEdits
  <2>4. View(t)'
    BY <1>1, <1>2, <2>2, <2>3 DEF View, CopyView, CandidateView, JobView, StagePcs
  <2> QED
    BY <1>0, <1>1, <1>2, <2>2, <2>4, FactsKept, SoloPreserves
<1> QED
  BY <1>3, <1>4, Zenon DEF CommitCompare

\* The caller returns with its worker.
LEMMA CommitReturnKeeps ==
    ASSUME OneClient, OneInv, NEW t \in Calls, CommitReturn(t)
    PROVE  OneInv'
<1>0. LifecycleInv'
  BY CommitMovesPreserve DEF OneInv, StepKept
<1>1. /\ t \in Tasked /\ task[t].pc = "commit_wait" /\ Finish(t)
      /\ task[task[t].worker].pc = "idle"
      /\ UNCHANGED <<candidate, running, lock, job, rec, evidence, validated>>
  BY Places DEF CommitReturn, At, deviceVars, coordinatorVars, OneClient
<1>2. \A w \in Workers : task[w].pc = "idle"
  <2> SUFFICES ASSUME NEW w \in Workers, task[w].pc # "idle" PROVE FALSE
    OBVIOUS
  <2>1. PICK c \in Calls : task[c].pc = "commit_wait" /\ task[c].worker = w
    BY DEF OneInv, Alone
  <2> QED
    BY <1>1, <2>1 DEF OneClient
<1>3. \A u \in Tasked \ {t} : task[u].pc = "idle" /\ task[u].verdict = "unknown"
  <2>1. \A u \in Tasked \ {t} : task[u].pc = "idle"
    BY <1>2 DEF OneClient, Tasked
  <2> QED
    BY <2>1, RestingVerdict DEF OneInv
<1>4. Advances(t) /\ task'[t] = Idle /\ task'[t].pc = "idle"
  BY <1>1, FinishAdvances DEF OneInv
<1>5. \A u \in Tasked \ {t} : task'[u].pc = "idle" /\ task'[u].verdict = "unknown"
  BY <1>3, <1>4 DEF Advances
<1>6. Alone'
  BY <1>4, <1>5 DEF Alone, Tasked
<1>7. ASSUME NEW u \in Tasked \ {t} PROVE View(u)'
  BY <1>5, <1>7 DEF View, CopyView, CandidateView, JobView, StagePcs
<1>8. View(t)'
  BY <1>4, IdleView
<1>9. Facts'
  BY <1>1, FactsKept DEF OneInv
<1> QED
  BY <1>0, <1>6, <1>7, <1>8, <1>9 DEF OneInv

\* The commit is recorded and handed to a worker.
LEMMA CommitMarkKeeps ==
    ASSUME OneClient, OneInv, NEW t \in Calls, NEW w \in Workers, CommitMark(t, w)
    PROVE  OneInv'
<1> DEFINE r == WithState(task[t].rec, "Committing")
           lt == [task[t] EXCEPT !.pc = "commit_wait", !.worker = w]
           lw == [task[t] EXCEPT !.pc = "worker_guard", !.rec = r]
<1>0. LifecycleInv'
  BY CommitMarkPreserves DEF OneInv, StepKept
<1>1. /\ t \in Tasked /\ w \in Tasked /\ t # w /\ task[t].pc = "commit_mark" /\ task[w].pc = "idle"
      /\ UNCHANGED <<candidate, running, lock, evidence, validated>>
  BY Places, TasksAssumption DEF CommitMark, FreeWorker, At
<1>2. /\ task[t].op \in Ops /\ task[t].rec \in Records /\ LifecycleInv /\ Facts
      /\ CopyView("commit_mark", task[t], rec[task[t].op])
      /\ CandidateView("commit_mark", task[t]) /\ JobView("commit_mark", task[t], t)
      /\ RecordOK(task[t].op) /\ LockOK(task[t].op) /\ rec \in [Ops -> Records]
      /\ task \in [Tasked -> Locals] /\ job \in [Workers -> Jobs] /\ task[t] \in Locals
  BY <1>1, Acting, Types
<1>3. /\ rec[task[t].op] = task[t].rec /\ task[t].rec.state = "Validated"
      /\ OwnEdits(candidate) = task[t].rec.current \intersect Edits
      /\ task[t].verdict = "unknown" /\ Unreconciled(task[t].op) /\ NoneActive
  <2>1. /\ rec[task[t].op] = task[t].rec /\ task[t].rec.state = "Validated"
        /\ OwnEdits(candidate) = task[t].rec.current \intersect Edits
        /\ task[t].verdict = "unknown"
    BY <1>2 DEF CopyView, CandidateView
  <2>2. Unreconciled(task[t].op)
    BY <2>1 DEF Unreconciled, Lifecycle, Terminal
  <2> QED
    BY <1>2, <2>1, <2>2, OnlyOpen
<1>4. /\ r \in Records /\ r.state = "Committing" /\ r.actions = task[t].rec.actions
      /\ r.current = task[t].rec.current /\ r.lock = task[t].rec.lock
  BY <1>2, WithStateType DEF Lifecycle
<1>5. PICK saved \in Saves :
        /\ Update(task[t].op, r, saved)
        /\ task' = IF saved
                   THEN [task EXCEPT ![t].pc = "commit_wait", ![t].worker = w,
                                     ![w] = [task[t] EXCEPT !.pc = "worker_guard", !.rec = r]]
                   ELSE [task EXCEPT ![t] = Idle]
        /\ job' = IF saved THEN [job EXCEPT ![w] = NoJob] ELSE job
  BY DEF CommitMark
<1>6. CASE ~saved
  <2>1. Finish(t) /\ UNCHANGED <<rec, job>>
    BY <1>5, <1>6, Zenon DEF Finish, Update
  <2> QED
    BY <1>0, <1>1, <2>1, QuietReturn
<1>7. CASE saved
  <2>1. /\ rec' = [rec EXCEPT ![task[t].op] = r]
        /\ task' = [task EXCEPT ![t].pc = "commit_wait", ![t].worker = w,
                                ![w] = [task[t] EXCEPT !.pc = "worker_guard", !.rec = r]]
        /\ job' = [job EXCEPT ![w] = NoJob]
    BY <1>5, <1>7, Zenon DEF Update
  <2>2. lt.pc = "commit_wait" /\ lt.worker = w /\ lt.verdict = "unknown"
    BY <1>2, <1>3 DEF Locals
  <2>3. lw.pc = "worker_guard" /\ lw.op = task[t].op /\ lw.rec = r /\ lw.verdict = "unknown"
    BY <1>2, <1>3 DEF Locals
  <2>4. task' = [task EXCEPT ![t] = lt, ![w] = lw]
    BY <1>1, <1>2, <2>1
  <2> HIDE DEF r, lt, lw
  <2>5. /\ task'[t] = lt /\ task'[w] = lw
        /\ \A u \in Tasked \ {t, w} : task'[u] = task[u]
    BY <1>1, <1>2, <2>4
  <2>6. rec'[task[t].op] = r
    BY <1>2, <2>1
  <2>7. \A v \in Workers : job'[v] = job[v] \/ job'[v].status = "none"
    BY <1>2, <2>1 DEF NoJob
  <2>8. Facts'
    <3>1. r.actions = rec[task[t].op].actions /\ Pending \subseteq r.actions
      BY <1>2, <1>3, <1>4 DEF RecordOK, OwnerStates
    <3>2. r.lock /\ Pending \intersect r.actions # {} => lock /\ r.current = Fingerprint
      BY <1>2, <1>3, <1>4 DEF LockOK, KeptStates
    <3> QED
      BY <1>1, <1>2, <1>3, <1>4, <2>1, <2>7, <3>1, <3>2, RecordWritten
  <2>9. \A u \in Tasked \ {t, w} : task'[u].pc = "idle" /\ task'[u].verdict = "unknown"
    <3>1. \A u \in Tasked \ {t, w} : task[u].pc = "idle"
      BY <1>1, Solo DEF OneInv
    <3> QED
      BY <2>5, <3>1, RestingVerdict DEF OneInv
  <2>10. Alone'
    <3>1. \A v \in Workers : v # w => task'[v].pc = "idle"
      BY <2>9, TasksAssumption DEF Tasked
    <3> QED
      BY <2>2, <2>5, <3>1 DEF Alone
  <2>11. ASSUME NEW u \in Tasked \ {t, w} PROVE View(u)'
    BY <2>9, <2>11 DEF View, CopyView, CandidateView, JobView, StagePcs
  <2>12. View(t)'
    BY <2>2, <2>5 DEF View, CopyView, CandidateView, JobView, StagePcs
  <2>13. View(w)'
    <3>1. OwnEdits(candidate)' = r.current \intersect Edits /\ NoneActive'
      BY <1>1, <1>3, <1>4, <2>7 DEF OwnEdits, NoneActive
    <3>2. r.current \intersect Edits \in validated'[task[t].op] /\ r.actions \subseteq r.current
      BY <1>1, <1>2, <1>3, <1>4 DEF RecordOK
    <3> QED
      BY <1>4, <2>3, <2>5, <2>6, <3>1, <3>2 DEF View, CopyView, CandidateView, JobView, StagePcs
  <2> QED
    BY <1>0, <2>8, <2>10, <2>11, <2>12, <2>13 DEF OneInv
<1> QED
  BY <1>6, <1>7

-----------------------------------------------------------------------------
(* commit_worker. *)

\* What commit_worker knows until it has made up its receipt.
LEMMA Committing ==
    ASSUME OneInv, NEW w \in Workers,
           task[w].pc \in {"worker_guard", "worker_post", "worker_job", "worker_poll",
                           "worker_after", "worker_unlock"}
    PROVE  /\ w \in Tasked /\ LifecycleInv /\ Facts /\ task[w].op \in Ops /\ task[w].rec \in Records
           /\ rec \in [Ops -> Records] /\ rec[task[w].op] = task[w].rec
           /\ task[w].rec.state = "Committing" /\ task[w].rec.policy = task[w].policy
           /\ task[w].rec.actions \subseteq Edits
           /\ Unreconciled(task[w].op) /\ Pending \subseteq task[w].rec.actions
           /\ \A o \in Ops : Unreconciled(o) => o = task[w].op
           /\ LockOK(task[w].op) /\ JobView(task[w].pc, task[w], w)
           /\ task[w].pc # "worker_unlock" => task[w].verdict = "unknown"
<1>1. w \in Tasked /\ task[w].pc \notin {"idle", "commit_wait"}
  BY Places
<1>2. /\ LifecycleInv /\ Facts /\ task[w].op \in Ops /\ task[w].rec \in Records
      /\ CopyView(task[w].pc, task[w], rec[task[w].op]) /\ JobView(task[w].pc, task[w], w)
      /\ rec \in [Ops -> Records] /\ RecordOK(task[w].op) /\ LockOK(task[w].op)
      /\ task[w].rec.actions \subseteq Edits /\ task[w].rec.policy = task[w].policy
  BY <1>1, Acting, Underway
<1>3. /\ rec[task[w].op] = task[w].rec /\ task[w].rec.state = "Committing"
      /\ task[w].pc # "worker_unlock" => task[w].verdict = "unknown"
  BY <1>2 DEF CopyView
<1>4. Unreconciled(task[w].op)
  BY <1>3 DEF Unreconciled, Lifecycle, Terminal
<1>5. Pending \subseteq task[w].rec.actions
  BY <1>2, <1>3 DEF RecordOK, OwnerStates
<1>6. \A o \in Ops : Unreconciled(o) => o = task[w].op
  BY <1>2, <1>4 DEF Facts, OneOperationPerEndpoint
<1> QED
  BY <1>1, <1>2, <1>3, <1>4, <1>5, <1>6

\* The commit block ends in an error, and the outcome is indeterminate.
LEMMA WorkerErrorKeeps ==
    ASSUME OneClient, OneInv, LifecycleInv', NEW w \in Workers,
           task[w].pc \in {"worker_post", "worker_job", "worker_poll", "worker_after"},
           WorkerError(w), UNCHANGED rec, Facts'
    PROVE  OneInv'
<1> DEFINE r == WithState(task[w].rec, "Indeterminate")
<1>1. /\ w \in Tasked /\ LifecycleInv /\ task[w].op \in Ops /\ task[w].rec \in Records
      /\ rec[task[w].op] = task[w].rec /\ task[w].rec.state = "Committing"
      /\ task[w].rec.policy = task[w].policy /\ task[w].verdict = "unknown"
  BY Committing
<1>2. /\ r \in Records /\ r.state = "Indeterminate" /\ r.state \in Lifecycle
      /\ r.policy = task[w].policy /\ r.actions = task[w].rec.actions
  BY <1>1, WithStateType DEF Lifecycle
<1>3. Keep(w, "worker_receipt", r) /\ "worker_receipt" \in PcsOf(w) \ {"stage_guard"}
  BY Places DEF WorkerError, WorkerPcs
<1> HIDE DEF r
<1>4. Advances(w) /\ task'[w].pc = "worker_receipt" /\ task'[w].op = task[w].op
      /\ task'[w].rec = r /\ task'[w].verdict = "unknown"
  BY <1>1, <1>2, <1>3, KeepAdvances
<1>5. View(w)'
  BY <1>1, <1>2, <1>4 DEF View, CopyView, CandidateView, JobView, StagePcs
<1> QED
  BY <1>1, <1>4, <1>5, SoloPreserves

\* The mutex is taken and the intent written, or the record put back.
LEMMA WorkerGuardKeeps ==
    ASSUME OneClient, OneInv, NEW w \in Workers, WorkerGuard(w)
    PROVE  OneInv'
<1>0. LifecycleInv'
  BY WorkerGuardPreserves DEF OneInv, StepKept
<1>1. /\ task[w].pc = "worker_guard"
      /\ UNCHANGED <<candidate, running, lock, job, validated>>
  BY DEF WorkerGuard, At, deviceVars
<1>2. /\ w \in Tasked /\ LifecycleInv /\ Facts /\ task[w].op \in Ops /\ task[w].rec \in Records
      /\ rec \in [Ops -> Records] /\ rec[task[w].op] = task[w].rec
      /\ task[w].rec.state = "Committing"
      /\ Unreconciled(task[w].op) /\ Pending \subseteq task[w].rec.actions
      /\ LockOK(task[w].op) /\ JobView("worker_guard", task[w], w)
      /\ task[w].verdict = "unknown" /\ CandidateView("worker_guard", task[w])
  BY <1>1, Committing DEF OneInv, View
<1>3. /\ NoneActive /\ task[w].rec.current \intersect Edits \in validated[task[w].op]
      /\ task[w].rec.actions \subseteq task[w].rec.current
  BY <1>2 DEF JobView
<1>4. task[w].rec.lock /\ Pending \intersect task[w].rec.actions # {}
        => lock /\ task[w].rec.current = Fingerprint
  BY <1>2 DEF LockOK, KeptStates
<1>5. CASE /\ Record(task[w].op, {"intent"})
           /\ Goto(w, "worker_post") /\ UNCHANGED rec
  <2>1. "worker_post" \in PcsOf(w) \ {"stage_guard"}
    BY Places DEF WorkerPcs
  <2>2. Advances(w) /\ task'[w].pc = "worker_post" /\ task'[w].op = task[w].op
        /\ task'[w].rec = task[w].rec /\ task'[w].verdict = task[w].verdict
    BY <1>1, <1>2, <1>5, <2>1, GotoAdvances
  <2>3. \A p \in Ops : "ok" \in evidence'[p] => "ok" \in evidence[p]
    <3>1. evidence \in [Ops -> SUBSET {"intent", "ok", "failed"}]
      BY <1>2, Types
    <3> QED
      BY <1>2, <1>5, <3>1 DEF Record
  <2>4. rec' = [rec EXCEPT ![task[w].op] = task[w].rec]
    BY <1>2, <1>5
  <2>5. Facts'
    BY <1>1, <1>2, <1>3, <1>4, <2>3, <2>4, RecordWritten
  <2>6. View(w)'
    <3>1. OwnEdits(candidate)' = task[w].rec.current \intersect Edits
      BY <1>1, <1>2 DEF CandidateView, OwnEdits
    <3>2. NoneActive'
      BY <1>1, <1>3 DEF NoneActive
    <3> QED
      BY <1>1, <1>2, <1>3, <1>5, <2>2, <3>1, <3>2
         DEF View, CopyView, CandidateView, JobView, StagePcs
  <2> QED
    BY <1>0, <1>1, <1>2, <2>2, <2>5, <2>6, SoloPreserves
<1>6. ASSUME NEW saved, Update(task[w].op, WithState(task[w].rec, "Validated"), saved),
             Finish(w), UNCHANGED evidence
      PROVE  OneInv'
  <2> DEFINE r == WithState(task[w].rec, "Validated")
  <2>1. /\ r \in Records /\ r.state = "Validated" /\ r.actions = task[w].rec.actions
        /\ r.current = task[w].rec.current /\ r.lock = task[w].rec.lock
    BY <1>2, WithStateType DEF Lifecycle
  <2>2. rec' = [rec EXCEPT ![task[w].op] = r] \/ rec' = rec
    BY <1>6, Zenon DEF Update
  <2> HIDE DEF r
  <2>3. CASE rec' = [rec EXCEPT ![task[w].op] = r]
    <3>1. Facts'
      BY <1>1, <1>2, <1>3, <1>4, <1>6, <2>1, <2>3, RecordWritten
    <3> QED
      BY <1>0, <1>1, <1>2, <1>6, <3>1, FinishPreserves
  <2>4. CASE rec' = rec
    BY <1>0, <1>1, <1>2, <1>6, <2>4, QuietReturn
  <2> QED
    BY <2>2, <2>3, <2>4
<1> QED
  BY <1>5, <1>6, Zenon DEF WorkerGuard

\* The commit job starts, with or without an answer.
LEMMA WorkerPostKeeps ==
    ASSUME OneClient, OneInv, NEW w \in Workers, WorkerPost(w)
    PROVE  OneInv'
<1> DEFINE j == [status |-> "active", op |-> task[w].op, content |-> OwnEdits(candidate)]
<1>0. LifecycleInv'
  BY WorkerPostPreserves DEF OneInv, StepKept
<1>1. /\ task[w].pc = "worker_post"
      /\ UNCHANGED <<candidate, running, lock, rec, evidence, validated>>
  BY DEF WorkerPost, At
<1>2. /\ w \in Tasked /\ LifecycleInv /\ Facts /\ task[w].op \in Ops /\ task[w].rec \in Records
      /\ rec \in [Ops -> Records] /\ rec[task[w].op] = task[w].rec
      /\ task[w].rec.state = "Committing" /\ task[w].rec.actions \subseteq Edits
      /\ Pending \subseteq task[w].rec.actions
      /\ JobView("worker_post", task[w], w)
      /\ task[w].verdict = "unknown" /\ CandidateView("worker_post", task[w])
      /\ job \in [Workers -> Jobs]
  BY <1>1, Committing, Types DEF OneInv, View
<1>3. /\ NoneActive /\ OwnEdits(candidate) \in validated[task[w].op]
      /\ task[w].rec.actions \subseteq OwnEdits(candidate)
  BY <1>2 DEF JobView, CandidateView
<1>4. PICK out \in Outcomes :
        /\ PostCommit(w, task[w].op, out)
        /\ IF out = "ok" THEN Goto(w, "worker_job") /\ UNCHANGED guard ELSE WorkerError(w)
  BY DEF WorkerPost
<1>5. job' = [job EXCEPT ![w] = j] \/ (job' = job /\ out = "refused")
  BY <1>4, Zenon DEF PostCommit
<1>6. j.status = "active" /\ j.op = task[w].op /\ j.content = OwnEdits(candidate)
  OBVIOUS
<1> HIDE DEF j
<1>7. CASE job' = [job EXCEPT ![w] = j]
  <2>1. job'[w] = j /\ \A v \in Workers \ {w} : job'[v] = job[v] /\ job[v].status # "active"
    BY <1>2, <1>3, <1>7 DEF NoneActive
  <2>2. OneOperationPerEndpoint' /\ NoMixedCandidate' /\ OwnEdits(running)' \subseteq candidate'
    BY <1>1, <1>2 DEF Facts, OneOperationPerEndpoint, Unreconciled, NoMixedCandidate, Pending,
                      OwnEdits
  <2>3. \A o \in Ops : RecordOK(o)' /\ LockOK(o)'
    BY <1>1, <1>2 DEF Facts, RecordOK, LockOK, Pending, OwnEdits, Fingerprint
  <2>4. JobOK(w)'
    <3>1. OwnEdits(candidate)' = OwnEdits(candidate) /\ Pending' = Pending
      BY <1>1 DEF OwnEdits, Pending
    <3> QED
      BY <1>1, <1>2, <1>3, <1>6, <2>1, <3>1 DEF JobOK
  <2>5. ASSUME NEW v \in Workers \ {w} PROVE JobOK(v)'
    BY <1>1, <1>2, <2>1 DEF Facts, JobOK
  <2>6. Facts'
    BY <2>2, <2>3, <2>4, <2>5 DEF Facts
  <2>7. CASE Goto(w, "worker_job")
    <3>1. "worker_job" \in PcsOf(w) \ {"stage_guard"}
      BY Places DEF WorkerPcs
    <3>2. Advances(w) /\ task'[w].pc = "worker_job" /\ task'[w].op = task[w].op
          /\ task'[w].rec = task[w].rec /\ task'[w].verdict = task[w].verdict
      BY <1>1, <1>2, <2>7, <3>1, GotoAdvances
    <3>3. View(w)'
      BY <1>1, <1>2, <1>6, <2>1, <3>2 DEF View, CopyView, CandidateView, JobView, StagePcs
    <3> QED
      BY <1>0, <1>1, <1>2, <2>6, <3>2, <3>3, SoloPreserves
  <2>8. CASE WorkerError(w)
    BY <1>0, <1>1, <2>6, <2>8, WorkerErrorKeeps
  <2> QED
    BY <1>4, <2>7, <2>8, Zenon
<1>8. CASE job' = job /\ out = "refused"
  <2>1. WorkerError(w)
    BY <1>4, <1>8
  <2> QED
    BY <1>0, <1>1, <1>2, <1>8, <2>1, FactsKept, WorkerErrorKeeps
<1> QED
  BY <1>5, <1>7, <1>8

\* The job id is stored, and the job is polled.
LEMMA WorkerMovesKeep ==
    ASSUME OneClient, OneInv, NEW w \in Workers, WorkerJob(w) \/ WorkerPoll(w)
    PROVE  OneInv'
<1>0. LifecycleInv'
  BY WorkerJobPreserves, WorkerPollPreserves DEF OneInv, StepKept
<1>1. /\ task[w].pc \in {"worker_job", "worker_poll"}
      /\ UNCHANGED <<candidate, running, lock, job, evidence, validated>>
  BY DEF WorkerJob, WorkerPoll, At, deviceVars
<1>2. /\ w \in Tasked /\ LifecycleInv /\ Facts /\ task[w].op \in Ops
      /\ rec \in [Ops -> Records] /\ rec[task[w].op] = task[w].rec
      /\ task[w].rec.state = "Committing"
      /\ JobView(task[w].pc, task[w], w) /\ task[w].verdict = "unknown"
  BY <1>1, Committing
<1>3. rec' = rec
  <2>1. rec' = rec \/ rec' = [rec EXCEPT ![task[w].op] = task[w].rec]
    BY Zenon DEF WorkerJob, WorkerPoll, Update
  <2> QED
    BY <1>2, <2>1, StoredAgain
<1>4. Facts'
  BY <1>1, <1>2, <1>3, FactsKept
<1>5. CASE WorkerError(w)
  BY <1>0, <1>1, <1>3, <1>4, <1>5, WorkerErrorKeeps
<1>6. ASSUME NEW pc, Goto(w, pc),
             \/ pc = "worker_poll"
             \/ pc = "worker_after" /\ job[w].status \in {"ok", "failed"}
      PROVE  OneInv'
  <2>1. pc \in PcsOf(w) \ {"stage_guard"}
    BY <1>6, Places DEF WorkerPcs
  <2>2. Advances(w) /\ task'[w].pc = pc /\ task'[w].op = task[w].op
        /\ task'[w].rec = task[w].rec /\ task'[w].verdict = task[w].verdict
    BY <1>1, <1>2, <1>6, <2>1, GotoAdvances
  <2>3. CopyView(pc, task'[w], rec'[task[w].op])
    BY <1>2, <1>3, <1>6, <2>2 DEF CopyView, StagePcs
  <2>4. CandidateView(pc, task[w])'
    BY <1>6, <2>2 DEF CandidateView
  <2>5. JobView(pc, task[w], w)'
    BY <1>1, <1>2, <1>6, <2>2 DEF JobView, NoneActive
  <2>6. View(w)'
    BY <2>2, <2>3, <2>4, <2>5 DEF View
  <2> QED
    BY <1>0, <1>1, <1>2, <1>4, <2>2, <2>6, SoloPreserves
<1> QED
  BY <1>5, <1>6, Zenon DEF WorkerJob, WorkerPoll

\* The verdict is recorded and the mutex dropped.
LEMMA WorkerAfterKeeps ==
    ASSUME OneClient, OneInv, NEW w \in Workers, WorkerAfter(w)
    PROVE  OneInv'
<1> DEFINE verdict == job[w].status
           s == IF verdict = "ok" THEN "Committing" ELSE "Failed"
           r == [task[w].rec EXCEPT !.current = Fingerprint, !.state = s]
           next(saved) == CASE ~saved -> WithState(r, "Indeterminate")
                            [] saved /\ verdict = "ok" /\ ~r.lock -> WithState(r, "Committed")
                            [] OTHER -> r
           l(pc, q, v) == [task[w] EXCEPT !.pc = pc, !.rec = q, !.verdict = v]
           Moves(pc, q, v) == task' = [task EXCEPT ![w].pc = pc, ![w].rec = q, ![w].verdict = v]
           Ends(pc, q, v) ==
             \/ /\ pc = "worker_unlock" /\ q = r /\ s = "Committing" /\ v = verdict
                /\ rec' = [rec EXCEPT ![task[w].op] = r]
             \/ /\ pc = "worker_receipt" /\ q.state = "Committed" /\ s = "Committing" /\ v = verdict
                /\ rec' = [rec EXCEPT ![task[w].op] = r]
             \/ /\ pc = "worker_receipt" /\ q = r /\ s = "Failed" /\ v = verdict
                /\ rec' = [rec EXCEPT ![task[w].op] = r]
             \/ /\ pc = "worker_receipt" /\ q.state = "Indeterminate" /\ v = "unknown"
                /\ rec' = [rec EXCEPT ![task[w].op] = task[w].rec]
<1>0. LifecycleInv'
  BY WorkerAfterPreserves DEF OneInv, StepKept
<1>1. /\ task[w].pc = "worker_after"
      /\ UNCHANGED <<candidate, running, lock, job, evidence, validated>>
  BY DEF WorkerAfter, At, deviceVars
<1>2. /\ w \in Tasked /\ LifecycleInv /\ Facts /\ task[w].op \in Ops /\ task[w].rec \in Records
      /\ rec \in [Ops -> Records] /\ rec[task[w].op] = task[w].rec
      /\ task[w].rec.state = "Committing" /\ task[w].rec.policy = task[w].policy
      /\ Unreconciled(task[w].op) /\ Pending \subseteq task[w].rec.actions
      /\ JobView("worker_after", task[w], w) /\ task[w].verdict = "unknown"
      /\ task \in [Tasked -> Locals] /\ task[w] \in Locals
      /\ Fingerprint \in SUBSET Roots
  BY <1>1, Committing, Types DEF Fingerprint
<1>3. /\ NoneActive /\ verdict \in {"ok", "failed"} /\ job[w].op = task[w].op
      /\ verdict = "ok" => task[w].rec.actions \subseteq running
  BY <1>1, <1>2 DEF JobView, Facts, JobOK, LifecycleInv, WorkersOK, WorkerOK
<1>4. /\ s \in {"Committing", "Failed"} /\ s \in Lifecycle
      /\ (s = "Committing" <=> verdict = "ok")
  BY DEF Lifecycle
<1>5. PICK out \in Reads, saved \in Saves :
        IF out # "ok" THEN WorkerError(w) /\ UNCHANGED rec
        ELSE /\ Update(task[w].op, r, saved)
             /\ Release(w)
             /\ task' = [task EXCEPT
                  ![w].pc = IF next(saved).state = "Committing" THEN "worker_unlock"
                            ELSE "worker_receipt",
                  ![w].rec = next(saved),
                  ![w].verdict = IF saved THEN verdict ELSE "unknown"]
  BY DEF WorkerAfter
<1> HIDE DEF s, verdict
<1>6. /\ r \in Records /\ r.current = Fingerprint /\ r.state = s
      /\ r.lock = task[w].rec.lock /\ r.actions = task[w].rec.actions
      /\ r.policy = task[w].policy
  <2>1. s \in Unused \union Lifecycle
    BY <1>4
  <2>2. r \in Records
    BY <1>2, <2>1 DEF Records
  <2>3. r.current = Fingerprint /\ r.state = s
    BY <1>2, <2>1 DEF Records
  <2>4. r.lock = task[w].rec.lock /\ r.actions = task[w].rec.actions
        /\ r.policy = task[w].policy
    BY <1>2, <2>1 DEF Records
  <2> QED
    BY <2>2, <2>3, <2>4
<1> HIDE DEF r
<1>7. /\ WithState(r, "Committed") \in Records /\ WithState(r, "Committed").state = "Committed"
      /\ WithState(r, "Committed").actions = task[w].rec.actions
      /\ WithState(r, "Committed").policy = task[w].policy
  BY <1>6, WithStateType DEF Lifecycle
<1>8. /\ WithState(r, "Indeterminate") \in Records
      /\ WithState(r, "Indeterminate").state = "Indeterminate"
      /\ WithState(r, "Indeterminate").actions = task[w].rec.actions
      /\ WithState(r, "Indeterminate").policy = task[w].policy
  BY <1>6, WithStateType DEF Lifecycle
<1>9. ASSUME NEW q \in {r, task[w].rec}, rec' = [rec EXCEPT ![task[w].op] = q]
      PROVE  Facts'
  <2>1. /\ q \in Records /\ q.actions = rec[task[w].op].actions
        /\ q.state \in {"Committing", "Failed"}
        /\ q.lock = task[w].rec.lock
    BY <1>2, <1>4, <1>6, <1>9
  <2>2. q.state = "Committing" /\ q.lock /\ Pending \intersect q.actions # {}
           => lock /\ q.current = Fingerprint
    <3>1. CASE q = r
      BY <1>3, <1>4, <1>6, <3>1 DEF Pending
    <3>2. CASE q = task[w].rec
      <4>1. LockOK(task[w].op)
        BY <1>2 DEF Facts
      <4> QED
        BY <1>2, <3>2, <4>1 DEF LockOK, KeptStates
    <3> QED
      BY <1>9, <3>1, <3>2
  <2> QED
    BY <1>1, <1>2, <1>3, <1>9, <2>1, <2>2, RecordWritten DEF KeptStates
<1>10. ASSUME NEW pc, NEW q, NEW v, Moves(pc, q, v), Ends(pc, q, v),
              q \in Records, q.policy = task[w].policy, q.actions = task[w].rec.actions
       PROVE  OneInv'
  <2>1. pc \in {"worker_unlock", "worker_receipt"} /\ v \in {"unknown", "ok", "failed"}
        /\ q.state \in Lifecycle /\ (v = "ok" => verdict = "ok")
    BY <1>3, <1>4, <1>6, <1>10 DEF Lifecycle
  <2>2. /\ l(pc, q, v) \in Locals /\ l(pc, q, v).pc = pc /\ l(pc, q, v).op = task[w].op
        /\ l(pc, q, v).policy = task[w].policy /\ l(pc, q, v).rec = q
        /\ l(pc, q, v).verdict = v
    BY <1>2, <1>10, <2>1 DEF Locals, WorkerPcs
  <2>3. task' = [task EXCEPT ![w] = l(pc, q, v)]
    BY <1>2, <1>10
  <2> HIDE DEF l
  <2>4. /\ task' \in [Tasked -> Locals] /\ task'[w] = l(pc, q, v)
        /\ \A u \in Tasked \ {w} : task'[u] = task[u]
    BY <1>2, <2>2, <2>3
  <2>5. Advances(w)
    <3>1. pc \in (PcsOf(w) \union {"idle"}) \ {"stage_guard"}
      BY <2>1, Places DEF WorkerPcs
    <3> QED
      BY <1>10, <2>1, <2>2, <2>4, <3>1 DEF Advances
  <2>6. Facts'
    BY <1>9, <1>10
  <2>7. /\ rec'[task[w].op] = r \/ rec'[task[w].op] = task[w].rec
        /\ q = r => rec'[task[w].op] = r
    BY <1>2, <1>10, <1>4, <1>6
  <2>8. CopyView(pc, l(pc, q, v), rec'[task[w].op])
    BY <1>2, <1>4, <1>6, <1>10, <2>1, <2>2, <2>7 DEF CopyView, StagePcs
  <2>9. CandidateView(pc, task[w])'
    BY <2>1 DEF CandidateView
  <2>10. JobView(pc, task[w], w)'
    <3>1. NoneActive' /\ running' = running
      BY <1>1, <1>3 DEF NoneActive
    <3>2. pc = "worker_unlock" \/ q.state = "Committed" \/ v = "ok" => verdict = "ok"
      BY <1>4, <1>6, <1>10, <2>1
    <3> QED
      BY <1>3, <1>10, <2>1, <2>2, <2>4, <3>1, <3>2 DEF JobView
  <2>11. View(w)'
    BY <2>2, <2>4, <2>8, <2>9, <2>10 DEF View
  <2> QED
    BY <1>0, <1>1, <1>2, <2>5, <2>6, <2>11, SoloPreserves
<1> HIDE DEF Moves, Ends, l
<1>11. CASE out # "ok"
  <2>1. WorkerError(w) /\ UNCHANGED rec
    BY <1>5, <1>11, Zenon
  <2> QED
    BY <1>0, <1>1, <1>2, <2>1, FactsKept, WorkerErrorKeeps
<1>12. CASE out = "ok" /\ saved
  <2>1. /\ rec' = [rec EXCEPT ![task[w].op] = r]
        /\ task' = [task EXCEPT
             ![w].pc = IF next(saved).state = "Committing" THEN "worker_unlock"
                       ELSE "worker_receipt",
             ![w].rec = next(saved), ![w].verdict = verdict]
    BY <1>5, <1>12, Zenon DEF Update
  <2>2. CASE s = "Committing" /\ ~r.lock
    <3>1. next(saved) = WithState(r, "Committed")
      BY <1>4, <1>12, <2>2, Zenon
    <3> HIDE DEF next
    <3>2. Moves("worker_receipt", WithState(r, "Committed"), verdict)
      BY <1>7, <2>1, <3>1 DEF Moves
    <3>3. Ends("worker_receipt", WithState(r, "Committed"), verdict)
      BY <1>7, <2>1, <2>2 DEF Ends
    <3> QED
      BY <1>7, <1>10, <3>2, <3>3
  <2>3. CASE s = "Committing" /\ r.lock
    <3>1. next(saved) = r
      BY <1>4, <1>12, <2>3, Zenon
    <3> HIDE DEF next
    <3>2. Moves("worker_unlock", r, verdict)
      BY <1>6, <2>1, <2>3, <3>1 DEF Moves
    <3>3. Ends("worker_unlock", r, verdict)
      BY <2>1, <2>3 DEF Ends
    <3> QED
      BY <1>6, <1>10, <3>2, <3>3
  <2>4. CASE s = "Failed"
    <3>1. next(saved) = r
      <4>1. verdict # "ok"
        BY <1>4, <2>4
      <4> QED
        BY <1>12, <4>1, Zenon
    <3> HIDE DEF next
    <3>2. Moves("worker_receipt", r, verdict)
      BY <1>6, <2>1, <2>4, <3>1 DEF Moves
    <3>3. Ends("worker_receipt", r, verdict)
      BY <2>1, <2>4 DEF Ends
    <3> QED
      BY <1>6, <1>10, <3>2, <3>3
  <2> QED
    BY <1>4, <2>2, <2>3, <2>4
<1>13. CASE out = "ok" /\ ~saved
  <2>1. next(saved) = WithState(r, "Indeterminate")
    BY <1>13, Zenon
  <2>2. /\ rec' = rec
        /\ task' = [task EXCEPT
             ![w].pc = IF next(saved).state = "Committing" THEN "worker_unlock"
                       ELSE "worker_receipt",
             ![w].rec = next(saved), ![w].verdict = "unknown"]
    BY <1>5, <1>13, Zenon DEF Update
  <2> HIDE DEF next
  <2>3. Moves("worker_receipt", WithState(r, "Indeterminate"), "unknown")
    BY <1>8, <2>1, <2>2 DEF Moves
  <2>4. Ends("worker_receipt", WithState(r, "Indeterminate"), "unknown")
    BY <1>2, <1>8, <2>2 DEF Ends
  <2> QED
    BY <1>8, <1>10, <2>3, <2>4
<1> QED
  BY <1>11, <1>12, <1>13

\* The configuration lock is released, after the mutex.
LEMMA WorkerUnlockKeeps ==
    ASSUME OneClient, OneInv, NEW w \in Workers, WorkerUnlock(w)
    PROVE  OneInv'
<1> DEFINE r == [task[w].rec EXCEPT !.lock = FALSE, !.state = "Committed"]
           s == WithState(task[w].rec, "Indeterminate")
<1>0. LifecycleInv'
  BY WorkerUnlockPreserves DEF OneInv, StepKept
<1>1. /\ task[w].pc = "worker_unlock"
      /\ UNCHANGED <<candidate, running, job, rec, evidence, validated>>
  BY DEF WorkerUnlock, At, coordinatorVars
<1>2. /\ w \in Tasked /\ LifecycleInv /\ Facts /\ task[w].op \in Ops /\ task[w].rec \in Records
      /\ rec[task[w].op] = task[w].rec
      /\ task[w].rec.state = "Committing" /\ task[w].rec.policy = task[w].policy
      /\ \A o \in Ops : Unreconciled(o) => o = task[w].op
      /\ JobView("worker_unlock", task[w], w)
  BY <1>1, Committing
<1>3. NoneActive /\ task[w].rec.actions \subseteq running
  BY <1>2 DEF JobView
<1>4. Facts'
  <2>1. ASSUME NEW o \in Ops PROVE LockOK(o)'
    <3>1. CASE o = task[w].op
      BY <1>1, <1>2, <1>3, <3>1 DEF LockOK, Pending
    <3>2. CASE o # task[w].op
      <4>1. rec[o].state \notin KeptStates
        BY <1>2, <3>2 DEF Unreconciled, KeptStates, Lifecycle, Terminal
      <4> QED
        BY <1>1, <4>1 DEF LockOK
    <3> QED
      BY <3>1, <3>2
  <2> QED
    BY <1>1, <1>2, <2>1, LockChanged
<1>5. r \in Records /\ r.policy = task[w].policy /\ r.state = "Committed"
      /\ r.actions = task[w].rec.actions
  BY <1>2, UnlockedType DEF Lifecycle
<1>6. s \in Records /\ s.policy = task[w].policy /\ s.state = "Indeterminate"
      /\ s.actions = task[w].rec.actions
  BY <1>2, WithStateType DEF Lifecycle
<1>7. Keep(w, "worker_receipt", r) \/ Keep(w, "worker_receipt", s)
  BY Zenon DEF WorkerUnlock
<1> HIDE DEF r, s
<1>8. PICK q \in {r, s} : Keep(w, "worker_receipt", q)
  BY <1>7
<1>9. /\ q \in Records /\ q.policy = task[w].policy /\ q.state \in {"Committed", "Indeterminate"}
      /\ q.actions = task[w].rec.actions /\ q.state \in Lifecycle
  BY <1>5, <1>6 DEF Lifecycle
<1>10. "worker_receipt" \in PcsOf(w) \ {"stage_guard"}
  BY Places DEF WorkerPcs
<1>11. Advances(w) /\ task'[w].pc = "worker_receipt" /\ task'[w].op = task[w].op
       /\ task'[w].rec = q /\ task'[w].verdict = task[w].verdict
  BY <1>1, <1>2, <1>8, <1>9, <1>10, KeepAdvances
<1>12. View(w)'
  <2>1. NoneActive' /\ task[w].rec.actions \subseteq running'
    BY <1>1, <1>3 DEF NoneActive
  <2> QED
    BY <1>1, <1>2, <1>9, <1>11, <2>1 DEF View, CopyView, CandidateView, JobView, StagePcs
<1> QED
  BY <1>0, <1>1, <1>2, <1>4, <1>11, <1>12, SoloPreserves

\* The receipt and the last record write of a commit.
LEMMA WorkerReceiptKeeps ==
    ASSUME OneClient, OneInv, NEW w \in Workers, WorkerReceipt(w)
    PROVE  OneInv'
<1>0. LifecycleInv'
  BY WorkerReceiptPreserves DEF OneInv, StepKept
<1>1. /\ w \in Tasked /\ task[w].pc = "worker_receipt" /\ Finish(w)
      /\ UNCHANGED <<candidate, running, lock, job, validated>>
  BY Places DEF WorkerReceipt, At, deviceVars
<1>2. /\ LifecycleInv /\ Facts /\ task[w].op \in Ops /\ task[w].rec \in Records
      /\ rec \in [Ops -> Records] /\ rec[task[w].op] \in Records
      /\ CopyView("worker_receipt", task[w], rec[task[w].op])
      /\ JobView("worker_receipt", task[w], w)
      /\ RecordOK(task[w].op) /\ LockOK(task[w].op)
      /\ evidence \in [Ops -> SUBSET {"intent", "ok", "failed"}]
  BY <1>1, Acting, Types
<1>3. /\ rec[task[w].op].state \in {"Committing", "Failed"}
      /\ rec[task[w].op].actions = task[w].rec.actions
      /\ task[w].rec.state \in {"Indeterminate", "Committed", "Failed"}
      /\ task[w].rec.state = "Failed" => rec[task[w].op] = task[w].rec
      /\ task[w].rec.state # "Indeterminate" => NoneActive
      /\ task[w].rec.state = "Committed" \/ task[w].verdict = "ok"
            => task[w].rec.actions \subseteq running
      /\ Pending \subseteq task[w].rec.actions
  BY <1>2 DEF CopyView, JobView, RecordOK, OwnerStates
<1>4. Unreconciled(task[w].op)
  BY <1>3 DEF Unreconciled, Lifecycle, Terminal
<1>5. rec[task[w].op].state = "Failed" => NoneActive
  BY <1>2, <1>4, OnlyOpen
<1>6. ASSUME NEW p \in Ops, "ok" \in evidence'[p]
      PROVE  "ok" \in evidence[p] \/ (p = task[w].op /\ rec[task[w].op].actions \subseteq running)
  <2>1. \/ evidence' = [evidence EXCEPT ![task[w].op] = @ \union ({task[w].verdict} \ {"unknown"})]
        \/ evidence' = evidence
    BY DEF WorkerReceipt, Record
  <2> QED
    BY <1>2, <1>3, <1>6, <2>1
<1>7. PICK q \in {task[w].rec, rec[task[w].op]} : rec' = [rec EXCEPT ![task[w].op] = q]
  <2>1. rec' = [rec EXCEPT ![task[w].op] = task[w].rec] \/ rec' = rec
    BY Zenon DEF WorkerReceipt, Update
  <2> QED
    BY <1>2, <2>1
<1>8. /\ q \in Records /\ q.actions = rec[task[w].op].actions
      /\ q.state \in {"Indeterminate", "Committed", "Failed", "Committing"}
      /\ q.state = "Committed" => q.actions \subseteq running
      /\ q.state \in {"Committing", "Indeterminate"} \/ NoneActive
      /\ Pending \subseteq q.actions
  BY <1>2, <1>3, <1>5
<1>9. q.state = "Committing" /\ q.lock /\ Pending \intersect q.actions # {}
         => lock /\ q.current = Fingerprint
  BY <1>2, <1>3 DEF LockOK, KeptStates
<1>10. Facts'
  BY <1>1, <1>2, <1>4, <1>6, <1>7, <1>8, <1>9, RecordWritten DEF KeptStates
<1> QED
  BY <1>0, <1>1, <1>10, FinishPreserves

-----------------------------------------------------------------------------
(* The process, its operator and the device. *)

\* After a restart no task runs and interrupted operations are indeterminate.
LEMMA RestartKeeps ==
    ASSUME OneClient, OneInv, Restart
    PROVE  OneInv'
<1>0. LifecycleInv'
  BY RestartPreserves DEF OneInv
<1>1. /\ UNCHANGED <<candidate, running, lock, job, evidence, validated>>
      /\ task' = [t \in Calls \union Workers |-> Idle]
      /\ rec' = [o \in Ops |-> Recovered(rec[o])] /\ LifecycleInv /\ Facts
  BY DEF Restart, deviceVars, OneInv
<1>2. ASSUME NEW o \in Ops
      PROVE  \/ rec'[o] = rec[o]
             \/ /\ rec'[o].state = "Indeterminate" /\ rec'[o].actions = rec[o].actions
                /\ rec[o].state \in {"Staging", "Validating", "Committing"}
  <2>1. rec[o] \in Records /\ rec'[o] = Recovered(rec[o])
    BY <1>1, RecordTypes
  <2>2. CASE rec[o].state \in {"Staging", "Validating", "Committing"}
    <3>1. rec'[o] = WithState(rec[o], "Indeterminate")
      BY <2>1, <2>2, Zenon DEF Recovered, WithState
    <3> QED
      BY <2>1, <2>2, <3>1, WithStateType DEF Lifecycle
  <2>3. CASE rec[o].state \notin {"Staging", "Validating", "Committing"}
    BY <2>1, <2>3, Zenon DEF Recovered
  <2> QED
    BY <2>2, <2>3
<1>3. /\ Pending' = Pending /\ OwnEdits(candidate)' = OwnEdits(candidate)
      /\ Fingerprint' = Fingerprint /\ OwnEdits(running)' \subseteq candidate'
  BY <1>1 DEF Pending, OwnEdits, Fingerprint, Facts
<1>4. OneOperationPerEndpoint'
  <2> SUFFICES ASSUME NEW o \in Ops, Unreconciled(o)' PROVE Unreconciled(o)
    BY <1>1 DEF Facts, OneOperationPerEndpoint
  <2> QED
    BY <1>2 DEF Unreconciled, Lifecycle, Terminal
<1>5. ASSUME NEW o \in Ops PROVE RecordOK(o)' /\ LockOK(o)'
  <2>1. RecordOK(o) /\ LockOK(o)
    BY <1>1 DEF Facts
  <2>2. CASE rec'[o] = rec[o]
    <3>1. RecordOK(o)'
      BY <1>1, <1>3, <2>1, <2>2 DEF RecordOK
    <3>2. LockOK(o)'
      BY <1>1, <1>3, <2>1, <2>2 DEF LockOK
    <3> QED
      BY <3>1, <3>2
  <2>3. CASE rec'[o] # rec[o]
    BY <1>1, <1>2, <2>1, <2>3 DEF RecordOK, LockOK, OwnerStates, KeptStates
  <2> QED
    BY <2>2, <2>3
<1>6. ASSUME NEW w \in Workers PROVE JobOK(w)'
  <2>1. JobOK(w) /\ (job[w].status # "none" => job[w].op \in Ops)
    BY <1>1 DEF Facts, LifecycleInv, WorkersOK, WorkerOK
  <2>2. job[w].status # "none" =>
          /\ rec'[job[w].op].state # "Fresh"
          /\ rec'[job[w].op].actions = rec[job[w].op].actions
          /\ rec[job[w].op].state \in {"Committing", "Indeterminate"} =>
               rec'[job[w].op].state \in {"Committing", "Indeterminate"}
    BY <1>2, <2>1 DEF JobOK
  <2> QED
    BY <1>1, <1>3, <2>1, <2>2 DEF JobOK
<1>7. NoMixedCandidate'
  <2>1. PICK p \in Ops : Pending \subseteq rec[p].actions
    BY <1>1 DEF Facts, NoMixedCandidate
  <2>2. rec'[p].actions = rec[p].actions
    BY <1>2
  <2> QED
    BY <1>3, <2>1, <2>2 DEF NoMixedCandidate
<1>8. Facts'
  BY <1>3, <1>4, <1>5, <1>6, <1>7 DEF Facts
<1>9. \A t \in Tasked : task'[t] = Idle /\ task'[t].pc = "idle"
  BY <1>1 DEF Tasked, Idle
<1>10. Alone'
  BY <1>9 DEF Alone, Tasked
<1>11. \A t \in Tasked : View(t)'
  BY <1>9, IdleView
<1> QED
  BY <1>0, <1>8, <1>10, <1>11 DEF OneInv

\* The offline command reverts what is pending and settles an operation.
LEMMA ResolveKeeps ==
    ASSUME OneClient, OneInv, NEW o \in Ops, Resolve(o)
    PROVE  OneInv'
<1> DEFINE s == IF rec[o].actions \subseteq running THEN "Committed" ELSE "Discarded"
           r == [rec[o] EXCEPT !.lock = FALSE, !.state = s]
<1>0. LifecycleInv'
  BY ResolvePreserves DEF OneInv
<1>1. /\ UNCHANGED <<running, job, evidence, validated>> /\ task' = task
      /\ candidate' = (candidate \ Edits) \union OwnEdits(running)
      /\ rec' = [rec EXCEPT ![o].lock = FALSE, ![o].state = s]
      /\ NoneActive /\ rec[o].state = "Indeterminate"
      /\ LifecycleInv /\ Facts
  BY DEF Resolve, NoneActive, OneInv
<1>2. rec \in [Ops -> Records] /\ rec[o] \in Records
  BY <1>1, RecordTypes
<1>3. s \in Lifecycle /\ (s = "Discarded" \/ (s = "Committed" /\ rec[o].actions \subseteq running))
  BY DEF Lifecycle
<1> HIDE DEF s
<1>4. r \in Records /\ r.state = s /\ r.actions = rec[o].actions
  BY <1>2, <1>3, UnlockedType
<1>5. rec' = [rec EXCEPT ![o] = r]
  BY <1>1, <1>2
<1> HIDE DEF r
<1>6. \A p \in Ops :
        \/ rec'[p] = rec[p]
        \/ /\ rec[p].state # "Fresh" /\ rec'[p].actions = rec[p].actions
           /\ \/ rec'[p].state = "Discarded"
              \/ rec'[p].state = "Committed" /\ rec[p].actions \subseteq running
  BY <1>1, <1>2, <1>3, <1>4, <1>5
<1>7. Facts'
  BY <1>1, <1>6, NothingPending
<1>8. \A t \in Tasked : task[t].pc = "idle"
  BY DEF Resolve, ServiceStopped, At, Tasked
<1>9. Alone'
  BY <1>1, <1>8 DEF Alone, Tasked
<1>10. ASSUME NEW t \in Tasked PROVE View(t)'
  <2>1. task'[t].pc = "idle" /\ task'[t].verdict = "unknown"
    BY <1>1, <1>8, RestingVerdict DEF OneInv
  <2> QED
    BY <2>1 DEF View, CopyView, CandidateView, JobView, StagePcs
<1> QED
  BY <1>0, <1>7, <1>9, <1>10 DEF OneInv

\* A reload, or nothing, happens.
LEMMA NothingKeeps ==
    ASSUME OneInv, LifecycleInv',
           UNCHANGED <<candidate, running, lock, job, rec, task, evidence, validated>>
    PROVE  OneInv'
<1>1. Facts'
  BY FactsKept DEF OneInv
<1>2. Alone'
  BY DEF OneInv, Alone
<1>3. ASSUME NEW t \in Tasked PROVE View(t)'
  <2>1. View(t)
    BY DEF OneInv
  <2>2. CandidateView(task[t].pc, task[t])'
    BY <2>1 DEF View, CandidateView, Pending, OwnEdits
  <2>3. JobView(task[t].pc, task[t], t)'
    BY <2>1 DEF View, JobView, NoneActive
  <2>4. CopyView(task'[t].pc, task'[t], rec'[task'[t].op])
    BY <2>1, Zenon DEF View
  <2> QED
    BY <2>2, <2>3, <2>4 DEF View
<1> QED
  BY <1>1, <1>2, <1>3 DEF OneInv

\* The device or another administrator acts: this server's pending edits stay pending or
\* are all committed, and nothing of it leaves the running configuration.
LEMMA DeviceKeeps ==
    ASSUME OneInv, LifecycleInv', UNCHANGED <<rec, task, evidence, validated>>,
           OwnEdits(running) \subseteq running', OwnEdits(running)' \subseteq candidate',
           OwnEdits(candidate)' = OwnEdits(candidate), Pending' = Pending \/ Pending' = {},
           \A v \in Workers :
              \/ job'[v] = job[v]
              \/ /\ job[v].status = "active" /\ job'[v].status \in {"ok", "failed"}
                 /\ job'[v].op = job[v].op /\ job'[v].content = job[v].content
                 /\ job'[v].status = "ok" => job[v].content \subseteq running',
           (lock' = lock /\ Fingerprint' = Fingerprint) \/ Pending' = {} \/ ~lock,
           lock' = lock \/ ~NoneActive
    PROVE  OneInv'
<1>1. LifecycleInv /\ Facts
  BY DEF OneInv
<1>2. ASSUME NEW S, S \subseteq Edits, S \subseteq running PROVE S \subseteq running'
  BY <1>2 DEF OwnEdits
<1>3. OneOperationPerEndpoint' /\ NoMixedCandidate'
  BY <1>1 DEF Facts, OneOperationPerEndpoint, Unreconciled, NoMixedCandidate
<1>4. ASSUME NEW o \in Ops PROVE RecordOK(o)' /\ LockOK(o)'
  <2>1. RecordOK(o) /\ LockOK(o) /\ rec[o].actions \subseteq Edits
    BY <1>1, RecordTypes DEF Facts
  <2>2. RecordOK(o)'
    BY <1>2, <2>1 DEF RecordOK
  <2>3. LockOK(o)'
    BY <2>1 DEF LockOK
  <2> QED
    BY <2>2, <2>3
<1>5. ASSUME NEW v \in Workers PROVE JobOK(v)'
  <2>1. JobOK(v) /\ (job[v].status # "none" => job[v].op \in Ops)
    BY <1>1 DEF Facts, LifecycleInv, WorkersOK, WorkerOK
  <2>2. job[v].status # "none" => rec[job[v].op].actions \subseteq Edits
    BY <1>1, <2>1, RecordTypes
  <2>3. \A u \in Workers : job'[u].status = "active" => job[u].status = "active"
    OBVIOUS
  <2>4. CASE job'[v] = job[v]
    <3>1. job[v].status = "ok" => rec[job[v].op].actions \subseteq running'
      BY <1>2, <2>1, <2>2 DEF JobOK
    <3> QED
      BY <2>1, <2>3, <2>4, <3>1 DEF JobOK
  <2>5. CASE job'[v] # job[v]
    BY <2>1, <2>5 DEF JobOK
  <2> QED
    BY <2>4, <2>5
<1>6. Facts'
  BY <1>3, <1>4, <1>5 DEF Facts
<1>7. Alone'
  BY DEF OneInv, Alone
<1>8. ASSUME NEW t \in Tasked PROVE View(t)'
  <2>1. View(t) /\ task' = task
    BY DEF OneInv
  <2>2. CopyView(task'[t].pc, task'[t], rec'[task'[t].op])
    BY <2>1, Zenon DEF View
  <2>3. CandidateView(task[t].pc, task[t])'
    <3>1. task[t].pc \in {"stage_fp", "stage_clean", "stage_post", "stage_after"} => lock' = lock
      <4> SUFFICES ASSUME task[t].pc \in {"stage_fp", "stage_clean", "stage_post", "stage_after"}
                   PROVE  NoneActive
        OBVIOUS
      <4>1. task[t].pc \in StagePcs \ {"stage_guard"}
        BY DEF StagePcs
      <4>2. t \in Calls
        BY <4>1 DEF OneInv, LifecycleInv, TypeOK, Tasked, WorkerPcs, StagePcs
      <4> QED
        BY <4>1, <4>2, StagingAlone
    <3>2. task[t].pc = "stage_after" => task[t].rec.actions \subseteq candidate'
      <4> SUFFICES ASSUME task[t].pc = "stage_after" PROVE task[t].rec.actions \subseteq candidate'
        OBVIOUS
      <4>1. task[t].rec.actions \subseteq Edits /\ task[t].rec.actions \subseteq candidate
        BY <2>1, Acting DEF View, CandidateView
      <4> QED
        BY <4>1 DEF OwnEdits
    <3> QED
      BY <2>1, <3>1, <3>2 DEF View, CandidateView
  <2>4. JobView(task[t].pc, task[t], t)'
    <3>1. \/ task[t].pc = "worker_unlock"
          \/ task[t].pc = "worker_receipt" /\ task[t].rec.state = "Committed"
          \/ task[t].verdict = "ok"
          => task[t].rec.actions \subseteq running'
      <4> SUFFICES ASSUME \/ task[t].pc = "worker_unlock"
                          \/ task[t].pc = "worker_receipt" /\ task[t].rec.state = "Committed"
                          \/ task[t].verdict = "ok"
                   PROVE  task[t].rec.actions \subseteq running'
        OBVIOUS
      <4>1. task[t].pc \in {"worker_unlock", "worker_receipt"}
        BY <2>1 DEF View, CopyView
      <4>2. task[t].rec.actions \subseteq Edits /\ task[t].rec.actions \subseteq running
        BY <2>1, <4>1, Acting DEF View, JobView
      <4> QED
        BY <1>2, <4>2
    <3>2. NoneActive => NoneActive'
      BY DEF NoneActive
    <3>3. task[t].pc \in {"worker_job", "worker_poll", "worker_after"} => t \in Workers
      BY DEF OneInv, LifecycleInv, TypeOK, Tasked, CallPcs, StagePcs
    <3> QED
      BY <2>1, <3>1, <3>2, <3>3 DEF View, JobView
  <2> QED
    BY <2>2, <2>3, <2>4 DEF View
<1> QED
  BY <1>6, <1>7, <1>8 DEF OneInv

\* A job ends, or another administrator edits or commits.
LEMMA DeviceNextKeeps ==
    ASSUME OneClient, OneInv, DeviceNext,
           UNCHANGED <<coordinatorVars, task, policy, evidence, validated>>
    PROVE  OneInv'
<1>0. LifecycleInv'
  BY DevicePreserves DEF OneInv
<1>1. UNCHANGED <<rec, task, evidence, validated>> /\ LifecycleInv /\ Facts
      /\ OwnEdits(running) \subseteq candidate /\ job \in [Workers -> Jobs]
  BY Types DEF coordinatorVars, OneInv, Facts
<1>2. ASSUME NEW f \in Foreign, ForeignEdit(f) \/ ForeignCommit(f) PROVE OneInv'
  <2>1. f \notin Edits /\ UNCHANGED <<lock, job>>
    BY <1>2, EditsAssumption DEF ForeignEdit, ForeignCommit
  <2>2. /\ OwnEdits(candidate)' = OwnEdits(candidate) /\ Pending' = Pending
        /\ OwnEdits(running) \subseteq running' /\ OwnEdits(running)' \subseteq candidate'
        /\ ~lock \/ Fingerprint' = Fingerprint
    BY <1>1, <1>2, <2>1 DEF ForeignEdit, ForeignCommit, OwnEdits, Pending, Fingerprint
  <2> QED
    BY <1>0, <1>1, <2>1, <2>2, DeviceKeeps
<1>3. ASSUME NEW w \in Workers, FinishJob(w) PROVE OneInv'
  <2>1. /\ job[w].status = "active" /\ job[w].content = OwnEdits(candidate)
        /\ candidate' = candidate /\ ~NoneActive
    BY <1>1, <1>3 DEF FinishJob, Facts, JobOK, NoneActive
  <2>2. ASSUME NEW s \in {"ok", "failed"}, job' = [job EXCEPT ![w].status = s],
               s = "ok" => job[w].content \subseteq running'
        PROVE  \A v \in Workers :
              \/ job'[v] = job[v]
              \/ /\ job[v].status = "active" /\ job'[v].status \in {"ok", "failed"}
                 /\ job'[v].op = job[v].op /\ job'[v].content = job[v].content
                 /\ job'[v].status = "ok" => job[v].content \subseteq running'
    BY <1>1, <2>1, <2>2 DEF Jobs
  <2>3. CASE /\ job' = [job EXCEPT ![w].status = "ok"]
             /\ running' = (running \ Edits) \union job[w].content
    <3>1. /\ OwnEdits(candidate)' = OwnEdits(candidate) /\ Pending' = {}
          /\ OwnEdits(running) \subseteq running' /\ OwnEdits(running)' \subseteq candidate'
          /\ job[w].content \subseteq running'
      BY <1>1, <2>1, <2>3 DEF OwnEdits, Pending
    <3> QED
      BY <1>0, <1>1, <2>1, <2>2, <2>3, <3>1, DeviceKeeps
  <2>4. CASE job' = [job EXCEPT ![w].status = "failed"] /\ UNCHANGED <<running, lock>>
    <3>1. /\ OwnEdits(candidate)' = OwnEdits(candidate) /\ Pending' = Pending
          /\ OwnEdits(running) \subseteq running' /\ OwnEdits(running)' \subseteq candidate'
          /\ Fingerprint' = Fingerprint
      BY <1>1, <2>1, <2>4 DEF OwnEdits, Pending, Fingerprint
    <3> QED
      BY <1>0, <1>1, <2>1, <2>2, <2>4, <3>1, DeviceKeeps
  <2> QED
    BY <1>3, <2>3, <2>4 DEF FinishJob
<1> QED
  BY <1>2, <1>3 DEF DeviceNext

-----------------------------------------------------------------------------
(* The theorems. *)

\* The server starts with nothing pending and nothing recorded.
LEMMA OneInvStarts ==
    ASSUME Ops # {}, Init
    PROVE  OneInv
<1>1. LifecycleInv
  BY InitHolds
<1>2. /\ candidate = {} /\ running = {} /\ lock = FALSE /\ job = [w \in Workers |-> NoJob]
      /\ rec = [o \in Ops |-> FreshRecord] /\ task = [t \in Tasked |-> Idle]
      /\ evidence = [o \in Ops |-> {}]
  BY DEF Init, DeviceInit, CoordinatorInit, Tasked
<1>3. \A o \in Ops : rec[o].state = "Fresh" /\ rec[o].actions = {} /\ evidence[o] = {}
  BY <1>2 DEF FreshRecord
<1>4. Pending = {} /\ OwnEdits(running) \subseteq candidate /\ NoMixedCandidate
  BY <1>2 DEF Pending, OwnEdits, NoMixedCandidate
<1>5. OneOperationPerEndpoint
  BY <1>3 DEF OneOperationPerEndpoint, Unreconciled, Lifecycle
<1>6. \A o \in Ops : RecordOK(o) /\ LockOK(o)
  BY <1>3 DEF RecordOK, LockOK, OwnerStates, KeptStates
<1>7. \A w \in Workers : JobOK(w)
  BY <1>2 DEF JobOK, NoJob
<1>8. \A t \in Tasked : task[t].pc = "idle" /\ task[t].verdict = "unknown"
  BY <1>2 DEF Idle
<1>9. Alone /\ \A t \in Tasked : View(t)
  BY <1>8, RestingView DEF Alone, Tasked
<1> QED
  BY <1>1, <1>4, <1>5, <1>6, <1>7, <1>9 DEF OneInv, Facts

\* Every step of the server, its operator and the device keeps the invariant.
LEMMA OneNextKeeps ==
    ASSUME OneClient, OneInv, [Next]_vars
    PROVE  OneInv'
<1>1. CASE UNCHANGED vars
  <2>1. LifecycleInv'
    BY NextPreserves DEF OneInv
  <2> QED
    BY <1>1, <2>1, NothingKeeps DEF vars
<1>2. ASSUME NEW t \in Calls, NewCall(t) PROVE OneInv'
  BY <1>2, NewCallKeeps
<1>3. ASSUME NEW t \in Calls, StageStep(t) PROVE OneInv'
  BY <1>3, StageInsertKeeps, StageMovesKeep, StagePostKeeps, StageAfterKeeps, StageRemoveKeeps
     DEF StageStep
<1>4. ASSUME NEW t \in Calls, ValidateStep(t) PROVE OneInv'
  BY <1>4, GuardAndCompareKeeps, ValidatePostKeeps, ValidatePollKeeps DEF ValidateStep
<1>5. ASSUME NEW t \in Calls, CommitStep(t) PROVE OneInv'
  BY <1>5, CommitCompareKeeps, CommitReturnKeeps, CommitMarkKeeps DEF CommitStep
<1>6. ASSUME NEW t \in Calls, DiscardStep(t) PROVE OneInv'
  BY <1>6, GuardAndCompareKeeps, DiscardRevertKeeps, DiscardFingerprintKeeps, DiscardUnlockKeeps,
     DiscardSaveKeeps DEF DiscardStep
<1>7. ASSUME NEW w \in Workers, WorkerStep(w) PROVE OneInv'
  BY <1>7, WorkerGuardKeeps, WorkerPostKeeps, WorkerMovesKeep, WorkerAfterKeeps,
     WorkerUnlockKeeps, WorkerReceiptKeeps DEF WorkerStep
<1>8. ASSUME NEW p \in Policies, Reload(p) PROVE OneInv'
  <2>1. LifecycleInv'
    BY <1>8, ReloadPreserves DEF OneInv
  <2> QED
    BY <1>8, <2>1, NothingKeeps DEF Reload, deviceVars, coordinatorVars
<1>9. CASE DeviceNext /\ UNCHANGED <<coordinatorVars, task, policy, evidence, validated>>
  BY <1>9, DeviceNextKeeps
<1>10. CASE Restart
  BY <1>10, RestartKeeps
<1>11. CASE \E o \in Ops : Resolve(o)
  BY <1>11, ResolveKeeps
<1> QED
  BY <1>1, <1>2, <1>3, <1>4, <1>5, <1>6, <1>7, <1>8, <1>9, <1>10, <1>11
     DEF Next, Serve, CallStep, Environment

\* One client at a time: commit_worker publishes only the edits of the operation it
\* serves, although neither it nor commit_candidate reads the record again under the mutex.
THEOREM OneClientCommitsItsOwnEdits ==
    ASSUME OneClient, Ops # {}
    PROVE  Spec => []CommitsOwnEdits
<1>1. OneInv => CommitsOwnEdits
  <2> SUFFICES ASSUME OneInv, NEW w \in Workers, job[w].status = "active"
               PROVE  job[w].content \ running \subseteq rec[job[w].op].actions
    BY DEF CommitsOwnEdits
  <2> QED
    BY DEF OneInv, Facts, JobOK, Pending
<1>2. Init => OneInv
  BY OneInvStarts
<1>3. OneInv /\ [Next]_vars => OneInv'
  BY OneNextKeeps
<1> QED
  BY <1>1, <1>2, <1>3, PTL DEF Spec

\* One client at a time: every job that was ever started carried exactly what a full
\* validation of its operation had seen, whatever other administrators did in between.
THEOREM OneClientCommitsWhatWasValidated ==
    ASSUME OneClient, Ops # {}
    PROVE  Spec => []CommittedWasValidated
<1>1. OneInv => CommittedWasValidated
  BY DEF OneInv, Facts, JobOK, CommittedWasValidated
<1>2. Init => OneInv
  BY OneInvStarts
<1>3. OneInv /\ [Next]_vars => OneInv'
  BY OneNextKeeps
<1> QED
  BY <1>1, <1>2, <1>3, PTL DEF Spec

\* One client at a time: what is recorded as committed, by commit_worker or by the offline
\* command, and what has a success receipt is in the running configuration, and stays there.
THEOREM OneClientCommitsAreRunning ==
    ASSUME OneClient, Ops # {}
    PROVE  Spec => []CommittedIsRunning
<1>1. OneInv => CommittedIsRunning
  BY DEF OneInv, Facts, RecordOK, CommittedIsRunning
<1>2. Init => OneInv
  BY OneInvStarts
<1>3. OneInv /\ [Next]_vars => OneInv'
  BY OneNextKeeps
<1> QED
  BY <1>1, <1>2, <1>3, PTL DEF Spec

\* One client at a time: while a job runs on the device, no lost answer, deadline, failed
\* write or restart makes its operation anything but committing or indeterminate.
THEOREM OneClientLeavesUnknownsOpen ==
    ASSUME OneClient, Ops # {}
    PROVE  Spec => []UnknownIsNeverSettled
<1>1. OneInv => UnknownIsNeverSettled
  BY DEF OneInv, Facts, JobOK, UnknownIsNeverSettled
<1>2. Init => OneInv
  BY OneInvStarts
<1>3. OneInv /\ [Next]_vars => OneInv'
  BY OneNextKeeps
<1> QED
  BY <1>1, <1>2, <1>3, PTL DEF Spec

\* One client at a time: require_config_lock keeps other administrators out of the candidate
\* from the stage of an operation to its commit.
THEOREM OneClientLocksHold ==
    ASSUME OneClient, Ops # {}
    PROVE  Spec => []LockedOperationIsStable
<1>1. OneInv => LockedOperationIsStable
  BY DEF OneInv, Facts, LockOK, LockedOperationIsStable, KeptStates, SameFingerprint
<1>2. Init => OneInv
  BY OneInvStarts
<1>3. OneInv /\ [Next]_vars => OneInv'
  BY OneNextKeeps
<1> QED
  BY <1>1, <1>2, <1>3, PTL DEF Spec

\* One client at a time: the pending edits of the candidate are those of one operation,
\* whatever calls failed half way left behind.
THEOREM OneClientNeverMixes ==
    ASSUME OneClient, Ops # {}
    PROVE  Spec => []NoMixedCandidate
<1>1. OneInv => NoMixedCandidate
  BY DEF OneInv, Facts
<1>2. Init => OneInv
  BY OneInvStarts
<1>3. OneInv /\ [Next]_vars => OneInv'
  BY OneNextKeeps
<1> QED
  BY <1>1, <1>2, <1>3, PTL DEF Spec

\* One client at a time: the coordinator never has a second open operation, and no write of
\* the call, its worker, recovery or the operator opens a finished one again.
THEOREM OneClientOpensOneOperation ==
    ASSUME OneClient, Ops # {}
    PROVE  Spec => []OneOperationPerEndpoint
<1>1. OneInv => OneOperationPerEndpoint
  BY DEF OneInv, Facts
<1>2. Init => OneInv
  BY OneInvStarts
<1>3. OneInv /\ [Next]_vars => OneInv'
  BY OneNextKeeps
<1> QED
  BY <1>1, <1>2, <1>3, PTL DEF Spec
==============================================================================
