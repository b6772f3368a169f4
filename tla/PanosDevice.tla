----------------------------- MODULE PanosDevice -----------------------------
(***************************************************************************)
(* One PAN-OS management endpoint as the mutation code sees it: the        *)
(* candidate and the running configuration, the configuration lock and the *)
(* commit jobs, with what each request of rust-panosmcp-core/src/          *)
(* mutation.rs does to them.                                               *)
(*                                                                         *)
(* A configuration is the set of edits it contains.  Edits are the changes *)
(* that this server may write (under its dedicated PAN-OS administrator),  *)
(* Foreign the changes of other administrators.  Roots are the edits that  *)
(* fall under the inventory's allowed_xpath_roots: every edit this server  *)
(* writes, and some of the foreign ones.                                   *)
(*                                                                         *)
(* A request has one of three outcomes: "ok"; "refused", an error and no   *)
(* effect; "lost", an error (a timeout, a broken connection) after the     *)
(* device has carried the request out.                                     *)
(***************************************************************************)
EXTENDS Naturals, FiniteSets

CONSTANTS
    Edits,      \* changes this server may write
    Foreign,    \* changes other administrators may write
    Roots,      \* the changes the fingerprint covers
    Workers,    \* slots for commit jobs (and for the workers that poll them)
    Ops,        \* operation ids
    Faults,     \* which of "refused", "lost", "persist", "evidence" may happen
    None        \* Rust's Option::None

ASSUME EditsAssumption ==
    /\ Edits \intersect Foreign = {}
    /\ Edits \subseteq Roots
    /\ Roots \subseteq Edits \union Foreign

ASSUME FaultsAssumption == Faults \subseteq {"refused", "lost", "persist", "evidence"}

ASSUME NoneIsNoOp == None \notin Ops

VARIABLES
    candidate,  \* the edits in the candidate configuration
    running,    \* the edits in the running configuration
    lock,       \* this server's administrator holds the configuration lock
    job         \* job[w]: the commit job that worker slot w has started

deviceVars == <<candidate, running, lock, job>>

Config == SUBSET (Edits \union Foreign)

NoJob == [status |-> "none", op |-> None, content |-> {}]

Jobs == [status : {"none", "active", "ok", "failed"},
         op : Ops \union {None},
         content : SUBSET Edits]

DeviceTypeOK ==
    /\ candidate \in Config
    /\ running \in Config
    /\ lock \in BOOLEAN
    /\ job \in [Workers -> Jobs]

DeviceInit ==
    /\ candidate = {}
    /\ running = {}
    /\ lock = FALSE
    /\ job = [w \in Workers |-> NoJob]

-----------------------------------------------------------------------------
(* Requests.                                                               *)

Outcomes == {"ok"} \union (Faults \intersect {"refused", "lost"})

\* A read either answers or fails; it never changes the device.
Reads == {out \in Outcomes : out # "lost"}

\* candidate_fingerprint hashes what the candidate holds under the roots.
Fingerprint == candidate \intersect Roots

\* Faulty: pending changes are not looked for.
PendingUnchecked == FALSE

\* check_pending_changes, which is not limited to the roots.
PendingChanges == candidate # running

OwnEdits(config) == config \intersect Edits

\* Faulty: the lock is assumed, not taken.
LockAssumed(out) == out = "ok" /\ UNCHANGED lock

\* acquire_config_lock: PAN-OS refuses a second lock.
AcquireLock(out) ==
    \/ out = "ok" /\ ~lock /\ lock' = TRUE
    \/ out = "refused" /\ (lock \/ out \in Outcomes) /\ UNCHANGED lock
    \/ out = "lost" /\ out \in Outcomes /\ ~lock /\ lock' = TRUE

\* release_config_lock: "not currently locked" is a success.
ReleaseLock(out) ==
    /\ out \in Outcomes
    /\ lock' = IF out = "refused" THEN lock ELSE FALSE

\* post_fields of one set / delete / move action.
PostEdit(e, out) ==
    /\ out \in Outcomes
    /\ candidate' = IF out = "refused" THEN candidate ELSE candidate \union {e}

\* The admin-scoped partial revert.
RevertAdmin(out) ==
    /\ out \in Outcomes
    /\ candidate' = IF out = "refused" THEN candidate
                    ELSE (candidate \ Edits) \union OwnEdits(running)

\* Faulty: the commit covers every administrator.
PostFullCommit(w, o, out) ==
    /\ out \in Outcomes
    /\ job' = [job EXCEPT ![w] = [status |-> "active", op |-> o, content |-> candidate]]

\* The admin-scoped partial commit starts a job over this administrator's edits.
PostCommit(w, o, out) ==
    /\ out \in Outcomes
    /\ job' = IF out = "refused" THEN job
              ELSE [job EXCEPT ![w] = [status |-> "active", op |-> o,
                                       content |-> OwnEdits(candidate)]]

-----------------------------------------------------------------------------
(* What the device and its other administrators do by themselves.          *)

\* A commit job ends.  A successful commit releases a configuration lock of
\* vsys scope and leaves a shared one.
FinishJob(w) ==
    /\ job[w].status = "active"
    /\ \/ /\ job' = [job EXCEPT ![w].status = "ok"]
          /\ running' = (running \ Edits) \union job[w].content
          /\ lock' \in {lock, FALSE}
       \/ /\ job' = [job EXCEPT ![w].status = "failed"]
          /\ UNCHANGED <<running, lock>>
    /\ UNCHANGED candidate

\* PAN-OS keeps other administrators out while the lock is held.
ForeignEdit(f) ==
    /\ ~lock
    /\ candidate' = candidate \union {f}
    /\ UNCHANGED <<running, lock, job>>

ForeignCommit(f) ==
    /\ f \in candidate
    /\ running' = running \union {f}
    /\ UNCHANGED <<candidate, lock, job>>

DeviceNext ==
    \/ \E w \in Workers : FinishJob(w)
    \/ \E f \in Foreign : ForeignEdit(f) \/ ForeignCommit(f)
=============================================================================
