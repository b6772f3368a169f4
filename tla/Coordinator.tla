----------------------------- MODULE Coordinator -----------------------------
(***************************************************************************)
(* The part of mecmcp_changeset::ChangesetCoordinator that holds operation *)
(* records and the per-endpoint mutex.  The crate is not in this           *)
(* repository: it is modelled from how mutation.rs and its tests use it.   *)
(* One endpoint is modelled (records and mutexes of different endpoints    *)
(* never meet; aliases of one appliance share the endpoint key).           *)
(***************************************************************************)
EXTENDS PanosDevice

CONSTANTS
    Calls,          \* concurrent stage / validate / commit / discard calls
    Appliers,       \* concurrent apply_change_set calls
    Policies,       \* mutation policies an inventory may hold for the device
    LockPolicies,   \* those with require_config_lock
    Allowed,        \* Allowed[p]: the edits policy p admits
    ChangeSetIds

ASSUME TasksAssumption ==
    /\ Calls \intersect Workers = {}
    /\ Calls \intersect Appliers = {}
    /\ Workers \intersect Appliers = {}
    /\ None \notin Calls \union Workers \union Appliers

ASSUME PoliciesAssumption ==
    /\ LockPolicies \subseteq Policies
    /\ Allowed \in [Policies -> SUBSET Edits]
    /\ None \notin Policies
    /\ None \notin ChangeSetIds

VARIABLES
    rec,    \* rec[o]: the stored OperationRecord of o
    guard   \* the task that holds device_guard, or None

coordinatorVars == <<rec, guard>>

Tasks == Calls \union Workers \union Appliers

\* "Fresh": no record yet.  "Gone": removed again.  Ids are never reused.
Unused == {"Fresh", "Gone"}
Lifecycle == {"Staging", "Staged", "Validating", "Validated", "Committing",
              "Committed", "Failed", "Discarded", "Indeterminate"}
Terminal == {"Committed", "Discarded"}

Records == [state : Unused \union Lifecycle,
            current : SUBSET Roots,             \* candidate fingerprint
            lock : BOOLEAN,                     \* config_lock_held
            policy : Policies \union {None},    \* policy_signature
            actions : SUBSET Edits,
            changeSet : ChangeSetIds \union {None}]

FreshRecord == [state |-> "Fresh", current |-> {}, lock |-> FALSE,
                policy |-> None, actions |-> {}, changeSet |-> None]

\* The record stage_config and apply_change_set insert.
StagingRecord(expected, p, actions, c) ==
    [state |-> "Staging", current |-> expected, lock |-> FALSE,
     policy |-> p, actions |-> actions, changeSet |-> c]

Unreconciled(o) == rec[o].state \in Lifecycle \ Terminal

\* Faulty: a failed operation does not keep others out.
CanInsertBesideFailed == \A o \in Ops : Unreconciled(o) => rec[o].state = "Failed"

\* insert: one unreconciled operation per endpoint.
CanInsert == \A o \in Ops : ~Unreconciled(o)

Insert(o, r) == rec[o].state = "Fresh" /\ rec' = [rec EXCEPT ![o] = r]

\* update: a blind overwrite; when the state file cannot be written the
\* caller gets an error and the stored record stays.
Saves == IF "persist" \in Faults THEN BOOLEAN ELSE {TRUE}

Update(o, r, saved) == rec' = IF saved THEN [rec EXCEPT ![o] = r] ELSE rec

Remove(o) == rec' = [rec EXCEPT ![o].state = "Gone"]

Acquire(t) == guard = None /\ guard' = t
Release(t) == guard' = IF guard = t THEN None ELSE guard

\* Faulty: recovery takes an interrupted commit for done, or for failed.
RecoveredAsCommitted(r) ==
    IF r.state = "Committing" THEN [r EXCEPT !.state = "Committed"] ELSE r

RecoveredAsFailed(r) ==
    IF r.state = "Committing" THEN [r EXCEPT !.state = "Failed"] ELSE r

\* load_with_recovery(StagedRecovery::Retain).
Recovered(r) ==
    IF r.state \in {"Staging", "Validating", "Committing"}
    THEN [r EXCEPT !.state = "Indeterminate"] ELSE r

CoordinatorTypeOK ==
    /\ rec \in [Ops -> Records]
    /\ guard \in Tasks \union {None}

CoordinatorInit ==
    /\ rec = [o \in Ops |-> FreshRecord]
    /\ guard = None
=============================================================================
