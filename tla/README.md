# TLA+ models of rust-panosmcp

This directory holds a verification project for `rust-panosmcp`, an MCP server
that lets agents read a PAN-OS firewall and change its configuration under
two-person control. It models the code that changes a device
(`rust-panosmcp-core/src/mutation.rs`), the client under it (`client.rs`), the
checks before it (`grant.rs`, `xml.rs`), the readers of a device's answers
(`xml.rs`, `tools.rs`) and the process around it (`rust-panosmcp/src`), checks the
models with TLC and proves most of their safety properties with TLAPS, for every
number of calls, operations, plans, tokens or actions. `PROJECT.json` maps every
definition to the lines it models and lists runs, mutants, hazards, findings and
theorems.

## The system

| part | state it keeps | operations | modelled in |
|---|---|---|---|
| candidate lifecycle (`mutation.rs`) | operation records, apply-intent and receipt evidence | `stage_config`, `validate_candidate`, `commit_candidate` with its detached `commit_worker`, `discard_candidate`; `diff_candidate` and `operation_status` only read | `CandidateLifecycle` |
| change sets (`mutation.rs`) | change-set records: plan, digest, owner, approver, expiry | `create_change_set` (with the lab-mode waiver), `approve_change_set`, `change_set_status` (writes expiry back), `apply_change_set` | `ChangeSets`, promise in `ApprovalLedger` |
| coordinator (`mecmcp_changeset`, external) | both kinds of records in one state file, one mutex per management endpoint | `insert`, `update`, `remove`, `device_guard`, `claim_change_set_for_apply`, recovery at start | `Coordinator` |
| the firewall (external) | candidate, running configuration, configuration lock, jobs | the API requests of `mutation.rs`; other administrators | `PanosDevice` |
| API client (`client.rs`) | semaphore, `auth_healthy` | `send`, `post`, `poll_log_job`, `best_effort_finish_log_job` | `PanosClient` |
| plan checks (`mutation.rs`, `grant.rs`, `xml.rs`) | none; a view of the rulebase while a plan is checked | `validate_write_xpath`, `allows_xpath`, `validate_stage_payload`, `validate_change_set_actions`, `require_move_targets_exist` | `PlanChecks` |
| answers and read tools (`xml.rs`, `tools.rs`) | none between calls | envelope check, entry scan and pages, redaction of named elements, field and message extraction, groups and members | `ResponseReaders` |
| runtime (`main.rs`, `lib.rs`, `http_transport.rs`, `cli_validate.rs`) | the published snapshot: service and token store | start, SIGHUP reload, bearer boundary, `authorize`, `mutation_principal`, `mutation_identity`, handlers | `Runtime`; recovery and reload under an operation in `CandidateLifecycle` |
| inventory and policies (`inventory.rs`, `tools.rs`) | devices, mutation policies, command and xpath rules | loading, mode resolution, `check_command_policy`, `check_xpath_policy` | `Runtime`; policy signature in `CandidateLifecycle` |
| token commands (`token_cmd.rs`) | the token file | add, set-scopes, rotate, revoke, `signal_reload` | `Runtime` |
| text (`redact.rs`, `error.rs`, `version_advisory.rs`, `observability.rs`, `bearer.rs`, `secret.rs`) | logs | formatting, free-text redaction, header syntax | not modelled |

How they interact: a tool call reads an operation record, takes the endpoint
mutex, sends requests to the device and writes the record back. Calls run
concurrently on tokio threads; a commit goes on in a detached task after its
caller was cancelled; a restart keeps only the state file and the device; a
reload replaces the policy under running calls; other administrators edit the
same candidate. The hard behaviour is what lies between the awaits: records read
before the mutex and written after it, requests carried out whose answer is lost,
saves that fail, and a process that stops half way.

What makes each part correct:

* lifecycle: only an operation's own, validated edits are committed; an unknown
  outcome is never reported as success, failure or discard, and once it is known it
  stays; where evidence is recorded, nothing is committed without a persisted intent;
  every call returns;
* change sets: edits reach the device only under the approval of a second human,
  and an approval is used once, by one operation that stages the whole plan;
* client: permits are never lost, the health flag follows the key, log queries
  end and, when they give up, end their job;
* plan checks: scope is decided by what an xpath addresses and not by how it is
  spelled; for plans written the way the simulation follows (one spelling for each
  container, edits of whole named entries), a stored plan's moves will find their
  rules and a refusal for a missing rule is right;
* answers: a cut or broken response never passes for a whole one; a field comes
  from the element it is a child of; no run of a secret is copied;
* runtime: nobody is served over HTTP without a token that is in force; a wildcard
  never changes anything; a reload replaces both files or neither, keeps the
  posture of the command line, and is never lost.

## Modules

* `PanosDevice`: one endpoint. A configuration is a set of edits, some of this
  server's administrator (`Edits`), some of others (`Foreign`); `Roots` are those
  the fingerprint covers. A request is answered (`ok`), `refused` without effect,
  or carried out and `lost`. PAN-OS itself is modelled from how the code uses it:
  a second lock is refused, a lock keeps other administrators out, commit and
  revert are limited to this administrator's edits.
* `Coordinator`: operation records and the endpoint mutex of the external crate
  `mecmcp_changeset`, from its use in `mutation.rs` and the tests: `insert`
  refuses a second unreconciled operation, `update` overwrites blindly, a failing
  state file leaves the stored record alone, recovery turns every interrupted
  operation into `Indeterminate`.
* `CandidateLifecycle`: the five functions, one action per await point. The
  program counter of a task names the function and the next step; its local
  record is the `OperationRecord` the Rust function holds. `validated` and
  `evidence` are what validations saw and what the evidence store holds. `Recorder`
  says whether there is a recorder at all: the evidence pipeline is optional
  (`main.rs:306`); without it, which is the default, `commit_worker` commits with neither
  intent nor receipt.
* `ChangeSets`: the change-set functions, composed with the lifecycle on the same
  device, records and mutex. A change set's plan is a sequence of edits; the
  digest binds an immutable plan, so naming the change set stands for quoting
  the digest. `lapsed` is the set of plans past their expiry. `pushed` is a history
  variable: the operations that have sent a plan's actions.
* `ApprovalLedger`: what the change-set layer promises, in three actions:
  `Propose`, `Grant` by another human, `Use` once. `ChangeSets` implements it with
  `proposer`, `grantor` and `users` read off the records and `pushed`.
* `PanosClient`: requests of concurrent calls through one semaphore, the
  `auth_healthy` flag behind `/readyz`, and log jobs. A reload publishes a client
  with a fresh semaphore and flag; old calls keep the old one.
* `PlanChecks`: an xpath is a sequence of steps (name, predicate value, quote
  style). The caller writes a plan, `Submit` is `validate_change_set_actions`,
  `Fetch` the reads of `require_move_targets_exist`, `Check` one turn of its second
  loop. Two history variables are the reference that the simulation is compared with:
  `held` is what the device will really hold before the next action, `failing` the
  moves passed so far that will not find their rules there.
* `ResponseReaders`: the answer is a stream of quick-xml events, and each reader of
  `xml.rs` is a state machine over it; all of them read the same stream. Content is
  the position of an event, so what a reader returns can be compared with the
  document (`Around`, `Depth`, `Closes`), which is the reference definition.
* `Runtime`: the command line, the two files, the snapshot, the reload task (two
  steps: inventory, then tokens), one call (sent, authenticated, authorized, at its
  device) and one token command (inventory read, token file written, signal sent).
* `ChangeSetsProofs`, `LifecycleProofs`, `WholePlanProofs`, `OneClientProofs`,
  `PanosClientProofs`, `RuntimeProofs`, `PlanChecksProofs`, `ReadersProofs`: the
  theorems. `MCLifecycle`, `MCChangeSets`, `MCClient`, `MCPlans`, `MCResponses`,
  `MCRuntime`: instances for TLC.

Definitions marked "Faulty" are the mutated forms that `PROJECT.json` substitutes
to show that each property can fail.

### Abstractions

Audit events, messages and metadata are left out, as are ownership checks of
operations (a call only ever names its own) and the XML of payloads: `Allowed[p]`
is the set of edits that the xpath, action and payload checks admit under policy
`p`. One endpoint is modelled: endpoints share nothing, and aliases of one
appliance share the endpoint key. The two reads at the start of
`create_change_set` and its insert are one step, since apply repeats the reads
under the mutex. Taking the mutex is one step with the first request under it.
A read fails or answers and has no effect, so `lost` does not apply to it. An
operator who runs `state resolve` has stopped the service, waited for the device's
jobs, reverted what was pending and removed the lock, as the documentation asks.

`PlanChecks` takes the element of a `set` as valid or not (`validate_config_element`
is a well-formedness check), with the entry it may carry for its container (`new`), and
an xpath as split into its steps. The limits of `validate_read_xpath` on characters,
length and number of steps are left out, so what is said of scope is said of the paths
that they admit. `ResponseReaders`
leaves out text lengths, entity decoding and the response's own status code; it
takes the elements an answer may hold from `Child`. In `Runtime` an inventory is
its policies and the set of defects a loader would meet, a token is its secret's
number and its scopes; tokens do not expire. Calls share nothing but the snapshot,
which they read and never write, so one call at a time against every interleaving of
reload and commands shows what many would. The transport's own preflight on scopes
(external) is left out: what is shown is that the handlers hold without it.
`set-scopes` stands for a confirmed one; without `--yes` a widening writes nothing.

## Runs

| run | question | instance |
|---|---|---|
| `MCLifecycle` | what may a commit carry, is an unknown outcome ever settled, and is at most one operation open? | one client at a time, a recorder, two operations, two policies, a foreign administrator, every fault, crashes |
| `MCConcurrent` | do mutex and clean-candidate check keep concurrent clients apart? | two clients that stage, validate and discard (no direct commit), two operations, another administrator, refused and lost requests, failing saves, crashes; symmetry over calls, operations and edits |
| `MCProgress` | does every call return, every commit reconcile, every claimed plan settle, is the mutex held exactly where the code holds it through every exit of a commit, and does a settled operation stay so but for a task under way? | a client, its detached commit and an apply on one endpoint, two operations, refused and lost requests, failing evidence, cancelled commits |
| `MCChangeSets` | is an approval independent and used once, and is the ledger implemented? | two applies, a status reader, expiry, lab mode, failing requests and saves, crashes |
| `MCComposed` | without `--allow-direct-commit`, do only approved edits run, and whole plans? | a client that stages directly and an apply with a plan of two actions, refused and lost requests, crashes, no recorder |
| `MCClient` | are permits conserved, is the health flag right, do log queries return and give their jobs up? | a query, a read and a listing with one permit, two clients, every fault |
| `MCPlans` | do the textual scope checks decide by meaning, and is the simulation of a plan's moves exact? | plans of up to three of 24 actions over one rulebase in two spellings, every view a cut response leaves, local and token callers |
| `MCResponses` | do the readers report what the document says, also when it is cut or broken? | every stream of eight opening or text events over a list (two windows), a job and an error message, cut or broken anywhere |
| `MCRuntime` | who is served, by which store and policy, and does a signalled change take effect? | six command lines, four inventories (one fail-open by a legacy rule, two that do not load), one token with two secrets, one inventory write, two token-file writes |

Bounds. Two operations are the fewest with which one can disturb another; two
edits tell a whole plan from a partial one; one worker slot is enough where one
client waits for its commits, where nobody commits directly, or where a detached commit
meets one other call; two policies show drift and its return. The number of steps is not
bounded: every run explores its instance completely. `MCLifecycle` and `MCComposed` have
one call of the lifecycle at a time (with its worker, restarts and, in `MCComposed`, an
apply beside it): with two, `CommittedWasValidated` and `RunningIsApproved` fail for the
reason `MCStaleCommit` shows, and `OneOperationPerEndpoint` because of the blind write at
`mutation.rs:1554` (see below). With one call nothing can come between the comparison of
`commit_candidate` and its worker; that window is open in `MCStaleCommit`. What holds
with any number of clients, blind writes included, is proved (`SettledStays` and others,
see Proofs); `MCProgress` shows it with one client whose commit may be detached, so that
the worker's last write (`mutation.rs:2032`) meets the next call's discard. In
`MCComposed` one edit is in no plan, so that an edit
can be staged that nobody ever approves. `MCConcurrent` has two calls and no direct commit: with
direct commits the same gap lets a commit begin over a finished discard, after which
a third operation can be staged into the other's candidate. Three actions are the fewest in which a move depends
on an edit that itself undoes an earlier one. The streams of `MCResponses` are long
enough for an entry nested in an entry and for text before and after a nested
element; each request asks about only some elements (`about`), which keeps the
streams apart that no reader would tell from each other. The writes of `MCRuntime`
allow a token to be added and rotated, rescoped or revoked, with a damaged file at
any point, during each step of a reload and of a call.

Deadlock is checked except in the three runs whose system really ends: a stream
that is read (`MCResponses`), a plan that is accepted or refused (`MCPlans`), a
server whose command line or files were refused, with no write left to repair them
(`MCRuntime`).

Fairness. Every call and worker is strongly fair: tasks run on tokio threads,
every request has a timeout, every poll a deadline, and tokio's mutex serves its
waiters in turn, so a task that can take the mutex again and again gets it. PAN-OS
commit jobs end (weak fairness of `FinishJob`). In `PanosClient` the device owes
nothing: request timeouts and the poll deadline are timers, and weakly fair.
In `Runtime` only the reload task is fair: it is spawned once and nothing cancels
it. Callers and operators owe nothing; in particular nobody has to send a signal.
`MCProgress` has no crash and no failing state file: a crash leaves a claimed plan
in `Applying` (the code says so and leaves it to the operator), and a save that
fails can leave a record in `Committing` or a plan in `Applying`, which
`commit_worker` and `apply_change_set` report in their error messages. So
`ApplyingEnds` is about failing requests; the saves between a claim and its first
action (`mutation.rs:998`, `mutation.rs:1013`) fail in `MCChangeSets` only, for safety.

## Disagreements between code and documentation

Each is a run whose property states the documented behaviour and that TLC refutes;
`PROJECT.json` quotes the lines.

* `MCStaleCommit`: `commit_candidate` checks state and fingerprint before the
  detached worker has the endpoint mutex, and the worker checks neither again.
  A discard in between lets the worker commit what was not validated. The same
  gap lets a commit go out although a reload has changed the policy in between.
* `MCLabMode`: the lab-mode waiver approves without an approver, and apply demands
  one.
* `MCLostAction`: when the first action of a plan was carried out but its answer
  lost, nothing is reverted and the operation is stored as discarded.

Met while modelling and visible in the models, without a run of their own:

* In the gap of `MCStaleCommit`, `commit_candidate` writes `Committing`, from a record it
  read before, over a discard that has finished (`mutation.rs:1554`). If another
  operation was staged after the discard, two are open on one endpoint, of one
  principal; `THREAT_MODEL.md:213` says that a principal "can have only one active"
  operation.
* The worker writes its record a last time after it has dropped the mutex
  (`mutation.rs:2032`). A discard of the failed commit that was waiting for the mutex may
  finish in between; `Failed` is then put back over it, with a fingerprint that no later
  discard accepts, while `docs/PHASE3_OPERATIONS.md:81` says that a failed commit
  "remains eligible for explicit discard". The window is short: after a failed commit
  only the evidence receipt is written there. `SettledIsFinal` says that only tasks that
  were under way when an outcome was stored can overwrite it in this way.
* After a failed revert `apply_change_set` releases the configuration lock while the
  partial plan is in the candidate (`mutation.rs:1093`); `THREAT_MODEL.md:206` says it
  "stays held until commit or discard".
* A single timed-out request ends a log query without `action=finish`
  (`client.rs:281`), although the comment at `client.rs:244` speaks of "timeout or
  cancellation". `AbandonedJobsEnd` is therefore about jobs whose own requests were
  answered.
* `main.rs:203` reads the inventory before every token command, so revoke and rotate
  fail when it cannot be read; the comments at `token_cmd.rs:134` and
  `token_cmd.rs:157` want both to work "even when the inventory is inaccessible".
  `TokenCommand` models the code.
* `require_move_targets_exist` knows a container by its spelling, and does not follow
  a delete of the container or of what encloses it, a set below a rule that does
  not exist yet (which creates the rule), nor a set whose element carries
  the new rule (`split_container_and_entry_name` returns nothing for it, as
  `mutation.rs:2259` says, so a move of that rule after it is refused). A plan that mixes quote styles, deletes a
  rulebase it moves in, or adds a rule by one of its fields or by an element on the
  rulebase, is checked against a view that is no longer exact. The first two may let a
  failing move through as well as refuse a working one, the others only refuse.
  `MovesFindTheirRules` and `RefusalIsReal` state the plans for which the view is
  exact (`OneSpelling`, `DeletesEntries`; `SetsWholeRules`, `SetsNameRules`).
* Under `--allow-no-auth` every tool call over HTTP is refused by its handler
  (`ServedIsEntitled`); `docs/PHASE2_OPERATIONS.md:100` calls the flag a development
  mode.
* A reload builds new clients, so a device's concurrency limit and health flag
  start afresh while old calls still hold permits of the old client
  (`HealthTracksKey` takes that into account).

## Proofs

Every theorem holds for all values of the constants that satisfy the named
assumptions: any number of calls, workers, operations, plans, principals, policies,
clients, permits, tokens or actions, any faults, crashes or not. The assumptions
are typing (flags are Boolean, `None` is no operation, calls and workers differ,
edits of this administrator are not those of others) and these two:

* `PathsAssumption`: write roots and grant roots lie under `/config`
  (`load_mutation_policy`, `inventory.rs:710`; `MutationGrant::validate`,
  `grant.rs:265`) and are xpaths: a value with an apostrophe is in double quotes, as
  it cannot be written otherwise. Nothing is assumed of the xpaths a caller sends
  beyond their being split into steps.
* `ClientAssumption`: a client has at least one permit, a device at least one slot
  for log jobs, and finitely many calls are under way.

The theorems about one client, about clients that never mix, about what runs and about
groups and fields have a hypothesis on the constants as well; it is written in the
theorem and explained below. The properties of the intent and of a plan's moves have
their premises in the property itself: a configured recorder (`Recorder`), and the plans
that the simulation follows.

**`ChangeSetsProofs`**: `ChangeSetTypes`, `ApprovalUsedOnce` (`SingleUse`),
`SentPlansWereApproved` (`PushedWasApproved`), `ImplementsLedger` (`CSSpec =>
LedgerSpec`). All rest on one inductive invariant, `ApprovalInv`. `SingleUse` is not
inductive by itself: a second apply could push after the first. What rules it out is
that a plan in `Fresh`, `Planned` or `Approved` has sent nothing and is claimed by
nobody (`UnspentInv`), that a plan has at most one claimant whose operation made all
the sends so far (`ClaimInv`), and that a claim, once made, is never undone because
no write puts a plan back into an unspent state (`CsetStep`). The blind writes of
`update_change_set` are why `CopyInv` is needed: every copy of a record that a call
may write back agrees with the store on owner and approver, since a status call
copies only expired plans, which nobody can approve any more, and an apply only
approved ones. `PeopleInv` says that owner and approver are written once and in this
order. The proof has one lemma per action; two lemmas (`CsetStep` for the store,
`ApplyMove` for a call) carry the many actions that move a plan forward without
sending. Each step is shown at once to preserve `ApprovalInv` and to be a step of
the ledger or a stutter.

**`LifecycleProofs`**, for any number of concurrent clients:
`LifecycleInvariant` (`TypeOK` among others), `TheMutexFollowsTheCode`
(`GuardDiscipline`), `NoCommitWithoutIntent` (`IntentBeforeCommit`, of servers with a
recorder), and the action properties `DriftIsRefused` (`DriftStopsNewCalls`) and
`SettledStays` (`SettledIsFinal`). The invariant `LifecycleInv` adds to
the properties what they need of the tasks: every call keeps the policy it began
under, which is the policy of its operation once that is inserted (`TasksOK`), and a
worker that is about to post has its intent in the evidence store (`WorkersOK`);
without the latter, `IntentBeforeCommit` would not survive the post. What a step of
one task may change (`Advances`, `Writes`, `GuardMoves`) is stated once, and
`StepPreserves` does the work for all actions of calls and workers. `SettledStays` is
about any number of clients, detached commits included, and so about the blind writes
of `mutation.rs:1554` and `mutation.rs:2032`: they are there, and the theorem says that
nothing else overwrites an outcome. A task writes only the record of the operation it
has (`OwnRecordOnly`) and never changes to another (`OwnOperationOnly`), and no call
begins with a settled one (`NewCallsFindOpen`); so once the tasks that had read the
record are gone, the outcome is final.

The same module holds `ClientsNeverMix` (`NoMixedCandidate`), for any number of
concurrent clients under `~AllowDirectCommit`. What keeps them apart is that a call
that is about to post holds the mutex since it found the candidate without edits of
this administrator (`CallOK`), and that blind writes of a record never change which
edits it names (`StoredOK`); `StagingInv` joins the two with the absence of commits
(`NothingCommitted`). The hypothesis is the server's default; with direct commits the
property is false (see Bounds).

**`WholePlanProofs`**, about the composed system with any number of calls, workers,
applies and status calls: `StagedPlansAreWhole` (`StagedIsWholePlan`),
`OnlyApprovedEditsRun` (`RunningIsApproved`) and `LifecycleHoldsBesideApplies`
(`TypeOK`, `CSTypeOK`, `GuardDiscipline` and, of servers with a recorder,
`IntentBeforeCommit` under `CSSpec`). `ComposedInv` joins `LifecycleInv` and
`ApprovalInv` with what each side must know of the other. A record in a trusted state
(staged, validating, validated) has a fingerprint that covers its plan
(`RecordsCover`), and so has every copy that a call or worker may still write back
blindly (`TasksCover`); the property then follows from the equality of fingerprints
alone, without any claim that nobody touched the candidate since. What makes the
record true when it is written is `AppliesHold`: a call that is sending actions holds
the mutex, all it has sent is in the candidate (`SentIsPending`), and every request
that takes edits out again (`RevertAdmin`, in discard and in a failed apply) is sent
under the same mutex. `PlansStored` keeps all copies of a change set on the one stored
plan, which no write changes (`PlansKept`). The lifecycle's part is reused as it is:
`StepKept` says what each step of a call or worker leaves alone, `ApplyFrame` and
`ApplyWrites` say the same of each step of an apply.

`OnlyApprovedEditsRun` adds `VettedInv`, in terms of the edits that some second human
approved (`Vetted`, which only grows: the ledger's steps take no approval back,
`GrantsStay`). `RunningIsApproved` is not inductive, for an edit comes to run in four
steps of several actors: an apply writes down a fingerprint, a commit call compares
it, its worker posts what the candidate holds *then*, and the job ends later. So the
invariant says that a fingerprint recorded for a plan holds no other edit of this
server (in `Covered`), that the candidate holds none while an apply is sending
(`Sending`, from the clean check to the last fingerprint) or a commit is between its
comparison and its post (`ReadyToCommit`), and that no active job carries one
(`DeviceVetted`). The window of `ReadyToCommit` is not guarded by the mutex: a
`stage_config` of another client may put its edit into the candidate there, and the
worker, which compares nothing, would commit it. Hence the hypothesis `Undisturbed`:
either no token may call `stage_config`, with any number of clients, applies, detached
commits and restarts, or one client works at a time and waits for its commits (the
applies beside it are unrestricted). Without it the property is false, for the reason
`MCStaleCommit` shows.

**`OneClientProofs`**, under `OneClient`: one call at a time, which waits for its
commit. `CommitsOwnEdits`, `CommittedWasValidated`, `CommittedIsRunning`,
`UnknownIsNeverSettled`, `LockedOperationIsStable`, `NoMixedCandidate` and
`OneOperationPerEndpoint`, with any number of operations, edits, policies and worker
slots, other administrators, every fault, restarts, reloads and `state resolve`. With
a second client they do not all hold (`MCStaleCommit`, and the blind write at
`mutation.rs:1554`): the hypothesis is where the code's guarantee ends, and `Ops # {}`
only excludes an empty model. None of these is inductive alone. `OneInv` has three parts: at most one
operation is unreconciled and a running worker is the one its caller waits for
(`OneOperationPerEndpoint`, `Alone`); what records, jobs, lock and candidate say of each other between
any two steps (`Facts`: in an owning state every pending edit is the operation's
own, a validated record's fingerprint was seen by a validation, an active job carries
the candidate, and so on); and what a task knows at its await point (`View`: its copy
is what is stored, the candidate is clean after the check, nothing is active before
the post). `View` is the argument of the code's comments, made precise: each check is
still true when its result is used, because nobody else acts in between.

**`PanosClientProofs`**: `ClientInvariant` (`ClientTypeOK`), `PermitsAreConserved`,
`HealthFollowsTheKey` (`HealthTracksKey`), `AbandonedJobsAreFinished`
(`AbandonedJobsEnd`). `ClientInv` adds what an unread answer says of the key and of the
log job (`AnswerOK`): the health flag is written when an answer is read, so the
property only survives if the answer in flight is known to be true of the key or
marked stale. Permits are counted with the cardinality lemmas of the library.

**`RuntimeProofs`**: `ServedRequestsAreEntitled`, `RequestsAreJudgedByTheLiveStore`,
`PolicyGovernsRequests` (`CommandsFollowPolicy`),
`ListenersAreGuarded` (with `QuotaRounding`), the action property
`SnapshotsAreOneLoad`, and `ReloadsKeepThePosture` (a reload hands the coordinator and
the flags on, `PostureIsKept`), which is proved only. `RuntimeInv` orders the versions: file, reload under way,
published snapshot and what a call saw (`SnapInv`, `LoaderInv`, `CallInv`), and says
that a token store exists exactly when the command line names a file, in every
snapshot since the first, from which the boundary was built.

**`PlanChecksProofs`**, for any roots, grants, actions and rulebases and plans of
any length: `ScopeAlways` (`ScopeIsSemantic`), and, of the plans that the simulation
follows, `MovesAlwaysFindTheirRules` (one spelling for each container, deletes of
entries only) and `RefusalIsAlwaysReal` (moreover, sets that add one whole rule under
an xpath that names it). The last premise is needed: of a set whose element
carries the rule for its container (`new` in `PlanChecks`) the simulation takes no note,
and refuses a move of that rule which the device would carry out. For scope the argument is `SameText`: after
`canonicalize_xpath_quotes`, one text continues another exactly when what it
addresses lies within, provided every step is quoted as its value demands, which the
strict shape ensures for a request. For moves, `PlanInv` keeps the simulation and the
device side by side: what is seen of a container is always among what it will hold
(`SimIsSafe`), and all of it if it was seen whole and the plan's sets name their rules
(`SimIsWhole`); `ActionAgrees` is the step, and `EntryTouches` the reason that a
container's spelling is enough to tell which actions concern it. Walking the plan with
history variables avoids an induction over its length.

**`ReadersProofs`**, for every answer, of any length and nesting, cut or broken
anywhere, and any window: `ScanIsAlwaysExact` (`ScanIsExact`), `PagesAreHonest`
(`PageIsHonest`), `SecretsAreHidden` (`SecretsHidden`), `MembersAlwaysHaveTheirGroup`
(`MembersHaveTheirGroup`) and `FieldsAlwaysComeFromTheirElement`
(`FieldsComeFromTheirElement`). The properties compare a
reader with definitions over the whole stream (`Depth`, `Around`, `Closes`, sets and
their cardinalities). No induction over the stream is needed: the invariants relate
the stream read *so far* to the reader's record, so each proof is one step from a
stream `d` to the stream `f` with one more event (`Longer`), and the document's
operators are stated once for any stream (`DepthIn`, `OpenAt`, `ClosesAt`) with the
lemmas on how they grow (`DepthNext`, `OpenNext`, `ClosesNew`, `ClosesSame`).
`StackOK` is the core: every reader's own stack holds exactly the open elements of the
stream, one per level, in order. From it follow `Innermost` (an end tag closes the
last element of the stack and no other) and `OuterIsAround`. For the scan, `ScanOK`
says that what was counted and kept is the window of the complete entries so far
(`PageOK`: an entry that completes began after all others that did, so it is appended
in document order) and that the pending entry is the one open listed element, if
any (`PendingOK`). For redaction, `InSecret` says that `secret` is the depth of the
*outermost* open secret element, which is why only its own end tag may reset it,
and `MarkedOK` that a marker was the last thing written exactly when the last event
was hidden, so that a run that continues a stretch adds none (`RunBegins`,
`RunContinues` count the stretches). For the envelope check, `RootRuns` describes a
prefix that may still become one response and `Broken` one that never can.

For groups, `GroupsOK` says that the last group is the open one, if any is open, and
that the members found so far are those of the groups that enclose them; for device
lists, `ListOK` says the same of the pending entry as for the scan. For fields,
`TextOK` relates the finished pieces and the one in progress to the stretches of text
seen so far: the piece in progress is the stretch that ends at the last event, and
all others are finished (`Runs`). `MsgOK` applies it to everything below `msg` or
`line`, where `Collecting` says that the reader's count is the distance to the
outermost open one. `FirstOK` and `ChildOK` apply it to one element: the first of its
set (`Leads`), open (`Reading`) or closed (`ReadWhole`); what was read of it stays
right when more is sent (`CompleteKept`). For a job, `InJob` says that the reader's
depth is that of the content of the first job while it is open, and `JobOver` why the
reader may give up at its end tag: no later status is the job's own.

These two theorems have a hypothesis, `NeverNested("dg")` and `NeverNested("status")`:
no such element holds another of its name, at any depth. PAN-OS answers are built so.
Without it the properties are false, as each of these readers keeps one flag or depth
for the element it is in: an inner `status` would end the outer one's text, and an
entry after a nested `dg` would be attributed to the inner group. TLC evaluates the
hypothesis for the answers of the run (`NoneNested` in `MCResponses`).

Checked by TLC only:

* liveness and deadlock freedom (`MCProgress`, `MCClient`, `MCRuntime`): the provers
  have neither fairness nor ENABLED;
* what the external crates and PAN-OS do beyond the models of their use.

## Plan

Done: device, coordinator, lifecycle, change sets with their ledger, client, plan
checks, answers, runtime; the proofs listed above.

Left for later: progress without the assumption that nothing fails (`MCProgress`),
which needs the operator's part in it spelled out.

## Not modelled

* `redact.rs`, `error.rs`, `version_advisory.rs`, `observability.rs`, `bearer.rs`,
  `secret.rs`: stateless text and logging; the audit sink's reopen on SIGHUP never
  stops a reload.
* TLS setup and certificate pinning (`client.rs`), argument parsing (`cli.rs`), the
  audit key file and the stale-secret scan (`main.rs`): start-up I/O with no later
  effect on the state modelled here.
* Session, in-flight and rate limiting, Host and Origin checks: `mecmcp_transport`;
  only the values this repository passes to it are modelled.
* Which fields each typed read extracts (facts, licences, content, software, HA):
  one call of a modelled reader per field.
