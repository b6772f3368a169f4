-------------------------------- MODULE Runtime --------------------------------
(***************************************************************************)
(* The process around the tools: the command line (cli_validate.rs), the     *)
(* inventory and token files (inventory.rs, token_cmd.rs), the snapshot that *)
(* SIGHUP replaces (main.rs, RuntimeState in lib.rs), and a call on its way   *)
(* from the bearer boundary (http_transport.rs) through its handler (lib.rs) *)
(* and the service it picked up (tools.rs) to a device.                      *)
(*                                                                           *)
(* An inventory is a record: the devices, the policy keys, and the defects    *)
(* its loading would meet.  `ver' counts the writes to a file.  Calls share   *)
(* nothing but the snapshot, so one call at a time shows what many do.        *)
(***************************************************************************)
EXTENDS Integers, FiniteSets

CONSTANTS
    None,
    Options,      \* command lines
    Inventories,  \* what the inventory file may hold
    TokenNames,
    Grants,       \* the scope arguments of `token add' and `token set-scopes'
    Requests,     \* [tool, device, arg] a client may ask for
    MaxInvEdits,  \* bound on the writes to the inventory file
    MaxEdits,     \* bound on the writes to the token file
    MaxSecret     \* bound on the secrets issued

ASSUME RuntimeAssumption == {MaxInvEdits, MaxEdits, MaxSecret} \subseteq Nat

\* What clap, serde and the token parser make of their inputs.
ASSUME OptionsAssumption ==
    \A o \in Options : {o.http, o.tokens, o.noAuth, o.loopback} \subseteq BOOLEAN

ASSUME InventoriesAssumption ==
    \A f \in Inventories :
        /\ f.mode \in {"", "allowlist", "blocklist"}
        /\ f.deny = [d \in f.devices |-> f.deny[d]]
        /\ f.hide = [d \in f.devices |-> f.hide[d]]

ASSUME GrantsAssumption == \A g \in Grants : {g.roots, g.actions} \subseteq BOOLEAN

\* A token file's entries, and the stores they make up.
Entries == [secret : 1..MaxSecret, devices : {g.devices : g \in Grants},
            tools : {g.tools : g \in Grants}, grant : BOOLEAN]
Stores == [TokenNames -> {None} \cup Entries]

\* None stands for an absent deny policy, entry, store or scope argument.
ASSUME NoneAssumption ==
    /\ \A f \in Inventories :
        None \notin {[commands |-> c, xpath |-> f.hide] : c \in {f.deny, [d \in f.devices |-> {}]}}
    /\ None \notin Stores
    /\ None \notin Grants

VARIABLES
    opts,     \* the command line
    up,       \* has the server started
    boot,     \* the snapshot build_router saw
    inv,      \* inventory file: [is, ver]
    toks,     \* token file: [ok, ver, entries]
    secrets,  \* number of secrets issued
    hup,      \* a SIGHUP is pending
    told,     \* no file was written since the last SIGHUP
    loader,   \* the reload under way
    snap,     \* RuntimeState::current
    call,     \* the call under way
    cmd       \* the token command under way

vars == <<opts, up, boot, inv, toks, secrets, hup, told, loader, snap, call, cmd>>
files == <<inv, toks, secrets>>

Any == "*"

-----------------------------------------------------------------------------
(* Tools, and what their handlers ask of the caller beyond authorize *)
Changing ==
    {"commit_panos_candidate", "apply_panos_change_set", "approve_panos_change_set",
     "create_panos_change_set", "discard_panos_candidate", "stage_panos_config"}
Listed ==
    {"diff_panos_candidate", "get_candidate_fingerprint", "get_panos_change_set",
     "get_panos_operation", "query_panos_logs", "validate_panos_candidate"}

\* Faulty: the approval tool was not added to the list.
ShortToolList == Listed \cup (Changing \ {"approve_panos_change_set"})

MutationTools == Listed \cup Changing

ChangeSetHandlers ==
    [create_panos_change_set |-> "grant", approve_panos_change_set |-> "principal",
     get_panos_change_set |-> "principal", apply_panos_change_set |-> "grant"]

CandidateHandlers ==
    [get_candidate_fingerprint |-> "caller", stage_panos_config |-> "grant",
     diff_panos_candidate |-> "principal", validate_panos_candidate |-> "principal",
     commit_panos_candidate |-> "principal", discard_panos_candidate |-> "principal",
     get_panos_operation |-> "principal"]

\* every other handler calls authorize only
Demands(tool) ==
    IF tool \in DOMAIN ChangeSetHandlers THEN ChangeSetHandlers[tool]
    ELSE IF tool \in DOMAIN CandidateHandlers THEN CandidateHandlers[tool]
    ELSE "caller"

OpTools == {"execute_panos_op", "test_panos_security_policy_match"}
XPathTools == {"get_panos_config", "list_panos_entries", "list_panos_rulebase_entries",
               "list_panorama_templates", "get_panos_entry_digest"}

-----------------------------------------------------------------------------
(* cli_validate.rs, http_transport.rs *)

\* Faulty: the loopback rule for --allow-no-auth was lost.
OptionsAnywhere(o) == o.http => o.tokens # o.noAuth

\* MAX_RATE_PER_MINUTE
MaxRatePerMinute == 100000

\* validate; every path absolute, hosts and origins well-formed unless `bad'
ValidOptions(o) ==
    /\ ~o.bad
    /\ o.http =>
        /\ o.tokens # o.noAuth
        /\ o.noAuth => o.loopback
        /\ ~o.loopback => (o.tls \/ o.insecure) /\ o.hosts /\ o.origins
        /\ o.quota \in 1..MaxRatePerMinute

\* Faulty: truncating division.
PerSecondDown(q) == q \div 60

\* per_minute_to_per_second
PerSecond(q) == (q + 59) \div 60

-----------------------------------------------------------------------------
(* inventory.rs: what each reader of the file checks *)
NameChecks == {"read", "json", "version", "empty", "duplicate", "identifier"}
DeviceChecks == {"endpoint", "limits", "tags"}
PolicyChecks == {"admin", "roots"}
SecretChecks == {"key", "ca", "fingerprint"}
PatternChecks == {"pattern"}

\* Inventory::device_names
NamesReadable(f) == f.defects \cap NameChecks = {}

\* Inventory::load and PanosService::build
Loads(f) ==
    f.defects \cap (NameChecks \cup DeviceChecks \cup PolicyChecks
                        \cup SecretChecks \cup PatternChecks) = {}

\* Faulty: without a mode the policy is fail-open.
ModeOpen(f) == IF f.mode = "" THEN "blocklist" ELSE f.mode

\* the policy mode of Inventory::load_with_environment
PolicyMode(f) ==
    IF f.mode # "" THEN f.mode
    ELSE IF \E d \in f.devices : f.deny[d] # {} THEN "blocklist" ELSE "allowlist"

\* build_deny_policy: None when no device has a rule
DenyPolicy(f) ==
    LET commands == [d \in f.devices |-> IF PolicyMode(f) = "blocklist" THEN f.deny[d] ELSE {}]
    IN IF \A d \in f.devices : commands[d] = {} /\ f.hide[d] = {} THEN None
       ELSE [commands |-> commands, xpath |-> f.hide]

\* build_command_allowlists: empty in blocklist mode
Allowlists(f) ==
    IF PolicyMode(f) # "allowlist" THEN [d \in {} |-> {}]
    ELSE [d \in f.devices |-> f.allow \cup f.allowOf[d]]

\* check_command_policy
CommandPasses(f, d, command) ==
    IF PolicyMode(f) = "allowlist"
    THEN d \in DOMAIN Allowlists(f) /\ command \in Allowlists(f)[d]
    ELSE \/ DenyPolicy(f) = None
         \/ d \notin f.devices
         \/ command \notin DenyPolicy(f).commands[d]

\* check_xpath_policy
XPathPasses(f, d, xpath) ==
    DenyPolicy(f) = None \/ d \notin f.devices \/ xpath \notin DenyPolicy(f).xpath[d]

-----------------------------------------------------------------------------
(* Snapshots.  A service has the inventory it was built from, and the        *)
(* coordinator, evidence recorder and flags of the process.                  *)
Posture(o) == [coordinator |-> "boot", lab |-> o.lab, direct |-> o.direct, plane |-> o.plane]

\* PanosService::new_with_options
NewService(o) == [is |-> inv.is, ver |-> inv.ver, keeps |-> Posture(o)]

\* PanosService::reload
ReloadedService(previous) == [is |-> inv.is, ver |-> inv.ver, keeps |-> previous.keeps]

Snapshot(service, tokens, ver) == [service |-> service, tokens |-> tokens, tokVer |-> ver]

TokenPath == opts.http /\ opts.tokens

Idle == [pc |-> "idle"]

Init ==
    /\ opts \in Options /\ up = FALSE /\ boot = None /\ snap = None
    /\ inv \in {[is |-> f, ver |-> 0] : f \in Inventories}
    /\ toks = [ok |-> TRUE, ver |-> 0, entries |-> [n \in TokenNames |-> None]]
    /\ secrets = 0 /\ hup = FALSE /\ told = FALSE
    /\ loader = Idle /\ call = Idle /\ cmd = Idle

\* main: refuse the command line, or load the runtime and serve
Start ==
    /\ ~up /\ ValidOptions(opts) /\ Loads(inv.is)
    /\ TokenPath => toks.ok
    /\ up' = TRUE
    /\ snap' = IF TokenPath THEN Snapshot(NewService(opts), toks.entries, toks.ver)
               ELSE Snapshot(NewService(opts), None, 0)
    /\ boot' = snap'
    /\ UNCHANGED <<opts, files, hup, told, loader, call, cmd>>

-----------------------------------------------------------------------------
(* The reload handler.  A signal that arrives while it works stays pending.  *)

\* `while hangup.recv().await', then RuntimeState::reload reads the inventory.
ReloadInventory ==
    /\ up /\ hup /\ loader = Idle
    /\ hup' = FALSE
    /\ loader' = IF Loads(inv.is)
                 THEN [pc |-> "tokens", service |-> ReloadedService(snap.service),
                       inv |-> inv.ver, tok |-> toks.ver]
                 ELSE Idle
    /\ UNCHANGED <<opts, up, boot, files, told, snap, call, cmd>>

\* Faulty: a token file that does not load leaves the old tokens in the new snapshot.
ReloadKeepsTokens ==
    /\ loader.pc = "tokens"
    /\ loader' = Idle
    /\ snap' = IF TokenPath /\ toks.ok THEN Snapshot(loader.service, toks.entries, toks.ver)
               ELSE [snap EXCEPT !.service = loader.service]
    /\ UNCHANGED <<opts, up, boot, files, hup, told, call, cmd>>

\* load_snapshot reads the token file; reload publishes both or neither.
ReloadTokens ==
    /\ loader.pc = "tokens"
    /\ loader' = Idle
    /\ snap' = IF ~TokenPath THEN Snapshot(loader.service, None, 0)
               ELSE IF toks.ok THEN Snapshot(loader.service, toks.entries, toks.ver)
               ELSE snap
    /\ UNCHANGED <<opts, up, boot, files, hup, told, call, cmd>>

\* Faulty: a signal is taken only by an idle handler.
HangupIfIdle(sent) ==
    hup' = (hup \/ (sent /\ up /\ loader = Idle)) /\ told' = (told \/ (sent /\ up))

\* the kernel and tokio::signal keep one pending notification
Hangup(sent) == hup' = (hup \/ (sent /\ up)) /\ told' = (told \/ (sent /\ up))

-----------------------------------------------------------------------------
(* Operators: editors, kill -HUP, and the token commands *)
EditInventory(f) ==
    /\ inv.ver < MaxInvEdits
    /\ inv' = [is |-> f, ver |-> inv.ver + 1]
    /\ told' = FALSE
    /\ UNCHANGED <<opts, up, boot, toks, secrets, hup, loader, snap, call, cmd>>

\* The token file is damaged, or put right again.
EditTokens ==
    /\ TokenPath /\ toks.ver < IF cmd.pc = "write" THEN MaxEdits - 1 ELSE MaxEdits
    /\ toks' = [toks EXCEPT !.ok = ~@, !.ver = @ + 1]
    /\ told' = FALSE
    /\ UNCHANGED <<opts, up, boot, inv, secrets, hup, loader, snap, call, cmd>>

KillHup ==
    /\ up /\ Hangup(TRUE)
    /\ UNCHANGED <<opts, up, boot, files, loader, snap, call, cmd>>

\* parse_scope
ValidScope(S) == S # {} /\ (Any \in S => S = {Any})

\* token_cmd::run Add, parse_mutation_grant and MutationGrant::validate
ValidAdd(g, known) ==
    /\ ValidScope(g.devices) /\ ValidScope(g.tools)
    /\ g.devices # {Any} => g.devices \subseteq known
    /\ g.roots <=> g.actions

Entry(g, secret) ==
    [secret |-> secret, devices |-> g.devices, tools |-> g.tools, grant |-> g.roots /\ g.actions]

\* main: Inventory::device_names is read before every token command.  A token
\* file that the server does not use is left out.
TokenCommand(op, n, g) ==
    /\ TokenPath /\ cmd = Idle /\ toks.ver < MaxEdits
    /\ op \in {"add", "rotate"} => secrets < MaxSecret
    /\ cmd' = IF NamesReadable(inv.is)
              THEN [pc |-> "write", op |-> op, name |-> n, args |-> g, known |-> inv.is.devices]
              ELSE Idle
    /\ UNCHANGED <<opts, up, boot, files, hup, told, loader, snap, call>>

\* set-scopes: the secret stays, and so does the grant unless a new one is given.
Rescoped(e, g) ==
    [e EXCEPT !.devices = g.devices, !.tools = g.tools, !.grant = @ \/ (g.roots /\ g.actions)]

\* TokenStoreFile::{add_with_options, revoke, rotate}, and set-scopes confirmed
Written(c) ==
    LET e == toks.entries[c.name] IN
    CASE c.op = "add" /\ e = None /\ ValidAdd(c.args, c.known) -> Entry(c.args, secrets + 1)
      [] c.op = "scopes" /\ e # None /\ ValidAdd(c.args, c.known) -> Rescoped(e, c.args)
      [] c.op = "rotate" /\ e # None -> [e EXCEPT !.secret = secrets + 1]
      [] c.op = "revoke" -> None
      [] OTHER -> e

WriteTokens ==
    /\ cmd.pc = "write"
    /\ LET e == toks.entries[cmd.name]
           new == Written(cmd)
       IN IF ~toks.ok \/ new = e
          THEN cmd' = Idle /\ UNCHANGED <<toks, secrets, told>>
          ELSE /\ toks' = [toks EXCEPT !.entries[cmd.name] = new, !.ver = @ + 1]
               /\ secrets' = IF cmd.op \in {"add", "rotate"} THEN secrets + 1 ELSE secrets
               /\ told' = FALSE
               /\ cmd' = [pc |-> "signal"]
    /\ UNCHANGED <<opts, up, boot, inv, hup, loader, snap, call>>

\* signal_reload, with and without --server-pid
SignalReload(pid) ==
    /\ cmd.pc = "signal" /\ Hangup(pid)
    /\ cmd' = Idle
    /\ UNCHANGED <<opts, up, boot, files, loader, snap, call>>

-----------------------------------------------------------------------------
(* Calls *)
Send(r, secret) ==
    /\ up /\ call = Idle
    /\ boot.tokens = None => secret = None
    /\ call' = [pc |-> "sent", req |-> r, secret |-> secret, sent |-> snap.tokVer]
    /\ UNCHANGED <<opts, up, boot, files, hup, told, loader, snap, cmd>>

\* Faulty: the closure keeps the store build_router saw.
BootStore == boot

\* the closure of BearerAuthenticator reads the snapshot for every request
TokenStore == snap

\* store.authenticate
Holders(store, secret) ==
    {n \in TokenNames : store.tokens[n] # None /\ store.tokens[n].secret = secret}

Authenticated(caller, seen) ==
    [pc |-> "known", req |-> call.req, caller |-> caller, sent |-> call.sent,
     seen |-> seen, inv |-> snap.service.ver]

\* build_router: the boundary exists when the first snapshot had tokens
Authenticate ==
    /\ call.pc = "sent"
    /\ call' = IF boot.tokens = None THEN Authenticated(None, call.sent)
               ELSE LET names == Holders(TokenStore, call.secret) IN
                    IF names = {} THEN Idle
                    ELSE Authenticated(TokenStore.tokens[CHOOSE n \in names : TRUE],
                                       TokenStore.tokVer)
    /\ UNCHANGED <<opts, up, boot, files, hup, told, loader, snap, cmd>>

\* ScopeSet::allows_tool, ScopeSet::allows
AllowsTool(scope, tool) ==
    IF scope = {Any} THEN tool \notin MutationTools ELSE tool \in scope
AllowsDevice(scope, d) == scope = {Any} \/ d \in scope

\* authorize
Authorized(caller, r) ==
    IF caller = None THEN ~opts.http
    ELSE /\ AllowsTool(caller.tools, r.tool)
         /\ r.device # None => AllowsDevice(caller.devices, r.device)

\* mutation_principal, mutation_identity
Identified(caller, tool) ==
    /\ Demands(tool) \in {"principal", "grant"} => caller # None \/ ~opts.http
    /\ Demands(tool) = "grant" /\ caller # None => caller.grant

\* the handler: authorize, identify, pick up the current service
Handle ==
    /\ call.pc = "known"
    /\ call' = IF Authorized(call.caller, call.req) /\ Identified(call.caller, call.req.tool)
               THEN [pc |-> "run", req |-> call.req, caller |-> call.caller, sent |-> call.sent,
                     seen |-> call.seen, inv |-> call.inv, service |-> snap.service]
               ELSE Idle
    /\ UNCHANGED <<opts, up, boot, files, hup, told, loader, snap, cmd>>

\* the service: the tool's policy, then the device's client
Dispatch ==
    /\ call.pc = "run" /\ call.req.device # None
    /\ LET f == call.service.is
           r == call.req
           passes == /\ r.tool \in OpTools => CommandPasses(f, r.device, r.arg)
                     /\ r.tool \in XPathTools => XPathPasses(f, r.device, r.arg)
                     /\ r.device \in f.devices
       IN call' = IF passes THEN [call EXCEPT !.pc = "device"] ELSE Idle
    /\ UNCHANGED <<opts, up, boot, files, hup, told, loader, snap, cmd>>

\* list_devices keeps the devices the caller may see
ListDevices ==
    /\ call.pc = "run" /\ call.req.device = None
    /\ call' = [pc |-> "listed", req |-> call.req, caller |-> call.caller,
                shown |-> {d \in call.service.is.devices :
                            call.caller = None \/ AllowsDevice(call.caller.devices, d)}]
    /\ UNCHANGED <<opts, up, boot, files, hup, told, loader, snap, cmd>>

Return ==
    /\ call.pc \in {"device", "listed"}
    /\ call' = Idle
    /\ UNCHANGED <<opts, up, boot, files, hup, told, loader, snap, cmd>>

Next ==
    \/ Start \/ ReloadInventory \/ ReloadTokens \/ KillHup
    \/ \E f \in Inventories : EditInventory(f)
    \/ EditTokens
    \/ \E n \in TokenNames :
            \/ \E op \in {"add", "scopes"}, g \in Grants : TokenCommand(op, n, g)
            \/ \E op \in {"rotate", "revoke"} : TokenCommand(op, n, None)
    \/ WriteTokens
    \/ \E pid \in BOOLEAN : SignalReload(pid)
    \/ \E r \in Requests, secret \in {None} \cup 1..secrets : Send(r, secret)
    \/ Authenticate \/ Handle \/ Dispatch \/ ListDevices \/ Return

\* The reload task is spawned once and is never cancelled.
Spec == Init /\ [][Next]_vars /\ WF_vars(ReloadInventory \/ ReloadTokens)

-----------------------------------------------------------------------------
Served == call.pc \in {"device", "listed"}

\* No request over HTTP is served without an authenticated caller, also under
\* --allow-no-auth, where the transport lets every request through to the handlers
\* (authorize); and a wildcard token never changes anything: a request that reached
\* a device with a tool that changes candidate, plan or approval came with a token
\* that names the tool, and holds a grant where edits are chosen.
ServedIsEntitled ==
    opts.http /\ Served =>
        /\ call.caller # None
        /\ call.pc = "device" /\ call.req.tool \in Changing =>
            /\ call.req.tool \in call.caller.tools
            /\ call.req.tool \in {"create_panos_change_set", "apply_panos_change_set",
                                  "stage_panos_config"} => call.caller.grant

\* A request is judged by the token store in force while it is under way, and runs
\* on a service no older than that: after a reload without it, a revoked token
\* opens no further request (build_router, RuntimeState::snapshot).
JudgedByLiveStore ==
    call.pc \in {"known", "run", "device"} =>
        /\ call.seen >= call.sent
        /\ call.pc # "known" => call.service.ver >= call.inv

\* A published snapshot is one load: both of its files were read after the signal
\* that caused it, so that a reload that cannot read one file changes nothing.
SnapshotIsOneLoad ==
    [][up /\ snap' # snap =>
        /\ snap'.service.ver >= loader.inv
        /\ snap'.tokVer >= (IF TokenPath THEN loader.tok ELSE 0)]_vars

\* A SIGHUP cannot change who must approve or what may be committed: every service,
\* also the one a slow call still uses, has the coordinator and the flags of the
\* command line.
PostureIsKept ==
    /\ up => snap.service.keeps = Posture(opts)
    /\ call.pc \in {"run", "device"} => call.service.keeps = Posture(opts)

\* An operational command that reaches a device is allowed by the inventory: it is
\* on the common or the device's allowlist, or the operator chose deny rules (by
\* the mode, or by writing one) and none of this device names it.  A configuration
\* path a device hides is never read from it, whatever mode governs its commands.
CommandsFollowPolicy ==
    call.pc = "device" =>
        LET f == call.service.is
            d == call.req.device
            x == call.req.arg
            denies == \/ f.mode = "blocklist"
                      \/ f.mode = "" /\ \E e \in f.devices : f.deny[e] # {}
        IN /\ call.req.tool \in OpTools =>
                 x \in f.allow \cup f.allowOf[d] \/ (denies /\ x \notin f.deny[d])
           /\ call.req.tool \in XPathTools => x \notin f.hide[d]

\* A server that listens beyond loopback has a token store, through every reload,
\* and, unless told otherwise, TLS; its request quota is neither switched off nor loosened by a
\* whole request per second.
ListenerIsGuarded ==
    up /\ opts.http =>
        /\ ~opts.loopback => snap.tokens # None /\ (opts.tls \/ opts.insecure)
        /\ LET rate == PerSecond(opts.quota)
           IN rate > 0 /\ 60 * (rate - 1) < opts.quota /\ opts.quota <= 60 * rate

InForce == snap.service.ver = inv.ver /\ (TokenPath => snap.tokVer = toks.ver)

\* Once the last change of the files has been signalled, and they load, the server
\* comes to use them: no signal is lost to a reload that is under way.
SignalIsObeyed ==
    (up /\ told /\ Loads(inv.is) /\ toks.ok) ~> (~told \/ InForce)
=============================================================================
