----------------------------- MODULE RuntimeProofs -----------------------------
(***************************************************************************)
(* Proofs about Runtime: who is served, by which store and policy, and what *)
(* a reload keeps, for every set of command lines, inventories, grants and   *)
(* requests and every number of writes.                                      *)
(***************************************************************************)
EXTENDS Runtime, TLAPS

-----------------------------------------------------------------------------
(* The inductive invariant. *)

Services == [is : Inventories, ver : Nat, keeps : {Posture(o) : o \in Options}]
Snapshots == [service : Services, tokens : {None} \cup Stores, tokVer : Nat]
Callers == {None} \cup Entries

Loaders == {Idle} \cup [pc : {"tokens"}, service : Services, inv : Nat, tok : Nat]

SentCalls == [pc : {"sent"}, req : Requests, secret : {None} \cup 1..MaxSecret, sent : Nat]
KnownCalls == [pc : {"known"}, req : Requests, caller : Callers, sent : Nat, seen : Nat, inv : Nat]
RunCalls == [pc : {"run", "device"}, req : Requests, caller : Callers, sent : Nat, seen : Nat,
             inv : Nat, service : Services]
ListedCalls == [pc : {"listed"}, req : Requests, caller : Callers,
                shown : SUBSET UNION {f.devices : f \in Inventories}]
CallsOfType == {Idle} \cup SentCalls \cup KnownCalls \cup RunCalls \cup ListedCalls

Writes == [pc : {"write"}, op : {"add", "scopes", "rotate", "revoke"}, name : TokenNames,
           args : Grants \cup {None}, known : {f.devices : f \in Inventories}]

\* Every variable of the process holds a value of its type, and a token command
\* that will issue a secret has one left.
RuntimeTypeOK ==
    /\ opts \in Options
    /\ up \in BOOLEAN /\ hup \in BOOLEAN /\ told \in BOOLEAN
    /\ inv \in [is : Inventories, ver : Nat]
    /\ toks \in [ok : BOOLEAN, ver : Nat, entries : Stores]
    /\ secrets \in 0..MaxSecret
    /\ up => snap \in Snapshots /\ boot \in Snapshots
    /\ loader \in Loaders
    /\ call \in CallsOfType
    /\ cmd \in {Idle, [pc |-> "signal"]} \cup Writes
    /\ cmd.pc = "write" =>
        /\ cmd.op \in {"add", "rotate"} => secrets < MaxSecret
        /\ cmd.op \in {"add", "scopes"} => cmd.args \in Grants

\* Nothing runs before the server does, and it runs on a valid command line.
StartInv ==
    IF up THEN ValidOptions(opts) ELSE loader = Idle /\ call = Idle

\* A snapshot is no newer than the files, has the command line's posture, and has
\* a store exactly when the command line names a token file; so had the first one,
\* from which build_router chose the boundary.
SnapInv ==
    up => /\ snap.service.keeps = Posture(opts)
          /\ snap.service.ver <= inv.ver
          /\ snap.tokVer <= toks.ver
          /\ snap.tokens = None <=> ~TokenPath
          /\ boot.tokens = None <=> ~TokenPath
          /\ ~TokenPath => snap.tokVer = 0

\* The service of a reload under way lies between the published one and the file.
LoaderInv ==
    loader.pc = "tokens" =>
        /\ loader.service.keeps = Posture(opts)
        /\ snap.service.ver <= loader.service.ver
        /\ loader.inv <= loader.service.ver
        /\ loader.service.ver <= inv.ver
        /\ loader.tok <= toks.ver

\* What a call has seen so far is no newer than the snapshot, and its service is no
\* older than the one it was authenticated under.
CallInv ==
    /\ call.pc = "sent" => call.sent <= snap.tokVer
    /\ call.pc = "known" => call.sent <= call.seen /\ call.inv <= snap.service.ver
    /\ call.pc \in {"run", "device"} =>
        /\ call.sent <= call.seen
        /\ call.inv <= call.service.ver
        /\ call.service.keeps = Posture(opts)
        /\ Identified(call.caller, call.req.tool)
    /\ call.pc \in {"run", "device", "listed"} => Authorized(call.caller, call.req)

RuntimeInv ==
    /\ RuntimeTypeOK
    /\ StartInv
    /\ SnapInv
    /\ LoaderInv
    /\ CallInv
    /\ CommandsFollowPolicy

-----------------------------------------------------------------------------
(* The parts that most actions leave alone. *)

\* A step that changes neither a call nor the snapshot keeps what is said of calls.
LEMMA CallKept ==
    ASSUME CallInv, CommandsFollowPolicy, UNCHANGED <<opts, call, snap>>
    PROVE  CallInv' /\ CommandsFollowPolicy'
BY DEF CallInv, CommandsFollowPolicy, Identified, Authorized

\* Before main runs, the files are any files that can be there, and nothing is loaded.
LEMMA InitHolds == Init => RuntimeInv
<1> SUFFICES ASSUME Init PROVE RuntimeInv
  OBVIOUS
<1>1. inv \in [is : Inventories, ver : Nat]
  BY DEF Init
<1>2. toks \in [ok : BOOLEAN, ver : Nat, entries : Stores]
  BY DEF Init, Stores
<1>3. loader \in Loaders /\ call \in CallsOfType /\ cmd = Idle /\ cmd.pc # "write"
  BY DEF Init, Loaders, CallsOfType, Idle
<1>4. opts \in Options /\ up = FALSE /\ hup = FALSE /\ told = FALSE /\ secrets \in 0..MaxSecret
  BY RuntimeAssumption DEF Init
<1>5. RuntimeTypeOK
  BY <1>1, <1>2, <1>3, <1>4 DEF RuntimeTypeOK
<1>6. StartInv /\ SnapInv /\ LoaderInv /\ CallInv /\ CommandsFollowPolicy
  BY DEF Init, StartInv, SnapInv, LoaderInv, CallInv, CommandsFollowPolicy, Idle
<1> QED
  BY <1>5, <1>6 DEF RuntimeInv

\* main: the first snapshot.
LEMMA StartPreserves == RuntimeInv /\ Start => RuntimeInv'
<1> SUFFICES ASSUME RuntimeInv, Start PROVE RuntimeInv'
  OBVIOUS
<1> USE DEF RuntimeInv, Start, files
<1>1. snap' \in Snapshots /\ boot' \in Snapshots
  <2>1. NewService(opts) \in Services
    BY DEF RuntimeTypeOK, Services, NewService
  <2>2. toks.entries \in Stores /\ toks.ver \in Nat
    BY DEF RuntimeTypeOK
  <2> QED
    BY <2>1, <2>2 DEF Snapshots, Snapshot
<1>2. RuntimeTypeOK'
  BY <1>1 DEF RuntimeTypeOK
<1>3. StartInv'
  <2>1. up' /\ opts' = opts /\ ValidOptions(opts)
    OBVIOUS
  <2> QED
    BY <2>1, Zenon DEF StartInv
<1>5. loader' = Idle /\ call' = Idle
  BY DEF StartInv
<1>6. LoaderInv' /\ CallInv' /\ CommandsFollowPolicy'
  BY <1>5 DEF LoaderInv, CallInv, CommandsFollowPolicy, Idle
<1>4. SnapInv'
  BY NoneAssumption DEF SnapInv, RuntimeTypeOK, NewService, Snapshot, TokenPath
<1> QED
  BY <1>2, <1>3, <1>4, <1>6

\* RuntimeState::reload reads the inventory.
LEMMA ReloadInventoryPreserves == RuntimeInv /\ ReloadInventory => RuntimeInv'
<1> SUFFICES ASSUME RuntimeInv, ReloadInventory PROVE RuntimeInv'
  OBVIOUS
<1> USE DEF RuntimeInv, ReloadInventory, files
<1>1. loader' \in Loaders
  BY DEF RuntimeTypeOK, SnapInv, Loaders, Services, Snapshots, ReloadedService
<1>2. RuntimeTypeOK'
  BY <1>1 DEF RuntimeTypeOK
<1>3. StartInv' /\ SnapInv'
  BY DEF StartInv, SnapInv, TokenPath
<1>4. LoaderInv'
  BY DEF LoaderInv, SnapInv, RuntimeTypeOK, Snapshots, Services, ReloadedService, Idle
<1> QED
  BY <1>2, <1>3, <1>4, CallKept

\* load_snapshot reads the token file, and both are published.
LEMMA ReloadTokensPreserves == RuntimeInv /\ ReloadTokens => RuntimeInv'
<1> SUFFICES ASSUME RuntimeInv, ReloadTokens PROVE RuntimeInv'
  OBVIOUS
<1> USE DEF RuntimeInv, ReloadTokens, files
<1>1. up /\ loader \in [pc : {"tokens"}, service : Services, inv : Nat, tok : Nat]
  BY DEF RuntimeTypeOK, Loaders, StartInv, Idle
<1>2. snap' \in Snapshots
  BY <1>1 DEF RuntimeTypeOK, Snapshots, Snapshot
<1>3. RuntimeTypeOK'
  BY <1>1, <1>2 DEF RuntimeTypeOK, Loaders
<1>4. StartInv' /\ LoaderInv'
  BY <1>1 DEF StartInv, LoaderInv, Idle
<1>5. SnapInv'
  BY <1>1, NoneAssumption DEF SnapInv, LoaderInv, RuntimeTypeOK, Snapshot, TokenPath, Snapshots
<1>6. snap.tokVer <= snap'.tokVer /\ snap.service.ver <= snap'.service.ver
  BY <1>1 DEF SnapInv, LoaderInv, RuntimeTypeOK, Snapshot, TokenPath, Snapshots, Services
<1>7. CallInv'
  BY <1>1, <1>2, <1>6 DEF CallInv, RuntimeTypeOK, CallsOfType, SentCalls, KnownCalls, RunCalls,
     ListedCalls, Idle, Snapshots, Services, Identified, Authorized
<1>8. CommandsFollowPolicy'
  BY DEF CommandsFollowPolicy
<1> QED
  BY <1>3, <1>4, <1>5, <1>7, <1>8

\* kill -HUP, and the signal at the end of a token command.
LEMMA SignalPreserves ==
    RuntimeInv /\ (KillHup \/ \E pid \in BOOLEAN : SignalReload(pid)) => RuntimeInv'
<1> SUFFICES ASSUME RuntimeInv, KillHup \/ \E pid \in BOOLEAN : SignalReload(pid)
             PROVE  RuntimeInv'
  OBVIOUS
<1>1. /\ UNCHANGED <<opts, up, boot, files, loader, snap, call>>
      /\ hup' \in BOOLEAN /\ told' \in BOOLEAN
      /\ cmd' = cmd \/ cmd' = Idle
  BY DEF RuntimeInv, RuntimeTypeOK, KillHup, SignalReload, Hangup
<1>2. RuntimeTypeOK'
  BY <1>1 DEF RuntimeInv, RuntimeTypeOK, files, Idle
<1>3. StartInv' /\ SnapInv' /\ LoaderInv'
  BY <1>1 DEF RuntimeInv, StartInv, SnapInv, LoaderInv, TokenPath, files
<1> QED
  BY <1>1, <1>2, <1>3, CallKept DEF RuntimeInv

\* An operator writes the inventory file.
LEMMA EditInventoryPreserves ==
    ASSUME RuntimeInv, NEW f \in Inventories, EditInventory(f)
    PROVE  RuntimeInv'
<1> USE DEF RuntimeInv, EditInventory
<1>1. inv' \in [is : Inventories, ver : Nat] /\ inv'.ver = inv.ver + 1
  BY DEF RuntimeTypeOK
<1>2. inv.ver <= inv'.ver /\ inv.ver \in Nat /\ inv'.ver \in Nat
  BY <1>1 DEF RuntimeTypeOK
<1>5. RuntimeTypeOK'
  BY <1>1 DEF RuntimeTypeOK
<1>3. SnapInv' /\ LoaderInv'
  BY <1>2 DEF SnapInv, LoaderInv, RuntimeTypeOK, StartInv, TokenPath, Snapshots, Services, Loaders, Idle
<1>4. StartInv'
  BY DEF StartInv
<1> QED
  BY <1>3, <1>4, <1>5, CallKept

\* The token file is damaged or put right.
LEMMA EditTokensPreserves == RuntimeInv /\ EditTokens => RuntimeInv'
<1> SUFFICES ASSUME RuntimeInv, EditTokens PROVE RuntimeInv'
  OBVIOUS
<1> USE DEF RuntimeInv, EditTokens
<1>1. toks' \in [ok : BOOLEAN, ver : Nat, entries : Stores] /\ toks'.ver = toks.ver + 1
  <2>1. toks.ok \in BOOLEAN /\ toks.ver \in Nat /\ toks.entries \in Stores
    BY DEF RuntimeTypeOK
  <2> DEFINE flipped == ~toks.ok
  <2>2. toks' = [ok |-> flipped, ver |-> toks.ver + 1, entries |-> toks.entries]
    BY DEF RuntimeTypeOK
  <2>3. flipped \in BOOLEAN
    OBVIOUS
  <2> HIDE DEF flipped
  <2> QED
    BY <2>1, <2>2, <2>3
<1>2. RuntimeTypeOK'
  BY <1>1 DEF RuntimeTypeOK
<1>3. SnapInv' /\ LoaderInv'
  BY <1>1 DEF SnapInv, LoaderInv, RuntimeTypeOK, StartInv, TokenPath, Snapshots, Services, Loaders, Idle
<1>4. StartInv'
  BY DEF StartInv
<1> QED
  BY <1>2, <1>3, <1>4, CallKept

\* A token command starts.
LEMMA TokenCommandPreserves ==
    ASSUME RuntimeInv, NEW n \in TokenNames, NEW op \in {"add", "scopes", "rotate", "revoke"},
           NEW g \in Grants \cup {None}, op \in {"add", "scopes"} => g \in Grants,
           TokenCommand(op, n, g)
    PROVE  RuntimeInv'
<1> USE DEF RuntimeInv, TokenCommand, files
<1>1. cmd' \in {Idle} \cup Writes
  BY DEF RuntimeTypeOK, Writes
<1>2. RuntimeTypeOK'
  BY <1>1 DEF RuntimeTypeOK, Idle
<1>3. StartInv' /\ SnapInv' /\ LoaderInv'
  BY DEF StartInv, SnapInv, LoaderInv, TokenPath
<1> QED
  BY <1>2, <1>3, CallKept

\* What a token command writes is an entry or nothing.
LEMMA WrittenType ==
    ASSUME RuntimeInv, cmd.pc = "write"
    PROVE  Written(cmd) \in {None} \cup Entries
<1>1. cmd \in Writes
  BY DEF RuntimeInv, RuntimeTypeOK, Idle
<1>2. toks.entries[cmd.name] \in {None} \cup Entries
  BY <1>1 DEF RuntimeInv, RuntimeTypeOK, Stores, Writes
<1>3. CASE cmd.op = "add"
  <2>1. secrets + 1 \in 1..MaxSecret /\ cmd.args \in Grants
    BY <1>3, RuntimeAssumption DEF RuntimeInv, RuntimeTypeOK
  <2>2. Entry(cmd.args, secrets + 1) \in Entries
    BY <2>1, GrantsAssumption DEF Entry, Entries
  <2> QED
    BY <1>2, <1>3, <2>2 DEF Written
<1>4. CASE cmd.op = "scopes"
  <2>1. cmd.args \in Grants
    BY <1>4 DEF RuntimeInv, RuntimeTypeOK
  <2>2. ASSUME NEW e \in Entries PROVE Rescoped(e, cmd.args) \in Entries
    BY <2>1, GrantsAssumption DEF Rescoped, Entries
  <2> QED
    BY <1>2, <1>4, <2>2 DEF Written
<1>5. CASE cmd.op = "rotate"
  <2>1. secrets + 1 \in 1..MaxSecret
    BY <1>5, RuntimeAssumption DEF RuntimeInv, RuntimeTypeOK
  <2>2. ASSUME NEW e \in Entries PROVE [e EXCEPT !.secret = secrets + 1] \in Entries
    BY <2>1 DEF Entries
  <2> QED
    BY <1>2, <1>5, <2>2 DEF Written
<1>6. CASE cmd.op = "revoke"
  BY <1>6 DEF Written
<1> QED
  BY <1>1, <1>3, <1>4, <1>5, <1>6 DEF Writes

\* A token command writes the file.
LEMMA WriteTokensPreserves == RuntimeInv /\ WriteTokens => RuntimeInv'
<1> SUFFICES ASSUME RuntimeInv, WriteTokens PROVE RuntimeInv'
  OBVIOUS
<1> USE DEF RuntimeInv, WriteTokens
<1>1. cmd \in Writes
  BY DEF RuntimeTypeOK, Idle
<1>2. /\ toks' \in [ok : BOOLEAN, ver : Nat, entries : Stores]
      /\ toks.ver <= toks'.ver
  <2> DEFINE new == [toks.entries EXCEPT ![cmd.name] = Written(cmd)]
  <2>1. toks.ok \in BOOLEAN /\ toks.ver \in Nat /\ toks.entries \in Stores
    BY DEF RuntimeTypeOK
  <2>2. new \in Stores
    BY <1>1, <2>1, WrittenType DEF Stores, Writes
  <2>3. \/ toks' = toks
        \/ toks' = [ok |-> toks.ok, ver |-> toks.ver + 1, entries |-> new]
    BY DEF RuntimeTypeOK
  <2> HIDE DEF new
  <2>4. CASE toks' = toks
    BY <2>1, <2>4 DEF RuntimeTypeOK
  <2>5. CASE toks' = [ok |-> toks.ok, ver |-> toks.ver + 1, entries |-> new]
    BY <2>1, <2>2, <2>5
  <2> QED
    BY <2>3, <2>4, <2>5
<1>3. secrets' \in 0..MaxSecret
  BY RuntimeAssumption DEF RuntimeTypeOK
<1>4. cmd' \in {Idle, [pc |-> "signal"]} /\ told' \in BOOLEAN
  BY DEF RuntimeTypeOK
<1>5. RuntimeTypeOK'
  BY <1>2, <1>3, <1>4 DEF RuntimeTypeOK, Idle
<1>6. SnapInv' /\ LoaderInv'
  BY <1>2 DEF SnapInv, LoaderInv, RuntimeTypeOK, StartInv, TokenPath, Snapshots, Services, Loaders, Idle
<1>7. StartInv'
  BY DEF StartInv
<1> QED
  BY <1>5, <1>6, <1>7, CallKept

-----------------------------------------------------------------------------
(* Calls *)

\* A step of a call leaves the files, the reload and the snapshot alone.
CallMoves == UNCHANGED <<opts, up, boot, inv, toks, secrets, hup, told, loader, snap, cmd>>

\* What such a step must show of the call.
LEMMA CallStepPreserves ==
    ASSUME RuntimeInv, CallMoves, call' \in CallsOfType, up, CallInv', CommandsFollowPolicy'
    PROVE  RuntimeInv'
<1>1. RuntimeTypeOK'
  BY DEF RuntimeInv, RuntimeTypeOK, CallMoves
<1>2. StartInv'
  BY Zenon DEF RuntimeInv, StartInv, CallMoves
<1>3. SnapInv' /\ LoaderInv'
  BY DEF RuntimeInv, SnapInv, LoaderInv, CallMoves, TokenPath
<1> QED
  BY <1>1, <1>2, <1>3 DEF RuntimeInv

\* A request arrives.
LEMMA SendPreserves ==
    ASSUME RuntimeInv, NEW r \in Requests, NEW secret \in {None} \cup 1..secrets,
           Send(r, secret)
    PROVE  RuntimeInv'
<1>1. CallMoves /\ up
  BY DEF Send, CallMoves, files
<1>2. snap \in Snapshots /\ secret \in {None} \cup 1..MaxSecret
  BY <1>1, RuntimeAssumption DEF RuntimeInv, RuntimeTypeOK
<1>3. call' \in SentCalls /\ call'.pc = "sent" /\ call'.sent = snap.tokVer /\ snap' = snap
      /\ snap.tokVer \in Nat
  BY <1>2 DEF Send, SentCalls, Snapshots
<1>4. CallInv' /\ CommandsFollowPolicy'
  BY <1>3 DEF CallInv, CommandsFollowPolicy
<1> QED
  BY <1>1, <1>3, <1>4, CallStepPreserves DEF CallsOfType

\* A call that ends leaves nothing to show.
LEMMA IdlePreserves ==
    ASSUME RuntimeInv, CallMoves, up, call' = Idle
    PROVE  RuntimeInv'
<1>1. CallInv' /\ CommandsFollowPolicy' /\ call' \in CallsOfType
  BY DEF CallInv, CommandsFollowPolicy, CallsOfType, Idle
<1> QED
  BY <1>1, CallStepPreserves

\* The bearer boundary.
LEMMA AuthenticatePreserves == RuntimeInv /\ Authenticate => RuntimeInv'
<1> SUFFICES ASSUME RuntimeInv, Authenticate PROVE RuntimeInv'
  OBVIOUS
<1>1. CallMoves /\ up /\ call \in SentCalls
  BY DEF Authenticate, CallMoves, files, RuntimeInv, StartInv, RuntimeTypeOK, CallsOfType,
     KnownCalls, RunCalls, ListedCalls, Idle
<1>2. snap \in Snapshots
  BY <1>1 DEF RuntimeInv, RuntimeTypeOK
<1>3. PICK caller, seen :
        /\ call' = Idle \/ call' = Authenticated(caller, seen)
        /\ caller \in Callers
        /\ seen \in Nat /\ call.sent <= seen
  <2> DEFINE names == Holders(TokenStore, call.secret)
  <2>1. CASE boot.tokens = None
    <3>1. call' = Authenticated(None, call.sent)
      BY <2>1 DEF Authenticate
    <3>2. None \in Callers /\ call.sent \in Nat /\ call.sent <= call.sent
      BY <1>1 DEF Callers, SentCalls
    <3> QED
      BY <3>1, <3>2
  <2>2. CASE boot.tokens # None /\ names = {}
    <3>1. call' = Idle
      BY <2>2 DEF Authenticate
    <3>2. None \in Callers /\ call.sent \in Nat /\ call.sent <= call.sent
      BY <1>1 DEF Callers, SentCalls
    <3> QED
      BY <3>1, <3>2
  <2>3. CASE boot.tokens # None /\ names # {}
    <3> DEFINE n == CHOOSE x \in names : TRUE
    <3>1. n \in names
      BY <2>3
    <3> HIDE DEF n
    <3>2. snap.tokens \in Stores
      <4>1. up => boot.tokens \in {None} \cup Stores
        BY DEF RuntimeInv, RuntimeTypeOK, Snapshots
      <4> QED
        BY <1>1, <1>2, <2>3 DEF RuntimeInv, SnapInv, Snapshots
    <3>3. snap.tokens[n] \in Callers
      BY <3>1, <3>2 DEF Holders, Stores, Callers, Entries
    <3>4. call' = Authenticated(snap.tokens[n], snap.tokVer)
      BY <2>3 DEF Authenticate, TokenStore, n
    <3>5. snap.tokVer \in Nat /\ call.sent <= snap.tokVer
      BY <1>1, <1>2 DEF RuntimeInv, CallInv, SentCalls, Snapshots
    <3> QED
      BY <3>3, <3>4, <3>5
  <2> QED
    BY <2>1, <2>2, <2>3
<1>4. CASE call' = Idle
  BY <1>1, <1>4, IdlePreserves
<1>5. CASE call' = Authenticated(caller, seen)
  <2>1. call' \in KnownCalls
    BY <1>1, <1>2, <1>3, <1>5 DEF KnownCalls, SentCalls, Authenticated, Snapshots, Services
  <2>2. CallInv' /\ CommandsFollowPolicy'
    BY <1>1, <1>2, <1>3, <1>5 DEF CallInv, CommandsFollowPolicy, Authenticated, CallMoves, Snapshots, Services
  <2> QED
    BY <1>1, <2>1, <2>2, CallStepPreserves DEF CallsOfType
<1> QED
  BY <1>3, <1>4, <1>5

\* The handler authorizes, identifies and picks up the current service.
LEMMA HandlePreserves == RuntimeInv /\ Handle => RuntimeInv'
<1> SUFFICES ASSUME RuntimeInv, Handle PROVE RuntimeInv'
  OBVIOUS
<1>1. CallMoves /\ up /\ call \in KnownCalls
  BY DEF Handle, CallMoves, files, RuntimeInv, StartInv, RuntimeTypeOK, CallsOfType,
     SentCalls, RunCalls, ListedCalls, Idle
<1>2. snap \in Snapshots /\ snap.service \in Services
  BY <1>1 DEF RuntimeInv, RuntimeTypeOK, Snapshots
<1>3. CASE call' = Idle
  BY <1>1, <1>3, IdlePreserves
<1>4. CASE call' # Idle
  <2>1. /\ Authorized(call.caller, call.req)
        /\ Identified(call.caller, call.req.tool)
        /\ call' = [pc |-> "run", req |-> call.req, caller |-> call.caller, sent |-> call.sent,
                    seen |-> call.seen, inv |-> call.inv, service |-> snap.service]
    BY <1>4 DEF Handle
  <2>2. call' \in RunCalls
    BY <1>1, <1>2, <2>1 DEF RunCalls, KnownCalls
  <2>3. /\ call.sent <= call.seen /\ call.inv <= snap.service.ver
        /\ snap.service.keeps = Posture(opts)
    BY <1>1 DEF RuntimeInv, CallInv, SnapInv, KnownCalls
  <2>4. CallInv'
    BY <1>1, <2>1, <2>3 DEF CallInv, CallMoves, Authorized, Identified, Posture
  <2>5. CommandsFollowPolicy'
    BY <2>1 DEF CommandsFollowPolicy
  <2> QED
    BY <1>1, <2>2, <2>4, <2>5, CallStepPreserves DEF CallsOfType
<1> QED
  BY <1>3, <1>4

\* check_command_policy admits what the allowlists name, or, where the operator
\* chose deny rules, what no rule of the device names.
LEMMA CommandPolicy ==
    ASSUME NEW f \in Inventories, NEW d \in f.devices, NEW x, CommandPasses(f, d, x)
    PROVE  \/ x \in f.allow \cup f.allowOf[d]
           \/ /\ f.mode = "blocklist" \/ (f.mode = "" /\ \E e \in f.devices : f.deny[e] # {})
              /\ x \notin f.deny[d]
<1>1. CASE PolicyMode(f) = "allowlist"
  BY <1>1 DEF CommandPasses, Allowlists
<1>2. CASE PolicyMode(f) # "allowlist"
  <2>1. /\ PolicyMode(f) = "blocklist"
        /\ f.mode = "blocklist" \/ (f.mode = "" /\ \E e \in f.devices : f.deny[e] # {})
    BY <1>2, InventoriesAssumption DEF PolicyMode
  <2>2. [commands |-> f.deny, xpath |-> f.hide] # None
    BY NoneAssumption
  <2>3. DenyPolicy(f) = IF \A e \in f.devices : f.deny[e] = {} /\ f.hide[e] = {} THEN None
                        ELSE [commands |-> f.deny, xpath |-> f.hide]
    <3>1. f.deny = [e \in f.devices |-> IF PolicyMode(f) = "blocklist" THEN f.deny[e] ELSE {}]
      BY <2>1, InventoriesAssumption
    <3> QED
      BY <3>1 DEF DenyPolicy
  <2>4. x \notin f.deny[d]
    BY <1>2, <2>2, <2>3 DEF CommandPasses
  <2> QED
    BY <2>1, <2>4
<1> QED
  BY <1>1, <1>2

\* check_xpath_policy admits no path the device hides, whatever the mode.
LEMMA XPathPolicy ==
    ASSUME NEW f \in Inventories, NEW d \in f.devices, NEW x, XPathPasses(f, d, x)
    PROVE  x \notin f.hide[d]
<1> DEFINE commands == [e \in f.devices |-> IF PolicyMode(f) = "blocklist" THEN f.deny[e] ELSE {}]
<1>1. commands \in {f.deny, [e \in f.devices |-> {}]}
  BY InventoriesAssumption
<1>2. [commands |-> commands, xpath |-> f.hide] # None
  BY <1>1, NoneAssumption
<1>3. DenyPolicy(f) = IF \A e \in f.devices : commands[e] = {} /\ f.hide[e] = {} THEN None
                      ELSE [commands |-> commands, xpath |-> f.hide]
  BY DEF DenyPolicy
<1> HIDE DEF commands
<1> QED
  BY <1>2, <1>3 DEF XPathPasses

\* The service checks the policy and passes the request to the device.
LEMMA DispatchPreserves == RuntimeInv /\ Dispatch => RuntimeInv'
<1> SUFFICES ASSUME RuntimeInv, Dispatch PROVE RuntimeInv'
  OBVIOUS
<1>1. CallMoves /\ up /\ call \in RunCalls /\ call.pc = "run"
  BY DEF Dispatch, CallMoves, files, RuntimeInv, StartInv, RuntimeTypeOK, CallsOfType,
     SentCalls, KnownCalls, ListedCalls, Idle
<1>2. CASE call' = Idle
  BY <1>1, <1>2, IdlePreserves
<1>3. CASE call' # Idle
  <2> DEFINE f == call.service.is
             d == call.req.device
             x == call.req.arg
  <2>1. /\ call' = [call EXCEPT !.pc = "device"]
        /\ call.req.tool \in OpTools => CommandPasses(f, d, x)
        /\ call.req.tool \in XPathTools => XPathPasses(f, d, x)
        /\ d \in f.devices
    BY <1>3 DEF Dispatch
  <2>2. call' \in RunCalls /\ f \in Inventories
    BY <1>1, <2>1 DEF RunCalls, Services
  <2>3. /\ call'.pc = "device" /\ call'.req = call.req /\ call'.caller = call.caller
        /\ call'.sent = call.sent /\ call'.seen = call.seen /\ call'.inv = call.inv
        /\ call'.service = call.service
    BY <1>1, <2>1 DEF RunCalls
  <2>4. CallInv'
    BY <1>1, <2>3 DEF RuntimeInv, CallInv, CallMoves, Authorized, Identified
  <2>5. /\ call.req.tool \in OpTools =>
               \/ x \in f.allow \cup f.allowOf[d]
               \/ /\ f.mode = "blocklist" \/ (f.mode = "" /\ \E e \in f.devices : f.deny[e] # {})
                  /\ x \notin f.deny[d]
        /\ call.req.tool \in XPathTools => x \notin f.hide[d]
    BY <2>1, <2>2, CommandPolicy, XPathPolicy
  <2>6. CommandsFollowPolicy'
    BY <2>3, <2>5, Zenon DEF CommandsFollowPolicy
  <2> QED
    BY <1>1, <2>2, <2>4, <2>6, CallStepPreserves DEF CallsOfType
<1> QED
  BY <1>2, <1>3

\* list_devices answers with the devices the caller may see; any call returns.
LEMMA ListPreserves == RuntimeInv /\ (ListDevices \/ Return) => RuntimeInv'
<1> SUFFICES ASSUME RuntimeInv, ListDevices \/ Return PROVE RuntimeInv'
  OBVIOUS
<1>1. CASE ListDevices
  <2>1. CallMoves /\ up /\ call \in RunCalls
    BY <1>1 DEF ListDevices, CallMoves, files, RuntimeInv, StartInv, RuntimeTypeOK, CallsOfType,
       SentCalls, KnownCalls, ListedCalls, Idle
  <2> DEFINE shown == {d \in call.service.is.devices :
                          call.caller = None \/ AllowsDevice(call.caller.devices, d)}
  <2>2. call' = [pc |-> "listed", req |-> call.req, caller |-> call.caller, shown |-> shown]
    BY <1>1 DEF ListDevices
  <2>3. shown \in SUBSET UNION {f.devices : f \in Inventories}
    BY <2>1 DEF RunCalls, Services
  <2> HIDE DEF shown
  <2>4. call' \in ListedCalls
    BY <2>1, <2>2, <2>3 DEF RunCalls, ListedCalls
  <2>5. CallInv' /\ CommandsFollowPolicy'
    BY <1>1, <2>1, <2>2 DEF RuntimeInv, CallInv, CommandsFollowPolicy, ListDevices, CallMoves, Authorized
  <2> QED
    BY <2>1, <2>4, <2>5, CallStepPreserves DEF CallsOfType
<1>2. CASE Return
  <2>1. CallMoves /\ up /\ call' = Idle
    BY <1>2 DEF Return, CallMoves, files, RuntimeInv, StartInv, Idle
  <2> QED
    BY <2>1, IdlePreserves
<1> QED
  BY <1>1, <1>2

-----------------------------------------------------------------------------
\* Every step of the process preserves the invariant.
LEMMA NextPreserves == RuntimeInv /\ [Next]_vars => RuntimeInv'
<1> SUFFICES ASSUME RuntimeInv, [Next]_vars PROVE RuntimeInv'
  OBVIOUS
<1>1. CASE UNCHANGED vars
  <2>1. RuntimeTypeOK'
    BY <1>1 DEF vars, RuntimeInv, RuntimeTypeOK
  <2>2. StartInv'
    BY <1>1, Zenon DEF vars, RuntimeInv, StartInv
  <2>3. SnapInv' /\ LoaderInv'
    BY <1>1 DEF vars, RuntimeInv, SnapInv, LoaderInv, TokenPath
  <2> QED
    BY <1>1, <2>1, <2>2, <2>3, CallKept DEF vars, RuntimeInv
<1>2. CASE \E f \in Inventories : EditInventory(f)
  BY <1>2, EditInventoryPreserves
<1>3. ASSUME NEW n \in TokenNames,
             \/ \E op \in {"add", "scopes"}, g \in Grants : TokenCommand(op, n, g)
             \/ \E op \in {"rotate", "revoke"} : TokenCommand(op, n, None)
      PROVE  RuntimeInv'
  BY <1>3, TokenCommandPreserves
<1>4. ASSUME NEW r \in Requests, NEW secret \in {None} \cup 1..secrets, Send(r, secret)
      PROVE  RuntimeInv'
  BY <1>4, SendPreserves
<1> QED
  BY <1>1, <1>2, <1>3, <1>4, StartPreserves, ReloadInventoryPreserves, ReloadTokensPreserves,
     SignalPreserves, EditTokensPreserves, WriteTokensPreserves, AuthenticatePreserves,
     HandlePreserves, DispatchPreserves, ListPreserves DEF Next

\* The process keeps the invariant, whatever the files, signals and requests.
THEOREM RuntimeInvariant == Spec => []RuntimeInv
<1> QED
  BY InitHolds, NextPreserves, PTL DEF Spec

\* No HTTP request is served without an authenticated caller, and a wildcard token
\* changes nothing (authorize, mutation_identity, ScopeSet::allows_tool).
THEOREM ServedRequestsAreEntitled == Spec => []ServedIsEntitled
<1>1. RuntimeInv => ServedIsEntitled
  <2> SUFFICES ASSUME RuntimeInv, opts.http, Served PROVE ServedIsEntitled
    BY DEF ServedIsEntitled
  <2>1. call.caller # None /\ AllowsTool(call.caller.tools, call.req.tool)
    BY DEF RuntimeInv, CallInv, Served, Authorized
  <2>2. ASSUME call.pc = "device", call.req.tool \in Changing
        PROVE  /\ call.req.tool \in call.caller.tools
               /\ call.req.tool \in {"create_panos_change_set", "apply_panos_change_set",
                                     "stage_panos_config"} => call.caller.grant
    <3>1. call.req.tool \in call.caller.tools
      BY <2>1, <2>2 DEF AllowsTool, MutationTools
    <3>2. Identified(call.caller, call.req.tool)
      BY <2>2 DEF RuntimeInv, CallInv
    <3>3. call.req.tool \in {"create_panos_change_set", "apply_panos_change_set",
                             "stage_panos_config"} => Demands(call.req.tool) = "grant"
      BY DEF Demands, ChangeSetHandlers, CandidateHandlers
    <3> QED
      BY <2>1, <3>1, <3>2, <3>3 DEF Identified
  <2> QED
    BY <2>1, <2>2, Zenon DEF ServedIsEntitled
<1> QED
  BY <1>1, RuntimeInvariant, PTL

\* A request is judged by the token store in force while it is under way and runs on
\* a service no older than that (the closure of build_router, RuntimeState).
THEOREM RequestsAreJudgedByTheLiveStore == Spec => []JudgedByLiveStore
<1>1. RuntimeInv => JudgedByLiveStore
  BY DEF RuntimeInv, CallInv, JudgedByLiveStore, RuntimeTypeOK, CallsOfType, KnownCalls, RunCalls,
     SentCalls, ListedCalls, Idle, Services
<1> QED
  BY <1>1, RuntimeInvariant, PTL

\* No reload changes the coordinator or the flags of a service, and a call under way
\* keeps them too (PanosService::reload).
THEOREM ReloadsKeepThePosture == Spec => []PostureIsKept
<1>1. RuntimeInv => PostureIsKept
  BY DEF RuntimeInv, SnapInv, CallInv, PostureIsKept
<1> QED
  BY <1>1, RuntimeInvariant, PTL

\* Commands and configuration paths reach a device only as its policy allows, under
\* either mode and through every change of the inventory.
THEOREM PolicyGovernsRequests == Spec => []CommandsFollowPolicy
<1>1. RuntimeInv => CommandsFollowPolicy
  BY DEF RuntimeInv
<1> QED
  BY <1>1, RuntimeInvariant, PTL

\* A quota per minute becomes the least rate per second that does not fall below it.
LEMMA QuotaRounding ==
    ASSUME NEW q \in Nat, q > 0
    PROVE  PerSecond(q) > 0 /\ 60 * (PerSecond(q) - 1) < q /\ q <= 60 * PerSecond(q)
BY DEF PerSecond

\* A server that listens beyond loopback has a token store after every reload, and
\* its quota is neither switched off nor loosened (cli_validate, http_transport).
THEOREM ListenersAreGuarded == Spec => []ListenerIsGuarded
<1>1. RuntimeInv => ListenerIsGuarded
  <2> SUFFICES ASSUME RuntimeInv, up, opts.http PROVE ListenerIsGuarded
    BY DEF ListenerIsGuarded
  <2>1. opts \in Options /\ ValidOptions(opts)
    BY DEF RuntimeInv, RuntimeTypeOK, StartInv
  <2>2. opts.quota \in Nat /\ opts.quota > 0
    <3>1. opts.quota \in 1..MaxRatePerMinute
      BY <2>1, Zenon DEF ValidOptions
    <3> QED
      BY <3>1
  <2>3. ASSUME ~opts.loopback PROVE snap.tokens # None /\ (opts.tls \/ opts.insecure)
    <3>1. ~opts.noAuth /\ opts.tokens # opts.noAuth /\ (opts.tls \/ opts.insecure)
      BY <2>1, <2>3, Zenon DEF ValidOptions
    <3>2. opts.noAuth \in BOOLEAN /\ opts.tokens \in BOOLEAN
      BY <2>1, OptionsAssumption
    <3>3. opts.tokens
      BY <3>1, <3>2, Zenon
    <3>4. TokenPath
      BY <3>3, Zenon DEF TokenPath
    <3>5. snap.tokens # None
      BY <3>4, Zenon DEF RuntimeInv, SnapInv
    <3> QED
      BY <3>1, <3>5, Zenon
  <2> QED
    BY <2>2, <2>3, QuotaRounding DEF ListenerIsGuarded
<1> QED
  BY <1>1, RuntimeInvariant, PTL

\* A published snapshot is one load, made after the signal that caused it.
THEOREM SnapshotsAreOneLoad == Spec => SnapshotIsOneLoad
<1>1. RuntimeInv /\ [Next]_vars =>
        [up /\ snap' # snap =>
            /\ snap'.service.ver >= loader.inv
            /\ snap'.tokVer >= (IF TokenPath THEN loader.tok ELSE 0)]_vars
  <2> SUFFICES ASSUME RuntimeInv, Next, up, snap' # snap
               PROVE  /\ snap'.service.ver >= loader.inv
                      /\ snap'.tokVer >= (IF TokenPath THEN loader.tok ELSE 0)
    BY DEF vars
  <2>1. ReloadTokens
    BY DEF Next, Start, ReloadInventory, KillHup, EditInventory, EditTokens, TokenCommand,
       WriteTokens, SignalReload, Send, Authenticate, Handle, Dispatch, ListDevices, Return
  <2> QED
    BY <2>1 DEF RuntimeInv, LoaderInv, RuntimeTypeOK, ReloadTokens, Loaders, Services, Snapshot, Idle
<1> QED
  BY <1>1, RuntimeInvariant, PTL DEF Spec, SnapshotIsOneLoad
=============================================================================
