------------------------------- MODULE PlanChecks -------------------------------
(***************************************************************************)
(* The checks a plan passes before it is stored (create_change_set) and a   *)
(* single edit before it is staged (stage_config): the xpath against the     *)
(* operator's write roots and the token's grant (xml.rs, grant.rs), the      *)
(* payload, and the rules a move names against the live rulebase as the      *)
(* plan's earlier actions will leave it (mutation.rs).                       *)
(*                                                                           *)
(* An xpath is the sequence of its steps.  A step has a name n, the value v  *)
(* of its [@name=...] predicate ("": none) and the quote style q it is       *)
(* spelled with.  Texts are compared step by step: a text prefix followed by *)
(* '/' is a prefix of the steps.                                             *)
(***************************************************************************)
EXTENDS Integers, Sequences, FiniteSets

CONSTANTS
    Actions,      \* the actions a caller may write into a plan
    Names,        \* entry names and predicate values
    Slashed,      \* the values that contain '/', such as ethernet1/1
    Quoted,       \* the values that contain an apostrophe
    Axes,         \* step names that are axes, '.', '..' or otherwise not plain
    PolicyRoots,  \* MutationPolicy::allowed_xpath_roots
    AllowDelete,  \* MutationPolicy::allow_delete
    GrantRoots,   \* MutationGrant::allowed_xpath_roots
    GrantActs,    \* MutationGrant::actions
    Lives,        \* what the device's containers may hold
    MaxPlan       \* bound on the actions of a plan

ASSUME PlanAssumption ==
    /\ Slashed \subseteq Names /\ Quoted \subseteq Names
    /\ "" \notin Names
    /\ AllowDelete \in BOOLEAN
    /\ MaxPlan \in Nat

VARIABLES
    plan,     \* the actions written so far
    stage,    \* draft, fetch, check, accepted, refused, nomove
    local,    \* a stdio caller: it has no token and no grant
    live,     \* live[c]: the entries of container c on the device
    sim,      \* require_move_targets_exist: containers, by spelling
    at,       \* the action checked next
    held,     \* history: the containers as the device will hold them before it
    failing   \* history: the moves passed so far that will fail on the device

vars == <<plan, stage, local, live, sim, at, held, failing>>

-----------------------------------------------------------------------------
(* xpaths *)
Step(n, v, q) == [n |-> n, v |-> v, q |-> q]
Front(p) == SubSeq(p, 1, Len(p) - 1)
Last(p) == p[Len(p)]

\* An xpath as it is split at '/': a step without a predicate has no quotes.
Steps == [n : STRING, v : Names \cup {""}, q : {"", "'", "''"}]
Spelled(p) == p \in Seq(Steps) /\ \A i \in DOMAIN p : p[i].v = "" <=> p[i].q = ""

\* Faulty: the request's quote style is left as it is.
AsSpelled(p) == p

\* canonicalize_xpath_quotes, rewrite_predicate
Canonical(p) ==
    [i \in DOMAIN p |-> IF p[i].v = "" \/ p[i].v \in Quoted THEN p[i]
                        ELSE [p[i] EXCEPT !.q = "'"]]

\* is_strict_xpath_shape, is_strict_xpath_step, is_strict_xpath_predicate
IsStrict(p) ==
    \A i \in DOMAIN p : p[i].n \notin Axes /\ (p[i].v \in Quoted => p[i].q # "'")

\* validate_read_xpath.  Its limits on characters, length and number of steps are
\* left out: every path here is one that they admit.
ReadablePath(p) == p # <<>> /\ p[1] = Step("config", "", "") /\ IsStrict(p)

StartsWith(p, r) == Len(p) >= Len(r) /\ SubSeq(p, 1, Len(r)) = r

\* validate_write_xpath
WritablePath(p) ==
    ReadablePath(p) /\ \E r \in PolicyRoots : StartsWith(Canonical(p), Canonical(r))

\* MutationGrant::allows_xpath: a root may also be continued by a predicate.
GrantsPath(p) ==
    /\ IsStrict(p)
    /\ \E r \in GrantRoots :
        LET c == Canonical(p)
            g == Canonical(r)
        IN \/ StartsWith(c, g)
           \/ /\ Last(g).v = "" /\ StartsWith(c, Front(g)) /\ Len(c) >= Len(g)
              /\ c[Len(g)].n = Last(g).n /\ c[Len(g)].v # ""

\* The containers some move may name, in the canonical spelling.
Containers == {Canonical(Front(a.path)) : a \in {b \in Actions : b.act = "move"}}

\* load_mutation_policy and MutationGrant::validate admit roots under /config; a value
\* with an apostrophe can only be spelled in double quotes.
ASSUME PathsAssumption ==
    /\ \A a \in Actions :
         /\ a.act \in {"set", "delete", "move"} /\ Spelled(a.path)
         /\ a.new \in Names \cup {""}
    /\ \A r \in PolicyRoots \cup GrantRoots :
         /\ Spelled(r) /\ r # <<>> /\ r[1] = Step("config", "", "")
         /\ \A i \in DOMAIN r : r[i].v \in Quoted => r[i].q # "'"
    /\ Lives \subseteq [Containers -> SUBSET Names]

-----------------------------------------------------------------------------
(* payloads: [act, path, element, new, confirm, pos, dest]; `element' says    *)
(* whether a valid one is given, `new' is the entry it carries for the path   *)
(* itself ("": none), `confirm' the xpath quoted after DELETE (<<>>: absent)  *)

\* split_container_and_entry_name: the last '/' of the text may lie in the name.
IsEntryPath(p) == Last(p).n = "entry" /\ Last(p).v # "" /\ Last(p).v \notin Slashed

NoMoveFields(a) == a.pos = "" /\ a.dest = ""

\* validate_stage_payload, require_no_move_fields, validate_move_destination_name
ValidPayload(a) ==
    CASE a.act = "set" -> a.element /\ a.confirm = <<>> /\ NoMoveFields(a)
      [] a.act = "delete" -> AllowDelete /\ ~a.element /\ a.confirm = a.path /\ NoMoveFields(a)
      [] a.act = "move" -> /\ ~a.element /\ a.confirm = <<>>
                           /\ a.pos # ""
                           /\ a.pos \in {"before", "after"} <=> a.dest # ""
                           /\ IsEntryPath(a.path)
                           /\ a.dest # Last(a.path).v

Granted(a) == local \/ (a.act \in GrantActs /\ GrantsPath(a.path))

\* validate_change_set_actions; stage_config makes the same checks for one action
ValidAction(a) == WritablePath(a.path) /\ ValidPayload(a) /\ Granted(a)

ValidPlan(p) ==
    /\ p # <<>> /\ Len(p) <= MaxPlan
    /\ \A i \in DOMAIN p : ValidAction(p[i])

-----------------------------------------------------------------------------
(* What the device does with the plan, action by action: an xpath and its    *)
(* other spelling name the same nodes, a set creates the entries on its path  *)
(* and those its element carries, a delete of a container removes what it     *)
(* holds.                                                                     *)
Touches(a, c) == Len(a.path) > Len(c) /\ StartsWith(Canonical(a.path), c)

Adds(a, c) ==
    IF Touches(a, c) THEN {a.path[Len(c) + 1].v}
    ELSE IF Canonical(a.path) = c THEN {a.new} \ {""}
    ELSE {}

Carry(h, a) ==
    [c \in DOMAIN h |->
        LET n == a.path[Len(c) + 1].v IN
        CASE a.act = "set" -> h[c] \cup Adds(a, c)
          [] a.act = "delete" /\ Touches(a, c) /\ Len(a.path) = Len(c) + 1 -> h[c] \ {n}
          [] a.act = "delete" /\ StartsWith(c, Canonical(a.path)) -> {}
          [] OTHER -> h[c]]

\* The device will find the rules a move names.
DeviceFinds(a) ==
    \A n \in {Last(a.path).v, a.dest} \ {""} : n \in held[Canonical(Front(a.path))]

-----------------------------------------------------------------------------
(* require_move_targets_exist *)
Moves == {i \in DOMAIN plan : plan[i].act = "move"}
MovedIn == {Front(plan[i].path) : i \in Moves}

\* The device takes both spellings for the same container; a response that was
\* cut, or the entry limit, leaves only some of its entries in view.
Views(c) ==
    LET all == live[Canonical(c)] IN
    {[names |-> S, truncated |-> S # all] : S \in SUBSET all}

Init ==
    /\ plan = <<>> /\ stage = "draft" /\ sim = <<>> /\ at = 1
    /\ live \in Lives /\ local \in BOOLEAN
    /\ held = live /\ failing = {}

Write(a) ==
    /\ stage = "draft" /\ Len(plan) < MaxPlan
    /\ plan' = Append(plan, a)
    /\ UNCHANGED <<stage, local, live, sim, at, held, failing>>

Submit ==
    /\ stage = "draft"
    /\ stage' = IF ValidPlan(plan) THEN "fetch" ELSE "refused"
    /\ UNCHANGED <<plan, local, live, sim, at, held, failing>>

\* The first loop: one read for each container that a move names; a read that
\* fails ends the request.
FetchFails ==
    /\ stage = "fetch" /\ MovedIn # {}
    /\ stage' = "refused"
    /\ UNCHANGED <<plan, local, live, sim, at, held, failing>>

Fetch ==
    /\ stage = "fetch"
    /\ sim' \in {f \in [MovedIn -> UNION {Views(c) : c \in MovedIn}] :
                    \A c \in MovedIn : f[c] \in Views(c)}
    /\ stage' = "check"
    /\ UNCHANGED <<plan, local, live, at, held, failing>>

\* Faulty: moves are checked against the rulebase as it is now.
NowFinds(a) ==
    \A n \in {Last(a.path).v, a.dest} \ {""} : n \in live[Canonical(Front(a.path))]

Finds(a) == \A n \in {Last(a.path).v, a.dest} \ {""} : n \in sim[Front(a.path)].names

\* Faulty: a rule deleted earlier in the plan is still taken to exist.
KeepsDeleted(a) ==
    IF a.act = "set" /\ IsEntryPath(a.path) /\ Front(a.path) \in DOMAIN sim
    THEN [sim EXCEPT ![Front(a.path)].names = @ \cup {Last(a.path).v}]
    ELSE sim

After(a) ==
    LET c == Front(a.path) IN
       IF ~IsEntryPath(a.path) \/ c \notin DOMAIN sim \/ a.act = "move" THEN sim
       ELSE [sim EXCEPT ![c].names = IF a.act = "set" THEN @ \cup {Last(a.path).v}
                                     ELSE @ \ {Last(a.path).v}]

\* The second loop, one action of the plan at a time.
Check ==
    /\ stage = "check" /\ at <= Len(plan)
    /\ LET a == plan[at] IN
       IF a.act = "move" /\ ~Finds(a)
       THEN stage' = "nomove" /\ UNCHANGED <<sim, at, held, failing>>
       ELSE /\ sim' = After(a) /\ at' = at + 1 /\ UNCHANGED stage
            /\ held' = Carry(held, a)
            /\ failing' = IF a.act = "move" /\ ~DeviceFinds(a) THEN failing \cup {at} ELSE failing
    /\ UNCHANGED <<plan, local, live>>

Store ==
    /\ stage = "check" /\ at > Len(plan)
    /\ stage' = "accepted"
    /\ UNCHANGED <<plan, local, live, sim, at, held, failing>>

Next == (\E a \in Actions : Write(a)) \/ Submit \/ FetchFails \/ Fetch \/ Check \/ Store

Spec == Init /\ [][Next]_vars

-----------------------------------------------------------------------------
(* The simulation knows a container by its spelling and follows actions whose *)
(* xpath ends in an entry.  What it does not follow, each a premise below:    *)
(* two spellings of one container, a delete of a container or of what encloses *)
(* it, a set below a rule that does not exist yet, and a set whose element, not *)
(* its xpath, names the new rule.                                             *)
OneSpelling ==
    \A i, j \in DOMAIN plan :
        LET c == Front(plan[i].path)
            d == Front(plan[j].path)
        IN Canonical(c) = Canonical(d) => c = d
DeletesEntries ==
    \A i \in DOMAIN plan : plan[i].act = "delete" =>
        /\ IsEntryPath(plan[i].path)
        /\ \A c \in MovedIn : ~StartsWith(Canonical(c), Canonical(plan[i].path))
SetsNameRules ==
    \A i \in DOMAIN plan : plan[i].act = "set" => IsEntryPath(plan[i].path) /\ plan[i].new = ""
SetsWholeRules ==
    \A i \in DOMAIN plan : plan[i].act = "set" =>
        \A c \in MovedIn : Touches(plan[i], Canonical(c)) => Len(plan[i].path) = Len(c) + 1
SeenWhole == \A c \in DOMAIN sim : ~sim[c].truncated

-----------------------------------------------------------------------------
(* What the steps of two xpaths address, whatever their spelling. *)
Addresses(s, t) == s.n = t.n /\ s.v = t.v

Within(p, r) == Len(p) >= Len(r) /\ \A i \in DOMAIN r : Addresses(p[i], r[i])

\* The two scope checks compare texts (validate_write_xpath, allows_xpath) and
\* still decide by what an xpath addresses: a plain path is writable exactly when
\* it lies at or below a configured root, and granted exactly when it lies at or
\* below a granted root or an entry of it, in either quote style.  This is said
\* of the paths whose length and characters validate_read_xpath admits.
ScopeIsSemantic ==
    \A i \in DOMAIN plan :
        LET p == plan[i].path
            plain == \A k \in DOMAIN p :
                        p[k].n \notin Axes /\ ~(p[k].v \in Quoted /\ p[k].q = "'")
        IN /\ WritablePath(p) <=> plain /\ \E r \in PolicyRoots : Within(p, r)
           /\ GrantsPath(p) <=>
                /\ plain
                /\ \E r \in GrantRoots :
                    \/ Within(p, r)
                    \/ /\ Last(r).v = "" /\ Within(p, Front(r)) /\ Len(p) >= Len(r)
                       /\ p[Len(r)].n = Last(r).n

\* In a plan that spells each container in one way, and deletes entries only, none
\* of which encloses a rulebase it moves in, no move of a stored plan fails for a
\* missing rule when its turn comes: after the plan's earlier sets and deletes, the
\* device holds the moved rule and the sibling it is placed against
\* (require_move_targets_exist).
MovesFindTheirRules ==
    stage = "accepted" /\ OneSpelling /\ DeletesEntries => failing = {}

\* In such a plan, if each of its sets also adds one whole rule under an xpath that
\* names it, a refusal for a missing rule is right: with every container seen whole,
\* some move names a rule the device will not hold at its turn.  So a rule that is
\* added in this way can be placed in the same plan.  One that a set's element adds
\* to the container (SetsNameRules), or a set below it (SetsWholeRules), is refused
\* although the device would hold it.
RefusalIsReal ==
    stage = "nomove" /\ SeenWhole /\ OneSpelling /\ DeletesEntries
    /\ SetsNameRules /\ SetsWholeRules
        => ~DeviceFinds(plan[at])
=============================================================================
