-------------------------------- MODULE MCPlans --------------------------------
(* Plans over one rulebase that is reached by two spellings of its xpath.     *)
EXTENDS PlanChecks

config == Step("config", "", "")
Vsys(q) == <<config, Step("entry", "v", q)>>
Rules(q) == Append(Vsys(q), Step("rules", "", ""))
Rule(q, n) == Append(Rules(q), Step("entry", n, q))

Edit(act, path) ==
    [act |-> act, path |-> path, element |-> act = "set", new |-> "",
     confirm |-> IF act = "delete" THEN path ELSE <<>>, pos |-> "", dest |-> ""]
MoveTo(path, pos, dest) == [Edit("move", path) EXCEPT !.pos = pos, !.dest = dest]

one == "'"
two == "''"

MCActions ==
    {Edit(act, Rule(one, n)) : act \in {"set", "delete"}, n \in {"a", "b"}}
    \cup {Edit("set", Rule(two, "a")), Edit("delete", Rule(two, "a"))}
    \cup {Edit("set", Append(Rule(one, "a"), Step("source", "", "")))}
    \cup {Edit(act, Rules(one)) : act \in {"set", "delete"}}
    \cup {[Edit("set", Rules(one)) EXCEPT !.new = "a"]}
    \cup {MoveTo(Rule(one, "a"), "top", ""), MoveTo(Rule(two, "a"), "after", "b"),
          MoveTo(Rule(one, "b"), "before", "a"), MoveTo(Rule(one, "a"), "before", "a"),
          MoveTo(Rule(one, "a"), "top", "b"), MoveTo(Rule(one, "x/y"), "bottom", "")}
    \cup {[Edit("delete", Rule(one, "a")) EXCEPT !.confirm = Rule(two, "a")],
          Edit("set", Rule(one, "o'b")), Edit("set", Rule(two, "o'b")),
          Edit("set", Append(Rules(one), Step("parent::node()", "", ""))),
          Edit("set", <<config, Step("shared", "", "")>>), Edit("delete", Vsys(one)),
          Edit("set", Append(Append(Rule(one, "a"), Step("source", "", "")), Step("entry", "b", one))),
          Edit("set", Append(Vsys(one), Step("nat", "", "")))}

MCNames == {"a", "b", "v", "x/y", "o'b"}
MCSlashed == {"x/y"}
MCQuoted == {"o'b"}
MCAxes == {"parent::node()"}
MCPolicyRoots == {Vsys(two)}
MCGrantRoots == {Rules(one), Append(Rules(two), Step("entry", "", ""))}
MCGrantActs == {"set", "delete", "move"}
MCLives == [Containers -> SUBSET {"a", "b"}]
=============================================================================
