---------------------------- MODULE PlanChecksProofs ----------------------------
(***************************************************************************)
(* Proofs about PlanChecks, for every set of roots, grants, actions and    *)
(* containers, and plans of any length.                                    *)
(***************************************************************************)
EXTENDS PlanChecks, SequenceTheorems, TLAPS

-----------------------------------------------------------------------------
(* xpaths *)

\* What Canonical does to one step.
Quoting(s) == IF s.v = "" \/ s.v \in Quoted THEN s ELSE [s EXCEPT !.q = "'"]

LEMMA QuotingKeeps ==
    ASSUME NEW s \in Steps
    PROVE  /\ Quoting(s) \in Steps /\ Quoting(s).n = s.n /\ Quoting(s).v = s.v
           /\ Quoting(s).q = IF s.v = "" \/ s.v \in Quoted THEN s.q ELSE "'"
BY DEF Quoting, Steps

\* A step is its name, its value and its quotes.
LEMMA StepIs ==
    ASSUME NEW s \in Steps, NEW t \in Steps, s.n = t.n, s.v = t.v, s.q = t.q
    PROVE  s = t
<1>1. s = [n |-> s.n, v |-> s.v, q |-> s.q] /\ t = [n |-> t.n, v |-> t.v, q |-> t.q]
  BY DEF Steps
<1> QED
  BY <1>1

\* canonicalize_xpath_quotes works step by step.
LEMMA CanonicalIs ==
    ASSUME NEW p \in Seq(Steps)
    PROVE  /\ Canonical(p) \in Seq(Steps) /\ Len(Canonical(p)) = Len(p)
           /\ \A i \in 1..Len(p) : Canonical(p)[i] = Quoting(p[i])
<1>1. Len(p) \in Nat /\ DOMAIN p = 1..Len(p) /\ \A i \in 1..Len(p) : p[i] \in Steps
  BY LenProperties, ElementOfSeq
<1>2. Canonical(p) = [i \in 1..Len(p) |-> Quoting(p[i])]
  BY <1>1, Zenon DEF Canonical, Quoting
<1>3. \A i \in 1..Len(p) : Quoting(p[i]) \in Steps
  BY <1>1, QuotingKeeps
<1>4. Canonical(p) \in [1..Len(p) -> Steps]
  BY <1>2, <1>3
<1>5. Canonical(p) \in Seq(Steps)
  BY <1>1, <1>4, SeqDef
<1>6. DOMAIN Canonical(p) = 1..Len(p)
  BY <1>4
<1>7. Len(Canonical(p)) = Len(p)
  BY <1>1, <1>5, <1>6
<1> QED
  BY <1>2, <1>5, <1>7

\* The fields of a step.
LEMMA StepFields ==
    ASSUME NEW n, NEW v, NEW q
    PROVE  Step(n, v, q).n = n /\ Step(n, v, q).v = v /\ Step(n, v, q).q = q
BY DEF Step

\* Positions of a sequence.
LEMMA Positions ==
    ASSUME NEW n \in Nat \ {0}
    PROVE  /\ 1 \in 1..n /\ n \in 1..n
           /\ \A m \in Nat : m >= n => 1 \in 1..m /\ n \in 1..m
           /\ \A i \in 1..n : i # n => i \in 1..(n - 1)
OBVIOUS

\* Two texts are compared step by step.
LEMMA StartsWithIs ==
    ASSUME NEW p \in Seq(Steps), NEW r \in Seq(Steps)
    PROVE  StartsWith(p, r) <=> Len(p) >= Len(r) /\ \A i \in 1..Len(r) : p[i] = r[i]
<1>1. Len(p) \in Nat /\ Len(r) \in Nat /\ \A i \in 1..Len(p) : p[i] \in Steps
  BY LenProperties, ElementOfSeq
<1>2. CASE Len(p) >= Len(r)
  <2>1. /\ SubSeq(p, 1, Len(r)) \in Seq(Steps) /\ Len(SubSeq(p, 1, Len(r))) = Len(r)
        /\ \A i \in 1..Len(r) : SubSeq(p, 1, Len(r))[i] = p[i]
    <3>1. \A i \in 1..Len(r) : p[i] \in Steps
      BY <1>1, <1>2
    <3>2. /\ SubSeq(p, 1, Len(r)) \in Seq(Steps)
          /\ Len(SubSeq(p, 1, Len(r))) = IF 1 <= Len(r) THEN Len(r) - 1 + 1 ELSE 0
          /\ \A i \in 1..(Len(r) - 1 + 1) : SubSeq(p, 1, Len(r))[i] = p[1 + i - 1]
      BY <1>1, <3>1, SubSeqProperties
    <3> QED
      BY <1>1, <3>2
  <2>2. (\A i \in 1..Len(r) : p[i] = r[i]) => SubSeq(p, 1, Len(r)) = r
    BY <2>1, SeqEqual
  <2>3. SubSeq(p, 1, Len(r)) = r => \A i \in 1..Len(r) : p[i] = r[i]
    BY <2>1
  <2> QED
    BY <1>2, <2>2, <2>3 DEF StartsWith
<1>3. CASE ~(Len(p) >= Len(r))
  BY <1>3 DEF StartsWith
<1> QED
  BY <1>2, <1>3

\* Everything but the last step.
LEMMA FrontIs ==
    ASSUME NEW p \in Seq(Steps), p # <<>>
    PROVE  /\ Front(p) \in Seq(Steps) /\ Len(p) \in Nat \ {0} /\ Len(Front(p)) = Len(p) - 1
           /\ \A i \in 1..(Len(p) - 1) : Front(p)[i] = p[i]
<1>1. Len(p) \in Nat \ {0} /\ \A i \in 1..Len(p) : p[i] \in Steps
  BY EmptySeq, ElementOfSeq
<1>2. \A i \in 1..(Len(p) - 1) : p[i] \in Steps
  BY <1>1
<1>3. /\ Front(p) \in Seq(Steps)
      /\ Len(Front(p)) = IF 1 <= Len(p) - 1 THEN Len(p) - 1 - 1 + 1 ELSE 0
      /\ \A i \in 1..(Len(p) - 1 - 1 + 1) : Front(p)[i] = p[1 + i - 1]
  BY <1>1, <1>2, SubSeqProperties DEF Front
<1>4. Len(Front(p)) = Len(p) - 1
  <2> DEFINE n == Len(p)
             m == Len(Front(p))
  <2>1. n \in Nat \ {0} /\ m = IF 1 <= n - 1 THEN n - 1 - 1 + 1 ELSE 0
    BY <1>1, <1>3
  <2> HIDE DEF n, m
  <2>2. m = n - 1
    BY <2>1
  <2> QED
    BY <2>2 DEF n, m
<1>5. ASSUME NEW i \in 1..(Len(p) - 1) PROVE Front(p)[i] = p[i]
  <2>1. i \in 1..(Len(p) - 1 - 1 + 1) /\ 1 + i - 1 = i
    BY <1>1
  <2>2. Front(p)[i] = p[1 + i - 1]
    BY <1>3, <2>1
  <2> QED
    BY <2>1, <2>2
<1> QED
  BY <1>1, <1>3, <1>4, <1>5

\* The canonical spelling of a container is that of the entry without its last step.
LEMMA CanonicalFront ==
    ASSUME NEW p \in Seq(Steps), p # <<>>
    PROVE  /\ Canonical(Front(p)) \in Seq(Steps) /\ Len(Canonical(Front(p))) = Len(p) - 1
           /\ \A i \in 1..(Len(p) - 1) : Canonical(Front(p))[i] = Canonical(p)[i]
<1>1. /\ Front(p) \in Seq(Steps) /\ Len(p) \in Nat \ {0} /\ Len(Front(p)) = Len(p) - 1
      /\ \A i \in 1..(Len(p) - 1) : Front(p)[i] = p[i]
  BY FrontIs
<1>2. /\ Canonical(Front(p)) \in Seq(Steps) /\ Len(Canonical(Front(p))) = Len(p) - 1
      /\ \A i \in 1..(Len(p) - 1) : Canonical(Front(p))[i] = Quoting(Front(p)[i])
  BY <1>1, CanonicalIs
<1>3. \A i \in 1..(Len(p) - 1) : Canonical(p)[i] = Quoting(p[i])
  BY <1>1, CanonicalIs
<1> QED
  BY <1>1, <1>2, <1>3

-----------------------------------------------------------------------------
(* Scope. *)

\* No axis, and no value in quotes it contains.
Plain(p) == \A k \in DOMAIN p : p[k].n \notin Axes /\ ~(p[k].v \in Quoted /\ p[k].q = "'")

\* A step as it can be written.
Written(s) == s \in Steps /\ (s.v = "" <=> s.q = "") /\ (s.v \in Quoted => s.q # "'")

\* Two steps are the same text exactly when they address the same nodes.
LEMMA SameStep ==
    ASSUME NEW s, NEW t, Written(s), Written(t)
    PROVE  Quoting(s) = Quoting(t) <=> Addresses(s, t)
<1>1. "" \notin Quoted
  BY PlanAssumption
<1>2. ASSUME Quoting(s) = Quoting(t) PROVE Addresses(s, t)
  <2>1. /\ Quoting(s).n = s.n /\ Quoting(s).v = s.v
        /\ Quoting(t).n = t.n /\ Quoting(t).v = t.v
    BY QuotingKeeps DEF Written
  <2> QED
    BY <1>2, <2>1 DEF Addresses
<1>3. ASSUME Addresses(s, t) PROVE Quoting(s) = Quoting(t)
  <2>1. s.n = t.n /\ s.v = t.v /\ s \in Steps /\ t \in Steps
    BY <1>3 DEF Written, Addresses
  <2>2. s.q \in {"", "'", "''"} /\ t.q \in {"", "'", "''"}
    BY <2>1 DEF Steps
  <2>3. s.v = "" \/ s.v \in Quoted => s.q = t.q
    BY <1>1, <2>1, <2>2 DEF Written
  <2>4. Quoting(s).q = Quoting(t).q
    BY <2>1, <2>3, QuotingKeeps
  <2> QED
    BY <2>1, <2>4, QuotingKeeps, StepIs
<1> QED
  BY <1>2, <1>3, Zenon

\* So one text is a prefix of another exactly when what it addresses encloses it.
LEMMA SameText ==
    ASSUME NEW p \in Seq(Steps), NEW r \in Seq(Steps),
           \A i \in 1..Len(p) : Written(p[i]), \A i \in 1..Len(r) : Written(r[i])
    PROVE  StartsWith(Canonical(p), Canonical(r)) <=> Within(p, r)
<1>1. Len(p) \in Nat /\ Len(r) \in Nat /\ DOMAIN r = 1..Len(r)
  BY LenProperties
<1>2. /\ Canonical(p) \in Seq(Steps) /\ Len(Canonical(p)) = Len(p)
      /\ \A i \in 1..Len(p) : Canonical(p)[i] = Quoting(p[i])
      /\ Canonical(r) \in Seq(Steps) /\ Len(Canonical(r)) = Len(r)
      /\ \A i \in 1..Len(r) : Canonical(r)[i] = Quoting(r[i])
  BY CanonicalIs
<1>3. Len(p) >= Len(r) =>
        \A i \in 1..Len(r) : Canonical(p)[i] = Canonical(r)[i] <=> Addresses(p[i], r[i])
  <2> SUFFICES ASSUME Len(p) >= Len(r), NEW i \in 1..Len(r)
               PROVE  Canonical(p)[i] = Canonical(r)[i] <=> Addresses(p[i], r[i])
    OBVIOUS
  <2>1. i \in 1..Len(p)
    BY <1>1
  <2> QED
    BY <1>2, <2>1, SameStep
<1>4. StartsWith(Canonical(p), Canonical(r)) <=>
        Len(p) >= Len(r) /\ \A i \in 1..Len(r) : Canonical(p)[i] = Canonical(r)[i]
  BY <1>2, StartsWithIs
<1> QED
  BY <1>1, <1>3, <1>4 DEF Within

\* The two scope checks decide by what a path addresses: the statement of ScopeIsSemantic
\* about one path.
ScopeOf(p) ==
    /\ WritablePath(p) <=> Plain(p) /\ \E r \in PolicyRoots : Within(p, r)
    /\ GrantsPath(p) <=>
         /\ Plain(p)
         /\ \E r \in GrantRoots :
             \/ Within(p, r)
             \/ /\ Last(r).v = "" /\ Within(p, Front(r)) /\ Len(p) >= Len(r)
                /\ p[Len(r)].n = Last(r).n

\* A configured root, step by step.
LEMMA RootIs ==
    ASSUME NEW r \in PolicyRoots \cup GrantRoots
    PROVE  /\ r \in Seq(Steps) /\ r # <<>> /\ Len(r) \in Nat \ {0} /\ DOMAIN r = 1..Len(r)
           /\ r[1] = Step("config", "", "")
           /\ \A i \in 1..Len(r) : Written(r[i])
<1>1. /\ Spelled(r) /\ r # <<>> /\ r[1] = Step("config", "", "")
      /\ \A i \in DOMAIN r : r[i].v \in Quoted => r[i].q # "'"
  BY PathsAssumption
<1>2. r \in Seq(Steps) /\ \A i \in DOMAIN r : r[i].v = "" <=> r[i].q = ""
  BY <1>1 DEF Spelled
<1>3. Len(r) \in Nat \ {0} /\ DOMAIN r = 1..Len(r) /\ \A i \in 1..Len(r) : r[i] \in Steps
  BY <1>1, <1>2, EmptySeq, LenProperties, ElementOfSeq
<1>4. ASSUME NEW i \in 1..Len(r) PROVE Written(r[i])
  BY <1>1, <1>2, <1>3, Zenon DEF Written
<1> QED
  BY <1>1, <1>2, <1>3, <1>4

\* A plain path is spelled as it must be; one below a root begins with config.
LEMMA PlainIs ==
    ASSUME NEW p, Spelled(p)
    PROVE  /\ p \in Seq(Steps) /\ Len(p) \in Nat /\ DOMAIN p = 1..Len(p)
           /\ IsStrict(p) <=> Plain(p)
           /\ Plain(p) => \A i \in 1..Len(p) : Written(p[i])
           /\ \A r \in PolicyRoots \cup GrantRoots :
                Within(p, r) => p # <<>> /\ p[1] = Step("config", "", "")
<1>1. /\ p \in Seq(Steps) /\ Len(p) \in Nat /\ DOMAIN p = 1..Len(p)
      /\ \A i \in 1..Len(p) : p[i] \in Steps /\ (p[i].v = "" <=> p[i].q = "")
  BY LenProperties, ElementOfSeq DEF Spelled
<1>2. IsStrict(p) <=> Plain(p)
  BY Zenon DEF IsStrict, Plain
<1>3. ASSUME Plain(p), NEW i \in 1..Len(p) PROVE Written(p[i])
  BY <1>1, <1>3, Zenon DEF Plain, Written
<1>4. ASSUME NEW r \in PolicyRoots \cup GrantRoots, Within(p, r)
      PROVE  p # <<>> /\ p[1] = Step("config", "", "")
  <2>1. Len(r) \in Nat \ {0} /\ DOMAIN r = 1..Len(r) /\ r[1] = Step("config", "", "")
    BY RootIs, Zenon
  <2>2. 1 \in 1..Len(r) /\ 1 \in DOMAIN r
    BY <2>1, Positions, Zenon
  <2>3. Len(p) >= Len(r) /\ Addresses(p[1], r[1])
    BY <1>4, <2>2, Zenon DEF Within
  <2>4. r[1] \in Steps
    BY <2>2, RootIs, Zenon DEF Written
  <2>5. p \in Seq(Steps) /\ Len(p) \in Nat /\ Len(p) >= Len(r)
    BY <1>1, <2>3, Zenon
  <2>6. 1 \in 1..Len(p)
    BY <2>1, <2>5, Positions, Zenon
  <2>7. r[1].n = "config" /\ r[1].v = "" /\ r[1].q = ""
    <3> DEFINE t == Step("config", "", "")
    <3>1. t.n = "config" /\ t.v = "" /\ t.q = ""
      BY SMT DEF Step
    <3>2. r[1] = t
      BY <2>1, Zenon
    <3> HIDE DEF t
    <3> QED
      BY <3>1, <3>2
  <2>8. p[1] \in Steps /\ p[1].q = "" /\ p[1].n = r[1].n /\ p[1].v = r[1].v
    BY <1>1, <2>3, <2>6, <2>7 DEF Addresses
  <2>9. p[1] = r[1]
    BY <2>7, <2>8, <2>4, StepIs
  <2>10. p # <<>>
    BY <2>6, <2>5, EmptySeq
  <2> QED
    BY <2>1, <2>9, <2>10, Zenon
<1> QED
  BY <1>1, <1>2, <1>3, <1>4

\* The text comparison of a grant, a root that is continued by a predicate included.
LEMMA GrantText ==
    ASSUME NEW p, Spelled(p), Plain(p), NEW r \in GrantRoots
    PROVE  LET c == Canonical(p)
               g == Canonical(r)
               below == /\ Last(g).v = "" /\ StartsWith(c, Front(g)) /\ Len(c) >= Len(g)
                        /\ c[Len(g)].n = Last(g).n /\ c[Len(g)].v # ""
           IN  StartsWith(c, g) \/ below <=>
                 \/ Within(p, r)
                 \/ /\ Last(r).v = "" /\ Within(p, Front(r)) /\ Len(p) >= Len(r)
                    /\ p[Len(r)].n = Last(r).n
<1> DEFINE c == Canonical(p)
           g == Canonical(r)
<1>1. /\ p \in Seq(Steps) /\ Len(p) \in Nat /\ \A i \in 1..Len(p) : Written(p[i]) /\ p[i] \in Steps
  BY PlainIs, ElementOfSeq
<1>2. /\ r \in Seq(Steps) /\ r # <<>> /\ Len(r) \in Nat \ {0} /\ DOMAIN r = 1..Len(r)
      /\ \A i \in 1..Len(r) : Written(r[i]) /\ r[i] \in Steps
  BY RootIs, ElementOfSeq
<1>3. StartsWith(c, g) <=> Within(p, r)
  BY <1>1, <1>2, SameText
<1>4. /\ c \in Seq(Steps) /\ Len(c) = Len(p) /\ \A i \in 1..Len(p) : c[i] = Quoting(p[i])
      /\ g \in Seq(Steps) /\ Len(g) = Len(r) /\ \A i \in 1..Len(r) : g[i] = Quoting(r[i])
  BY <1>1, <1>2, CanonicalIs
<1>5. /\ Front(r) \in Seq(Steps) /\ Len(Front(r)) = Len(r) - 1
      /\ \A i \in 1..(Len(r) - 1) : Front(r)[i] = r[i]
  BY <1>2, FrontIs
<1>6. Front(g) = Canonical(Front(r))
  <2>1. g # <<>>
    BY <1>2, <1>4
  <2>2. /\ Front(g) \in Seq(Steps) /\ Len(Front(g)) = Len(r) - 1
        /\ \A i \in 1..(Len(r) - 1) : Front(g)[i] = g[i]
    BY <1>4, <2>1, FrontIs
  <2>3. /\ Canonical(Front(r)) \in Seq(Steps) /\ Len(Canonical(Front(r))) = Len(r) - 1
        /\ \A i \in 1..(Len(r) - 1) : Canonical(Front(r))[i] = g[i]
    BY <1>2, CanonicalFront
  <2> HIDE DEF g
  <2> QED
    BY <2>2, <2>3, SeqEqual
<1>7. StartsWith(c, Front(g)) <=> Within(p, Front(r))
  <2>1. \A i \in 1..Len(Front(r)) : Written(Front(r)[i])
    BY <1>2, <1>5
  <2> QED
    BY <1>1, <1>5, <1>6, <2>1, SameText
<1>8. /\ \A i \in 1..Len(p) : c[i].n = p[i].n /\ c[i].v = p[i].v
      /\ \A i \in 1..Len(r) : g[i].n = r[i].n /\ g[i].v = r[i].v
  BY <1>1, <1>2, <1>4, QuotingKeeps, Zenon
<1>9. Last(g).v = Last(r).v /\ Last(g).n = Last(r).n
  <2>1. Len(r) \in 1..Len(r) /\ Len(g) = Len(r)
    BY <1>2, <1>4
  <2> QED
    BY <1>8, <2>1, Zenon DEF Last
<1>10. Len(p) >= Len(r) => c[Len(g)].n = p[Len(r)].n /\ c[Len(g)].v = p[Len(r)].v
  <2>1. Len(g) = Len(r) /\ (Len(p) >= Len(r) => Len(r) \in 1..Len(p))
    BY <1>1, <1>2, <1>4
  <2> QED
    BY <1>8, <2>1, Zenon
<1>11. /\ Last(r).v = "" /\ Within(p, Front(r)) /\ Len(p) >= Len(r)
       /\ p[Len(r)].n = Last(r).n /\ p[Len(r)].v = ""
       => Within(p, r)
  <2> SUFFICES ASSUME Last(r).v = "", Within(p, Front(r)), Len(p) >= Len(r),
                      p[Len(r)].n = Last(r).n, p[Len(r)].v = "", NEW i \in 1..Len(r)
               PROVE  Addresses(p[i], r[i])
    BY <1>2 DEF Within
  <2>1. CASE i = Len(r)
    BY <2>1 DEF Last, Addresses
  <2>2. CASE i # Len(r)
    <3>1. DOMAIN Front(r) = 1..Len(Front(r)) /\ Len(Front(r)) = Len(r) - 1 /\ Len(r) \in Nat
      BY <1>2, <1>5, LenProperties, Zenon
    <3>2. i \in 1..(Len(r) - 1) /\ DOMAIN Front(r) = 1..(Len(r) - 1)
      BY <1>2, <2>2, <3>1, Positions, Zenon
    <3> QED
      BY <1>5, <3>2 DEF Within
  <2> QED
    BY <2>1, <2>2
<1>12. Len(c) >= Len(g) <=> Len(p) >= Len(r)
  BY <1>4
<1> HIDE DEF c, g
<1> QED
  BY <1>3, <1>7, <1>9, <1>10, <1>11, <1>12, Zenon DEF c, g

\* validate_write_xpath and allows_xpath on any path a caller may write.
LEMMA ScopeDecides ==
    ASSUME NEW p, Spelled(p)
    PROVE  ScopeOf(p)
<1>1. CASE ~Plain(p)
  <2>1. ~IsStrict(p)
    BY <1>1, PlainIs
  <2> QED
    BY <1>1, <2>1, Zenon DEF ScopeOf, WritablePath, ReadablePath, GrantsPath
<1>2. CASE Plain(p)
  <2>1. /\ IsStrict(p) /\ p \in Seq(Steps) /\ \A i \in 1..Len(p) : Written(p[i])
        /\ \A r \in PolicyRoots : Within(p, r) => p # <<>> /\ p[1] = Step("config", "", "")
    BY <1>2, PlainIs
  <2>2. \A r \in PolicyRoots : StartsWith(Canonical(p), Canonical(r)) <=> Within(p, r)
    BY <2>1, RootIs, SameText
  <2>3. WritablePath(p) <=> Plain(p) /\ \E r \in PolicyRoots : Within(p, r)
    BY <1>2, <2>1, <2>2, Zenon DEF WritablePath, ReadablePath
  <2>4. GrantsPath(p) <=>
         /\ Plain(p)
         /\ \E r \in GrantRoots :
             \/ Within(p, r)
             \/ /\ Last(r).v = "" /\ Within(p, Front(r)) /\ Len(p) >= Len(r)
                /\ p[Len(r)].n = Last(r).n
    BY <1>2, <2>1, GrantText, Zenon DEF GrantsPath
  <2> QED
    BY <2>3, <2>4, Zenon DEF ScopeOf
<1> QED
  BY <1>1, <1>2

-----------------------------------------------------------------------------
(* The simulation of a plan's moves. *)

\* The plans of which the simulation shows no rule the device will not hold, ...
Exact == OneSpelling /\ DeletesEntries

\* ... and those of which it shows all the rules the sets add.
SetsEntries == SetsNameRules /\ SetsWholeRules

Checked == stage \in {"check", "nomove", "accepted"}

\* What the simulation holds of a container.
Seen == [names : SUBSET (Names \cup {""}), truncated : BOOLEAN]

\* What is known while a plan is written, checked and stored.
PlanTypes ==
    /\ plan \in Seq(Actions)
    /\ live \in Lives
    /\ local \in BOOLEAN
    /\ at \in Nat \ {0}
    /\ stage \in {"draft", "fetch", "check", "accepted", "refused", "nomove"}
    /\ DOMAIN held = Containers
    /\ stage \in {"draft", "fetch"} => at = 1 /\ held = live /\ failing = {}
    /\ stage \notin {"draft", "refused"} => ValidPlan(plan)
    /\ Checked => sim \in [MovedIn -> Seen]

\* The simulation never shows a rule the device will not hold ...
SimIsSafe == Checked /\ Exact =>
    failing = {} /\ \A c \in MovedIn : sim[c].names \subseteq held[Canonical(c)]

\* ... and shows all of them, if it saw the containers whole and the sets are its own.
SimIsWhole == Checked /\ Exact /\ SetsEntries /\ SeenWhole =>
    \A c \in MovedIn : sim[c].names = held[Canonical(c)]

\* A plan refused for a missing rule was refused at a move that names it.
RefusedAtMove == stage = "nomove" =>
    at \in DOMAIN plan /\ plan[at].act = "move" /\ ~Finds(plan[at])

PlanInv == PlanTypes /\ SimIsSafe /\ SimIsWhole /\ RefusedAtMove

-----------------------------------------------------------------------------
(* What one action does, to the device and to the simulation. *)

\* An action a caller may write, and one that passed the checks of create_change_set.
LEMMA ActionIs ==
    ASSUME NEW a \in Actions
    PROVE  /\ a.act \in {"set", "delete", "move"} /\ Spelled(a.path) /\ a.path \in Seq(Steps)
           /\ ValidAction(a) => a.path # <<>>
           /\ ValidAction(a) /\ a.act = "move" => IsEntryPath(a.path)
<1>1. a.act \in {"set", "delete", "move"} /\ Spelled(a.path)
  BY PathsAssumption, Zenon
<1>2. a.path \in Seq(Steps)
  BY <1>1, Zenon DEF Spelled
<1>3. ValidAction(a) => a.path # <<>>
  BY Zenon DEF ValidAction, WritablePath, ReadablePath
<1>4. ValidAction(a) /\ a.act = "move" => IsEntryPath(a.path)
  <2>1. "set" # "move" /\ "delete" # "move"
    OBVIOUS
  <2> QED
    BY <2>1 DEF ValidAction, ValidPayload
<1> QED
  BY <1>1, <1>2, <1>3, <1>4, Zenon

\* A container of a plan's move, as the device knows it.
LEMMA ContainerIs ==
    ASSUME plan \in Seq(Actions), ValidPlan(plan), NEW c \in MovedIn
    PROVE  /\ c \in Seq(Steps) /\ Canonical(c) \in Containers
           /\ \E i \in DOMAIN plan : c = Front(plan[i].path)
<1>1. PICK i \in DOMAIN plan : plan[i].act = "move" /\ c = Front(plan[i].path)
  BY Zenon DEF MovedIn, Moves
<1>2. plan[i] \in Actions /\ ValidAction(plan[i])
  BY <1>1, ElementOfSeq, LenProperties DEF ValidPlan
<1>3. plan[i].path \in Seq(Steps) /\ plan[i].path # <<>>
  BY <1>2, ActionIs, Zenon
<1>4. c \in Seq(Steps)
  BY <1>1, <1>3, FrontIs, Zenon
<1>5. Canonical(c) \in Containers
  BY <1>1, <1>2, Zenon DEF Containers
<1> QED
  BY <1>1, <1>4, <1>5, Zenon

\* An action on an entry of a container touches it, one step below; and one that touches
\* it one step below is on an entry of it, in this spelling or the other.
LEMMA EntryTouches ==
    ASSUME NEW a, a.path \in Seq(Steps), a.path # <<>>, NEW c \in Seq(Steps)
    PROVE  /\ c = Front(a.path) => /\ Touches(a, Canonical(c))
                                   /\ Len(a.path) = Len(Canonical(c)) + 1
                                   /\ a.path[Len(Canonical(c)) + 1].v = Last(a.path).v
           /\ Touches(a, Canonical(c)) /\ Len(a.path) = Len(Canonical(c)) + 1
                => Canonical(c) = Canonical(Front(a.path))
<1> DEFINE p == a.path
           d == Canonical(c)
           e == Canonical(Front(p))
<1>1. /\ d \in Seq(Steps) /\ Len(d) = Len(c) /\ Len(c) \in Nat
      /\ Canonical(p) \in Seq(Steps) /\ Len(Canonical(p)) = Len(p) /\ Len(p) \in Nat \ {0}
  BY CanonicalIs, FrontIs, LenProperties
<1>2. e \in Seq(Steps) /\ Len(e) = Len(p) - 1 /\ \A i \in 1..(Len(p) - 1) : e[i] = Canonical(p)[i]
  BY CanonicalFront
<1>3. StartsWith(Canonical(p), d) <=>
        Len(Canonical(p)) >= Len(d) /\ \A i \in 1..Len(d) : Canonical(p)[i] = d[i]
  BY <1>1, StartsWithIs
<1>4. ASSUME c = Front(p)
      PROVE  Touches(a, d) /\ Len(p) = Len(d) + 1 /\ p[Len(d) + 1].v = Last(p).v
  <2>1. d = e
    BY <1>4
  <2>2. Len(p) = Len(d) + 1 /\ Len(p) > Len(d) /\ Len(Canonical(p)) >= Len(d)
    BY <1>1, <1>2, <2>1
  <2>3. \A i \in 1..Len(d) : Canonical(p)[i] = d[i]
    BY <1>2, <2>1
  <2>4. Touches(a, d)
    BY <1>3, <2>2, <2>3, Zenon DEF Touches
  <2> QED
    BY <2>2, <2>4, Zenon DEF Last
<1>5. ASSUME Touches(a, d), Len(p) = Len(d) + 1
      PROVE  d = e
  <2>1. \A i \in 1..Len(d) : Canonical(p)[i] = d[i]
    BY <1>3, <1>5, Zenon DEF Touches
  <2>2. Len(p) - 1 = Len(d)
    BY <1>1, <1>5
  <2> HIDE DEF d, e
  <2> QED
    BY <1>1, <1>2, <2>1, <2>2, SeqEqual
<1> QED
  BY <1>4, <1>5, Zenon

\* What an action leaves in a container of the device.
LEMMA CarryIs ==
    ASSUME DOMAIN held = Containers, NEW a \in Actions, NEW d \in Containers
    PROVE  LET n == a.path[Len(d) + 1].v
               on == Touches(a, d) /\ Len(a.path) = Len(d) + 1
           IN  /\ DOMAIN Carry(held, a) = Containers
               /\ a.act = "move" => Carry(held, a)[d] = held[d]
               /\ a.act = "set" => Carry(held, a)[d] = held[d] \cup Adds(a, d)
               /\ a.act = "delete" /\ ~StartsWith(d, Canonical(a.path))
                    => /\ on => Carry(held, a)[d] = held[d] \ {n}
                       /\ ~on => Carry(held, a)[d] = held[d]
<1> DEFINE n == a.path[Len(d) + 1].v
           touches == Touches(a, d)
           below == Len(a.path) = Len(d) + 1
           above == StartsWith(d, Canonical(a.path))
<1>1. DOMAIN Carry(held, a) = Containers
  BY Zenon DEF Carry
<1>2. /\ a.act = "set" => Carry(held, a)[d] = held[d] \cup Adds(a, d)
      /\ (a.act = "delete" /\ touches /\ below) /\ ~(a.act = "delete" /\ above)
           => Carry(held, a)[d] = held[d] \ {n}
      /\ ~(a.act = "set") /\ ~(a.act = "delete" /\ touches /\ below)
         /\ ~(a.act = "delete" /\ above) => Carry(held, a)[d] = held[d]
  <2> DEFINE set == a.act = "set"
             delete == a.act = "delete" /\ touches /\ below
             clear == a.act = "delete" /\ above
  <2>1. Carry(held, a)[d] = CASE set -> held[d] \cup Adds(a, d)
                           [] delete -> held[d] \ {n}
                           [] clear -> {}
                           [] OTHER -> held[d]
    BY Zenon DEF Carry
  <2>2. ~(set /\ delete) /\ ~(set /\ clear)
    BY Zenon, "set" # "delete"
  <2> HIDE DEF set, delete, clear
  <2>3. /\ set => Carry(held, a)[d] = held[d] \cup Adds(a, d)
        /\ delete /\ ~clear => Carry(held, a)[d] = held[d] \ {n}
        /\ ~set /\ ~delete /\ ~clear => Carry(held, a)[d] = held[d]
    BY <2>1, <2>2, Zenon
  <2> QED
    BY <2>3, Zenon DEF set, delete, clear
<1>3. a.act \in {"set", "delete", "move"}
  BY ActionIs, Zenon
<1>4. "set" # "move" /\ "set" # "delete" /\ "delete" # "move"
  OBVIOUS
<1> HIDE DEF n, touches, below, above
<1>5. /\ a.act = "move" => Carry(held, a)[d] = held[d]
      /\ a.act = "set" => Carry(held, a)[d] = held[d] \cup Adds(a, d)
      /\ a.act = "delete" /\ ~above
           => /\ touches /\ below => Carry(held, a)[d] = held[d] \ {n}
              /\ ~(touches /\ below) => Carry(held, a)[d] = held[d]
  BY <1>2, <1>3, <1>4, Zenon
<1> QED
  BY <1>1, <1>5, Zenon DEF n, touches, below, above

\* What it leaves in the simulation.
LEMMA AfterIs ==
    ASSUME sim \in [MovedIn -> Seen], NEW a \in Actions, a.path # <<>>, NEW c \in MovedIn
    PROVE  LET own == IsEntryPath(a.path) /\ c = Front(a.path)
           IN  /\ After(a) \in [MovedIn -> Seen]
               /\ After(a)[c].truncated = sim[c].truncated
               /\ a.act = "move" \/ ~own => After(a)[c].names = sim[c].names
               /\ a.act = "set" /\ own =>
                    After(a)[c].names = sim[c].names \cup {Last(a.path).v}
               /\ a.act = "delete" /\ own =>
                    After(a)[c].names = sim[c].names \ {Last(a.path).v}
<1> DEFINE f == Front(a.path)
           x == Last(a.path).v
           kept == ~IsEntryPath(a.path) \/ f \notin MovedIn \/ a.act = "move"
           names == IF a.act = "set" THEN sim[f].names \cup {x} ELSE sim[f].names \ {x}
           own == IsEntryPath(a.path) /\ c = f
<1>1. DOMAIN sim = MovedIn /\ \A d \in MovedIn : sim[d] \in Seen
  OBVIOUS
<1>2. x \in Names \cup {""}
  <2>1. a.path \in Seq(Steps) /\ Len(a.path) \in Nat \ {0}
    BY ActionIs, FrontIs, Zenon
  <2>2. a.path[Len(a.path)] \in Steps
    BY <2>1, ElementOfSeq
  <2> QED
    BY <2>2 DEF Last, Steps
<1>3. "set" # "move" /\ "set" # "delete" /\ "delete" # "move"
  OBVIOUS
<1>4. CASE kept
  <2>1. After(a) = sim
    BY <1>1, <1>4, Zenon DEF After
  <2>2. ~own \/ a.act = "move"
    BY <1>4, Zenon
  <2> QED
    BY <1>1, <1>3, <2>1, <2>2, Zenon
<1>5. CASE ~kept
  <2>1. After(a) = [sim EXCEPT ![f].names = names] /\ f \in MovedIn
    BY <1>1, <1>5, Zenon DEF After
  <2>2. a.act \in {"set", "delete"} /\ IsEntryPath(a.path)
    BY <1>5, ActionIs, Zenon
  <2>3. sim[f] \in Seen /\ sim[c] \in Seen
    BY <1>1, <2>1
  <2>4. names \in SUBSET (Names \cup {""})
    BY <1>2, <2>3 DEF Seen
  <2> HIDE DEF f, names
  <2>5. /\ After(a) = [sim EXCEPT ![f] = [@ EXCEPT !.names = names]]
        /\ [sim[f] EXCEPT !.names = names] \in Seen
        /\ [sim[f] EXCEPT !.names = names].names = names
        /\ [sim[f] EXCEPT !.names = names].truncated = sim[f].truncated
    BY <2>1, <2>3, <2>4 DEF Seen
  <2>6. After(a) \in [MovedIn -> Seen]
    BY <2>1, <2>5
  <2>7. c = f => After(a)[c].names = names /\ After(a)[c].truncated = sim[c].truncated
    BY <2>1, <2>5
  <2>8. c # f => After(a)[c] = sim[c]
    BY <2>1, <2>5
  <2>9. /\ a.act = "set" => names = sim[f].names \cup {x}
        /\ a.act = "delete" => names = sim[f].names \ {x}
    BY <1>3, Zenon DEF names
  <2> QED
    BY <1>3, <2>2, <2>6, <2>7, <2>8, <2>9, Zenon DEF f
<1> QED
  BY <1>4, <1>5

\* The same action, on the device and in the simulation: what is seen of a container stays
\* within what it holds, and is all of it if the sets are the simulation's own.
LEMMA ActionAgrees ==
    ASSUME plan \in Seq(Actions), ValidPlan(plan), Exact,
           sim \in [MovedIn -> Seen], DOMAIN held = Containers,
           NEW j \in DOMAIN plan, NEW c \in MovedIn
    PROVE  LET a == plan[j]
               d == Canonical(c)
           IN  /\ sim[c].names \subseteq held[d]
                    => After(a)[c].names \subseteq Carry(held, a)[d]
               /\ sim[c].names = held[d] /\ SetsEntries
                    => After(a)[c].names = Carry(held, a)[d]
<1> DEFINE a == plan[j]
           p == a.path
           d == Canonical(c)
           x == Last(p).v
           own == IsEntryPath(p) /\ c = Front(p)
<1>1. a \in Actions /\ ValidAction(a)
  BY ElementOfSeq, LenProperties DEF ValidPlan
<1>2. a.act \in {"set", "delete", "move"} /\ p \in Seq(Steps) /\ p # <<>>
  BY <1>1, ActionIs, Zenon
<1>3. /\ c \in Seq(Steps) /\ d \in Containers
      /\ \E i \in DOMAIN plan : c = Front(plan[i].path)
  BY ContainerIs, Zenon
<1>4. Len(d) = Len(c)
  BY <1>3, CanonicalIs, Zenon
<1>5. c = Front(p) => Touches(a, d) /\ Len(p) = Len(d) + 1 /\ p[Len(d) + 1].v = x
  BY <1>2, <1>3, EntryTouches, Zenon
<1>6. Touches(a, d) /\ Len(p) = Len(d) + 1 => c = Front(p)
  <2>1. Touches(a, d) /\ Len(p) = Len(d) + 1 => d = Canonical(Front(p))
    BY <1>2, <1>3, EntryTouches, Zenon
  <2> QED
    BY <1>3, <2>1, Zenon DEF Exact, OneSpelling
<1>7. /\ a.act = "move" \/ ~own => After(a)[c].names = sim[c].names
      /\ a.act = "set" /\ own => After(a)[c].names = sim[c].names \cup {x}
      /\ a.act = "delete" /\ own => After(a)[c].names = sim[c].names \ {x}
  BY <1>1, <1>2, AfterIs, Zenon
<1> DEFINE n == p[Len(d) + 1].v
           on == Touches(a, d) /\ Len(p) = Len(d) + 1
<1>8. /\ a.act = "move" => Carry(held, a)[d] = held[d]
      /\ a.act = "set" => Carry(held, a)[d] = held[d] \cup Adds(a, d)
      /\ a.act = "delete" /\ ~StartsWith(d, Canonical(p))
           => /\ on => Carry(held, a)[d] = held[d] \ {n}
              /\ ~on => Carry(held, a)[d] = held[d]
  BY <1>1, <1>3, CarryIs, Zenon
<1>9. a.act = "delete" => IsEntryPath(p) /\ ~StartsWith(d, Canonical(p))
  BY Zenon DEF Exact, DeletesEntries
<1>10. a.act = "set" /\ SetsEntries
         => IsEntryPath(p) /\ (Touches(a, d) => Len(p) = Len(d) + 1) /\ a.new = ""
  BY <1>4, Zenon DEF SetsEntries, SetsNameRules, SetsWholeRules
<1> DEFINE S == sim[c].names
           H == held[d]
           S1 == After(a)[c].names
           H1 == Carry(held, a)[d]
<1>11. CASE a.act = "move"
  BY <1>7, <1>8, <1>11, Zenon
<1>12. CASE a.act = "set"
  <2>1. CASE own
    <3>1. S1 = S \cup {x} /\ H1 = H \cup {x}
      <4>1. Adds(a, d) = {x}
        BY <1>5, <2>1, Zenon DEF Adds
      <4> QED
        BY <1>7, <1>8, <1>12, <2>1, <4>1, Zenon
    <3> HIDE DEF S, H, S1, H1, x
    <3>2. (S \subseteq H => S1 \subseteq H1) /\ (S = H => S1 = H1)
      BY <3>1
    <3> QED
      BY <3>2, Zenon DEF S, H, S1, H1
  <2>2. CASE ~own
    <3>1. S1 = S /\ H1 = H \cup Adds(a, d)
      BY <1>7, <1>8, <1>12, <2>2, Zenon
    <3>2. SetsEntries => Adds(a, d) = {}
      <4>1. SetsEntries => ~Touches(a, d) /\ a.new = ""
        BY <1>6, <1>10, <1>12, <2>2, Zenon
      <4>2. ~Touches(a, d) => Adds(a, d) \in {{}, {a.new} \ {""}}
        BY Zenon DEF Adds
      <4>3. {""} \ {""} = {}
        OBVIOUS
      <4> QED
        BY <4>1, <4>2, <4>3, Zenon
    <3> HIDE DEF S, H, S1, H1
    <3>3. (S \subseteq H => S1 \subseteq H1) /\ (SetsEntries /\ S = H => S1 = H1)
      BY <3>1, <3>2
    <3> QED
      BY <3>3, Zenon DEF S, H, S1, H1
  <2> QED
    BY <2>1, <2>2, Zenon
<1>13. CASE a.act = "delete"
  <2>1. CASE own
    <3>1. S1 = S \ {x} /\ H1 = H \ {x}
      BY <1>5, <1>7, <1>8, <1>9, <1>13, <2>1, Zenon
    <3> HIDE DEF S, H, S1, H1, x
    <3>2. (S \subseteq H => S1 \subseteq H1) /\ (S = H => S1 = H1)
      BY <3>1
    <3> QED
      BY <3>2, Zenon DEF S, H, S1, H1
  <2>2. CASE ~own
    <3>1. S1 = S /\ H1 = H
      BY <1>6, <1>7, <1>8, <1>9, <1>13, <2>2, Zenon
    <3> QED
      BY <3>1, Zenon
  <2> QED
    BY <2>1, <2>2, Zenon
<1> QED
  BY <1>2, <1>11, <1>12, <1>13, Zenon

-----------------------------------------------------------------------------
(* The invariant. *)

\* The parts of it that depend on the plan alone.
LEMMA SamePlan ==
    ASSUME plan' = plan, local' = local
    PROVE  /\ MovedIn' = MovedIn /\ ValidPlan(plan)' = ValidPlan(plan)
           /\ OneSpelling' = OneSpelling /\ DeletesEntries' = DeletesEntries
           /\ Exact' = Exact /\ SetsEntries' = SetsEntries
<1>1. MovedIn' = MovedIn
  BY DEF MovedIn, Moves
<1>2. ValidPlan(plan)' = ValidPlan(plan)
  BY DEF ValidPlan, ValidAction, Granted
<1>3. OneSpelling' = OneSpelling
  BY DEF OneSpelling
<1>4. DeletesEntries' = DeletesEntries
  BY <1>1 DEF DeletesEntries
<1>5. SetsEntries' = SetsEntries
  BY <1>1 DEF SetsEntries, SetsNameRules, SetsWholeRules
<1>6. Exact' = Exact
  BY <1>3, <1>4 DEF Exact
<1> QED
  BY <1>1, <1>2, <1>3, <1>4, <1>5, <1>6, Zenon

LEMMA InitPlan == Init => PlanInv
<1> SUFFICES ASSUME Init PROVE PlanInv
  OBVIOUS
<1>1. /\ plan = <<>> /\ stage = "draft" /\ at = 1 /\ live \in Lives /\ local \in BOOLEAN
      /\ held = live /\ failing = {}
  BY Zenon DEF Init
<1>2. plan \in Seq(Actions)
  BY <1>1
<1>3. DOMAIN held = Containers
  BY <1>1, PathsAssumption
<1>4. ~Checked /\ stage # "nomove"
  BY <1>1 DEF Checked
<1>5. PlanTypes
  BY <1>1, <1>2, <1>3, <1>4 DEF PlanTypes
<1> QED
  BY <1>4, <1>5, Zenon DEF PlanInv, SimIsSafe, SimIsWhole, RefusedAtMove

\* A step that leaves all but the stage alone, once the checks are over or not begun.
LEMMA OnlyStage ==
    ASSUME PlanInv, UNCHANGED <<plan, local, live, sim, at, held, failing>>,
           \/ stage' = "refused"
           \/ stage' = stage
           \/ stage = "draft" /\ stage' = "fetch" /\ ValidPlan(plan)
           \/ stage = "check" /\ stage' = "accepted"
           \/ /\ stage = "check" /\ stage' = "nomove"
              /\ at \in DOMAIN plan /\ plan[at].act = "move" /\ ~Finds(plan[at])
    PROVE  PlanInv'
<1>1. /\ MovedIn' = MovedIn /\ ValidPlan(plan)' = ValidPlan(plan)
      /\ Exact' = Exact /\ SetsEntries' = SetsEntries
  BY SamePlan, Zenon
<1>2. /\ plan' = plan /\ local' = local /\ live' = live /\ sim' = sim /\ at' = at
      /\ held' = held /\ failing' = failing
  OBVIOUS
<1>3. PlanTypes /\ SimIsSafe /\ SimIsWhole /\ RefusedAtMove
  BY Zenon DEF PlanInv
<1>4. Checked' => Checked
  BY DEF Checked
<1>5. SeenWhole' = SeenWhole
  BY <1>2, Zenon DEF SeenWhole
<1>6. PlanTypes'
  <2>1. stage' \in {"draft", "fetch"} => at' = 1 /\ held' = live' /\ failing' = {}
    BY <1>2, <1>3 DEF PlanTypes
  <2>2. stage' \notin {"draft", "refused"} => ValidPlan(plan)'
    BY <1>1, <1>3 DEF PlanTypes
  <2>3. Checked' => sim' \in [MovedIn' -> Seen]
    BY <1>1, <1>2, <1>3, <1>4, Zenon DEF PlanTypes
  <2>4. stage' \in {"draft", "fetch", "check", "accepted", "refused", "nomove"}
    BY <1>3 DEF PlanTypes
  <2> QED
    BY <1>2, <1>3, <2>1, <2>2, <2>3, <2>4, Zenon DEF PlanTypes
<1>7. SimIsSafe'
  BY <1>1, <1>2, <1>3, <1>4, Zenon DEF SimIsSafe
<1>8. SimIsWhole'
  BY <1>1, <1>2, <1>3, <1>4, <1>5, Zenon DEF SimIsWhole
<1>9. RefusedAtMove'
  <2>1. stage' = "nomove" => at \in DOMAIN plan /\ plan[at].act = "move" /\ ~Finds(plan[at])
    BY <1>3 DEF RefusedAtMove
  <2> QED
    BY <1>2, <2>1, Zenon DEF RefusedAtMove, Finds
<1> QED
  BY <1>6, <1>7, <1>8, <1>9, Zenon DEF PlanInv

LEMMA WriteKeeps == ASSUME PlanInv, NEW a \in Actions, Write(a) PROVE PlanInv'
<1>1. /\ stage = "draft" /\ plan' = Append(plan, a)
      /\ UNCHANGED <<stage, local, live, sim, at, held, failing>>
  BY Zenon DEF Write
<1>2. PlanTypes
  BY Zenon DEF PlanInv
<1>3. plan' \in Seq(Actions)
  BY <1>1, <1>2, AppendProperties DEF PlanTypes
<1>4. stage' = "draft" /\ ~Checked'
  BY <1>1 DEF Checked
<1>5. /\ stage' \notin {"draft", "refused"} => ValidPlan(plan)'
      /\ stage' \in {"draft", "fetch"} => at' = 1 /\ held' = live' /\ failing' = {}
  BY <1>1, <1>2 DEF PlanTypes
<1>6. PlanTypes'
  BY <1>1, <1>2, <1>3, <1>4, <1>5, Zenon DEF PlanTypes
<1>7. stage' # "nomove"
  BY <1>4
<1> QED
  BY <1>4, <1>6, <1>7, Zenon DEF PlanInv, SimIsSafe, SimIsWhole, RefusedAtMove

LEMMA FetchKeeps == ASSUME PlanInv, Fetch PROVE PlanInv'
<1>1. /\ stage = "fetch" /\ stage' = "check"
      /\ plan' = plan /\ local' = local /\ live' = live /\ at' = at
      /\ held' = held /\ failing' = failing
  BY Zenon DEF Fetch
<1>2. /\ MovedIn' = MovedIn /\ ValidPlan(plan)' = ValidPlan(plan)
      /\ Exact' = Exact /\ SetsEntries' = SetsEntries
  BY <1>1, SamePlan, Zenon
<1>3. /\ plan \in Seq(Actions) /\ live \in Lives /\ local \in BOOLEAN /\ at \in Nat \ {0}
      /\ DOMAIN held = Containers /\ held = live /\ failing = {} /\ ValidPlan(plan)
  <2>1. PlanTypes
    BY Zenon DEF PlanInv
  <2>2. stage \in {"draft", "fetch"} /\ stage \notin {"draft", "refused"}
    BY <1>1
  <2> QED
    BY <2>1, <2>2, Zenon DEF PlanTypes
<1>4. DOMAIN sim' = MovedIn /\ \A c \in MovedIn : sim'[c] \in Views(c)
  <2>1. sim' \in {f \in [MovedIn -> UNION {Views(c) : c \in MovedIn}] :
                     \A c \in MovedIn : f[c] \in Views(c)}
    BY Zenon DEF Fetch
  <2> QED
    BY <2>1
<1>5. ASSUME NEW c \in MovedIn
      PROVE  /\ sim'[c] \in Seen /\ sim'[c].names \subseteq held[Canonical(c)]
             /\ ~sim'[c].truncated => sim'[c].names = held[Canonical(c)]
  <2> DEFINE all == live[Canonical(c)]
  <2>1. Canonical(c) \in Containers
    BY <1>3, ContainerIs, Zenon
  <2>2. all \in SUBSET Names /\ all = held[Canonical(c)]
    BY <1>3, <2>1, PathsAssumption
  <2>3. PICK S \in SUBSET all : sim'[c] = [names |-> S, truncated |-> S # all]
    BY <1>4, Zenon DEF Views
  <2> DEFINE cut == S # all
  <2>4. cut \in BOOLEAN /\ sim'[c] = [names |-> S, truncated |-> cut]
    BY <2>3, Zenon
  <2> HIDE DEF all, cut
  <2>5. \A s, b : /\ [names |-> s, truncated |-> b].names = s
                  /\ [names |-> s, truncated |-> b].truncated = b
                  /\ s \subseteq Names /\ b \in BOOLEAN
                       => [names |-> s, truncated |-> b] \in Seen
    BY DEF Seen
  <2>6. S \subseteq Names /\ S \subseteq held[Canonical(c)]
    BY <2>2, <2>3
  <2>7. /\ sim'[c] \in Seen /\ sim'[c].names = S /\ sim'[c].truncated = cut
        /\ sim'[c].names \subseteq held[Canonical(c)]
    <3> DEFINE r == [names |-> S, truncated |-> cut]
    <3>1. r.names = S /\ r.truncated = cut /\ r \in Seen
      BY <2>4, <2>5, <2>6, Zenon
    <3>2. sim'[c] = r
      BY <2>4, Zenon
    <3> HIDE DEF r
    <3> QED
      BY <2>6, <3>1, <3>2
  <2>8. ~cut => S = all
    BY Zenon DEF cut
  <2> QED
    BY <2>2, <2>7, <2>8, Zenon
<1>6. sim' \in [MovedIn -> Seen]
  <2>1. sim' = [c \in MovedIn |-> sim'[c]]
    <3>1. PICK f \in [MovedIn -> UNION {Views(c) : c \in MovedIn}] : sim' = f
      BY Zenon DEF Fetch
    <3> QED
      BY <3>1
  <2> QED
    BY <1>5, <2>1, Zenon
<1>7. PlanTypes'
  <2>1. /\ stage' \notin {"draft", "fetch"} /\ stage' # "nomove"
        /\ stage' \in {"draft", "fetch", "check", "accepted", "refused", "nomove"}
    BY <1>1
  <2> QED
    BY <1>1, <1>2, <1>3, <1>6, <2>1, Zenon DEF PlanTypes
<1>8. SimIsSafe'
  BY <1>1, <1>2, <1>3, <1>5, Zenon DEF SimIsSafe
<1>9. SimIsWhole'
  <2>1. SeenWhole' => \A c \in MovedIn : ~sim'[c].truncated
    BY <1>4, Zenon DEF SeenWhole
  <2> QED
    BY <1>1, <1>2, <1>5, <2>1, Zenon DEF SimIsWhole
<1>10. RefusedAtMove'
  <2>1. stage' # "nomove"
    BY <1>1
  <2> QED
    BY <2>1, Zenon DEF RefusedAtMove
<1> QED
  BY <1>7, <1>8, <1>9, <1>10, Zenon DEF PlanInv

\* A move that passed the check finds its rules, if what is seen is there.
LEMMA MovePasses ==
    ASSUME plan \in Seq(Actions), ValidPlan(plan), NEW j \in DOMAIN plan,
           plan[j].act = "move", Finds(plan[j]),
           \A c \in MovedIn : sim[c].names \subseteq held[Canonical(c)]
    PROVE  DeviceFinds(plan[j])
<1>1. Front(plan[j].path) \in MovedIn
  BY Zenon DEF MovedIn, Moves
<1>2. sim[Front(plan[j].path)].names \subseteq held[Canonical(Front(plan[j].path))]
  BY <1>1, Zenon
<1> QED
  BY <1>2, Zenon DEF Finds, DeviceFinds

LEMMA CheckKeeps == ASSUME PlanInv, Check PROVE PlanInv'
<1> DEFINE a == plan[at]
<1>1. /\ stage = "check" /\ at <= Len(plan)
      /\ plan' = plan /\ local' = local /\ live' = live
  BY Zenon DEF Check
<1>2. PlanTypes /\ SimIsSafe /\ SimIsWhole
  BY Zenon DEF PlanInv
<1>3. stage \notin {"draft", "fetch", "refused"}
  BY <1>1
<1>4. Checked
  BY <1>1, Zenon DEF Checked
<1>5. /\ plan \in Seq(Actions) /\ live \in Lives /\ local \in BOOLEAN /\ at \in Nat \ {0}
      /\ DOMAIN held = Containers /\ ValidPlan(plan) /\ sim \in [MovedIn -> Seen]
  BY <1>2, <1>3, <1>4, Zenon DEF PlanTypes
<1>6. at \in DOMAIN plan
  <2>1. Len(plan) \in Nat /\ DOMAIN plan = 1..Len(plan)
    BY <1>5, LenProperties
  <2> QED
    BY <1>1, <1>5, <2>1
<1>7. CASE a.act = "move" /\ ~Finds(a)
  <2>1. stage' = "nomove" /\ UNCHANGED <<plan, local, live, sim, at, held, failing>>
    BY <1>1, <1>7, Zenon DEF Check
  <2> QED
    BY <1>1, <1>6, <1>7, <2>1, OnlyStage, Zenon
<1>8. CASE ~(a.act = "move" /\ ~Finds(a))
  <2>1. /\ sim' = After(a) /\ at' = at + 1 /\ stage' = stage /\ held' = Carry(held, a)
        /\ failing' = IF a.act = "move" /\ ~DeviceFinds(a) THEN failing \cup {at} ELSE failing
    BY <1>8, Zenon DEF Check
  <2>2. /\ MovedIn' = MovedIn /\ ValidPlan(plan)' = ValidPlan(plan)
        /\ Exact' = Exact /\ SetsEntries' = SetsEntries
    BY <1>1, SamePlan, Zenon
  <2>3. a \in Actions /\ a.path # <<>>
    <3>1. a \in Actions /\ ValidAction(a)
      BY <1>5, <1>6, ElementOfSeq, LenProperties DEF ValidPlan
    <3> QED
      BY <3>1, ActionIs, Zenon
  <2>4. \A c \in MovedIn : /\ After(a) \in [MovedIn -> Seen]
                           /\ After(a)[c].truncated = sim[c].truncated
    BY <1>5, <2>3, AfterIs, Zenon
  <2>5. sim' \in [MovedIn -> Seen]
    <3>1. CASE MovedIn = {}
      <4>1. Front(a.path) \notin DOMAIN sim
        BY <1>5, <3>1
      <4>2. After(a) = sim
        BY <4>1, Zenon DEF After
      <4> QED
        BY <1>5, <2>1, <4>2, Zenon
    <3>2. CASE MovedIn # {}
      BY <2>1, <2>4, <3>2
    <3> QED
      BY <3>1, <3>2, Zenon
  <2>6. DOMAIN held' = Containers
    BY <1>5, <2>1, Zenon DEF Carry
  <2>7. at' \in Nat \ {0}
    BY <1>5, <2>1
  <2>8. PlanTypes'
    <3>1. stage' \notin {"draft", "fetch"}
      BY <1>1, <2>1
    <3>2. stage' \in {"draft", "fetch", "check", "accepted", "refused", "nomove"}
      BY <1>1, <2>1
    <3> QED
      BY <1>1, <1>5, <2>2, <2>5, <2>6, <2>7, <3>1, <3>2, Zenon DEF PlanTypes
  <2>9. SimIsSafe'
    <3> SUFFICES ASSUME Exact
                 PROVE  /\ failing' = {}
                        /\ \A c \in MovedIn : sim'[c].names \subseteq held'[Canonical(c)]
      BY <2>2, Zenon DEF SimIsSafe
    <3>1. failing = {} /\ \A c \in MovedIn : sim[c].names \subseteq held[Canonical(c)]
      BY <1>2, <1>4, Zenon DEF SimIsSafe
    <3>2. a.act = "move" => DeviceFinds(a)
      BY <1>5, <1>6, <1>8, <3>1, MovePasses, Zenon
    <3>3. failing' = {}
      BY <2>1, <3>1, <3>2, Zenon
    <3>4. \A c \in MovedIn : After(a)[c].names \subseteq Carry(held, a)[Canonical(c)]
      BY <1>5, <1>6, <3>1, ActionAgrees, Zenon
    <3> QED
      BY <2>1, <3>3, <3>4, Zenon
  <2>10. SimIsWhole'
    <3>1. SeenWhole' => SeenWhole
      <4>1. DOMAIN sim' = MovedIn /\ DOMAIN sim = MovedIn
        BY <1>5, <2>5
      <4> QED
        BY <2>1, <2>4, <4>1, Zenon DEF SeenWhole
    <3> SUFFICES ASSUME Exact, SetsEntries, SeenWhole, NEW c \in MovedIn
                 PROVE  sim'[c].names = held'[Canonical(c)]
      BY <2>2, <3>1, Zenon DEF SimIsWhole
    <3>2. sim[c].names = held[Canonical(c)]
      BY <1>2, <1>4, Zenon DEF SimIsWhole
    <3>3. After(a)[c].names = Carry(held, a)[Canonical(c)]
      BY <1>5, <1>6, <3>2, ActionAgrees, Zenon
    <3> QED
      BY <2>1, <3>3, Zenon
  <2>11. RefusedAtMove'
    <3>1. stage' # "nomove"
      BY <1>1, <2>1
    <3> QED
      BY <3>1, Zenon DEF RefusedAtMove
  <2> QED
    BY <2>8, <2>9, <2>10, <2>11, Zenon DEF PlanInv
<1> QED
  BY <1>7, <1>8, Zenon

LEMMA NextKeeps == PlanInv /\ [Next]_vars => PlanInv'
<1> SUFFICES ASSUME PlanInv, [Next]_vars PROVE PlanInv'
  OBVIOUS
<1>1. ASSUME NEW a \in Actions, Write(a) PROVE PlanInv'
  BY <1>1, WriteKeeps, Zenon
<1>2. ASSUME Submit PROVE PlanInv'
  <2>1. UNCHANGED <<plan, local, live, sim, at, held, failing>>
    BY <1>2, Zenon DEF Submit
  <2>2. stage' = "refused" \/ (stage = "draft" /\ stage' = "fetch" /\ ValidPlan(plan))
    BY <1>2, Zenon DEF Submit
  <2> QED
    BY <2>1, <2>2, OnlyStage, Zenon
<1>3. ASSUME FetchFails PROVE PlanInv'
  BY <1>3, OnlyStage, Zenon DEF FetchFails
<1>4. ASSUME Fetch PROVE PlanInv'
  BY <1>4, FetchKeeps, Zenon
<1>5. ASSUME Check PROVE PlanInv'
  BY <1>5, CheckKeeps, Zenon
<1>6. ASSUME Store PROVE PlanInv'
  BY <1>6, OnlyStage, Zenon DEF Store
<1>7. ASSUME UNCHANGED vars PROVE PlanInv'
  BY <1>7, OnlyStage, Zenon DEF vars
<1> QED
  BY <1>1, <1>2, <1>3, <1>4, <1>5, <1>6, <1>7, Zenon DEF Next

THEOREM PlanInvAlways == Spec => []PlanInv
<1>1. Init => PlanInv
  BY InitPlan, Zenon
<1>2. PlanInv /\ [Next]_vars => PlanInv'
  BY NextKeeps, Zenon
<1> QED
  BY <1>1, <1>2, PTL DEF Spec

-----------------------------------------------------------------------------
(* What create_change_set promises of a plan. *)

\* Whatever roots, grants and paths there are, comparing texts decides writing and grants
\* by what an xpath addresses, in either quote style (validate_write_xpath, allows_xpath).
THEOREM ScopeAlways == Spec => []ScopeIsSemantic
<1>1. PlanInv => ScopeIsSemantic
  <2> SUFFICES ASSUME PlanInv PROVE ScopeIsSemantic
    OBVIOUS
  <2>1. plan \in Seq(Actions)
    BY Zenon DEF PlanInv, PlanTypes
  <2>2. ASSUME NEW i \in DOMAIN plan PROVE ScopeOf(plan[i].path)
    <3>1. plan[i] \in Actions
      BY <2>1, ElementOfSeq, LenProperties
    <3> QED
      BY <3>1, ActionIs, ScopeDecides, Zenon
  <2> QED
    BY <2>2, Zenon DEF ScopeIsSemantic, ScopeOf, Plain
<1> QED
  BY <1>1, PlanInvAlways, PTL

\* For plans of any length, over any rulebase, that spell each container in one way and
\* delete entries only, none of them around a rulebase they move in: no move of a stored
\* plan fails on the device for a rule that is not there when its turn comes
\* (require_move_targets_exist).
THEOREM MovesAlwaysFindTheirRules == Spec => []MovesFindTheirRules
<1>1. PlanInv => MovesFindTheirRules
  <2> SUFFICES ASSUME PlanInv, stage = "accepted", OneSpelling, DeletesEntries
               PROVE  failing = {}
    BY Zenon DEF MovesFindTheirRules
  <2>1. Checked
    BY DEF Checked
  <2> QED
    BY <2>1, Zenon DEF PlanInv, SimIsSafe, Exact
<1> QED
  BY <1>1, PlanInvAlways, PTL

\* And if the sets of such a plan add whole rules under xpaths that name them, and its
\* containers were seen whole, a refusal for a missing rule is at a move that the device
\* would have refused too (require_move_targets_exist).
THEOREM RefusalIsAlwaysReal == Spec => []RefusalIsReal
<1>1. PlanInv => RefusalIsReal
  <2> SUFFICES ASSUME PlanInv, stage = "nomove", SeenWhole, OneSpelling, DeletesEntries,
                      SetsNameRules, SetsWholeRules
               PROVE  ~DeviceFinds(plan[at])
    BY Zenon DEF RefusalIsReal
  <2>1. Checked
    BY DEF Checked
  <2>2. \A c \in MovedIn : sim[c].names = held[Canonical(c)]
    BY <2>1, Zenon DEF PlanInv, SimIsWhole, Exact, SetsEntries
  <2>3. at \in DOMAIN plan /\ plan[at].act = "move" /\ ~Finds(plan[at])
    BY Zenon DEF PlanInv, RefusedAtMove
  <2>4. Front(plan[at].path) \in MovedIn
    BY <2>3, Zenon DEF MovedIn, Moves
  <2>5. sim[Front(plan[at].path)].names = held[Canonical(Front(plan[at].path))]
    BY <2>2, <2>4, Zenon
  <2> QED
    BY <2>3, <2>5, Zenon DEF Finds, DeviceFinds
<1> QED
  BY <1>1, PlanInvAlways, PTL
=============================================================================
