----------------------------- MODULE ReadersProofs -----------------------------
(***************************************************************************)
(* Proofs about ResponseReaders: what the readers of xml.rs return is what *)
(* the document says, for every answer, however long, deep or cut off.      *)
(***************************************************************************)
EXTENDS ResponseReaders, FiniteSetTheorems, SequenceTheorems, WellFoundedInduction, TLAPS

Events == [k : Kinds, n : Names \cup {"doc"}]

-----------------------------------------------------------------------------
(* The document's operators, for any stream d. *)

Before(d, i, k) == {j \in 1..(i - 1) : d[j].k = k}
DepthIn(d, i) == Cardinality(Before(d, i, "start")) - Cardinality(Before(d, i, "end"))

\* Element a began before position i and no end tag of its depth came since.
OpenAt(d, a, i) ==
    /\ a < i /\ d[a].k = "start"
    /\ \A m \in (a + 1)..(i - 1) : ~(d[m].k = "end" /\ DepthIn(d, m) = DepthIn(d, a) + 1)

\* The end tag at j is that of element i.
ClosesAt(d, i, j) ==
    \/ i = j /\ d[i].k = "empty"
    \/ OpenAt(d, i, j) /\ d[j].k = "end" /\ DepthIn(d, j) = DepthIn(d, i) + 1

-----------------------------------------------------------------------------
(* Depth, one position at a time. *)

\* The positions before i of one kind are finitely many.
LEMMA BeforeFinite ==
    ASSUME NEW d, NEW i \in Nat, NEW k
    PROVE  IsFiniteSet(Before(d, i, k)) /\ Cardinality(Before(d, i, k)) \in Nat
<1>1. IsFiniteSet(1..(i - 1))
  BY FS_Interval
<1>2. Before(d, i, k) \in SUBSET (1..(i - 1))
  BY DEF Before
<1>3. IsFiniteSet(Before(d, i, k))
  BY <1>1, <1>2, FS_Subset
<1> QED
  BY <1>3, FS_CardinalityType

\* One more position adds itself, if it is of that kind.
LEMMA BeforeNext ==
    ASSUME NEW d, NEW i \in Nat \ {0}, NEW k
    PROVE  Cardinality(Before(d, i + 1, k)) =
               Cardinality(Before(d, i, k)) + (IF d[i].k = k THEN 1 ELSE 0)
<1>1. IsFiniteSet(Before(d, i, k)) /\ Cardinality(Before(d, i, k)) \in Nat
  BY BeforeFinite
<1>2. i \notin Before(d, i, k)
  BY DEF Before
<1>3. 1..((i + 1) - 1) = (1..(i - 1)) \cup {i}
  OBVIOUS
<1>4. CASE d[i].k = k
  <2>1. Before(d, i + 1, k) = Before(d, i, k) \cup {i}
    BY <1>3, <1>4 DEF Before
  <2> QED
    BY <1>1, <1>2, <1>4, <2>1, FS_AddElement
<1>5. CASE d[i].k # k
  <2>1. Before(d, i + 1, k) = Before(d, i, k)
    BY <1>3, <1>5 DEF Before
  <2> QED
    BY <1>1, <1>5, <2>1
<1> QED
  BY <1>4, <1>5

\* A start goes one level down, an end one level up, the rest stays.
LEMMA DepthNext ==
    ASSUME NEW d, NEW i \in Nat \ {0}
    PROVE  /\ DepthIn(d, i) \in Int
           /\ DepthIn(d, i + 1) = CASE d[i].k = "start" -> DepthIn(d, i) + 1
                                    [] d[i].k = "end" -> DepthIn(d, i) - 1
                                    [] OTHER -> DepthIn(d, i)
<1> DEFINE s(j) == Cardinality(Before(d, j, "start"))
           e(j) == Cardinality(Before(d, j, "end"))
<1>1. s(i) \in Nat /\ e(i) \in Nat
  BY BeforeFinite
<1>2. s(i + 1) = s(i) + (IF d[i].k = "start" THEN 1 ELSE 0)
  BY BeforeNext
<1>3. e(i + 1) = e(i) + (IF d[i].k = "end" THEN 1 ELSE 0)
  BY BeforeNext
<1>4. DepthIn(d, i) = s(i) - e(i) /\ DepthIn(d, i + 1) = s(i + 1) - e(i + 1)
  BY DEF DepthIn
<1> HIDE DEF s, e
<1>5. "start" # "end"
  OBVIOUS
<1> QED
  BY <1>1, <1>2, <1>3, <1>4, <1>5

\* The top of the document.
LEMMA DepthFirst == ASSUME NEW d PROVE DepthIn(d, 1) = 0
<1>1. 1..(1 - 1) = {}
  OBVIOUS
<1>2. Before(d, 1, "start") = {} /\ Before(d, 1, "end") = {}
  BY <1>1 DEF Before
<1> QED
  BY <1>2, FS_EmptySet DEF DepthIn

\* The depth of a position is that of the stream up to it.
LEMMA DepthOfPrefix ==
    ASSUME NEW d, NEW f, NEW i \in Nat, \A j \in 1..(i - 1) : f[j] = d[j]
    PROVE  DepthIn(f, i) = DepthIn(d, i)
BY DEF DepthIn, Before

\* So is what is open there.
LEMMA OpenOfPrefix ==
    ASSUME NEW d, NEW f, NEW i \in Nat, \A j \in 1..(i - 1) : f[j] = d[j],
           NEW a \in Nat \ {0}
    PROVE  OpenAt(f, a, i) <=> OpenAt(d, a, i)
<1>1. ASSUME a < i
      PROVE  /\ f[a] = d[a]
             /\ \A m \in a..(i - 1) : f[m] = d[m] /\ DepthIn(f, m) = DepthIn(d, m)
  <2>1. ASSUME NEW m \in a..(i - 1) PROVE f[m] = d[m] /\ DepthIn(f, m) = DepthIn(d, m)
    BY <2>1, DepthOfPrefix
  <2> QED
    BY <1>1, <2>1
<1>2. CASE ~(a < i)
  BY <1>2 DEF OpenAt
<1>3. CASE a < i
  <2>1. DepthIn(f, a) = DepthIn(d, a)
    BY <1>1, <1>3
  <2>2. \A m \in (a + 1)..(i - 1) : f[m] = d[m] /\ DepthIn(f, m) = DepthIn(d, m)
    BY <1>1, <1>3
  <2> QED
    BY <1>1, <1>3, <2>1, <2>2 DEF OpenAt
<1> QED
  BY <1>2, <1>3

\* What is open after position i: what was and did not end there, and i if it starts.
LEMMA OpenNext ==
    ASSUME NEW d, NEW i \in Nat \ {0}, NEW a \in Nat \ {0}
    PROVE  OpenAt(d, a, i + 1) <=>
               \/ a = i /\ d[i].k = "start"
               \/ OpenAt(d, a, i) /\ ~(d[i].k = "end" /\ DepthIn(d, i) = DepthIn(d, a) + 1)
<1>1. CASE a < i
  <2>1. (a + 1)..((i + 1) - 1) = ((a + 1)..(i - 1)) \cup {i}
    BY <1>1
  <2>2. a < i + 1 /\ a # i
    BY <1>1
  <2> QED
    BY <1>1, <2>1, <2>2 DEF OpenAt
<1>2. CASE a = i
  <2>1. (a + 1)..((i + 1) - 1) = {} /\ a < i + 1 /\ ~(a < i)
    BY <1>2
  <2> QED
    BY <1>2, <2>1 DEF OpenAt
<1>3. CASE a > i
  <2>1. ~(a < i + 1) /\ ~(a < i) /\ a # i
    BY <1>3
  <2> QED
    BY <2>1 DEF OpenAt
<1> QED
  BY <1>1, <1>2, <1>3

\* What is open at i was open at every position since it began.
LEMMA OpenBetween ==
    ASSUME NEW d, NEW a \in Nat \ {0}, NEW i \in Nat, NEW j \in Nat,
           OpenAt(d, a, j), a < i, i <= j
    PROVE  OpenAt(d, a, i)
<1>1. (a + 1)..(i - 1) \subseteq (a + 1)..(j - 1)
  OBVIOUS
<1> QED
  BY <1>1 DEF OpenAt

\* A nonempty set of positions has a least one.
LEMMA LeastPosition ==
    ASSUME NEW T, T \subseteq Nat, T # {}
    PROVE  \E x \in T : \A y \in T : x <= y
<1> DEFINE R == {ss \in Nat \X Nat : ss[1] < ss[2]}
<1>0. IsWellFoundedOn(R, Nat)
  BY NatLessThanWellFounded, Zenon DEF OpToRel
<1> HIDE DEF R
<1>1. PICK x \in T : \A y \in T : ~(<<y, x>> \in R)
  BY <1>0, WFMin
<1>2. ASSUME NEW y \in T PROVE x <= y
  <2>1. ~(<<y, x>> \in R) /\ x \in Nat /\ y \in Nat
    BY <1>1
  <2>2. ~(y < x)
    BY <2>1 DEF R
  <2> QED
    BY <2>1, <2>2
<1> QED
  BY <1>2

-----------------------------------------------------------------------------
(* The operators of the model are these, taken on the stream read so far. *)

\* Depth.
LEMMA DepthIs == \A i : Depth(i) = DepthIn(doc, i)
BY DEF Depth, DepthIn, Before, Starts

\* Closes.
LEMMA ClosesIs ==
    ASSUME NEW i \in Nat \ {0}, NEW j \in Nat \ {0}
    PROVE  Closes(i, j) <=> ClosesAt(doc, i, j)
BY DepthIs DEF Closes, ClosesAt, OpenAt, Starts

\* Around: an element whose end tag has not come is open, and conversely.
LEMMA AroundIs ==
    ASSUME NEW a \in Nat \ {0}, NEW i \in Nat \ {0}
    PROVE  Around(a, i) <=> OpenAt(doc, a, i)
<1>1. ASSUME OpenAt(doc, a, i) PROVE Around(a, i)
  <2>1. ASSUME NEW j \in (a + 1)..(i - 1) PROVE ~Closes(a, j)
    BY <1>1, <2>1, DepthIs DEF Closes, OpenAt
  <2> QED
    BY <1>1, <2>1 DEF Around, OpenAt, Starts
<1>2. ASSUME Around(a, i), ~OpenAt(doc, a, i) PROVE FALSE
  <2> DEFINE T == {m \in (a + 1)..(i - 1) :
                      doc[m].k = "end" /\ DepthIn(doc, m) = DepthIn(doc, a) + 1}
  <2>1. T # {} /\ T \subseteq Nat
    BY <1>2 DEF Around, OpenAt, Starts
  <2>2. PICK x \in T : \A y \in T : x <= y
    BY <2>1, LeastPosition
  <2>3. x \in (a + 1)..(i - 1)
    BY <2>2
  <2>4. ASSUME NEW m \in (a + 1)..(x - 1)
        PROVE  ~(doc[m].k = "end" /\ DepthIn(doc, m) = DepthIn(doc, a) + 1)
    BY <2>2, <2>3, <2>4
  <2>5. a < x /\ doc[x].k = "end" /\ DepthIn(doc, x) = DepthIn(doc, a) + 1
    BY <2>2, <2>3
  <2>6. doc[a].k = "start"
    BY <1>2 DEF Around, Starts
  <2>7. Closes(a, x)
    BY <2>4, <2>5, <2>6, DepthIs DEF Closes, Starts
  <2> QED
    BY <1>2, <2>3, <2>7 DEF Around
<1> QED
  BY <1>1, <1>2

-----------------------------------------------------------------------------
(* The stack of open elements and the document. *)

\* s is the stack after the stream d: one open element per level, outermost first.
StackOK(d, s) ==
    /\ d \in Seq(Events) /\ s \in Seq(Names)
    /\ DepthIn(d, Len(d) + 1) = Len(s)
    /\ \A i \in 1..Len(d) : DepthIn(d, i) \in Nat
    /\ \A a \in 1..Len(d) : OpenAt(d, a, Len(d) + 1) =>
           DepthIn(d, a) < Len(s) /\ d[a].n = s[DepthIn(d, a) + 1]
    /\ \A l \in 1..Len(s) :
           \E a \in 1..Len(d) : OpenAt(d, a, Len(d) + 1) /\ DepthIn(d, a) = l - 1
    /\ \A a, b \in 1..Len(d) :
           OpenAt(d, a, Len(d) + 1) /\ OpenAt(d, b, Len(d) + 1)
             /\ DepthIn(d, a) <= DepthIn(d, b) => a <= b

\* What an event makes of the stack.
Stack(s, e) == CASE e.k = "start" -> Append(s, e.n)
                 [] e.k = "end" -> SubSeq(s, 1, Len(s) - 1)
                 [] OTHER -> s

\* The events a reader may get with the stack s.
Fits(s, e) ==
    /\ e \in Events
    /\ e.k \in {"start", "empty"} => e.n \in Names
    /\ e.k = "end" => s # <<>> /\ e.n = s[Len(s)]

\* f is the stream d with the event e at its end, position n.
Longer(d, e, f, n) ==
    /\ d \in Seq(Events) /\ e \in Events /\ f \in Seq(Events)
    /\ Len(d) \in Nat /\ n = Len(d) + 1 /\ n \in Nat \ {0} /\ Len(f) = n
    /\ f[n] = e
    /\ \A j \in 1..Len(d) : f[j] = d[j]
    /\ 1..n = (1..Len(d)) \cup {n} /\ n \notin 1..Len(d)
    /\ \A i \in 1..n : DepthIn(f, i) = DepthIn(d, i)
    /\ \A i \in 1..n, a \in 1..n : OpenAt(f, a, i) <=> OpenAt(d, a, i)

\* What is open, and how deep, after the event e.
Opened(d, e, f, n, s) ==
    /\ DepthIn(f, n) = Len(s) /\ Len(s) \in Nat
    /\ DepthIn(f, n + 1) = CASE e.k = "start" -> Len(s) + 1
                             [] e.k = "end" -> Len(s) - 1
                             [] OTHER -> Len(s)
    /\ \A a \in 1..n :
           OpenAt(f, a, n + 1) <=>
               \/ a = n /\ e.k = "start"
               \/ /\ a \in 1..Len(d) /\ OpenAt(d, a, n)
                  /\ ~(e.k = "end" /\ Len(s) = DepthIn(d, a) + 1)

\* One more event leaves the stream before it as it was.
LEMMA StreamGrows ==
    ASSUME NEW d \in Seq(Events), NEW e \in Events
    PROVE  Longer(d, e, Append(d, e), Len(d) + 1)
<1> DEFINE f == Append(d, e)
           n == Len(d) + 1
<1>1. /\ f \in Seq(Events) /\ Len(f) = n /\ Len(d) \in Nat
      /\ f[n] = e
      /\ \A j \in 1..Len(d) : f[j] = d[j]
  OBVIOUS
<1>2. n = Len(d) + 1
  OBVIOUS
<1> HIDE DEF f, n
<1>3. n \in Nat \ {0} /\ n \notin 1..Len(d) /\ n - 1 = Len(d) /\ 1..n = (1..Len(d)) \cup {n}
  BY <1>1, <1>2
<1>4. ASSUME NEW i \in 1..n PROVE i \in Nat /\ \A j \in 1..(i - 1) : f[j] = d[j]
  BY <1>1, <1>2, <1>4
<1>5. ASSUME NEW i \in 1..n PROVE DepthIn(f, i) = DepthIn(d, i)
  <2>1. i \in Nat /\ \A j \in 1..(i - 1) : f[j] = d[j]
    BY <1>4, <1>5
  <2> QED
    BY <2>1, DepthOfPrefix
<1>6. ASSUME NEW i \in 1..n, NEW a \in 1..n PROVE OpenAt(f, a, i) <=> OpenAt(d, a, i)
  <2>1. i \in Nat /\ \A j \in 1..(i - 1) : f[j] = d[j]
    BY <1>4, <1>6
  <2>2. a \in Nat \ {0}
    BY <1>3, <1>6
  <2> QED
    BY <2>1, <2>2, OpenOfPrefix
<1>7. Longer(d, e, f, n)
  BY <1>1, <1>2, <1>3, <1>5, <1>6 DEF Longer
<1> QED
  BY <1>7 DEF f, n

\* What is open, and how deep, after one more event.
LEMMA OpenGrows ==
    ASSUME NEW d, NEW s, StackOK(d, s), NEW e, NEW f, NEW n, Longer(d, e, f, n)
    PROVE  Opened(d, e, f, n, s)
<1>1. /\ n = Len(d) + 1 /\ n \in Nat \ {0} /\ f[n] = e /\ 1..n = (1..Len(d)) \cup {n}
      /\ Len(d) \in Nat
      /\ \A i \in 1..n : DepthIn(f, i) = DepthIn(d, i)
      /\ \A i \in 1..n, a \in 1..n : OpenAt(f, a, i) <=> OpenAt(d, a, i)
  BY DEF Longer
<1>2. DepthIn(f, n) = Len(s) /\ Len(s) \in Nat
  <2>1. DepthIn(d, Len(d) + 1) = Len(s) /\ s \in Seq(Names)
    BY DEF StackOK
  <2>2. n \in 1..n
    BY <1>1
  <2> QED
    BY <1>1, <2>1, <2>2
<1>3. DepthIn(f, n + 1) = CASE f[n].k = "start" -> DepthIn(f, n) + 1
                            [] f[n].k = "end" -> DepthIn(f, n) - 1
                            [] OTHER -> DepthIn(f, n)
  BY <1>1, DepthNext
<1>4. ASSUME NEW a \in 1..n
      PROVE  OpenAt(f, a, n + 1) <=>
                 \/ a = n /\ e.k = "start"
                 \/ /\ a \in 1..Len(d) /\ OpenAt(d, a, n)
                    /\ ~(e.k = "end" /\ Len(s) = DepthIn(d, a) + 1)
  <2>1. a \in Nat \ {0} /\ n \in 1..n
    BY <1>1, <1>4
  <2>2. OpenAt(f, a, n + 1) <=>
             \/ a = n /\ f[n].k = "start"
             \/ OpenAt(f, a, n) /\ ~(f[n].k = "end" /\ DepthIn(f, n) = DepthIn(f, a) + 1)
    BY <1>1, <2>1, OpenNext, Zenon
  <2>3. OpenAt(f, a, n) <=> OpenAt(d, a, n)
    BY <1>1, <1>4, <2>1
  <2>4. DepthIn(f, a) = DepthIn(d, a)
    BY <1>1, <1>4
  <2>5. OpenAt(d, a, n) => a \in 1..Len(d)
    BY <1>1, <1>4 DEF OpenAt
  <2> QED
    BY <1>1, <1>2, <2>2, <2>3, <2>4, <2>5, Zenon
<1>5. (CASE f[n].k = "start" -> DepthIn(f, n) + 1
         [] f[n].k = "end" -> DepthIn(f, n) - 1
         [] OTHER -> DepthIn(f, n))
      = CASE e.k = "start" -> Len(s) + 1 [] e.k = "end" -> Len(s) - 1 [] OTHER -> Len(s)
  BY <1>1, <1>2
<1> QED
  BY <1>2, <1>3, <1>4, <1>5 DEF Opened

\* The stack of a stream that is read one event further.
LEMMA StackGrows ==
    ASSUME NEW d \in Seq(Events), NEW s, StackOK(d, s), NEW e, Fits(s, e)
    PROVE  StackOK(Append(d, e), Stack(s, e))
<1> DEFINE f == Append(d, e)
           t == Stack(s, e)
           n == Len(d) + 1
<1>1. e \in Events
  BY DEF Fits
<1>2. Longer(d, e, f, n)
  BY <1>1, StreamGrows
<1>3. Opened(d, e, f, n, s)
  <2> HIDE DEF f, n
  <2> QED
    BY <1>2, OpenGrows
<1> USE DEF Longer, Opened
<1>4. /\ d \in Seq(Events) /\ s \in Seq(Names)
      /\ \A i \in 1..Len(d) : DepthIn(d, i) \in Nat
      /\ \A a \in 1..Len(d) : OpenAt(d, a, n) =>
             DepthIn(d, a) < Len(s) /\ d[a].n = s[DepthIn(d, a) + 1]
      /\ \A l \in 1..Len(s) :
             \E a \in 1..Len(d) : OpenAt(d, a, n) /\ DepthIn(d, a) = l - 1
      /\ \A a, b \in 1..Len(d) :
             OpenAt(d, a, n) /\ OpenAt(d, b, n) /\ DepthIn(d, a) <= DepthIn(d, b) => a <= b
  BY DEF StackOK
<1>5. "start" # "end"
  OBVIOUS
<1>6. t = Stack(s, e)
  OBVIOUS
<1>7. \A a \in 1..Len(d) : a < n /\ a # n /\ f[a] = d[a] /\ DepthIn(f, a) = DepthIn(d, a)
  BY <1>2
<1> HIDE DEF f, t, n
<1>8. CASE e.k = "start"
  <2>1. t = Append(s, e.n) /\ e.n \in Names
    BY <1>6, <1>8 DEF Stack, Fits
  <2>2. /\ t \in Seq(Names) /\ Len(t) = Len(s) + 1 /\ t[Len(s) + 1] = e.n
        /\ \A l \in 1..Len(s) : t[l] = s[l]
    BY <1>4, <2>1
  <2>3. DepthIn(f, n + 1) = Len(t)
    BY <1>3, <1>8, <2>2
  <2>4. \A a \in 1..n : OpenAt(f, a, n + 1) <=> a = n \/ (a \in 1..Len(d) /\ OpenAt(d, a, n))
    BY <1>3, <1>5, <1>8
  <2>5. ASSUME NEW a \in 1..n, OpenAt(f, a, n + 1)
        PROVE  DepthIn(f, a) < Len(t) /\ f[a].n = t[DepthIn(f, a) + 1]
    <3>1. CASE a = n
      BY <1>2, <1>3, <2>2, <3>1
    <3>2. CASE a \in 1..Len(d) /\ OpenAt(d, a, n)
      <4>1. DepthIn(d, a) < Len(s) /\ d[a].n = s[DepthIn(d, a) + 1] /\ DepthIn(d, a) \in Nat
        BY <1>4, <3>2
      <4>2. DepthIn(d, a) + 1 \in 1..Len(s)
        BY <1>3, <4>1
      <4> QED
        BY <1>3, <1>7, <2>2, <3>2, <4>1, <4>2
    <3> QED
      BY <2>4, <2>5, <3>1, <3>2
  <2>6. ASSUME NEW l \in 1..Len(t)
        PROVE  \E a \in 1..n : OpenAt(f, a, n + 1) /\ DepthIn(f, a) = l - 1
    <3>1. CASE l = Len(t)
      <4>1. n \in 1..n /\ OpenAt(f, n, n + 1) /\ DepthIn(f, n) = l - 1
        BY <1>2, <1>3, <2>2, <2>4, <3>1
      <4> QED
        BY <4>1
    <3>2. CASE l # Len(t)
      <4>1. l \in 1..Len(s)
        BY <1>3, <2>2, <2>6, <3>2
      <4>2. PICK a \in 1..Len(d) : OpenAt(d, a, n) /\ DepthIn(d, a) = l - 1
        BY <1>4, <4>1
      <4>3. a \in 1..n /\ OpenAt(f, a, n + 1) /\ DepthIn(f, a) = l - 1
        BY <1>2, <1>7, <2>4, <4>2
      <4> QED
        BY <4>3
    <3> QED
      BY <3>1, <3>2
  <2>7. ASSUME NEW a \in 1..n, NEW b \in 1..n, OpenAt(f, a, n + 1), OpenAt(f, b, n + 1),
               DepthIn(f, a) <= DepthIn(f, b)
        PROVE  a <= b
    <3>1. CASE b = n
      BY <1>2, <2>7, <3>1
    <3>2. CASE b \in 1..Len(d) /\ OpenAt(d, b, n)
      <4>1. DepthIn(f, b) < Len(s) /\ DepthIn(f, b) \in Nat
        BY <1>4, <1>7, <3>2
      <4>2. a # n
        BY <1>3, <2>7, <4>1
      <4>3. a \in 1..Len(d) /\ OpenAt(d, a, n)
        BY <2>4, <2>7, <4>2
      <4> QED
        BY <1>4, <1>7, <2>7, <3>2, <4>3
    <3> QED
      BY <2>4, <2>7, <3>1, <3>2
  <2>8. \A i \in 1..n : DepthIn(f, i) \in Nat
    BY <1>2, <1>3, <1>4
  <2>9. StackOK(f, t)
    BY <1>2, <2>2, <2>3, <2>5, <2>6, <2>7, <2>8 DEF StackOK
  <2> QED
    BY <2>9 DEF f, t
<1>9. CASE e.k = "end"
  <2>1. t = SubSeq(s, 1, Len(s) - 1) /\ Len(s) > 0
    <3>1. t = SubSeq(s, 1, Len(s) - 1)
      BY <1>5, <1>6, <1>9 DEF Stack
    <3>2. s # <<>>
      BY <1>9 DEF Fits
    <3>3. s \in Seq(Names)
      BY <1>4
    <3> QED
      BY <3>1, <3>2, <3>3
  <2>2. /\ t \in Seq(Names) /\ Len(t) = Len(s) - 1
        /\ \A l \in 1..Len(t) : t[l] = s[l]
    <3>1. s \in Seq(Names) /\ Len(s) \in Nat /\ Len(s) > 0
      BY <1>4, <2>1
    <3>2. \A i \in 1..(Len(s) - 1) : s[i] \in Names
      BY <3>1
    <3>3. /\ t \in Seq(Names)
          /\ Len(t) = IF 1 <= Len(s) - 1 THEN (Len(s) - 1) - 1 + 1 ELSE 0
          /\ \A i \in 1..((Len(s) - 1) - 1 + 1) : t[i] = s[1 + i - 1]
      BY <2>1, <3>1, <3>2, SubSeqProperties
    <3>4. Len(t) = Len(s) - 1
      <4> DEFINE m == Len(s)
                 k == Len(t)
      <4>1. m \in Nat /\ m > 0 /\ k = IF 1 <= m - 1 THEN (m - 1) - 1 + 1 ELSE 0
        BY <3>1, <3>3
      <4> HIDE DEF m, k
      <4>2. k = m - 1
        BY <4>1
      <4> QED
        BY <4>2 DEF m, k
    <3>5. ASSUME NEW l \in 1..Len(t) PROVE t[l] = s[l]
      <4>1. l \in 1..((Len(s) - 1) - 1 + 1) /\ 1 + l - 1 = l
        BY <3>1, <3>4, <3>5
      <4> QED
        BY <3>3, <4>1
    <3> QED
      BY <3>3, <3>4, <3>5
  <2>3. DepthIn(f, n + 1) = Len(t)
    BY <1>3, <1>5, <1>9, <2>2
  <2>4. \A a \in 1..n : OpenAt(f, a, n + 1) <=>
             a \in 1..Len(d) /\ OpenAt(d, a, n) /\ Len(s) # DepthIn(d, a) + 1
    BY <1>3, <1>5, <1>9
  <2>5. ASSUME NEW a \in 1..n, OpenAt(f, a, n + 1)
        PROVE  DepthIn(f, a) < Len(t) /\ f[a].n = t[DepthIn(f, a) + 1]
    <3>1. a \in 1..Len(d) /\ OpenAt(d, a, n) /\ Len(s) # DepthIn(d, a) + 1
      BY <2>4, <2>5
    <3>2. DepthIn(d, a) < Len(s) /\ d[a].n = s[DepthIn(d, a) + 1] /\ DepthIn(d, a) \in Nat
      BY <1>4, <3>1
    <3>3. DepthIn(d, a) + 1 \in 1..Len(t)
      BY <1>3, <2>2, <3>1, <3>2
    <3> QED
      BY <1>3, <1>7, <2>2, <3>1, <3>2, <3>3
  <2>6. ASSUME NEW l \in 1..Len(t)
        PROVE  \E a \in 1..n : OpenAt(f, a, n + 1) /\ DepthIn(f, a) = l - 1
    <3>1. l \in 1..Len(s) /\ l # Len(s)
      BY <1>3, <2>2, <2>6
    <3>2. PICK a \in 1..Len(d) : OpenAt(d, a, n) /\ DepthIn(d, a) = l - 1
      BY <1>4, <3>1
    <3>3. a \in 1..n /\ OpenAt(f, a, n + 1) /\ DepthIn(f, a) = l - 1
      BY <1>2, <1>3, <1>7, <2>4, <3>1, <3>2
    <3> QED
      BY <3>3
  <2>7. ASSUME NEW a \in 1..n, NEW b \in 1..n, OpenAt(f, a, n + 1), OpenAt(f, b, n + 1),
               DepthIn(f, a) <= DepthIn(f, b)
        PROVE  a <= b
    <3>1. a \in 1..Len(d) /\ OpenAt(d, a, n) /\ b \in 1..Len(d) /\ OpenAt(d, b, n)
      BY <2>4, <2>7
    <3> QED
      BY <1>4, <1>7, <2>7, <3>1
  <2>8. \A i \in 1..n : DepthIn(f, i) \in Nat
    BY <1>2, <1>3, <1>4
  <2>9. StackOK(f, t)
    BY <1>2, <2>2, <2>3, <2>5, <2>6, <2>7, <2>8 DEF StackOK
  <2> QED
    BY <2>9 DEF f, t
<1>10. CASE e.k \notin {"start", "end"}
  <2>1. t = s
    BY <1>6, <1>10 DEF Stack
  <2>3. DepthIn(f, n + 1) = Len(t)
    BY <1>3, <1>10, <2>1
  <2>4. \A a \in 1..n : OpenAt(f, a, n + 1) <=> a \in 1..Len(d) /\ OpenAt(d, a, n)
    BY <1>3, <1>10
  <2>5. ASSUME NEW a \in 1..n, OpenAt(f, a, n + 1)
        PROVE  DepthIn(f, a) < Len(t) /\ f[a].n = t[DepthIn(f, a) + 1]
    BY <1>4, <1>7, <2>1, <2>4, <2>5
  <2>6. ASSUME NEW l \in 1..Len(t)
        PROVE  \E a \in 1..n : OpenAt(f, a, n + 1) /\ DepthIn(f, a) = l - 1
    <3>2. PICK a \in 1..Len(d) : OpenAt(d, a, n) /\ DepthIn(d, a) = l - 1
      BY <1>4, <2>1, <2>6
    <3>3. a \in 1..n /\ OpenAt(f, a, n + 1) /\ DepthIn(f, a) = l - 1
      BY <1>2, <1>7, <2>4, <3>2
    <3> QED
      BY <3>3
  <2>7. ASSUME NEW a \in 1..n, NEW b \in 1..n, OpenAt(f, a, n + 1), OpenAt(f, b, n + 1),
               DepthIn(f, a) <= DepthIn(f, b)
        PROVE  a <= b
    <3>1. a \in 1..Len(d) /\ OpenAt(d, a, n) /\ b \in 1..Len(d) /\ OpenAt(d, b, n)
      BY <2>4, <2>7
    <3> QED
      BY <1>4, <1>7, <2>7, <3>1
  <2>8. \A i \in 1..n : DepthIn(f, i) \in Nat
    BY <1>2, <1>3, <1>4
  <2>9. StackOK(f, t)
    BY <1>2, <1>4, <2>1, <2>3, <2>5, <2>6, <2>7, <2>8 DEF StackOK
  <2> QED
    BY <2>9 DEF f, t
<1> QED
  BY <1>8, <1>9, <1>10

\* The elements of the stream that the new event closes: itself, or the innermost one.
LEMMA ClosesNew ==
    ASSUME NEW d, NEW e, NEW f, NEW n, NEW s, Longer(d, e, f, n), Opened(d, e, f, n, s),
           NEW i \in 1..n
    PROVE  ClosesAt(f, i, n) <=>
               \/ i = n /\ e.k = "empty"
               \/ i \in 1..Len(d) /\ OpenAt(d, i, n) /\ e.k = "end" /\ Len(s) = DepthIn(d, i) + 1
<1>1. f[n] = e /\ n \in 1..n /\ n = Len(d) + 1 /\ Len(d) \in Nat
  BY DEF Longer
<1>2. OpenAt(f, i, n) <=> OpenAt(d, i, n)
  BY <1>1 DEF Longer
<1>3. OpenAt(d, i, n) => i \in 1..Len(d)
  BY <1>1 DEF OpenAt
<1>4. DepthIn(f, n) = Len(s) /\ DepthIn(f, i) = DepthIn(d, i)
  BY DEF Longer, Opened
<1> QED
  BY <1>1, <1>2, <1>3, <1>4, Zenon DEF ClosesAt

\* What was closed stays closed, by the same tag.
LEMMA ClosesSame ==
    ASSUME NEW d, NEW e, NEW f, NEW n, Longer(d, e, f, n), NEW i \in 1..Len(d), NEW j \in 1..Len(d)
    PROVE  ClosesAt(f, i, j) <=> ClosesAt(d, i, j)
<1>1. i \in 1..n /\ j \in 1..n /\ f[i] = d[i] /\ f[j] = d[j]
  BY DEF Longer
<1>2. /\ OpenAt(f, i, j) <=> OpenAt(d, i, j)
      /\ DepthIn(f, i) = DepthIn(d, i) /\ DepthIn(f, j) = DepthIn(d, j)
  BY <1>1 DEF Longer
<1> QED
  BY <1>1, <1>2, Zenon DEF ClosesAt

\* An element that is not open has been closed.
LEMMA OpenOrClosed ==
    ASSUME NEW d, NEW a \in Nat \ {0}, NEW i \in Nat, a < i, d[a].k = "start",
           \A j \in a..(i - 1) : ~ClosesAt(d, a, j)
    PROVE  OpenAt(d, a, i)
<1> DEFINE T == {m \in (a + 1)..(i - 1) : d[m].k = "end" /\ DepthIn(d, m) = DepthIn(d, a) + 1}
<1>1. CASE T = {}
  BY <1>1 DEF OpenAt
<1>2. CASE T # {}
  <2>1. T \subseteq Nat
    OBVIOUS
  <2>2. PICK x \in T : \A y \in T : x <= y
    BY <1>2, <2>1, LeastPosition
  <2>3. x \in (a + 1)..(i - 1) /\ x \in a..(i - 1)
    BY <2>2
  <2>4. ASSUME NEW m \in (a + 1)..(x - 1)
        PROVE  ~(d[m].k = "end" /\ DepthIn(d, m) = DepthIn(d, a) + 1)
    BY <2>2, <2>3, <2>4
  <2>5. a < x /\ d[x].k = "end" /\ DepthIn(d, x) = DepthIn(d, a) + 1
    BY <2>2, <2>3
  <2>6. ClosesAt(d, a, x)
    BY <2>4, <2>5 DEF ClosesAt, OpenAt
  <2> QED
    BY <2>3, <2>6
<1> QED
  BY <1>1, <1>2

-----------------------------------------------------------------------------
(* scan_config_entries: the window of a growing list. *)

EntryAt(d, q, a) == d[a].n = "entry" /\ DepthIn(d, a) >= q.depth
IsOpening(d, i) == d[i].k \in {"start", "empty"}
ListedIn(d, q, i) ==
    /\ IsOpening(d, i) /\ EntryAt(d, q, i)
    /\ \A a \in 1..(i - 1) : ~(OpenAt(d, a, i) /\ EntryAt(d, q, a))
CompleteIn(d, q) ==
    {p \in (1..Len(d)) \X (1..Len(d)) : ListedIn(d, q, p[1]) /\ ClosesAt(d, p[1], p[2])}
RootDone(d) == \E i, j \in 1..Len(d) : IsOpening(d, i) /\ DepthIn(d, i) = 0 /\ ClosesAt(d, i, j)

Pairs == Nat \X Nat
Rank(C, p) == Cardinality({x \in C : x[1] < p[1]})
InWindow(q, m) == q.offset <= m /\ m < q.offset + q.limit

\* How many of a number of entries lie in the window.
Kept(q, m) ==
    IF m <= q.offset THEN 0 ELSE IF m < q.offset + q.limit THEN m - q.offset ELSE q.limit

\* What is counted and kept of the complete entries C.
PageOK(C, q, total, es) ==
    /\ IsFiniteSet(C) /\ C \subseteq Pairs
    /\ total = Cardinality(C)
    /\ es \in Seq(Pairs)
    /\ \A p \in Pairs : p \in Elems(es) <=> p \in C /\ InWindow(q, Rank(C, p))
    /\ \A k \in 1..(Len(es) - 1) : es[k][1] < es[k + 1][1]
    /\ Len(es) = Kept(q, total)

Windows == [about : SUBSET Names, offset : Nat, limit : Nat, depth : Nat]

\* The elements of a sequence that is one longer.
LEMMA ElemsAppend ==
    ASSUME NEW S, NEW es \in Seq(S), NEW x \in S
    PROVE  \A y : y \in Elems(Append(es, x)) <=> y \in Elems(es) \/ y = x
<1> DEFINE t == Append(es, x)
<1>1. /\ DOMAIN t = 1..(Len(es) + 1) /\ DOMAIN es = 1..Len(es) /\ Len(es) \in Nat
      /\ \A k \in 1..Len(es) : t[k] = es[k]
      /\ t[Len(es) + 1] = x
  OBVIOUS
<1> HIDE DEF t
<1>2. ASSUME NEW y, y \in Elems(t) PROVE y \in Elems(es) \/ y = x
  <2>1. PICK k \in 1..(Len(es) + 1) : y = t[k]
    BY <1>1, <1>2 DEF Elems
  <2>2. k = Len(es) + 1 \/ k \in 1..Len(es)
    BY <1>1
  <2> QED
    BY <1>1, <2>1, <2>2 DEF Elems
<1>3. ASSUME NEW y, y \in Elems(es) PROVE y \in Elems(t)
  <2>1. PICK k \in 1..Len(es) : y = es[k]
    BY <1>1, <1>3 DEF Elems
  <2>2. k \in 1..(Len(es) + 1) /\ y = t[k]
    BY <1>1, <2>1
  <2> QED
    BY <1>1, <2>2 DEF Elems
<1>4. x \in Elems(t)
  <2>1. Len(es) + 1 \in DOMAIN t
    BY <1>1
  <2> QED
    BY <1>1, <2>1 DEF Elems
<1> QED
  BY <1>2, <1>3, <1>4 DEF t

\* An entry that begins after all the others is counted last.
LEMMA PageGrows ==
    ASSUME NEW C, NEW q \in Windows, NEW total, NEW es, PageOK(C, q, total, es),
           NEW p \in Pairs, \A x \in C : x[1] < p[1],
           NEW fs, fs = IF total >= q.offset /\ total < q.offset + q.limit
                        THEN Append(es, p) ELSE es
    PROVE  PageOK(C \cup {p}, q, total + 1, fs)
<1> DEFINE E == C \cup {p}
<1>1. /\ IsFiniteSet(C) /\ C \subseteq Pairs /\ total = Cardinality(C) /\ es \in Seq(Pairs)
      /\ \A x \in Pairs : x \in Elems(es) <=> x \in C /\ InWindow(q, Rank(C, x))
      /\ \A k \in 1..(Len(es) - 1) : es[k][1] < es[k + 1][1]
      /\ Len(es) = Kept(q, total)
  BY DEF PageOK
<1>2. p \notin C /\ p[1] \in Nat
  BY <1>1 DEF Pairs
<1>3. total \in Nat
  BY <1>1, FS_CardinalityType
<1>4. IsFiniteSet(E) /\ E \subseteq Pairs /\ Cardinality(E) = total + 1
  BY <1>1, <1>2, FS_AddElement
<1>5. {x \in E : x[1] < p[1]} = C
  BY <1>1, <1>2 DEF Pairs
<1>6. Rank(E, p) = total
  BY <1>1, <1>5 DEF Rank
<1>7. ASSUME NEW y \in C PROVE Rank(E, y) = Rank(C, y)
  <2>1. y[1] < p[1] /\ y[1] \in Nat
    BY <1>1, <1>7 DEF Pairs
  <2>2. {x \in E : x[1] < y[1]} = {x \in C : x[1] < y[1]}
    BY <1>1, <1>2, <2>1 DEF Pairs
  <2> QED
    BY <2>2 DEF Rank
<1>8. q.offset \in Nat /\ q.limit \in Nat
  BY DEF Windows
<1>9. (total >= q.offset /\ total < q.offset + q.limit) <=> InWindow(q, total)
  BY <1>3, <1>8 DEF InWindow
<1> HIDE DEF E
<1>10. total + 1 = Cardinality(E)
  BY <1>4
<1>11. CASE InWindow(q, total)
  <2>1. fs = Append(es, p)
    BY <1>9, <1>11
  <2>2. fs \in Seq(Pairs) /\ Len(fs) = Len(es) + 1 /\ Len(es) \in Nat
        /\ fs[Len(es) + 1] = p /\ \A k \in 1..Len(es) : fs[k] = es[k] /\ es[k] \in Elems(es)
    BY <1>1, <2>1 DEF Elems
  <2>3. \A y : y \in Elems(fs) <=> y \in Elems(es) \/ y = p
    BY <1>1, <2>1, ElemsAppend
  <2>4. ASSUME NEW y \in Pairs
        PROVE  y \in Elems(fs) <=> y \in E /\ InWindow(q, Rank(E, y))
    <3>1. CASE y = p
      BY <1>6, <1>11, <2>3, <3>1 DEF E
    <3>2. CASE y # p
      <4>1. y \in E <=> y \in C
        BY <3>2 DEF E
      <4>2. y \in C => Rank(E, y) = Rank(C, y)
        BY <1>7
      <4> QED
        BY <1>1, <2>3, <3>2, <4>1, <4>2, Zenon
    <3> QED
      BY <3>1, <3>2
  <2>5. ASSUME NEW k \in 1..(Len(fs) - 1) PROVE fs[k][1] < fs[k + 1][1]
    <3>1. CASE k = Len(es)
      <4>1. es[k] \in Elems(es) /\ fs[k] = es[k] /\ fs[k + 1] = p
        BY <2>2, <2>5, <3>1
      <4>2. es[k] \in Pairs
        BY <1>1, <2>2, <2>5, <3>1
      <4>3. es[k] \in C
        BY <1>1, <4>1, <4>2
      <4> QED
        BY <4>1, <4>3
    <3>2. CASE k # Len(es)
      <4>1. k \in 1..(Len(es) - 1) /\ k \in 1..Len(es) /\ k + 1 \in 1..Len(es)
        BY <2>2, <2>5, <3>2
      <4> QED
        BY <1>1, <2>2, <4>1
    <3> QED
      BY <3>1, <3>2
  <2>6. Len(fs) = Kept(q, total + 1)
    <3> DEFINE m == Len(es)
    <3>1. m = Kept(q, total)
      BY <1>1
    <3>2. Len(fs) = m + 1
      BY <2>2
    <3> HIDE DEF m
    <3> QED
      BY <1>3, <1>8, <1>11, <3>1, <3>2 DEF InWindow, Kept
  <2>7. PageOK(E, q, total + 1, fs)
    BY <1>4, <1>10, <2>2, <2>4, <2>5, <2>6, Zenon DEF PageOK
  <2> QED
    BY <2>7 DEF E
<1>12. CASE ~InWindow(q, total)
  <2>1. fs = es
    BY <1>9, <1>12
  <2>4. ASSUME NEW y \in Pairs
        PROVE  y \in Elems(fs) <=> y \in E /\ InWindow(q, Rank(E, y))
    <3>1. CASE y = p
      <4>1. y \notin Elems(es)
        BY <1>1, <1>2, <3>1
      <4> QED
        BY <1>6, <1>12, <2>1, <3>1, <4>1
    <3>2. CASE y # p
      <4>1. y \in E <=> y \in C
        BY <3>2 DEF E
      <4>2. y \in C => Rank(E, y) = Rank(C, y)
        BY <1>7
      <4> QED
        BY <1>1, <2>1, <3>2, <4>1, <4>2, Zenon
    <3> QED
      BY <3>1, <3>2
  <2>6. Len(fs) = Kept(q, total + 1)
    <3> DEFINE m == Len(es)
    <3>1. m = Kept(q, total)
      BY <1>1
    <3>2. Len(fs) = m
      BY <2>1
    <3> HIDE DEF m
    <3> QED
      BY <1>3, <1>8, <1>12, <3>1, <3>2 DEF InWindow, Kept
  <2>7. PageOK(E, q, total + 1, fs)
    BY <1>1, <1>4, <1>10, <2>1, <2>4, <2>6, Zenon DEF PageOK
  <2> QED
    BY <2>7 DEF E
<1> QED
  BY <1>11, <1>12

\* Whether an entry is listed is settled when it opens.
LEMMA ListedSame ==
    ASSUME NEW d, NEW e, NEW f, NEW n, Longer(d, e, f, n), NEW q, NEW i \in 1..Len(d)
    PROVE  ListedIn(f, q, i) <=> ListedIn(d, q, i)
<1>1. i \in 1..n /\ f[i] = d[i] /\ DepthIn(f, i) = DepthIn(d, i)
  BY DEF Longer
<1>2. ASSUME NEW a \in 1..(i - 1)
      PROVE  /\ OpenAt(f, a, i) <=> OpenAt(d, a, i)
             /\ f[a] = d[a] /\ DepthIn(f, a) = DepthIn(d, a)
  <2>1. a \in 1..Len(d) /\ a \in 1..n
    BY <1>2 DEF Longer
  <2> QED
    BY <1>1, <2>1 DEF Longer
<1> QED
  BY <1>1, <1>2 DEF ListedIn, EntryAt, IsOpening

\* Whether the new event opens a listed entry.
LEMMA ListedNew ==
    ASSUME NEW d, NEW e, NEW f, NEW n, NEW s, Longer(d, e, f, n), Opened(d, e, f, n, s), NEW q
    PROVE  ListedIn(f, q, n) <=>
               /\ e.k \in {"start", "empty"} /\ e.n = "entry" /\ Len(s) >= q.depth
               /\ \A a \in 1..Len(d) : ~(OpenAt(d, a, n) /\ EntryAt(d, q, a))
<1>1. f[n] = e /\ DepthIn(f, n) = Len(s) /\ n \in 1..n /\ n - 1 = Len(d)
  BY DEF Longer, Opened
<1>2. ASSUME NEW a \in 1..Len(d)
      PROVE  /\ OpenAt(f, a, n) <=> OpenAt(d, a, n)
             /\ EntryAt(f, q, a) <=> EntryAt(d, q, a)
  <2>1. a \in 1..n
    BY <1>2 DEF Longer
  <2>2. OpenAt(f, a, n) <=> OpenAt(d, a, n)
    BY <1>1, <2>1 DEF Longer
  <2>3. f[a] = d[a] /\ DepthIn(f, a) = DepthIn(d, a)
    BY <1>2, <2>1 DEF Longer
  <2> QED
    BY <2>2, <2>3 DEF EntryAt
<1> QED
  BY <1>1, <1>2, Zenon DEF ListedIn, EntryAt, IsOpening

\* The complete entries after one more event.
LEMMA CompleteGrows ==
    ASSUME NEW d, NEW e, NEW f, NEW n, Longer(d, e, f, n), NEW q
    PROVE  \A p : p \in CompleteIn(f, q) <=>
               \/ p \in CompleteIn(d, q)
               \/ /\ p \in (1..n) \X {n}
                  /\ ListedIn(f, q, p[1]) /\ ClosesAt(f, p[1], n)
<1>1. /\ Len(f) = n /\ 1..n = (1..Len(d)) \cup {n} /\ n \notin 1..Len(d)
      /\ Len(d) \in Nat /\ n = Len(d) + 1
  BY DEF Longer
<1>2. ASSUME NEW i \in 1..n, NEW j \in 1..Len(d), ClosesAt(f, i, j) PROVE i \in 1..Len(d)
  BY <1>1, <1>2 DEF ClosesAt, OpenAt
<1>3. ASSUME NEW i \in 1..Len(d), NEW j \in 1..Len(d)
      PROVE  /\ ListedIn(f, q, i) <=> ListedIn(d, q, i)
             /\ ClosesAt(f, i, j) <=> ClosesAt(d, i, j)
  BY <1>3, ListedSame, ClosesSame
<1>4. ASSUME NEW i \in 1..n, NEW j \in 1..n
      PROVE  <<i, j>> \in CompleteIn(f, q) <=>
                 \/ <<i, j>> \in CompleteIn(d, q)
                 \/ j = n /\ ListedIn(f, q, i) /\ ClosesAt(f, i, n)
  <2>1. <<i, j>> \in CompleteIn(f, q) <=> ListedIn(f, q, i) /\ ClosesAt(f, i, j)
    BY <1>1, <1>4 DEF CompleteIn
  <2>2. <<i, j>> \in CompleteIn(d, q) <=>
            i \in 1..Len(d) /\ j \in 1..Len(d) /\ ListedIn(d, q, i) /\ ClosesAt(d, i, j)
    BY DEF CompleteIn
  <2>3. CASE j = n
    BY <1>1, <2>1, <2>2, <2>3
  <2>4. CASE j \in 1..Len(d)
    <3>1. j # n
      BY <1>1, <2>4
    <3> QED
      BY <1>2, <1>3, <2>1, <2>2, <2>4, <3>1
  <2> QED
    BY <1>1, <1>4, <2>3, <2>4
<1>5. ASSUME NEW p
      PROVE  p \in CompleteIn(f, q) <=>
               \/ p \in CompleteIn(d, q)
               \/ /\ p \in (1..n) \X {n}
                  /\ ListedIn(f, q, p[1]) /\ ClosesAt(f, p[1], n)
  <2>1. ASSUME p \in (1..n) \X (1..n)
        PROVE  p \in CompleteIn(f, q) <=>
                   \/ p \in CompleteIn(d, q)
                   \/ /\ p \in (1..n) \X {n}
                      /\ ListedIn(f, q, p[1]) /\ ClosesAt(f, p[1], n)
    <3>1. PICK i \in 1..n, j \in 1..n : p = <<i, j>>
      BY <2>1
    <3>2. p[1] = i /\ (p \in (1..n) \X {n} <=> j = n)
      BY <3>1
    <3> QED
      BY <1>4, <3>1, <3>2
  <2>2. p \in CompleteIn(f, q) => p \in (1..n) \X (1..n)
    BY <1>1 DEF CompleteIn
  <2>3. p \in CompleteIn(d, q) => p \in (1..n) \X (1..n)
    BY <1>1 DEF CompleteIn
  <2>4. p \in (1..n) \X {n} => p \in (1..n) \X (1..n)
    BY <1>1
  <2> QED
    BY <2>1, <2>2, <2>3, <2>4
<1> QED
  BY <1>5

\* An event that closes no listed entry completes none.
LEMMA CompleteSame ==
    ASSUME NEW d, NEW e, NEW f, NEW n, Longer(d, e, f, n), NEW q,
           \A i \in 1..n : ~(ListedIn(f, q, i) /\ ClosesAt(f, i, n))
    PROVE  CompleteIn(f, q) = CompleteIn(d, q)
<1>1. ASSUME NEW p, p \in (1..n) \X {n} PROVE ~(ListedIn(f, q, p[1]) /\ ClosesAt(f, p[1], n))
  <2>1. p[1] \in 1..n
    BY <1>1
  <2> QED
    BY <2>1
<1>2. \A p : p \in CompleteIn(f, q) <=>
               \/ p \in CompleteIn(d, q)
               \/ /\ p \in (1..n) \X {n}
                  /\ ListedIn(f, q, p[1]) /\ ClosesAt(f, p[1], n)
  BY CompleteGrows, Zenon
<1>3. \A p : p \in CompleteIn(f, q) <=> p \in CompleteIn(d, q)
  BY <1>1, <1>2, Zenon
<1> QED
  BY <1>3

\* An event that closes the listed entry i completes that one.
LEMMA CompleteOne ==
    ASSUME NEW d, NEW e, NEW f, NEW n, Longer(d, e, f, n), NEW q, NEW i \in 1..n,
           ListedIn(f, q, i), ClosesAt(f, i, n),
           \A j \in 1..n : ListedIn(f, q, j) /\ ClosesAt(f, j, n) => j = i
    PROVE  CompleteIn(f, q) = CompleteIn(d, q) \cup {<<i, n>>}
<1>1. ASSUME NEW p
      PROVE  (/\ p \in (1..n) \X {n}
              /\ ListedIn(f, q, p[1]) /\ ClosesAt(f, p[1], n)) <=> p = <<i, n>>
  <2>1. ASSUME p \in (1..n) \X {n}, ListedIn(f, q, p[1]), ClosesAt(f, p[1], n)
        PROVE  p = <<i, n>>
    <3>1. PICK j \in 1..n : p = <<j, n>>
      BY <2>1
    <3>2. p[1] = j
      BY <3>1
    <3> QED
      BY <2>1, <3>1, <3>2
  <2>2. ASSUME p = <<i, n>>
        PROVE  p \in (1..n) \X {n} /\ p[1] = i
    BY <2>2
  <2> QED
    BY <2>1, <2>2
<1>2. \A p : p \in CompleteIn(f, q) <=>
               \/ p \in CompleteIn(d, q)
               \/ /\ p \in (1..n) \X {n}
                  /\ ListedIn(f, q, p[1]) /\ ClosesAt(f, p[1], n)
  BY CompleteGrows, Zenon
<1>3. \A p : p \in CompleteIn(f, q) <=> p \in CompleteIn(d, q) \/ p = <<i, n>>
  BY <1>1, <1>2, Zenon
<1> QED
  BY <1>3

\* When the outermost element is closed.
LEMMA RootGrows ==
    ASSUME NEW d, NEW e, NEW f, NEW n, NEW s, Longer(d, e, f, n), Opened(d, e, f, n, s),
           StackOK(d, s)
    PROVE  RootDone(f) <=> RootDone(d) \/ (e.k = "empty" /\ Len(s) = 0)
                                       \/ (e.k = "end" /\ Len(s) = 1)
<1>1. /\ Len(f) = n /\ f[n] = e /\ 1..n = (1..Len(d)) \cup {n} /\ n \notin 1..Len(d)
      /\ Len(d) \in Nat /\ n = Len(d) + 1 /\ n \in 1..n
  BY DEF Longer
<1>2. ASSUME NEW i \in 1..Len(d) PROVE f[i] = d[i] /\ DepthIn(f, i) = DepthIn(d, i) /\ i \in 1..n
  BY <1>2 DEF Longer
<1>3. ASSUME NEW i \in 1..n, NEW j \in 1..n, IsOpening(f, i), DepthIn(f, i) = 0, ClosesAt(f, i, j)
      PROVE  RootDone(d) \/ (e.k = "empty" /\ Len(s) = 0) \/ (e.k = "end" /\ Len(s) = 1)
  <2>1. CASE j = n
    <3>1. CASE i = n /\ e.k = "empty"
      BY <1>3, <3>1 DEF Opened
    <3>2. CASE i \in 1..Len(d) /\ OpenAt(d, i, n) /\ e.k = "end" /\ Len(s) = DepthIn(d, i) + 1
      <4>1. DepthIn(d, i) = 0
        BY <1>2, <1>3, <3>2
      <4> QED
        BY <3>2, <4>1
    <3> QED
      BY <1>3, <2>1, <3>1, <3>2, ClosesNew
  <2>2. CASE j \in 1..Len(d)
    <3>1. i \in 1..Len(d)
      BY <1>1, <1>3, <2>2 DEF ClosesAt, OpenAt
    <3>2. ClosesAt(d, i, j)
      BY <1>3, <2>2, <3>1, ClosesSame
    <3>3. IsOpening(d, i) /\ DepthIn(d, i) = 0
      BY <1>2, <1>3, <3>1 DEF IsOpening
    <3> QED
      BY <2>2, <3>1, <3>2, <3>3 DEF RootDone
  <2> QED
    BY <1>1, <1>3, <2>1, <2>2
<1>4. ASSUME RootDone(d) PROVE RootDone(f)
  <2>1. PICK i \in 1..Len(d), j \in 1..Len(d) :
            IsOpening(d, i) /\ DepthIn(d, i) = 0 /\ ClosesAt(d, i, j)
    BY <1>4 DEF RootDone
  <2>2. ClosesAt(f, i, j)
    BY <2>1, ClosesSame
  <2>3. i \in 1..n /\ j \in 1..n /\ IsOpening(f, i) /\ DepthIn(f, i) = 0
    BY <1>2, <2>1 DEF IsOpening
  <2> QED
    BY <1>1, <2>2, <2>3 DEF RootDone
<1>5. ASSUME e.k = "empty", Len(s) = 0 PROVE RootDone(f)
  <2>1. ClosesAt(f, n, n) /\ IsOpening(f, n) /\ DepthIn(f, n) = 0
    BY <1>1, <1>5 DEF ClosesAt, IsOpening, Opened
  <2> QED
    BY <1>1, <2>1 DEF RootDone
<1>6. ASSUME e.k = "end", Len(s) = 1 PROVE RootDone(f)
  <2>1. PICK i \in 1..Len(d) : OpenAt(d, i, n) /\ DepthIn(d, i) = 0
    <3>1. 1 \in 1..Len(s)
      BY <1>6
    <3>2. \E a \in 1..Len(d) : OpenAt(d, a, Len(d) + 1) /\ DepthIn(d, a) = 1 - 1
      BY <3>1 DEF StackOK
    <3> QED
      BY <1>1, <3>2
  <2>2. i \in 1..n /\ DepthIn(f, i) = 0 /\ f[i] = d[i]
    BY <1>2, <2>1
  <2>3. ClosesAt(f, i, n)
    <3>1. Len(s) = DepthIn(d, i) + 1
      BY <1>6, <2>1
    <3>2. ClosesAt(f, i, n) <=>
              \/ i = n /\ e.k = "empty"
              \/ i \in 1..Len(d) /\ OpenAt(d, i, n) /\ e.k = "end" /\ Len(s) = DepthIn(d, i) + 1
      BY <2>2, ClosesNew, Zenon
    <3> QED
      BY <1>6, <2>1, <3>1, <3>2
  <2>4. IsOpening(f, i)
    BY <2>1, <2>2 DEF OpenAt, IsOpening
  <2> QED
    BY <1>1, <2>2, <2>3, <2>4 DEF RootDone
<1>7. RootDone(f) => RootDone(d) \/ (e.k = "empty" /\ Len(s) = 0) \/ (e.k = "end" /\ Len(s) = 1)
  BY <1>1, <1>3 DEF RootDone
<1> QED
  BY <1>4, <1>5, <1>6, <1>7

-----------------------------------------------------------------------------
(* scan_config_entries: its record and the document. *)

ScanRecord ==
    [saw : BOOLEAN, closed : BOOLEAN, pend : Nat, at : Nat, total : Nat,
     entries : Seq(Pairs), part : BOOLEAN, res : {"run", "ok", "err"}]

\* Before the first element nothing has opened.
NothingYet(d, r) == ~r.saw => \A i \in 1..Len(d) : ~IsOpening(d, i)

\* Back at the top, the root is closed.
TopClosed(s, r) == r.saw /\ s = <<>> => r.closed

\* The pending entry is the open listed one; without one no entry of the asked depth is open.
PendingOK(d, q, r) ==
    /\ r.pend = 0 => \A a \in 1..Len(d) : ~(OpenAt(d, a, Len(d) + 1) /\ EntryAt(d, q, a))
    /\ r.pend # 0 =>
         /\ r.pend \in 1..Len(d) /\ OpenAt(d, r.pend, Len(d) + 1)
         /\ ListedIn(d, q, r.pend) /\ DepthIn(d, r.pend) = r.at
         /\ \A p \in CompleteIn(d, q) : p[1] < r.pend

\* The stream ended too early.
Unfinished(d, q) ==
    \/ ~RootDone(d) \/ d[Len(d)].k = "bad"
    \/ \E i \in 1..Len(d) : ListedIn(d, q, i) /\ \A j \in 1..Len(d) : ~ClosesAt(d, i, j)

ScanOK(d, s, q, r) ==
    /\ r \in ScanRecord
    /\ r.res # "err" => PageOK(CompleteIn(d, q), q, r.total, r.entries)
    /\ r.res # "err" => (r.closed <=> RootDone(d))
    /\ r.res = "run" => NothingYet(d, r) /\ TopClosed(s, r) /\ PendingOK(d, q, r)
    /\ r.res = "ok" => (r.part <=> Unfinished(d, q))

\* An error return promises nothing.
LEMMA ScanFailed ==
    ASSUME NEW d, NEW s, NEW q, NEW r \in ScanRecord
    PROVE  ScanOK(d, s, q, [r EXCEPT !.res = "err"])
<1> DEFINE t == [r EXCEPT !.res = "err"]
<1>1. t \in ScanRecord /\ t.res = "err"
  BY DEF ScanRecord
<1>2. "err" # "run" /\ "err" # "ok"
  OBVIOUS
<1> HIDE DEF t
<1>3. ScanOK(d, s, q, t)
  BY <1>1, <1>2, Zenon DEF ScanOK
<1> QED
  BY <1>3 DEF t

\* The entries of the asked depth after one more event.
LEMMA EntryGrows ==
    ASSUME NEW d, NEW e, NEW f, NEW n, NEW s, Longer(d, e, f, n), Opened(d, e, f, n, s), NEW q
    PROVE  /\ \A a \in 1..Len(d) : EntryAt(f, q, a) <=> EntryAt(d, q, a)
           /\ EntryAt(f, q, n) <=> e.n = "entry" /\ Len(s) >= q.depth
           /\ \A a \in 1..Len(d) : IsOpening(f, a) <=> IsOpening(d, a)
           /\ IsOpening(f, n) <=> e.k \in {"start", "empty"}
<1>1. f[n] = e /\ DepthIn(f, n) = Len(s)
  BY DEF Longer, Opened
<1>2. ASSUME NEW a \in 1..Len(d) PROVE f[a] = d[a] /\ DepthIn(f, a) = DepthIn(d, a)
  BY <1>2 DEF Longer
<1> QED
  BY <1>1, <1>2 DEF EntryAt, IsOpening

\* An event that neither starts nor ends an element leaves the pending entry.
LEMMA PendingKept ==
    ASSUME NEW d, NEW e, NEW f, NEW n, NEW s, Longer(d, e, f, n), Opened(d, e, f, n, s), NEW q,
           NEW r, PendingOK(d, q, r), e.k \notin {"start", "end"},
           r.pend # 0 => CompleteIn(f, q) = CompleteIn(d, q)
    PROVE  PendingOK(f, q, r)
<1>1. /\ Len(f) = n /\ n = Len(d) + 1 /\ 1..n = (1..Len(d)) \cup {n}
      /\ \A i \in 1..n : DepthIn(f, i) = DepthIn(d, i)
  BY DEF Longer
<1>2. \A a \in 1..n : OpenAt(f, a, n + 1) <=> a \in 1..Len(d) /\ OpenAt(d, a, n)
  BY DEF Opened
<1>3. \A a \in 1..Len(d) : EntryAt(f, q, a) <=> EntryAt(d, q, a)
  BY EntryGrows, Zenon
<1>4. CASE r.pend = 0
  <2>1. \A a \in 1..Len(d) : ~(OpenAt(d, a, n) /\ EntryAt(d, q, a))
    BY <1>1, <1>4 DEF PendingOK
  <2>2. \A a \in 1..n : ~(OpenAt(f, a, n + 1) /\ EntryAt(f, q, a))
    BY <1>2, <1>3, <2>1, Zenon
  <2> QED
    BY <1>1, <1>4, <2>2 DEF PendingOK
<1>5. CASE r.pend # 0
  <2>1. /\ r.pend \in 1..Len(d) /\ OpenAt(d, r.pend, n)
        /\ ListedIn(d, q, r.pend) /\ DepthIn(d, r.pend) = r.at
        /\ \A p \in CompleteIn(d, q) : p[1] < r.pend
    BY <1>1, <1>5 DEF PendingOK
  <2>2. r.pend \in 1..n /\ OpenAt(f, r.pend, n + 1)
    BY <1>1, <1>2, <2>1
  <2>3. ListedIn(f, q, r.pend)
    BY <2>1, ListedSame
  <2>4. DepthIn(f, r.pend) = r.at
    BY <1>1, <2>1, <2>2
  <2>5. \A p \in CompleteIn(f, q) : p[1] < r.pend
    BY <1>5, <2>1
  <2> QED
    BY <1>1, <1>5, <2>2, <2>3, <2>4, <2>5, Zenon DEF PendingOK
<1> QED
  BY <1>4, <1>5

\* What an event that closes nothing leaves as it was.
LEMMA NothingClosed ==
    ASSUME NEW d, NEW e, NEW f, NEW n, NEW s, StackOK(d, s), Longer(d, e, f, n),
           Opened(d, e, f, n, s), NEW q, e.k \notin {"empty", "end"}
    PROVE  CompleteIn(f, q) = CompleteIn(d, q) /\ (RootDone(f) <=> RootDone(d))
<1>1. ASSUME NEW i \in 1..n PROVE ~ClosesAt(f, i, n)
  <2>1. ClosesAt(f, i, n) <=>
            \/ i = n /\ e.k = "empty"
            \/ i \in 1..Len(d) /\ OpenAt(d, i, n) /\ e.k = "end" /\ Len(s) = DepthIn(d, i) + 1
    BY <1>1, ClosesNew, Zenon
  <2> QED
    BY <2>1
<1>2. CompleteIn(f, q) = CompleteIn(d, q)
  BY <1>1, CompleteSame
<1>3. RootDone(f) <=> RootDone(d) \/ (e.k = "empty" /\ Len(s) = 0) \/ (e.k = "end" /\ Len(s) = 1)
  BY RootGrows, Zenon
<1> QED
  BY <1>2, <1>3

\* The next event e, at position n, makes the stream f.
Reads(e, f, n) ==
    /\ StackOK(doc, open) /\ ask \in Windows /\ Fits(open, e)
    /\ Longer(doc, e, f, n) /\ Opened(doc, e, f, n, open)

\* A start tag: an entry of the asked depth outside any other becomes the pending one.
LEMMA ScanReadsStart ==
    ASSUME NEW e, NEW f, NEW n, Reads(e, f, n), ScanOK(doc, open, ask, scan), scan.res = "run",
           e.k = "start"
    PROVE  ScanOK(f, Stack(open, e), ask, ScanStep(scan, e, n))
<1> DEFINE r == ScanStep(scan, e, n)
<1>1. /\ StackOK(doc, open) /\ Longer(doc, e, f, n) /\ Opened(doc, e, f, n, open)
      /\ scan \in ScanRecord
      /\ PageOK(CompleteIn(doc, ask), ask, scan.total, scan.entries)
      /\ (scan.closed <=> RootDone(doc))
      /\ NothingYet(doc, scan) /\ TopClosed(open, scan) /\ PendingOK(doc, ask, scan)
  <2>1. "run" # "err"
    OBVIOUS
  <2> QED
    BY <2>1, Zenon DEF Reads, ScanOK
<1>2. CompleteIn(f, ask) = CompleteIn(doc, ask) /\ (RootDone(f) <=> RootDone(doc))
  BY <1>1, NothingClosed
<1>3. /\ Len(f) = n /\ n = Len(doc) + 1 /\ Len(doc) \in Nat /\ 1..n = (1..Len(doc)) \cup {n}
      /\ n \in 1..n /\ n # 0
      /\ \A i \in 1..n : DepthIn(f, i) = DepthIn(doc, i)
      /\ DepthIn(f, n) = Len(open)
  BY <1>1 DEF Longer, Opened
<1>4. \A a \in 1..n : OpenAt(f, a, n + 1) <=> a = n \/ (a \in 1..Len(doc) /\ OpenAt(doc, a, n))
  BY <1>1 DEF Opened
<1>5. /\ \A a \in 1..Len(doc) : EntryAt(f, ask, a) <=> EntryAt(doc, ask, a)
      /\ EntryAt(f, ask, n) <=> e.n = "entry" /\ Len(open) >= ask.depth
  BY <1>1, EntryGrows, Zenon
<1>6. Stack(open, e) # <<>>
  <2>1. Stack(open, e) = Append(open, e.n) /\ open \in Seq(Names) /\ e.n \in Names
    BY <1>1 DEF Stack, StackOK, Fits, Reads
  <2> QED
    BY <2>1
<1>7. ListedIn(f, ask, n) <=>
          /\ e.k \in {"start", "empty"} /\ e.n = "entry" /\ Len(open) >= ask.depth
          /\ \A a \in 1..Len(doc) : ~(OpenAt(doc, a, n) /\ EntryAt(doc, ask, a))
  BY <1>1, ListedNew, Zenon
<1>8. \A p \in CompleteIn(doc, ask) : p[1] < n
  BY <1>3 DEF CompleteIn
<1>9. Len(open) \in Nat /\ n \in Nat
  BY <1>1 DEF Opened, Longer
<1>10. CASE Len(open) >= MaxDepth \/ (~scan.saw /\ e.n # "response")
  <2>1. r = [scan EXCEPT !.res = "err"]
    BY <1>10 DEF ScanStep
  <2> QED
    BY <1>1, <2>1, ScanFailed
<1>11. CASE /\ ~(Len(open) >= MaxDepth \/ (~scan.saw /\ e.n # "response"))
            /\ scan.saw /\ IsListed(scan, e)
  <2>1. r = [scan EXCEPT !.pend = n, !.at = Len(open)]
    BY <1>11 DEF ScanStep
  <2>2. /\ r \in ScanRecord /\ r.res = "run" /\ r.saw /\ r.pend = n /\ r.at = Len(open)
        /\ r.total = scan.total /\ r.entries = scan.entries /\ r.closed = scan.closed
    BY <1>1, <1>9, <1>11, <2>1 DEF ScanRecord
  <2> HIDE DEF r
  <2>3. scan.pend = 0 /\ e.n = "entry" /\ Len(open) >= ask.depth
    BY <1>11 DEF IsListed
  <2>4. ListedIn(f, ask, n)
    BY <1>1, <1>3, <1>7, <2>3 DEF PendingOK
  <2>5. PendingOK(f, ask, r)
    <3>1. OpenAt(f, n, n + 1)
      BY <1>3, <1>4
    <3> QED
      BY <1>2, <1>3, <1>8, <2>2, <2>4, <3>1 DEF PendingOK
  <2>6. NothingYet(f, r) /\ TopClosed(Stack(open, e), r)
    BY <1>6, <2>2 DEF NothingYet, TopClosed
  <2>7. ScanOK(f, Stack(open, e), ask, r)
    BY <1>1, <1>2, <2>2, <2>5, <2>6, Zenon DEF ScanOK
  <2> QED
    BY <2>7 DEF r
<1>12. CASE /\ ~(Len(open) >= MaxDepth \/ (~scan.saw /\ e.n # "response"))
            /\ ~(scan.saw /\ IsListed(scan, e))
  <2>1. r = [scan EXCEPT !.saw = TRUE]
    BY <1>12 DEF ScanStep
  <2>2. /\ r \in ScanRecord /\ r.res = "run" /\ r.saw /\ r.pend = scan.pend /\ r.at = scan.at
        /\ r.total = scan.total /\ r.entries = scan.entries /\ r.closed = scan.closed
    BY <1>1, <2>1 DEF ScanRecord
  <2> HIDE DEF r
  <2>3. scan.pend = 0 => ~(e.n = "entry" /\ Len(open) >= ask.depth)
    <3>1. "response" # "entry"
      OBVIOUS
    <3> QED
      BY <1>12, <3>1 DEF IsListed
  <2>4. CASE scan.pend = 0
    <3>1. \A a \in 1..Len(doc) : ~(OpenAt(doc, a, n) /\ EntryAt(doc, ask, a))
      BY <1>1, <1>3, <2>4 DEF PendingOK
    <3>2. \A a \in 1..n : ~(OpenAt(f, a, n + 1) /\ EntryAt(f, ask, a))
      BY <1>4, <1>5, <2>3, <2>4, <3>1, Zenon
    <3>3. PendingOK(f, ask, r)
      BY <1>3, <2>2, <2>4, <3>2 DEF PendingOK
    <3>4. NothingYet(f, r) /\ TopClosed(Stack(open, e), r)
      BY <1>6, <2>2 DEF NothingYet, TopClosed
    <3>5. ScanOK(f, Stack(open, e), ask, r)
      BY <1>1, <1>2, <2>2, <3>3, <3>4, Zenon DEF ScanOK
    <3> QED
      BY <3>5 DEF r
  <2>5. CASE scan.pend # 0
    <3>1. /\ scan.pend \in 1..Len(doc) /\ OpenAt(doc, scan.pend, n)
          /\ ListedIn(doc, ask, scan.pend) /\ DepthIn(doc, scan.pend) = scan.at
          /\ \A p \in CompleteIn(doc, ask) : p[1] < scan.pend
      BY <1>1, <1>3, <2>5 DEF PendingOK
    <3>2. scan.pend \in 1..n /\ OpenAt(f, scan.pend, n + 1) /\ DepthIn(f, scan.pend) = scan.at
      BY <1>3, <1>4, <3>1
    <3>3. ListedIn(f, ask, scan.pend)
      BY <1>1, <3>1, ListedSame
    <3>4. PendingOK(f, ask, r)
      BY <1>2, <1>3, <2>2, <2>5, <3>1, <3>2, <3>3 DEF PendingOK
    <3>5. NothingYet(f, r) /\ TopClosed(Stack(open, e), r)
      BY <1>6, <2>2 DEF NothingYet, TopClosed
    <3>6. ScanOK(f, Stack(open, e), ask, r)
      BY <1>1, <1>2, <2>2, <3>4, <3>5, Zenon DEF ScanOK
    <3> QED
      BY <3>6 DEF r
  <2> QED
    BY <2>4, <2>5
<1> QED
  BY <1>10, <1>11, <1>12

\* The record a step starts from.
LEMMA ScanRuns ==
    ASSUME NEW e, NEW f, NEW n, Reads(e, f, n), ScanOK(doc, open, ask, scan), scan.res = "run"
    PROVE  /\ StackOK(doc, open) /\ Longer(doc, e, f, n) /\ Opened(doc, e, f, n, open)
           /\ scan \in ScanRecord
           /\ PageOK(CompleteIn(doc, ask), ask, scan.total, scan.entries)
           /\ (scan.closed <=> RootDone(doc))
           /\ NothingYet(doc, scan) /\ TopClosed(open, scan) /\ PendingOK(doc, ask, scan)
<1>1. "run" # "err"
  OBVIOUS
<1> QED
  BY <1>1, Zenon DEF Reads, ScanOK

\* An element without content: an entry of the asked depth outside any other is complete.
LEMMA ScanReadsEmpty ==
    ASSUME NEW e, NEW f, NEW n, Reads(e, f, n), ScanOK(doc, open, ask, scan), scan.res = "run",
           e.k = "empty"
    PROVE  ScanOK(f, Stack(open, e), ask, ScanStep(scan, e, n))
<1> DEFINE r == ScanStep(scan, e, n)
<1>1. /\ StackOK(doc, open) /\ Longer(doc, e, f, n) /\ Opened(doc, e, f, n, open)
      /\ scan \in ScanRecord
      /\ PageOK(CompleteIn(doc, ask), ask, scan.total, scan.entries)
      /\ (scan.closed <=> RootDone(doc))
      /\ NothingYet(doc, scan) /\ TopClosed(open, scan) /\ PendingOK(doc, ask, scan)
  BY ScanRuns
<1>2. /\ Len(f) = n /\ n = Len(doc) + 1 /\ Len(doc) \in Nat /\ 1..n = (1..Len(doc)) \cup {n}
      /\ n \in 1..n /\ n \in Nat /\ Len(open) \in Nat /\ f[n] = e
  BY <1>1 DEF Longer, Opened
<1>3. ASSUME NEW i \in 1..n PROVE ClosesAt(f, i, n) <=> i = n
  <2>1. ClosesAt(f, i, n) <=>
            \/ i = n /\ e.k = "empty"
            \/ i \in 1..Len(doc) /\ OpenAt(doc, i, n) /\ e.k = "end" /\ Len(open) = DepthIn(doc, i) + 1
    <3>1. Longer(doc, e, f, n) /\ Opened(doc, e, f, n, open)
      BY <1>1
    <3> QED
      BY <1>3, <3>1, ClosesNew
  <2> QED
    BY <2>1
<1>4. ListedIn(f, ask, n) <=>
          /\ e.k \in {"start", "empty"} /\ e.n = "entry" /\ Len(open) >= ask.depth
          /\ \A a \in 1..Len(doc) : ~(OpenAt(doc, a, n) /\ EntryAt(doc, ask, a))
  BY <1>1, ListedNew, Zenon
<1>5. RootDone(f) <=> RootDone(doc) \/ Len(open) = 0
  <2>1. RootDone(f) <=> RootDone(doc) \/ (e.k = "empty" /\ Len(open) = 0)
                                      \/ (e.k = "end" /\ Len(open) = 1)
    BY <1>1, RootGrows, Zenon
  <2> QED
    BY <2>1
<1>6. Stack(open, e) = open
  BY DEF Stack
<1>7. e.k \notin {"start", "end"}
  OBVIOUS
<1>8. ~ListedIn(f, ask, n) => CompleteIn(f, ask) = CompleteIn(doc, ask)
  BY <1>1, <1>3, CompleteSame
<1>9. CASE Len(open) >= MaxDepth \/ (~scan.saw /\ e.n # "response")
  <2>1. r = [scan EXCEPT !.res = "err"]
    BY <1>9 DEF ScanStep
  <2> QED
    BY <1>1, <2>1, ScanFailed
<1>10. CASE ~(Len(open) >= MaxDepth) /\ ~scan.saw /\ e.n = "response"
  <2>1. r = [scan EXCEPT !.saw = TRUE, !.closed = TRUE]
    BY <1>10 DEF ScanStep
  <2>2. /\ r \in ScanRecord /\ r.res = "run" /\ r.saw /\ r.pend = scan.pend /\ r.at = scan.at
        /\ r.total = scan.total /\ r.entries = scan.entries /\ r.closed
    BY <1>1, <2>1 DEF ScanRecord
  <2> HIDE DEF r
  <2>3. ~ListedIn(f, ask, n)
    BY <1>4, <1>10
  <2>4. CompleteIn(f, ask) = CompleteIn(doc, ask)
    BY <1>8, <2>3
  <2>5. Len(open) = 0
    <3>1. SUFFICES ASSUME Len(open) # 0 PROVE FALSE
      OBVIOUS
    <3>2. 1 \in 1..Len(open)
      BY <1>2, <3>1
    <3>3. PICK a \in 1..Len(doc) : OpenAt(doc, a, Len(doc) + 1)
      BY <1>1, <3>2 DEF StackOK
    <3> QED
      BY <1>1, <1>10, <3>3 DEF NothingYet, OpenAt, IsOpening
  <2>6. PendingOK(f, ask, scan)
    BY <1>1, <1>7, <2>4, PendingKept
  <2>7. PendingOK(f, ask, r)
    BY <2>2, <2>6 DEF PendingOK
  <2>8. NothingYet(f, r) /\ TopClosed(Stack(open, e), r)
    BY <2>2 DEF NothingYet, TopClosed
  <2>9. ScanOK(f, Stack(open, e), ask, r)
    BY <1>1, <1>5, <2>2, <2>4, <2>5, <2>7, <2>8, Zenon DEF ScanOK
  <2> QED
    BY <2>9 DEF r
<1>11. CASE ~(Len(open) >= MaxDepth) /\ scan.saw /\ IsListed(scan, e)
  <2> DEFINE es == IF scan.total >= ask.offset /\ scan.total < ask.offset + ask.limit
                   THEN Append(scan.entries, <<n, n>>) ELSE scan.entries
             C == CompleteIn(doc, ask)
  <2>1. r = [scan EXCEPT !.total = scan.total + 1, !.entries = es]
    BY <1>11 DEF ScanStep, CountEntry
  <2>2. scan.pend = 0 /\ e.n = "entry" /\ Len(open) >= ask.depth
    BY <1>11 DEF IsListed
  <2>3. ListedIn(f, ask, n)
    BY <1>1, <1>2, <1>4, <2>2 DEF PendingOK
  <2>4. CompleteIn(f, ask) = C \cup {<<n, n>>}
    BY <1>1, <1>2, <1>3, <2>3, CompleteOne
  <2>5. <<n, n>> \in Pairs /\ \A x \in C : x[1] < <<n, n>>[1]
    BY <1>2 DEF Pairs, CompleteIn
  <2>6. es = IF scan.total >= ask.offset /\ scan.total < ask.offset + ask.limit
             THEN Append(scan.entries, <<n, n>>) ELSE scan.entries
    OBVIOUS
  <2> HIDE DEF es, C
  <2>7. ask \in Windows /\ PageOK(C, ask, scan.total, scan.entries)
    BY <1>1 DEF C, Reads
  <2>8. PageOK(CompleteIn(f, ask), ask, scan.total + 1, es)
    <3>1. PICK p : p = <<n, n>>
      OBVIOUS
    <3>2. p \in Pairs /\ \A x \in C : x[1] < p[1]
      BY <2>5, <3>1
    <3>3. es = IF scan.total >= ask.offset /\ scan.total < ask.offset + ask.limit
               THEN Append(scan.entries, p) ELSE scan.entries
      BY <2>6, <3>1
    <3>4. PageOK(C \cup {p}, ask, scan.total + 1, es)
      BY <2>7, <3>2, <3>3, PageGrows, Zenon
    <3> QED
      BY <2>4, <3>1, <3>4
  <2>9. es \in Seq(Pairs)
    BY <2>8 DEF PageOK
  <2>10. /\ r \in ScanRecord /\ r.res = "run" /\ r.saw /\ r.pend = scan.pend /\ r.at = scan.at
         /\ r.total = scan.total + 1 /\ r.entries = es /\ r.closed = scan.closed
    <3>1. scan \in ScanRecord /\ scan.res = "run" /\ scan.saw /\ scan.total + 1 \in Nat
      BY <1>1, <1>11 DEF ScanRecord
    <3> QED
      BY <2>1, <2>9, <3>1 DEF ScanRecord
  <2> HIDE DEF r
  <2>11. PendingOK(f, ask, scan)
    BY <1>1, <1>7, <2>2, PendingKept
  <2>12. PendingOK(f, ask, r)
    BY <2>2, <2>10, <2>11 DEF PendingOK
  <2>13. NothingYet(f, r) /\ TopClosed(Stack(open, e), r)
    BY <1>1, <1>6, <1>11, <2>10 DEF NothingYet, TopClosed
  <2>14. r.closed <=> RootDone(f)
    <3>1. Len(open) = 0 => open = <<>>
      BY <1>1 DEF StackOK
    <3> QED
      BY <1>1, <1>5, <1>11, <2>10, <3>1 DEF TopClosed
  <2>15. ScanOK(f, Stack(open, e), ask, r)
    <3>1. "run" # "ok"
      OBVIOUS
    <3> QED
      BY <2>8, <2>10, <2>12, <2>13, <2>14, <3>1, Zenon DEF ScanOK
  <2> QED
    BY <2>15 DEF r
<1>12. CASE ~(Len(open) >= MaxDepth) /\ scan.saw /\ ~IsListed(scan, e)
  <2>1. r = scan
    BY <1>12 DEF ScanStep
  <2> HIDE DEF r
  <2>2. ~ListedIn(f, ask, n)
    <3>1. CASE scan.pend = 0
      BY <1>4, <1>12, <3>1 DEF IsListed
    <3>2. CASE scan.pend # 0
      <4>1. /\ scan.pend \in 1..Len(doc) /\ OpenAt(doc, scan.pend, n)
            /\ ListedIn(doc, ask, scan.pend)
        BY <1>1, <1>2, <3>2 DEF PendingOK
      <4>2. EntryAt(doc, ask, scan.pend)
        BY <4>1 DEF ListedIn
      <4> QED
        BY <1>4, <4>1, <4>2
    <3> QED
      BY <3>1, <3>2
  <2>3. CompleteIn(f, ask) = CompleteIn(doc, ask)
    BY <1>8, <2>2
  <2>4. PendingOK(f, ask, scan)
    BY <1>1, <1>7, <2>3, PendingKept
  <2>5. NothingYet(f, scan) /\ TopClosed(Stack(open, e), scan)
    BY <1>1, <1>6, <1>12 DEF NothingYet, TopClosed
  <2>6. scan.closed <=> RootDone(f)
    <3>1. Len(open) = 0 => open = <<>>
      BY <1>1 DEF StackOK
    <3> QED
      BY <1>1, <1>5, <1>12, <3>1 DEF TopClosed
  <2>7. ScanOK(f, Stack(open, e), ask, scan)
    <3>1. "run" # "ok"
      OBVIOUS
    <3> QED
      BY <1>1, <2>3, <2>4, <2>5, <2>6, <3>1, Zenon DEF ScanOK
  <2> QED
    BY <2>1, <2>7 DEF r
<1> QED
  BY <1>9, <1>10, <1>11, <1>12

\* The innermost open element: the only one an end tag can close.
LEMMA Innermost ==
    ASSUME NEW e, NEW f, NEW n, Reads(e, f, n), e.k = "end"
    PROVE  \E a \in 1..Len(doc) :
               /\ OpenAt(doc, a, n) /\ DepthIn(doc, a) + 1 = Len(open) /\ doc[a].n = e.n
               /\ \A i \in 1..n : ClosesAt(f, i, n) <=> i = a
<1>1. StackOK(doc, open) /\ Longer(doc, e, f, n) /\ Opened(doc, e, f, n, open) /\ Fits(open, e)
  BY DEF Reads
<1>2. /\ n = Len(doc) + 1 /\ Len(doc) \in Nat /\ 1..n = (1..Len(doc)) \cup {n}
      /\ Len(open) \in Nat /\ n \notin 1..Len(doc)
  BY <1>1 DEF Longer, Opened
<1>3. open # <<>> /\ open \in Seq(Names) /\ e.n = open[Len(open)]
  BY <1>1 DEF Fits, StackOK
<1>4. Len(open) \in 1..Len(open)
  <2>1. Len(open) # 0
    BY <1>3
  <2> QED
    BY <1>2, <2>1
<1>5. PICK a \in 1..Len(doc) : OpenAt(doc, a, n) /\ DepthIn(doc, a) = Len(open) - 1
  BY <1>1, <1>2, <1>4 DEF StackOK
<1>6. DepthIn(doc, a) + 1 = Len(open)
  BY <1>2, <1>5
<1>7. doc[a].n = e.n
  <2>1. doc[a].n = open[DepthIn(doc, a) + 1]
    BY <1>1, <1>2, <1>5 DEF StackOK
  <2> QED
    BY <1>3, <1>6, <2>1
<1>8. ASSUME NEW i \in 1..n PROVE ClosesAt(f, i, n) <=> i = a
  <2>1. ClosesAt(f, i, n) <=>
            \/ i = n /\ e.k = "empty"
            \/ i \in 1..Len(doc) /\ OpenAt(doc, i, n) /\ e.k = "end" /\ Len(open) = DepthIn(doc, i) + 1
    <3>1. Longer(doc, e, f, n) /\ Opened(doc, e, f, n, open)
      BY <1>1
    <3> QED
      BY <1>8, <3>1, ClosesNew
  <2>2. ASSUME i \in 1..Len(doc), OpenAt(doc, i, n), Len(open) = DepthIn(doc, i) + 1
        PROVE  i = a
    <3>1. DepthIn(doc, i) \in Nat /\ DepthIn(doc, a) \in Nat
      BY <1>1, <2>2 DEF StackOK
    <3>2. DepthIn(doc, i) <= DepthIn(doc, a) /\ DepthIn(doc, a) <= DepthIn(doc, i)
      BY <1>6, <2>2, <3>1
    <3>3. i <= a /\ a <= i
      BY <1>1, <1>2, <1>5, <2>2, <3>2 DEF StackOK
    <3> QED
      BY <2>2, <3>3
  <2> QED
    BY <1>5, <1>6, <2>1, <2>2
<1> QED
  BY <1>5, <1>6, <1>7, <1>8

\* Of two open elements the outer one began first and is open where the inner one begins.
LEMMA OuterIsAround ==
    ASSUME StackOK(doc, open), NEW a \in 1..Len(doc), NEW b \in 1..Len(doc),
           OpenAt(doc, a, Len(doc) + 1), OpenAt(doc, b, Len(doc) + 1),
           DepthIn(doc, a) < DepthIn(doc, b)
    PROVE  a \in 1..(b - 1) /\ OpenAt(doc, a, b)
<1>1. DepthIn(doc, a) \in Nat /\ DepthIn(doc, b) \in Nat /\ Len(doc) \in Nat
  BY DEF StackOK
<1>2. a <= b /\ a # b
  BY <1>1 DEF StackOK
<1>3. a < b /\ b <= Len(doc) + 1
  BY <1>1, <1>2
<1>4. OpenAt(doc, a, b)
  BY <1>1, <1>3, OpenBetween
<1> QED
  BY <1>3, <1>4

\* An end tag: the pending entry is complete when its own end comes.
LEMMA ScanReadsEnd ==
    ASSUME NEW e, NEW f, NEW n, Reads(e, f, n), ScanOK(doc, open, ask, scan), scan.res = "run",
           e.k = "end", StackOK(f, Stack(open, e))
    PROVE  ScanOK(f, Stack(open, e), ask, ScanStep(scan, e, n))
<1> DEFINE r == ScanStep(scan, e, n)
<1>1. /\ StackOK(doc, open) /\ Longer(doc, e, f, n) /\ Opened(doc, e, f, n, open)
      /\ scan \in ScanRecord
      /\ PageOK(CompleteIn(doc, ask), ask, scan.total, scan.entries)
      /\ (scan.closed <=> RootDone(doc))
      /\ NothingYet(doc, scan) /\ TopClosed(open, scan) /\ PendingOK(doc, ask, scan)
  BY ScanRuns
<1>2. /\ Len(f) = n /\ n = Len(doc) + 1 /\ Len(doc) \in Nat /\ 1..n = (1..Len(doc)) \cup {n}
      /\ n \in 1..n /\ n \in Nat /\ Len(open) \in Nat /\ f[n] = e
      /\ \A i \in 1..n : DepthIn(f, i) = DepthIn(doc, i)
  BY <1>1 DEF Longer, Opened
<1>3. PICK a \in 1..Len(doc) :
          /\ OpenAt(doc, a, n) /\ DepthIn(doc, a) + 1 = Len(open) /\ doc[a].n = e.n
          /\ \A i \in 1..n : ClosesAt(f, i, n) <=> i = a
  BY Innermost
<1>4. RootDone(f) <=> RootDone(doc) \/ Len(open) = 1
  <2>1. RootDone(f) <=> RootDone(doc) \/ (e.k = "empty" /\ Len(open) = 0)
                                      \/ (e.k = "end" /\ Len(open) = 1)
    BY <1>1, RootGrows, Zenon
  <2> QED
    BY <2>1
<1>5. Stack(open, e) = <<>> => Len(open) = 1
  <2>1. DepthIn(f, n + 1) = Len(Stack(open, e)) /\ DepthIn(f, n + 1) = Len(open) - 1
    BY <1>1, <1>2 DEF StackOK, Opened
  <2> DEFINE k == Len(Stack(open, e))
  <2>2. Stack(open, e) = <<>> => k = 0
    OBVIOUS
  <2>3. k = Len(open) - 1
    BY <2>1
  <2> HIDE DEF k
  <2> QED
    BY <1>2, <2>2, <2>3
<1>6. \A b \in 1..n : OpenAt(f, b, n + 1) <=>
          b \in 1..Len(doc) /\ OpenAt(doc, b, n) /\ Len(open) # DepthIn(doc, b) + 1
  BY <1>1 DEF Opened
<1>7. \A b \in 1..Len(doc) : EntryAt(f, ask, b) <=> EntryAt(doc, ask, b)
  BY <1>1, EntryGrows, Zenon
<1>8. NothingYet(f, scan)
  <2>1. IsOpening(doc, a)
    BY <1>3 DEF OpenAt, IsOpening
  <2> QED
    BY <1>1, <2>1 DEF NothingYet
<1>9. \A b \in 1..Len(doc) : DepthIn(doc, b) \in Nat
  BY <1>1 DEF StackOK
<1>10. scan.pend # 0 =>
           /\ scan.pend \in 1..Len(doc) /\ OpenAt(doc, scan.pend, n)
           /\ ListedIn(doc, ask, scan.pend) /\ EntryAt(doc, ask, scan.pend)
           /\ DepthIn(doc, scan.pend) = scan.at /\ scan.at < Len(open)
           /\ \A p \in CompleteIn(doc, ask) : p[1] < scan.pend
  BY <1>1, <1>2 DEF PendingOK, ListedIn, StackOK
<1>11. CASE scan.pend # 0 /\ Len(open) - 1 = scan.at /\ e.n = "entry"
  <2> DEFINE es == IF scan.total >= ask.offset /\ scan.total < ask.offset + ask.limit
                   THEN Append(scan.entries, <<scan.pend, n>>) ELSE scan.entries
             C == CompleteIn(doc, ask)
  <2>1. r = [scan EXCEPT !.total = scan.total + 1, !.entries = es, !.pend = 0,
                         !.closed = scan.closed \/ Len(open) = 1]
    <3>1. scan \in ScanRecord
      BY <1>1
    <3> QED
      BY <1>11, <3>1 DEF ScanStep, CountEntry, ScanRecord
  <2>2. scan.pend = a
    <3>1. DepthIn(doc, scan.pend) = DepthIn(doc, a)
      BY <1>2, <1>3, <1>9, <1>10, <1>11
    <3>2. scan.pend <= a /\ a <= scan.pend
      BY <1>1, <1>2, <1>3, <1>9, <1>10, <1>11, <3>1 DEF StackOK
    <3> QED
      BY <1>10, <1>11, <3>2
  <2>3. a \in 1..n /\ ListedIn(f, ask, a)
    BY <1>1, <1>2, <1>10, <1>11, <2>2, ListedSame
  <2>4. CompleteIn(f, ask) = C \cup {<<a, n>>}
    BY <1>1, <1>3, <2>3, CompleteOne
  <2>6. es = IF scan.total >= ask.offset /\ scan.total < ask.offset + ask.limit
             THEN Append(scan.entries, <<a, n>>) ELSE scan.entries
    BY <2>2
  <2> HIDE DEF es
  <2>7. ask \in Windows /\ PageOK(C, ask, scan.total, scan.entries)
    BY <1>1 DEF C, Reads
  <2>8. PageOK(CompleteIn(f, ask), ask, scan.total + 1, es)
    <3>1. PICK p : p = <<a, n>>
      OBVIOUS
    <3>2. p \in Pairs /\ \A x \in C : x[1] < p[1]
      BY <1>2, <1>10, <1>11, <2>2, <3>1 DEF Pairs
    <3>3. es = IF scan.total >= ask.offset /\ scan.total < ask.offset + ask.limit
               THEN Append(scan.entries, p) ELSE scan.entries
      BY <2>6, <3>1
    <3> HIDE DEF C
    <3>4. PageOK(C \cup {p}, ask, scan.total + 1, es)
      BY <2>7, <3>2, <3>3, PageGrows, Zenon
    <3> QED
      BY <2>4, <3>1, <3>4
  <2>9. es \in Seq(Pairs)
    BY <2>8 DEF PageOK
  <2>10. /\ r \in ScanRecord /\ r.res = "run" /\ r.saw = scan.saw /\ r.pend = 0
         /\ r.total = scan.total + 1 /\ r.entries = es
         /\ r.closed = (scan.closed \/ Len(open) = 1)
    <3>1. scan \in ScanRecord /\ scan.res = "run" /\ scan.total + 1 \in Nat
      BY <1>1 DEF ScanRecord
    <3> DEFINE c == scan.closed \/ Len(open) = 1
    <3>2. c \in BOOLEAN
      OBVIOUS
    <3>3. r = [scan EXCEPT !.total = scan.total + 1, !.entries = es, !.pend = 0, !.closed = c]
      BY <2>1
    <3> HIDE DEF c, r
    <3>4. /\ r \in ScanRecord /\ r.res = "run" /\ r.saw = scan.saw /\ r.pend = 0
          /\ r.total = scan.total + 1 /\ r.entries = es /\ r.closed = c
      BY <2>9, <3>1, <3>2, <3>3 DEF ScanRecord
    <3> QED
      BY <3>4 DEF c
  <2> HIDE DEF r
  <2>11. PendingOK(f, ask, r)
    <3>1. ASSUME NEW b \in 1..n, OpenAt(f, b, n + 1), EntryAt(f, ask, b) PROVE FALSE
      <4>1. b \in 1..Len(doc) /\ OpenAt(doc, b, n) /\ Len(open) # DepthIn(doc, b) + 1
        BY <1>6, <3>1
      <4>2. EntryAt(doc, ask, b)
        BY <1>7, <3>1, <4>1
      <4>3. DepthIn(doc, b) < Len(open)
        BY <1>1, <1>2, <4>1 DEF StackOK
      <4>4. DepthIn(doc, b) < DepthIn(doc, a)
        BY <1>2, <1>3, <1>9, <4>1, <4>3
      <4>5. b \in 1..(a - 1) /\ OpenAt(doc, b, a)
        BY <1>1, <1>2, <1>3, <4>1, <4>4, OuterIsAround
      <4> QED
        BY <1>10, <1>11, <2>2, <4>2, <4>5 DEF ListedIn
    <3> QED
      BY <1>2, <2>10, <3>1 DEF PendingOK
  <2>12. NothingYet(f, r) /\ TopClosed(Stack(open, e), r)
    BY <1>5, <1>8, <2>10 DEF NothingYet, TopClosed
  <2>13. r.closed <=> RootDone(f)
    BY <1>1, <1>4, <2>10
  <2>14. ScanOK(f, Stack(open, e), ask, r)
    <3>1. "run" # "ok"
      OBVIOUS
    <3> QED
      BY <2>8, <2>10, <2>11, <2>12, <2>13, <3>1, Zenon DEF ScanOK
  <2> QED
    BY <2>14 DEF r
<1>12. CASE ~(scan.pend # 0 /\ Len(open) - 1 = scan.at /\ e.n = "entry")
  <2>1. r = [scan EXCEPT !.closed = scan.closed \/ Len(open) = 1]
    BY <1>12 DEF ScanStep
  <2>2. /\ r \in ScanRecord /\ r.res = "run" /\ r.saw = scan.saw /\ r.pend = scan.pend
        /\ r.at = scan.at /\ r.total = scan.total /\ r.entries = scan.entries
        /\ r.closed = (scan.closed \/ Len(open) = 1)
    <3>1. scan \in ScanRecord
      BY <1>1
    <3> QED
      BY <2>1, <3>1 DEF ScanRecord
  <2> HIDE DEF r
  <2>3. ASSUME scan.pend # 0 PROVE DepthIn(doc, scan.pend) < DepthIn(doc, a)
    <3>1. SUFFICES ASSUME DepthIn(doc, scan.pend) = DepthIn(doc, a) PROVE FALSE
      BY <1>2, <1>3, <1>9, <1>10, <2>3
    <3>2. scan.pend <= a /\ a <= scan.pend
      BY <1>1, <1>2, <1>3, <1>9, <1>10, <2>3, <3>1 DEF StackOK
    <3>3. scan.pend = a
      BY <1>10, <2>3, <3>2
    <3>4. e.n = "entry"
      BY <1>3, <1>10, <2>3, <3>3 DEF EntryAt
    <3> QED
      BY <1>2, <1>3, <1>9, <1>10, <1>12, <2>3, <3>3, <3>4
  <2>4. ~ListedIn(f, ask, a)
    <3>1. SUFFICES ASSUME ListedIn(doc, ask, a) PROVE FALSE
      BY <1>1, <1>3, ListedSame
    <3>2. CASE scan.pend = 0
      BY <1>1, <1>2, <1>3, <3>1, <3>2 DEF PendingOK, ListedIn
    <3>3. CASE scan.pend # 0
      <4>1. scan.pend \in 1..(a - 1) /\ OpenAt(doc, scan.pend, a)
        BY <1>1, <1>2, <1>3, <1>10, <2>3, <3>3, OuterIsAround
      <4> QED
        BY <1>10, <3>1, <3>3, <4>1 DEF ListedIn
    <3> QED
      BY <3>2, <3>3
  <2>5. CompleteIn(f, ask) = CompleteIn(doc, ask)
    <3>1. \A i \in 1..n : ~(ListedIn(f, ask, i) /\ ClosesAt(f, i, n))
      BY <1>3, <2>4
    <3> QED
      BY <1>1, <3>1, CompleteSame
  <2>6. PendingOK(f, ask, r)
    <3>1. CASE scan.pend = 0
      <4>1. \A b \in 1..Len(doc) : ~(OpenAt(doc, b, n) /\ EntryAt(doc, ask, b))
        BY <1>1, <1>2, <3>1 DEF PendingOK
      <4>2. \A b \in 1..n : ~(OpenAt(f, b, n + 1) /\ EntryAt(f, ask, b))
        BY <1>6, <1>7, <4>1, Zenon
      <4> QED
        BY <1>2, <2>2, <3>1, <4>2 DEF PendingOK
    <3>2. CASE scan.pend # 0
      <4>1. DepthIn(doc, scan.pend) + 1 # Len(open)
        BY <1>2, <1>3, <1>9, <1>10, <2>3, <3>2
      <4>2. scan.pend \in 1..n /\ OpenAt(f, scan.pend, n + 1)
        BY <1>2, <1>6, <1>10, <3>2, <4>1
      <4>3. ListedIn(f, ask, scan.pend)
        BY <1>1, <1>10, <3>2, ListedSame
      <4> QED
        BY <1>2, <1>10, <2>2, <2>5, <3>2, <4>2, <4>3 DEF PendingOK
    <3> QED
      BY <3>1, <3>2
  <2>7. NothingYet(f, r) /\ TopClosed(Stack(open, e), r)
    BY <1>5, <1>8, <2>2 DEF NothingYet, TopClosed
  <2>8. r.closed <=> RootDone(f)
    BY <1>1, <1>4, <2>2
  <2>9. ScanOK(f, Stack(open, e), ask, r)
    <3>1. "run" # "ok"
      OBVIOUS
    <3> QED
      BY <1>1, <2>2, <2>5, <2>6, <2>7, <2>8, <3>1, Zenon DEF ScanOK
  <2> QED
    BY <2>9 DEF r
<1> QED
  BY <1>11, <1>12

\* No tag so far has closed an open element.
LEMMA OpenNotClosed ==
    ASSUME NEW d, NEW a \in Nat \ {0}, NEW i \in Nat, OpenAt(d, a, i), NEW j \in 1..(i - 1)
    PROVE  ~ClosesAt(d, a, j)
<1>1. CASE j <= a
  BY <1>1 DEF OpenAt, ClosesAt
<1>2. CASE j > a
  <2>1. j \in (a + 1)..(i - 1) /\ a # j
    BY <1>2
  <2> QED
    BY <2>1 DEF OpenAt, ClosesAt
<1> QED
  BY <1>1, <1>2

\* The end of the stream: the answer is partial exactly when something is missing.
LEMMA ScanReadsEof ==
    ASSUME NEW e, NEW f, NEW n, Reads(e, f, n), ScanOK(doc, open, ask, scan), scan.res = "run",
           e.k = "eof"
    PROVE  ScanOK(f, Stack(open, e), ask, ScanStep(scan, e, n))
<1> DEFINE r == ScanStep(scan, e, n)
<1>1. /\ StackOK(doc, open) /\ Longer(doc, e, f, n) /\ Opened(doc, e, f, n, open)
      /\ scan \in ScanRecord
      /\ PageOK(CompleteIn(doc, ask), ask, scan.total, scan.entries)
      /\ (scan.closed <=> RootDone(doc))
      /\ NothingYet(doc, scan) /\ TopClosed(open, scan) /\ PendingOK(doc, ask, scan)
  BY ScanRuns
<1>2. CompleteIn(f, ask) = CompleteIn(doc, ask) /\ (RootDone(f) <=> RootDone(doc))
  BY <1>1, NothingClosed
<1>3. /\ Len(f) = n /\ n = Len(doc) + 1 /\ Len(doc) \in Nat /\ 1..n = (1..Len(doc)) \cup {n}
      /\ n \in 1..n /\ n \in Nat \ {0} /\ f[n] = e
  BY <1>1 DEF Longer
<1>4. \A a \in 1..n : OpenAt(f, a, n + 1) <=> a \in 1..Len(doc) /\ OpenAt(doc, a, n)
  BY <1>1 DEF Opened
<1>5. ASSUME scan.pend # 0
      PROVE  \E i \in 1..n : ListedIn(f, ask, i) /\ \A j \in 1..n : ~ClosesAt(f, i, j)
  <2>1. scan.pend \in 1..Len(doc) /\ OpenAt(doc, scan.pend, n) /\ ListedIn(doc, ask, scan.pend)
    BY <1>1, <1>3, <1>5 DEF PendingOK
  <2>2. scan.pend \in 1..n /\ OpenAt(f, scan.pend, n + 1)
    BY <1>3, <1>4, <2>1
  <2>3. ListedIn(f, ask, scan.pend)
    BY <1>1, <2>1, ListedSame
  <2>4. ASSUME NEW j \in 1..n PROVE ~ClosesAt(f, scan.pend, j)
    <3>1. j \in 1..((n + 1) - 1) /\ scan.pend \in Nat \ {0} /\ n + 1 \in Nat
      BY <1>3, <2>2, <2>4
    <3> QED
      BY <2>2, <3>1, OpenNotClosed
  <2> QED
    BY <2>2, <2>3, <2>4
<1>6. ASSUME NEW i \in 1..n, ListedIn(f, ask, i), \A j \in 1..n : ~ClosesAt(f, i, j)
      PROVE  scan.pend # 0
  <2>1. IsOpening(f, i) /\ EntryAt(f, ask, i)
    BY <1>6 DEF ListedIn
  <2>2. i # n
    BY <1>3, <2>1 DEF IsOpening
  <2>3. f[i].k = "start"
    BY <1>6, <2>1 DEF IsOpening, ClosesAt
  <2>4. OpenAt(f, i, n + 1)
    <3>1. i \in Nat \ {0} /\ n + 1 \in Nat /\ i < n + 1 /\ \A j \in i..((n + 1) - 1) : ~ClosesAt(f, i, j)
      BY <1>3, <1>6
    <3> QED
      BY <2>3, <3>1, OpenOrClosed
  <2>5. i \in 1..Len(doc) /\ OpenAt(doc, i, n)
    BY <1>4, <1>6, <2>4
  <2>6. EntryAt(doc, ask, i)
    <3>1. \A b \in 1..Len(doc) : EntryAt(f, ask, b) <=> EntryAt(doc, ask, b)
      BY <1>1, EntryGrows, Zenon
    <3> QED
      BY <2>1, <2>5, <3>1
  <2> QED
    BY <1>1, <1>3, <2>5, <2>6 DEF PendingOK
<1>7. (\E i \in 1..n : ListedIn(f, ask, i) /\ \A j \in 1..n : ~ClosesAt(f, i, j)) <=> scan.pend # 0
  BY <1>5, <1>6
<1>8. f[Len(f)].k # "bad"
  BY <1>3
<1>9. Unfinished(f, ask) <=> ~scan.closed \/ scan.pend # 0
  BY <1>1, <1>2, <1>3, <1>7, <1>8, Zenon DEF Unfinished
<1> DEFINE c == ~scan.closed \/ scan.pend # 0
<1>10. r = [scan EXCEPT !.res = "ok", !.part = c]
  BY DEF ScanStep
<1>11. c \in BOOLEAN /\ (c <=> Unfinished(f, ask))
  BY <1>9
<1> HIDE DEF c, r
<1>12. /\ r \in ScanRecord /\ r.res = "ok" /\ r.part = c /\ r.closed = scan.closed
       /\ r.total = scan.total /\ r.entries = scan.entries
  BY <1>1, <1>10, <1>11 DEF ScanRecord
<1>13. ScanOK(f, Stack(open, e), ask, r)
  <2>1. "ok" # "run"
    OBVIOUS
  <2> QED
    BY <1>1, <1>2, <1>11, <1>12, <2>1, Zenon DEF ScanOK
<1> QED
  BY <1>13 DEF r

\* Text changes nothing; an error ends the scan, as a partial answer once an element was met.
LEMMA ScanReadsOther ==
    ASSUME NEW e, NEW f, NEW n, Reads(e, f, n), ScanOK(doc, open, ask, scan), scan.res = "run",
           e.k \in {"text", "bad", "doctype"}
    PROVE  ScanOK(f, Stack(open, e), ask, ScanStep(scan, e, n))
<1> DEFINE r == ScanStep(scan, e, n)
<1>1. /\ StackOK(doc, open) /\ Longer(doc, e, f, n) /\ Opened(doc, e, f, n, open)
      /\ scan \in ScanRecord
      /\ PageOK(CompleteIn(doc, ask), ask, scan.total, scan.entries)
      /\ (scan.closed <=> RootDone(doc))
      /\ NothingYet(doc, scan) /\ TopClosed(open, scan) /\ PendingOK(doc, ask, scan)
  BY ScanRuns
<1>2. CompleteIn(f, ask) = CompleteIn(doc, ask) /\ (RootDone(f) <=> RootDone(doc))
  BY <1>1, NothingClosed
<1>3. Stack(open, e) = open
  BY DEF Stack
<1>4. CASE e.k = "text"
  <2>1. r = scan
    BY <1>4 DEF ScanStep
  <2> HIDE DEF r
  <2>2. PendingOK(f, ask, scan)
    BY <1>1, <1>2, PendingKept
  <2>3. NothingYet(f, scan)
    <3>1. /\ \A a \in 1..Len(doc) : IsOpening(f, a) <=> IsOpening(doc, a)
          /\ IsOpening(f, n) <=> e.k \in {"start", "empty"}
      BY <1>1, EntryGrows, Zenon
    <3>2. 1..Len(f) = (1..Len(doc)) \cup {n}
      BY <1>1 DEF Longer
    <3>3. ~IsOpening(f, n)
      BY <1>4, <3>1
    <3> QED
      BY <1>1, <3>1, <3>2, <3>3 DEF NothingYet
  <2>4. ScanOK(f, Stack(open, e), ask, scan)
    <3>1. "run" # "ok"
      OBVIOUS
    <3> QED
      BY <1>1, <1>2, <1>3, <2>2, <2>3, <3>1, Zenon DEF ScanOK
  <2> QED
    BY <2>1, <2>4 DEF r
<1>5. CASE e.k = "bad" /\ scan.saw
  <2>1. r = [scan EXCEPT !.res = "ok", !.part = TRUE]
    BY <1>5 DEF ScanStep
  <2>2. /\ r \in ScanRecord /\ r.res = "ok" /\ r.part /\ r.closed = scan.closed
        /\ r.total = scan.total /\ r.entries = scan.entries
    BY <1>1, <2>1 DEF ScanRecord
  <2> HIDE DEF r
  <2>3. Unfinished(f, ask)
    <3>1. f[Len(f)] = e
      BY <1>1 DEF Longer
    <3> QED
      BY <1>5, <3>1 DEF Unfinished
  <2>4. ScanOK(f, Stack(open, e), ask, r)
    <3>1. "ok" # "run"
      OBVIOUS
    <3> QED
      BY <1>1, <1>2, <2>2, <2>3, <3>1, Zenon DEF ScanOK
  <2> QED
    BY <2>4 DEF r
<1>6. CASE e.k = "doctype" \/ (e.k = "bad" /\ ~scan.saw)
  <2>1. r = [scan EXCEPT !.res = "err"]
    BY <1>6 DEF ScanStep
  <2> QED
    BY <1>1, <2>1, ScanFailed
<1> QED
  BY <1>4, <1>5, <1>6

\* Every event.
LEMMA ScanReads ==
    ASSUME NEW e, NEW f, NEW n, Reads(e, f, n), ScanOK(doc, open, ask, scan), scan.res = "run",
           StackOK(f, Stack(open, e))
    PROVE  ScanOK(f, Stack(open, e), ask, ScanStep(scan, e, n))
<1>1. e.k \in {"start", "empty", "end", "eof", "text", "bad", "doctype"}
  BY DEF Reads, Fits, Events, Kinds
<1> QED
  BY <1>1, ScanReadsStart, ScanReadsEmpty, ScanReadsEnd, ScanReadsEof, ScanReadsOther

-----------------------------------------------------------------------------
(* Every step of the specification is one event. *)

RedactRecord == [secret : Nat, marked : BOOLEAN, out : Seq(Int), res : {"run", "ok"}]

\* The stream is over once redact_structural_secret_elements has returned: by an error, by
\* the end the device meant, or by a cut.
StreamEnds ==
    /\ redact \in RedactRecord
    /\ redact.res = "run" => ~cut /\ scan.res # "ok"
    /\ redact.res = "ok" =>
         /\ Len(doc) > 0
         /\ \/ doc[Len(doc)].k = "bad"
            \/ doc[Len(doc)].k = "eof" /\ (cut \/ open = <<>>)

StreamInv == StackOK(doc, open) /\ ask \in Windows /\ StreamEnds

\* What the environment may do: one event that fits, cut only at the end.
ReadsOne(e) ==
    /\ Fits(open, e) /\ Read(e)
    /\ e.k # "eof" => cut' = cut
    /\ e.k = "eof" => cut' = TRUE \/ (open = <<>> /\ cut' = cut)

\* Every action reads one event.
LEMMA NextReads ==
    ASSUME StackOK(doc, open), Next
    PROVE  \E e \in Events : ReadsOne(e)
<1>1. open \in Seq(Names)
  BY DEF StackOK
<1>2. open # <<>> => Len(open) \in 1..Len(open) /\ Here = open[Len(open)] /\ Here \in Names
  <2>1. open # <<>> => Len(open) # 0 /\ Len(open) \in Nat
    BY <1>1
  <2> QED
    BY <1>1, <2>1 DEF Here
<1>3. Here \in Names \cup {"doc"}
  BY <1>2 DEF Here
<1>4. ASSUME NEW k \in Kinds, NEW m \in Names \cup {"doc"}
      PROVE  Event(k, m) \in Events /\ Event(k, m).k = k /\ Event(k, m).n = m
  BY <1>4 DEF Event, Events
<1>5. /\ "start" \in Kinds /\ "empty" \in Kinds /\ "end" \in Kinds /\ "text" \in Kinds
      /\ "doctype" \in Kinds /\ "eof" \in Kinds /\ "bad" \in Kinds
  BY DEF Kinds
<1>6. ASSUME NEW m \in Names, Open(m) PROVE \E e \in Events : ReadsOne(e)
  <2>1. PICK e \in Events : e = Event("start", m) /\ e.k = "start" /\ e.n = m
    BY <1>4, <1>5
  <2>2. ReadsOne(e)
    BY <1>6, <2>1 DEF ReadsOne, Fits, Open
  <2> QED
    BY <2>2
<1>7. ASSUME NEW m \in Names, Leaf(m) PROVE \E e \in Events : ReadsOne(e)
  <2>1. PICK e \in Events : e = Event("empty", m) /\ e.k = "empty" /\ e.n = m
    BY <1>4, <1>5
  <2>2. ReadsOne(e)
    BY <1>7, <2>1 DEF ReadsOne, Fits, Leaf
  <2> QED
    BY <2>2
<1>8. ASSUME Chars PROVE \E e \in Events : ReadsOne(e)
  <2>1. PICK e \in Events : e = Event("text", Here) /\ e.k = "text"
    BY <1>3, <1>4, <1>5
  <2>2. ReadsOne(e)
    BY <1>8, <2>1 DEF ReadsOne, Fits, Chars
  <2> QED
    BY <2>2
<1>9. ASSUME Close PROVE \E e \in Events : ReadsOne(e)
  <2>1. PICK e \in Events : e = Event("end", Here) /\ e.k = "end" /\ e.n = Here
    BY <1>3, <1>4, <1>5
  <2>2. open # <<>> /\ Here = open[Len(open)]
    BY <1>2, <1>9 DEF Close
  <2>3. ReadsOne(e)
    BY <1>9, <2>1, <2>2 DEF ReadsOne, Fits, Close
  <2> QED
    BY <2>3
<1>10. ASSUME Doctype PROVE \E e \in Events : ReadsOne(e)
  <2>1. PICK e \in Events : e = Event("doctype", Here) /\ e.k = "doctype"
    BY <1>3, <1>4, <1>5
  <2>2. ReadsOne(e)
    BY <1>10, <2>1 DEF ReadsOne, Fits, Doctype
  <2> QED
    BY <2>2
<1>11. ASSUME End PROVE \E e \in Events : ReadsOne(e)
  <2>1. PICK e \in Events : e = Event("eof", Here) /\ e.k = "eof"
    BY <1>3, <1>4, <1>5
  <2>2. ReadsOne(e)
    BY <1>11, <2>1 DEF ReadsOne, Fits, End
  <2> QED
    BY <2>2
<1>12. ASSUME CutBody PROVE \E e \in Events : ReadsOne(e)
  <2>1. PICK e \in Events : e = Event("eof", Here) /\ e.k = "eof"
    BY <1>3, <1>4, <1>5
  <2>2. ReadsOne(e)
    BY <1>12, <2>1 DEF ReadsOne, Fits, CutBody
  <2> QED
    BY <2>2
<1>13. ASSUME Garble PROVE \E e \in Events : ReadsOne(e)
  <2>1. PICK e \in Events : e = Event("bad", Here) /\ e.k = "bad"
    BY <1>3, <1>4, <1>5
  <2>2. ReadsOne(e)
    BY <1>13, <2>1 DEF ReadsOne, Fits, Garble
  <2> QED
    BY <2>2
<1> QED
  BY <1>6, <1>7, <1>8, <1>9, <1>10, <1>11, <1>12, <1>13 DEF Next

\* The stream before and after an event.
LEMMA ReadGrows ==
    ASSUME StackOK(doc, open), ask \in Windows, NEW e, ReadsOne(e)
    PROVE  /\ Reads(e, doc', Len(doc) + 1)
           /\ open' = Stack(open, e) /\ StackOK(doc', Stack(open, e)) /\ ask' = ask
<1>1. Fits(open, e) /\ e \in Events /\ doc \in Seq(Events)
  BY DEF ReadsOne, Fits, StackOK
<1>2. doc' = Append(doc, e) /\ open' = Stack(open, e) /\ ask' = ask
  BY DEF ReadsOne, Read, Stack
<1>3. Longer(doc, e, Append(doc, e), Len(doc) + 1)
  BY <1>1, StreamGrows
<1>4. Opened(doc, e, Append(doc, e), Len(doc) + 1, open)
  BY <1>3, OpenGrows
<1>5. StackOK(Append(doc, e), Stack(open, e))
  BY <1>1, StackGrows
<1> QED
  BY <1>1, <1>2, <1>3, <1>4, <1>5 DEF Reads

\* An empty stream.
LEMMA EmptyStream ==
    ASSUME doc = <<>>, open = <<>>
    PROVE  StackOK(doc, open) /\ Len(doc) = 0 /\ 1..Len(doc) = {}
<1>1. doc \in Seq(Events) /\ open \in Seq(Names) /\ Len(doc) = 0 /\ Len(open) = 0
  OBVIOUS
<1>2. 1..0 = {}
  OBVIOUS
<1>3. DepthIn(doc, 1) = 0
  BY DepthFirst
<1> QED
  BY <1>1, <1>2, <1>3 DEF StackOK

\* One step of redact_structural_secret_elements, by the kind of event.
LEMMA RedactForms ==
    ASSUME redact \in RedactRecord, NEW e \in Events, NEW n
    PROVE  /\ redact.secret # 0 /\ e.k = "text" =>
                  RedactStep(redact, e, n) =
                      [redact EXCEPT !.out = IF redact.marked THEN redact.out ELSE Append(redact.out, 0),
                                     !.marked = TRUE]
           /\ e.k = "bad" =>
                  RedactStep(redact, e, n) = [redact EXCEPT !.out = Append(redact.out, -1), !.res = "ok"]
           /\ e.k = "eof" => RedactStep(redact, e, n) = [redact EXCEPT !.res = "ok"]
           /\ e.k = "start" =>
                  RedactStep(redact, e, n) =
                      [redact EXCEPT !.out = Append(redact.out, n), !.marked = FALSE,
                                     !.secret = IF redact.secret = 0 /\ e.n \in Secret
                                                THEN Len(open) + 1 ELSE redact.secret]
           /\ e.k = "end" =>
                  RedactStep(redact, e, n) =
                      [redact EXCEPT !.out = Append(redact.out, n), !.marked = FALSE,
                                     !.secret = IF redact.secret = Len(open) THEN 0 ELSE redact.secret]
           /\ e.k \in {"empty", "doctype"} \/ (e.k = "text" /\ redact.secret = 0) =>
                  RedactStep(redact, e, n) =
                      [redact EXCEPT !.out = Append(redact.out, n), !.marked = FALSE]
<1>1. CASE e.k = "text"
  BY <1>1 DEF RedactStep
<1>2. CASE e.k = "bad"
  BY <1>2 DEF RedactStep
<1>3. CASE e.k = "eof"
  BY <1>3 DEF RedactStep
<1>4. CASE e.k = "start"
  BY <1>4 DEF RedactStep, RedactRecord
<1>5. CASE e.k = "end"
  BY <1>5 DEF RedactStep, RedactRecord, LeavesSecret
<1>6. CASE e.k \in {"empty", "doctype"}
  BY <1>6 DEF RedactStep
<1>7. e.k \in {"start", "empty", "end", "eof", "text", "bad", "doctype"}
  BY DEF Events, Kinds
<1> QED
  BY <1>1, <1>2, <1>3, <1>4, <1>5, <1>6, <1>7

\* redact_structural_secret_elements returns at the end of the stream.
LEMMA RedactEnds ==
    ASSUME redact \in RedactRecord, redact.res = "run", NEW e \in Events, NEW n \in Nat,
           Len(open) \in Nat
    PROVE  /\ RedactStep(redact, e, n) \in RedactRecord
           /\ RedactStep(redact, e, n).res = "ok" <=> e.k \in {"bad", "eof"}
<1> DEFINE r == RedactStep(redact, e, n)
           here == Append(redact.out, n)
           rest == Append(redact.out, -1)
           text == IF redact.marked THEN redact.out ELSE Append(redact.out, 0)
           down == IF redact.secret = 0 /\ e.n \in Secret THEN Len(open) + 1 ELSE redact.secret
           up == IF redact.secret = Len(open) THEN 0 ELSE redact.secret
<1>1. e.k \in {"start", "empty", "end", "eof", "text", "bad", "doctype"}
  BY DEF Events, Kinds
<1>2. redact.secret \in Nat /\ redact.marked \in BOOLEAN /\ redact.out \in Seq(Int)
  BY DEF RedactRecord
<1>3. here \in Seq(Int) /\ rest \in Seq(Int) /\ text \in Seq(Int)
  BY <1>2
<1>4. down \in Nat /\ up \in Nat
  BY <1>2
<1>5. /\ redact.secret # 0 /\ e.k = "text" => r = [redact EXCEPT !.out = text, !.marked = TRUE]
      /\ e.k = "bad" => r = [redact EXCEPT !.out = rest, !.res = "ok"]
      /\ e.k = "eof" => r = [redact EXCEPT !.res = "ok"]
      /\ e.k = "start" => r = [redact EXCEPT !.out = here, !.marked = FALSE, !.secret = down]
      /\ e.k = "end" => r = [redact EXCEPT !.out = here, !.marked = FALSE, !.secret = up]
      /\ e.k \in {"empty", "doctype"} \/ (e.k = "text" /\ redact.secret = 0) =>
             r = [redact EXCEPT !.out = here, !.marked = FALSE]
  BY RedactForms
<1> SUFFICES r \in RedactRecord /\ (r.res = "ok" <=> e.k \in {"bad", "eof"})
  OBVIOUS
<1> HIDE DEF r, here, rest, text, down, up
<1>6. CASE redact.secret # 0 /\ e.k = "text"
  BY <1>3, <1>5, <1>6 DEF RedactRecord
<1>7. CASE e.k = "bad"
  BY <1>3, <1>5, <1>7 DEF RedactRecord
<1>8. CASE e.k = "eof"
  BY <1>3, <1>5, <1>8 DEF RedactRecord
<1>9. CASE e.k = "start"
  BY <1>3, <1>4, <1>5, <1>9 DEF RedactRecord
<1>10. CASE e.k = "end"
  BY <1>3, <1>4, <1>5, <1>10 DEF RedactRecord
<1>11. CASE e.k \in {"empty", "doctype"} \/ (e.k = "text" /\ redact.secret = 0)
  BY <1>3, <1>5, <1>11 DEF RedactRecord
<1> QED
  BY <1>1, <1>6, <1>7, <1>8, <1>9, <1>10, <1>11

\* scan_config_entries returns without an error only at the end of the stream.
LEMMA ScanEnds ==
    ASSUME scan \in ScanRecord, scan.res = "run", NEW e \in Events, NEW n,
           ScanStep(scan, e, n).res = "ok"
    PROVE  e.k \in {"bad", "eof"}
<1>1. e.k \in {"start", "empty", "end", "eof", "text", "bad", "doctype"}
  BY DEF Events, Kinds
<1>2. CASE e.k = "start"
  BY <1>2 DEF ScanStep, ScanRecord
<1>3. CASE e.k = "empty"
  BY <1>3 DEF ScanStep, ScanRecord, CountEntry
<1>4. CASE e.k = "end"
  BY <1>4 DEF ScanStep, ScanRecord, CountEntry
<1>5. CASE e.k \in {"text", "doctype"}
  BY <1>5 DEF ScanStep, ScanRecord
<1> QED
  BY <1>1, <1>2, <1>3, <1>4, <1>5

ScanInv == StreamInv /\ ScanOK(doc, open, ask, scan)

\* The invariant holds before the first event.
LEMMA ScanStarts == Init => ScanInv
<1> SUFFICES ASSUME Init PROVE ScanInv
  OBVIOUS
<1>1. StackOK(doc, open) /\ Len(doc) = 0 /\ 1..Len(doc) = {} /\ open = <<>>
  BY EmptyStream DEF Init
<1>2. ask \in Windows
  BY ReaderAssumption DEF Init, Windows
<1>3. redact \in RedactRecord /\ redact.res = "run" /\ ~cut
  BY DEF Init, RedactRecord
<1>4. /\ scan \in ScanRecord /\ scan.res = "run" /\ ~scan.saw /\ ~scan.closed /\ scan.pend = 0
      /\ scan.total = 0 /\ scan.entries = <<>>
  <2>1. <<>> \in Seq(Pairs)
    OBVIOUS
  <2> QED
    BY <2>1 DEF Init, ScanRecord
<1>5. StreamEnds
  BY <1>3, <1>4 DEF StreamEnds
<1>6. CompleteIn(doc, ask) = {} /\ ~RootDone(doc)
  BY <1>1 DEF CompleteIn, RootDone
<1>7. PageOK({}, ask, 0, <<>>)
  <2>1. IsFiniteSet({}) /\ Cardinality({}) = 0
    BY FS_EmptySet
  <2>2. <<>> \in Seq(Pairs) /\ Len(<<>>) = 0 /\ \A p : p \notin Elems(<<>>)
    BY DEF Elems
  <2>3. Kept(ask, 0) = 0
    BY <1>2 DEF Kept, Windows
  <2>4. \A k \in 1..(Len(<<>>) - 1) : <<>>[k][1] < <<>>[k + 1][1]
    BY <2>2
  <2> QED
    BY <2>1, <2>2, <2>3, <2>4, Zenon DEF PageOK
<1>8. NothingYet(doc, scan) /\ TopClosed(open, scan) /\ PendingOK(doc, ask, scan)
  BY <1>1, <1>4 DEF NothingYet, TopClosed, PendingOK
<1>9. ScanOK(doc, open, ask, scan)
  <2>1. "run" # "ok"
    OBVIOUS
  <2>2. PageOK(CompleteIn(doc, ask), ask, scan.total, scan.entries)
    BY <1>4, <1>6, <1>7
  <2> QED
    BY <1>4, <1>6, <1>8, <2>1, <2>2, Zenon DEF ScanOK
<1> QED
  BY <1>1, <1>2, <1>5, <1>9 DEF ScanInv, StreamInv

\* Every event keeps it.
LEMMA ScanKept == ScanInv /\ [Next]_vars => ScanInv'
<1> SUFFICES ASSUME ScanInv, [Next]_vars PROVE ScanInv'
  OBVIOUS
<1>1. CASE UNCHANGED vars
  <2>1. /\ doc' = doc /\ open' = open /\ cut' = cut /\ ask' = ask /\ scan' = scan
        /\ redact' = redact
    BY <1>1 DEF vars
  <2> QED
    BY <2>1 DEF ScanInv, StreamInv, StreamEnds
<1>2. CASE Next
  <2>1. StackOK(doc, open) /\ ask \in Windows /\ StreamEnds /\ ScanOK(doc, open, ask, scan)
    BY DEF ScanInv, StreamInv
  <2>2. PICK e \in Events : ReadsOne(e)
    BY <1>2, <2>1, NextReads
  <2>3. /\ Reads(e, doc', Len(doc) + 1)
        /\ open' = Stack(open, e) /\ StackOK(doc', Stack(open, e)) /\ ask' = ask
    BY <2>1, <2>2, ReadGrows
  <2>4. /\ redact.res = "run" /\ redact' = RedactStep(redact, e, Len(doc) + 1)
        /\ scan' = IF Running(scan) THEN ScanStep(scan, e, Len(doc) + 1) ELSE scan
    BY <2>2 DEF ReadsOne, Read
  <2>5. redact \in RedactRecord /\ ~cut /\ scan.res # "ok" /\ scan \in ScanRecord
    BY <2>1, <2>4 DEF StreamEnds, ScanOK
  <2>6. Len(doc) + 1 \in Nat /\ Len(open) \in Nat
    BY <2>3 DEF Reads, Longer, Opened
  <2>7. redact' \in RedactRecord /\ (redact'.res = "ok" <=> e.k \in {"bad", "eof"})
    BY <2>4, <2>5, <2>6, RedactEnds
  <2>8. ScanOK(doc', open', ask', scan')
    <3>1. CASE scan.res = "run"
      BY <2>1, <2>3, <2>4, <3>1, ScanReads DEF Running
    <3>2. CASE scan.res # "run"
      <4>1. scan' = scan /\ scan.res = "err"
        BY <2>4, <2>5, <3>2 DEF Running, ScanRecord
      <4>2. "err" # "run" /\ "err" # "ok"
        OBVIOUS
      <4> QED
        BY <2>5, <4>1, <4>2, Zenon DEF ScanOK
    <3> QED
      BY <3>1, <3>2
  <2>9. scan'.res = "ok" => e.k \in {"bad", "eof"}
    <3>1. CASE scan.res = "run"
      BY <2>4, <2>5, <3>1, ScanEnds DEF Running
    <3>2. CASE scan.res # "run"
      BY <2>4, <2>5, <3>2 DEF Running
    <3> QED
      BY <3>1, <3>2
  <2>10. StreamEnds'
    <3>1. Len(doc') > 0 /\ doc'[Len(doc')] = e
      BY <2>3 DEF Reads, Longer
    <3>2. e.k = "eof" => open' = open
      BY <2>3 DEF Stack
    <3>3. redact'.res \in {"run", "ok"}
      BY <2>7 DEF RedactRecord
    <3>4. /\ e.k # "eof" => cut' = cut
          /\ e.k = "eof" => cut' = TRUE \/ open = <<>>
      BY <2>2 DEF ReadsOne
    <3>5. ASSUME redact'.res = "run" PROVE ~cut' /\ scan'.res # "ok"
      <4>1. e.k \notin {"bad", "eof"}
        BY <2>7, <3>5
      <4> QED
        BY <2>5, <2>9, <3>4, <4>1
    <3>6. ASSUME redact'.res = "ok"
          PROVE  e.k = "bad" \/ (e.k = "eof" /\ (cut' \/ open' = <<>>))
      BY <2>7, <3>2, <3>4, <3>6
    <3> QED
      BY <2>7, <3>1, <3>5, <3>6 DEF StreamEnds
  <2> QED
    BY <2>1, <2>3, <2>8, <2>10 DEF ScanInv, StreamInv
<1> QED
  BY <1>1, <1>2

\* Listed, Complete, Index and RootClosed are those of the stream read so far.
LEMMA ScanOperators ==
    ASSUME StackOK(doc, open)
    PROVE  /\ \A i \in Seen : Listed(i) <=> ListedIn(doc, ask, i)
           /\ Complete = CompleteIn(doc, ask)
           /\ \A p : Index(p) = Rank(CompleteIn(doc, ask), p)
           /\ RootClosed <=> RootDone(doc)
           /\ \A i, j \in Seen : Closes(i, j) <=> ClosesAt(doc, i, j)
<1>1. Len(doc) \in Nat /\ \A i \in Seen : i \in Nat \ {0}
  BY DEF StackOK, Seen
<1>2. ASSUME NEW i \in Seen PROVE Listed(i) <=> ListedIn(doc, ask, i)
  <2>1. \A a \in 1..(i - 1) : a \in Nat \ {0} /\ (Around(a, i) <=> OpenAt(doc, a, i))
    BY <1>1, <1>2, AroundIs
  <2>2. \A a : Depth(a) = DepthIn(doc, a)
    BY DepthIs
  <2> QED
    BY <2>1, <2>2, Zenon DEF Listed, ListedIn, EntryAt, IsOpening, Opens
<1>3. ASSUME NEW i \in Seen, NEW j \in Seen PROVE Closes(i, j) <=> ClosesAt(doc, i, j)
  BY <1>1, <1>3, ClosesIs
<1>4. Complete = CompleteIn(doc, ask)
  <2>1. ASSUME NEW p \in Seen \X Seen
        PROVE  /\ Listed(p[1]) <=> ListedIn(doc, ask, p[1])
               /\ Closes(p[1], p[2]) <=> ClosesAt(doc, p[1], p[2])
    <3>1. p[1] \in Seen /\ p[2] \in Seen
      BY <2>1
    <3> QED
      BY <1>2, <1>3, <3>1
  <2> QED
    BY <2>1 DEF Complete, CompleteIn, Seen
<1>5. \A p : Index(p) = Rank(CompleteIn(doc, ask), p)
  BY <1>4 DEF Index, Rank
<1>6. RootClosed <=> RootDone(doc)
  <2>1. \A i : Opens(i) <=> IsOpening(doc, i)
    BY DEF Opens, IsOpening
  <2>2. \A i : Depth(i) = DepthIn(doc, i)
    BY DepthIs
  <2>3. \A i, j \in 1..Len(doc) : Closes(i, j) <=> ClosesAt(doc, i, j)
    BY <1>3 DEF Seen
  <2> QED
    BY <2>1, <2>2, <2>3, Zenon DEF RootClosed, RootDone, Seen
<1> QED
  BY <1>2, <1>3, <1>4, <1>5, <1>6

\* The place of an entry among the complete ones.
LEMMA RankIs ==
    ASSUME NEW C, IsFiniteSet(C), C \subseteq Pairs, NEW p \in C
    PROVE  Rank(C, p) \in Nat /\ Cardinality(C) \in Nat /\ Rank(C, p) < Cardinality(C)
<1> DEFINE B == {x \in C : x[1] < p[1]}
<1>1. B \in SUBSET C
  OBVIOUS
<1>2. IsFiniteSet(B) /\ Cardinality(B) <= Cardinality(C) /\ (Cardinality(C) = Cardinality(B) => C = B)
  BY <1>1, FS_Subset
<1>3. Cardinality(B) \in Nat /\ Cardinality(C) \in Nat
  BY <1>2, FS_CardinalityType
<1>4. C # B
  <2>1. p[1] \in Nat
    BY DEF Pairs
  <2>2. p \notin B
    BY <2>1
  <2> QED
    BY <2>2
<1>5. Rank(C, p) = Cardinality(B)
  BY DEF Rank
<1> HIDE DEF B
<1> QED
  BY <1>2, <1>3, <1>4, <1>5

\* The invariant says what ScanIsExact does.
LEMMA ScanExact == ScanInv => ScanIsExact
<1> SUFFICES ASSUME ScanInv, scan.res # "err"
             PROVE  /\ scan.total = Cardinality(Complete)
                    /\ Elems(scan.entries) =
                          {p \in Complete : Index(p) \in ask.offset..(ask.offset + ask.limit - 1)}
                    /\ Ascending([k \in DOMAIN scan.entries |-> scan.entries[k][1]])
                    /\ scan.res = "ok" =>
                          (scan.part <=> \/ ~RootClosed \/ doc[Len(doc)].k = "bad"
                                         \/ \E i \in Seen : Listed(i) /\ ~ \E j \in Seen : Closes(i, j))
  BY DEF ScanIsExact
<1> DEFINE C == CompleteIn(doc, ask)
           es == scan.entries
<1>1. /\ StackOK(doc, open) /\ ask \in Windows /\ PageOK(C, ask, scan.total, es)
      /\ scan.res = "ok" => (scan.part <=> Unfinished(doc, ask))
  BY DEF ScanInv, StreamInv, ScanOK
<1>2. /\ \A i \in Seen : Listed(i) <=> ListedIn(doc, ask, i)
      /\ Complete = C
      /\ \A p : Index(p) = Rank(C, p)
      /\ RootClosed <=> RootDone(doc)
      /\ \A i, j \in Seen : Closes(i, j) <=> ClosesAt(doc, i, j)
  BY <1>1, ScanOperators
<1> HIDE DEF C, es
<1>3. /\ IsFiniteSet(C) /\ C \subseteq Pairs /\ scan.total = Cardinality(C) /\ es \in Seq(Pairs)
      /\ \A p \in Pairs : p \in Elems(es) <=> p \in C /\ InWindow(ask, Rank(C, p))
      /\ \A k \in 1..(Len(es) - 1) : es[k][1] < es[k + 1][1]
  BY <1>1 DEF PageOK
<1>4. ASSUME NEW p \in C
      PROVE  InWindow(ask, Rank(C, p)) <=> Index(p) \in ask.offset..(ask.offset + ask.limit - 1)
  <2>1. Rank(C, p) \in Nat /\ Index(p) = Rank(C, p)
    BY <1>2, <1>3, <1>4, RankIs
  <2>2. ask.offset \in Nat /\ ask.limit \in Nat
    BY <1>1 DEF Windows
  <2> QED
    BY <2>1, <2>2 DEF InWindow
<1>5. Elems(es) \subseteq Pairs
  BY <1>3 DEF Elems
<1>6. Elems(es) = {p \in Complete : Index(p) \in ask.offset..(ask.offset + ask.limit - 1)}
  <2>1. ASSUME NEW p
        PROVE  p \in Elems(es) <=>
                   p \in C /\ Index(p) \in ask.offset..(ask.offset + ask.limit - 1)
    BY <1>3, <1>4, <1>5
  <2> QED
    BY <1>2, <2>1
<1>7. Ascending([k \in DOMAIN es |-> es[k][1]])
  <2> DEFINE g == [k \in DOMAIN es |-> es[k][1]]
  <2>1. DOMAIN es = 1..Len(es) /\ Len(es) \in Nat
    BY <1>3
  <2>2. DOMAIN g = 1..Len(es) /\ Len(g) = Len(es) /\ \A k \in 1..Len(es) : g[k] = es[k][1]
    BY <2>1
  <2> HIDE DEF g
  <2>3. ASSUME NEW k \in 1..(Len(g) - 1) PROVE g[k] < g[k + 1]
    <3>1. k \in 1..(Len(es) - 1) /\ k \in 1..Len(es) /\ k + 1 \in 1..Len(es)
      BY <2>1, <2>2, <2>3
    <3> QED
      BY <1>3, <2>2, <3>1
  <2>4. Ascending(g)
    BY <2>3 DEF Ascending
  <2> QED
    BY <2>4 DEF g
<1>8. Unfinished(doc, ask) <=> \/ ~RootClosed \/ doc[Len(doc)].k = "bad"
                              \/ \E i \in Seen : Listed(i) /\ ~ \E j \in Seen : Closes(i, j)
  BY <1>2, Zenon DEF Unfinished, Seen
<1> QED
  BY <1>1, <1>2, <1>3, <1>6, <1>7, <1>8 DEF es

\* An untruncated page is the rest of the list.
LEMMA PageHonest == ScanInv => PageIsHonest
<1> SUFFICES ASSUME ScanInv, scan.res = "ok", ~Page.truncated
             PROVE  /\ open = <<>> /\ ~cut
                    /\ \A i \in Seen : Listed(i) => \E j \in Seen : Closes(i, j)
                    /\ Elems(Page.entries) = {p \in Complete : Index(p) >= ask.offset}
  BY DEF PageIsHonest
<1> DEFINE C == CompleteIn(doc, ask)
           es == scan.entries
<1>0. Page.truncated <=> (cut \/ scan.part \/ ask.offset + Len(scan.entries) < scan.total)
  BY DEF Page
<1>1. /\ ~cut /\ ~scan.part /\ ~(ask.offset + Len(es) < scan.total)
  BY <1>0
<1>2. /\ StackOK(doc, open) /\ ask \in Windows /\ PageOK(C, ask, scan.total, es)
      /\ (scan.part <=> Unfinished(doc, ask)) /\ StreamEnds
  <2>1. "ok" # "err"
    OBVIOUS
  <2> QED
    BY <2>1, Zenon DEF ScanInv, StreamInv, ScanOK
<1>3. /\ \A i \in Seen : Listed(i) <=> ListedIn(doc, ask, i)
      /\ Complete = C
      /\ \A p : Index(p) = Rank(C, p)
      /\ \A i, j \in Seen : Closes(i, j) <=> ClosesAt(doc, i, j)
  BY <1>2, ScanOperators
<1> HIDE DEF C, es
<1>4. redact.res = "ok"
  BY <1>2 DEF StreamEnds, RedactRecord
<1>5. ~Unfinished(doc, ask)
  BY <1>1, <1>2
<1>6. doc[Len(doc)].k # "bad"
  BY <1>5 DEF Unfinished
<1>7. open = <<>> /\ ~cut
  BY <1>1, <1>2, <1>4, <1>6 DEF StreamEnds
<1>8. \A i \in Seen : Listed(i) => \E j \in Seen : Closes(i, j)
  BY <1>3, <1>5, Zenon DEF Unfinished, Seen
<1>9. /\ IsFiniteSet(C) /\ C \subseteq Pairs /\ scan.total = Cardinality(C) /\ es \in Seq(Pairs)
      /\ \A p \in Pairs : p \in Elems(es) <=> p \in C /\ InWindow(ask, Rank(C, p))
      /\ Len(es) = Kept(ask, scan.total)
  BY <1>2 DEF PageOK
<1>10. Elems(es) \subseteq Pairs
  BY <1>9 DEF Elems
<1>11. ask.offset \in Nat /\ ask.limit \in Nat
  BY <1>2 DEF Windows
<1>12. ASSUME NEW p \in C PROVE InWindow(ask, Rank(C, p)) <=> Index(p) >= ask.offset
  <2> DEFINE k == Len(es)
             m == Rank(C, p)
  <2>1. m \in Nat /\ scan.total \in Nat /\ m < scan.total
    BY <1>9, <1>12, RankIs
  <2>2. k = Kept(ask, scan.total) /\ ~(ask.offset + k < scan.total)
    BY <1>1, <1>9
  <2>3. Index(p) = m
    BY <1>3
  <2> HIDE DEF k, m
  <2>4. m >= ask.offset => m < ask.offset + ask.limit
    BY <1>11, <2>1, <2>2 DEF Kept
  <2>5. InWindow(ask, m) <=> m >= ask.offset
    BY <1>11, <2>1, <2>4 DEF InWindow
  <2> QED
    BY <2>3, <2>5 DEF m
<1>13. Elems(es) = {p \in Complete : Index(p) >= ask.offset}
  <2>1. ASSUME NEW p PROVE p \in Elems(es) <=> p \in C /\ Index(p) >= ask.offset
    BY <1>9, <1>10, <1>12
  <2> QED
    BY <1>3, <2>1
<1>14. Page.entries = scan.entries
  BY DEF Page
<1> QED
  BY <1>7, <1>8, <1>13, <1>14 DEF es

\* scan_config_entries: for every answer, of any length and nesting and cut anywhere, it
\* counts exactly the complete outermost entries at the asked depth, returns those of the
\* window in document order, and says that the answer was cut exactly when it was.
THEOREM ScanIsAlwaysExact == Spec => []ScanIsExact
<1>1. Init => ScanInv
  BY ScanStarts
<1>2. ScanInv /\ [Next]_vars => ScanInv'
  BY ScanKept
<1>3. ScanInv => ScanIsExact
  BY ScanExact
<1> QED
  BY <1>1, <1>2, <1>3, PTL DEF Spec

\* list_panos_entries: a page that is not marked truncated holds every entry of the
\* device's list from the offset on, for every answer, offset and limit.
THEOREM PagesAreHonest == Spec => []PageIsHonest
<1>1. Init => ScanInv
  BY ScanStarts
<1>2. ScanInv /\ [Next]_vars => ScanInv'
  BY ScanKept
<1>3. ScanInv => PageIsHonest
  BY PageHonest
<1> QED
  BY <1>1, <1>2, <1>3, PTL DEF Spec

-----------------------------------------------------------------------------
(* redact_structural_secret_elements: stretches of hidden text. *)

\* A stretch of positions is finite, and so are the stretches.
LEMMA RunsFinite ==
    ASSUME NEW T, IsFiniteSet(T)
    PROVE  IsFiniteSet(Runs(T)) /\ Cardinality(Runs(T)) \in Nat
<1>1. IsFiniteSet(SUBSET T)
  BY FS_SUBSET
<1>2. Runs(T) \in SUBSET (SUBSET T)
  BY DEF Runs
<1>3. IsFiniteSet(Runs(T))
  BY <1>1, <1>2, FS_Subset
<1> QED
  BY <1>3, FS_CardinalityType

\* What a stretch is.
LEMMA RunIs ==
    ASSUME NEW T, NEW i \in Int, NEW j \in Int, i <= j
    PROVE  i..j \in Runs(T) <=> i..j \subseteq T /\ (i - 1) \notin T /\ (j + 1) \notin T
<1>1. i \in i..j /\ j \in i..j
  OBVIOUS
<1>2. ASSUME NEW a \in i..j, NEW b \in i..j, i..j = a..b PROVE a = i /\ b = j
  <2>1. i \in a..b /\ j \in a..b
    BY <1>1, <1>2
  <2> QED
    BY <2>1
<1> QED
  BY <1>1, <1>2 DEF Runs

\* A stretch of naturals has its two ends.
LEMMA RunEnds ==
    ASSUME NEW T, T \subseteq Nat, NEW R \in Runs(T)
    PROVE  \E i, j \in Nat : /\ R = i..j /\ i <= j /\ R \subseteq T
                             /\ (i - 1) \notin T /\ (j + 1) \notin T
<1>1. PICK i \in R, j \in R : R = i..j /\ (i - 1) \notin T /\ (j + 1) \notin T
  BY DEF Runs
<1>2. R \subseteq T
  BY DEF Runs
<1>3. i \in Nat /\ j \in Nat
  BY <1>2
<1>4. i <= j
  <2>1. i \in i..j
    BY <1>1
  <2> QED
    BY <1>3, <2>1
<1> QED
  BY <1>1, <1>2, <1>3, <1>4

\* A position that does not follow the last stretch begins a new one.
LEMMA RunBegins ==
    ASSUME NEW n \in Nat \ {0}, NEW T, T \subseteq 1..(n - 1), (n - 1) \notin T
    PROVE  /\ n..n \in Runs(T \cup {n})
           /\ Cardinality(Runs(T \cup {n})) = Cardinality(Runs(T)) + 1
           /\ Cardinality(Runs(T)) \in Nat
<1> DEFINE U == T \cup {n}
<1>1. T \subseteq Nat /\ U \subseteq Nat /\ n \notin T /\ (n + 1) \notin U /\ (n - 1) \notin U
  OBVIOUS
<1>2. n..n = {n} /\ n..n \subseteq U
  OBVIOUS
<1>3. U = T \cup {n}
  OBVIOUS
<1> HIDE DEF U
<1>4. n..n \in Runs(U)
  <2>1. n \in Int /\ n <= n
    OBVIOUS
  <2>2. n..n \in Runs(U) <=> n..n \subseteq U /\ (n - 1) \notin U /\ (n + 1) \notin U
    BY <2>1, RunIs
  <2> QED
    BY <1>1, <1>2, <2>2
<1>5. IsFiniteSet(T)
  <2>1. IsFiniteSet(1..(n - 1))
    BY FS_Interval
  <2> QED
    BY <2>1, FS_Subset
<1>6. n..n \notin Runs(T)
  BY <1>1, <1>2 DEF Runs
<1>7. ASSUME NEW R, R \in Runs(T) PROVE R \in Runs(U)
  <2>1. PICK i, j \in Nat : /\ R = i..j /\ i <= j /\ R \subseteq T
                             /\ (i - 1) \notin T /\ (j + 1) \notin T
    BY <1>1, <1>7, RunEnds
  <2>2. i \in T /\ j \in T
    BY <2>1
  <2>3. i \in 1..(n - 1) /\ j \in 1..(n - 1) /\ j # n - 1
    BY <2>2
  <2>4. i - 1 # n /\ j + 1 # n
    BY <2>3
  <2>5. R \subseteq U /\ (i - 1) \notin U /\ (j + 1) \notin U
    BY <1>3, <2>1, <2>4
  <2> QED
    BY <2>1, <2>5, RunIs
<1>8. ASSUME NEW R, R \in Runs(U) PROVE R \in Runs(T) \/ R = n..n
  <2>1. PICK i, j \in Nat : /\ R = i..j /\ i <= j /\ R \subseteq U
                             /\ (i - 1) \notin U /\ (j + 1) \notin U
    BY <1>1, <1>8, RunEnds
  <2>2. CASE n \in R
    <3>1. i <= n /\ n <= j
      BY <2>1, <2>2
    <3>2. j \in U
      BY <2>1
    <3>3. j = n
      BY <1>3, <2>1, <3>1, <3>2
    <3>4. i = n
      <4>1. SUFFICES ASSUME i # n PROVE FALSE
        OBVIOUS
      <4>2. n - 1 \in R
        BY <2>1, <3>1, <3>3, <4>1
      <4> QED
        BY <1>1, <2>1, <4>2
    <3> QED
      BY <2>1, <3>3, <3>4
  <2>3. CASE n \notin R
    <3>1. R \subseteq T /\ (i - 1) \notin T /\ (j + 1) \notin T
      BY <1>3, <2>1, <2>3
    <3> QED
      BY <2>1, <3>1, RunIs
  <2> QED
    BY <2>2, <2>3
<1>9. Runs(U) = Runs(T) \cup {n..n}
  BY <1>4, <1>7, <1>8
<1>10. IsFiniteSet(Runs(T)) /\ Cardinality(Runs(T)) \in Nat
  BY <1>5, RunsFinite
<1>11. Cardinality(Runs(T) \cup {n..n}) = Cardinality(Runs(T)) + 1
  BY <1>6, <1>10, FS_AddElement
<1> QED
  BY <1>4, <1>9, <1>10, <1>11 DEF U

\* A position that follows the last stretch makes that one longer.
LEMMA RunContinues ==
    ASSUME NEW n \in Nat \ {0}, NEW T, T \subseteq 1..(n - 1),
           NEW a \in 1..(n - 1), a..(n - 1) \in Runs(T)
    PROVE  /\ a..n \in Runs(T \cup {n})
           /\ Cardinality(Runs(T \cup {n})) = Cardinality(Runs(T))
<1> DEFINE U == T \cup {n}
<1>1. T \subseteq Nat /\ U \subseteq Nat /\ n \notin T /\ (n + 1) \notin U
  OBVIOUS
<1>2. a \in Nat \ {0} /\ a <= n - 1 /\ n - 1 \in Nat
  OBVIOUS
<1>3. a..(n - 1) \subseteq T /\ (a - 1) \notin T
  BY <1>2, RunIs
<1>4. U = T \cup {n}
  OBVIOUS
<1>5. a..n = (a..(n - 1)) \cup {n}
  BY <1>2
<1> HIDE DEF U
<1>6. a..n \in Runs(U)
  <2>1. a..n \subseteq U /\ (a - 1) \notin U
    BY <1>2, <1>3, <1>4, <1>5
  <2> QED
    BY <1>1, <1>2, <2>1, RunIs
<1>7. IsFiniteSet(T)
  <2>1. IsFiniteSet(1..(n - 1))
    BY FS_Interval
  <2> QED
    BY <2>1, FS_Subset
<1>8. a..n \notin Runs(T)
  <2>1. n \in a..n
    BY <1>2
  <2> QED
    BY <1>1, <2>1 DEF Runs
<1>9. ASSUME NEW R, R \in Runs(T), R # a..(n - 1) PROVE R \in Runs(U)
  <2>1. PICK i, j \in Nat : /\ R = i..j /\ i <= j /\ R \subseteq T
                             /\ (i - 1) \notin T /\ (j + 1) \notin T
    BY <1>1, <1>9, RunEnds
  <2>2. i \in T /\ j \in T
    BY <2>1
  <2>3. i \in 1..(n - 1) /\ j \in 1..(n - 1)
    BY <2>2
  <2>4. j # n - 1
    <3>1. SUFFICES ASSUME j = n - 1 PROVE FALSE
      OBVIOUS
    <3>2. CASE i < a
      <4>1. a - 1 \in R
        BY <1>2, <2>1, <3>1, <3>2
      <4> QED
        BY <1>3, <2>1, <4>1
    <3>3. CASE i > a
      <4>1. i - 1 \in a..(n - 1)
        BY <1>2, <2>3, <3>3
      <4> QED
        BY <1>3, <2>1, <4>1
    <3>4. CASE i = a
      BY <1>9, <2>1, <3>1, <3>4
    <3> QED
      BY <1>2, <2>1, <3>2, <3>3, <3>4
  <2>5. i - 1 # n /\ j + 1 # n
    BY <2>3, <2>4
  <2>6. R \subseteq U /\ (i - 1) \notin U /\ (j + 1) \notin U
    BY <1>4, <2>1, <2>5
  <2> QED
    BY <2>1, <2>6, RunIs
<1>10. ASSUME NEW R, R \in Runs(U) PROVE R = a..n \/ (R \in Runs(T) /\ R # a..(n - 1))
  <2>1. PICK i, j \in Nat : /\ R = i..j /\ i <= j /\ R \subseteq U
                             /\ (i - 1) \notin U /\ (j + 1) \notin U
    BY <1>1, <1>10, RunEnds
  <2>2. CASE n \in R
    <3>1. i <= n /\ n <= j
      BY <2>1, <2>2
    <3>2. j \in U
      BY <2>1
    <3>3. j = n
      BY <1>4, <2>1, <3>1, <3>2
    <3>4. i = a
      <4>1. CASE i < a
        <5>1. a - 1 \in R /\ a - 1 # n
          BY <1>2, <2>1, <3>3, <4>1
        <5> QED
          BY <1>3, <1>4, <2>1, <5>1
      <4>2. CASE i > a
        <5>1. i - 1 \in a..(n - 1)
          BY <1>2, <3>1, <4>2
        <5> QED
          BY <1>3, <1>4, <2>1, <5>1
      <4> QED
        BY <1>2, <2>1, <4>1, <4>2
    <3> QED
      BY <2>1, <3>3, <3>4
  <2>3. CASE n \notin R
    <3>1. R \subseteq T /\ (i - 1) \notin T /\ (j + 1) \notin T
      BY <1>4, <2>1, <2>3
    <3>2. R \in Runs(T)
      BY <2>1, <3>1, RunIs
    <3>3. R # a..(n - 1)
      <4>1. SUFFICES ASSUME R = a..(n - 1) PROVE FALSE
        OBVIOUS
      <4>2. n - 1 \in i..j /\ j \in a..(n - 1)
        BY <1>2, <2>1, <4>1
      <4>3. j + 1 = n
        BY <1>2, <2>1, <4>2
      <4> QED
        BY <1>4, <2>1, <4>3
    <3> QED
      BY <3>2, <3>3
  <2> QED
    BY <2>2, <2>3
<1> DEFINE B == Runs(T) \ {a..(n - 1)}
<1>11. Runs(U) = B \cup {a..n}
  BY <1>6, <1>9, <1>10
<1>12. IsFiniteSet(Runs(T)) /\ Cardinality(Runs(T)) \in Nat
  BY <1>7, RunsFinite
<1>13. IsFiniteSet(B) /\ Cardinality(B) = Cardinality(Runs(T)) - 1
  BY <1>12, FS_RemoveElement
<1>14. a..n \notin B
  BY <1>8
<1> HIDE DEF B
<1>15. Cardinality(B \cup {a..n}) = Cardinality(B) + 1
  BY <1>13, <1>14, FS_AddElement
<1>16. Cardinality(Runs(U)) = Cardinality(Runs(T))
  <2> DEFINE c == Cardinality(Runs(T))
             b == Cardinality(B)
  <2>1. c \in Nat /\ b = c - 1 /\ Cardinality(Runs(U)) = b + 1
    BY <1>11, <1>12, <1>13, <1>15
  <2> HIDE DEF c, b
  <2>2. b + 1 = c
    BY <2>1
  <2> QED
    BY <2>1, <2>2 DEF c
<1> QED
  BY <1>6, <1>16 DEF U

-----------------------------------------------------------------------------
(* redact_structural_secret_elements: its record and the document. *)

HiddenIn(d) ==
    {i \in 1..Len(d) :
        d[i].k = "text" /\ \E a \in 1..(i - 1) : OpenAt(d, a, i) /\ d[a].n \in Secret}

\* Element a is open at the end of the stream and its text is secret.
OpenSecret(d, a) == OpenAt(d, a, Len(d) + 1) /\ d[a].n \in Secret
BelowSecret(d) == \E a \in 1..Len(d) : OpenSecret(d, a)

\* x is the depth of the outermost open secret element, counted from 1; 0 without one.
InSecret(d, x) ==
    /\ x = 0 => \A a \in 1..Len(d) : ~OpenSecret(d, a)
    /\ x # 0 => \E a \in 1..Len(d) :
                    /\ OpenSecret(d, a) /\ DepthIn(d, a) + 1 = x
                    /\ \A b \in 1..Len(d) : OpenSecret(d, b) => DepthIn(d, a) <= DepthIn(d, b)

Zeros(q) == {k \in DOMAIN q : q[k] = 0}

\* The last event was hidden exactly when the marker of its stretch is the last output.
MarkedOK(d, r) ==
    /\ r.marked <=> Len(d) \in HiddenIn(d)
    /\ r.marked => \E a \in 1..Len(d) : a..Len(d) \in Runs(HiddenIn(d))

\* The positions that are copied: all but the end and the hidden ones.
CopiedOK(d, q) ==
    \A i \in Nat \ {0} :
        i \in Elems(q) <=> i \in 1..Len(d) /\ d[i].k \notin {"eof", "bad"} /\ i \notin HiddenIn(d)

RedactOK(d, r) ==
    /\ r \in RedactRecord
    /\ CopiedOK(d, r.out)
    /\ Cardinality(Zeros(r.out)) = Cardinality(Runs(HiddenIn(d)))
    /\ r.res = "run" => InSecret(d, r.secret) /\ MarkedOK(d, r) /\ -1 \notin Elems(r.out)
    /\ -1 \in Elems(r.out) => d[Len(d)].k = "bad"

\* The hidden texts after one more event.
LEMMA HiddenGrows ==
    ASSUME NEW d, NEW e, NEW f, NEW n, Longer(d, e, f, n)
    PROVE  /\ HiddenIn(d) \subseteq 1..Len(d)
           /\ e.k = "text" /\ BelowSecret(d) => HiddenIn(f) = HiddenIn(d) \cup {n}
           /\ ~(e.k = "text" /\ BelowSecret(d)) => HiddenIn(f) = HiddenIn(d)
<1>1. /\ f[n] = e /\ n = Len(d) + 1 /\ n - 1 = Len(d) /\ Len(d) \in Nat /\ Len(f) = n
      /\ 1..n = (1..Len(d)) \cup {n} /\ n \notin 1..Len(d)
      /\ \A i \in 1..Len(d) : f[i] = d[i]
      /\ \A i \in 1..n, a \in 1..n : OpenAt(f, a, i) <=> OpenAt(d, a, i)
  BY DEF Longer
<1>2. HiddenIn(d) \subseteq 1..Len(d)
  BY DEF HiddenIn
<1>3. ASSUME NEW i \in 1..n, NEW a \in 1..(i - 1)
      PROVE  f[a] = d[a] /\ (OpenAt(f, a, i) <=> OpenAt(d, a, i))
  <2>1. a \in 1..n /\ a \in 1..Len(d)
    BY <1>1, <1>3
  <2> QED
    BY <1>1, <1>3, <2>1
<1>4. ASSUME NEW i \in 1..Len(d) PROVE i \in HiddenIn(f) <=> i \in HiddenIn(d)
  <2>1. i \in 1..n /\ f[i] = d[i]
    BY <1>1, <1>4
  <2>2. \A a \in 1..(i - 1) : f[a] = d[a] /\ (OpenAt(f, a, i) <=> OpenAt(d, a, i))
    BY <1>3, <2>1
  <2> QED
    BY <1>1, <1>4, <2>1, <2>2 DEF HiddenIn
<1>5. n \in HiddenIn(f) <=> e.k = "text" /\ BelowSecret(d)
  <2>1. n \in 1..n
    BY <1>1
  <2>2. \A a \in 1..Len(d) : f[a] = d[a] /\ (OpenAt(f, a, n) <=> OpenAt(d, a, n))
    BY <1>1, <1>3, <2>1
  <2> QED
    BY <1>1, <2>1, <2>2 DEF HiddenIn, BelowSecret, OpenSecret
<1>6. HiddenIn(f) \subseteq 1..n
  BY <1>1 DEF HiddenIn
<1>7. ASSUME e.k = "text", BelowSecret(d) PROVE HiddenIn(f) = HiddenIn(d) \cup {n}
  BY <1>1, <1>2, <1>4, <1>5, <1>6, <1>7
<1>8. ASSUME ~(e.k = "text" /\ BelowSecret(d)) PROVE HiddenIn(f) = HiddenIn(d)
  BY <1>1, <1>2, <1>4, <1>5, <1>6, <1>8
<1> QED
  BY <1>2, <1>7, <1>8

\* The secret elements that are open after one more event.
LEMMA SecretGrows ==
    ASSUME NEW d, NEW e, NEW f, NEW n, NEW s, Longer(d, e, f, n), Opened(d, e, f, n, s),
           NEW a \in 1..n
    PROVE  OpenSecret(f, a) <=>
               \/ a = n /\ e.k = "start" /\ e.n \in Secret
               \/ /\ a \in 1..Len(d) /\ OpenSecret(d, a)
                  /\ ~(e.k = "end" /\ Len(s) = DepthIn(d, a) + 1)
<1>1. /\ f[n] = e /\ n = Len(d) + 1 /\ Len(f) = n /\ n \notin 1..Len(d)
      /\ \A i \in 1..Len(d) : f[i] = d[i]
  BY DEF Longer
<1>2. OpenAt(f, a, n + 1) <=>
           \/ a = n /\ e.k = "start"
           \/ /\ a \in 1..Len(d) /\ OpenAt(d, a, n)
              /\ ~(e.k = "end" /\ Len(s) = DepthIn(d, a) + 1)
  BY DEF Opened
<1> QED
  BY <1>1, <1>2, Zenon DEF OpenSecret

\* Below a secret element the depth of the outermost one is known.
LEMMA InSecretIs ==
    ASSUME NEW d, NEW x, InSecret(d, x)
    PROVE  x # 0 <=> BelowSecret(d)
BY Zenon DEF InSecret, BelowSecret

\* An event that neither starts nor ends an element.
LEMMA SecretStays ==
    ASSUME NEW d, NEW e, NEW f, NEW n, NEW s, Longer(d, e, f, n), Opened(d, e, f, n, s),
           e.k \notin {"start", "end"}, NEW x, InSecret(d, x)
    PROVE  InSecret(f, x)
<1>1. /\ Len(f) = n /\ 1..n = (1..Len(d)) \cup {n}
      /\ \A i \in 1..n : DepthIn(f, i) = DepthIn(d, i)
  BY DEF Longer
<1>2. ASSUME NEW a \in 1..n PROVE OpenSecret(f, a) <=> a \in 1..Len(d) /\ OpenSecret(d, a)
  <2>1. OpenSecret(f, a) <=>
               \/ a = n /\ e.k = "start" /\ e.n \in Secret
               \/ /\ a \in 1..Len(d) /\ OpenSecret(d, a)
                  /\ ~(e.k = "end" /\ Len(s) = DepthIn(d, a) + 1)
    BY <1>2, SecretGrows, Zenon
  <2> QED
    BY <2>1
<1>3. \A a \in 1..Len(d) : a \in 1..n /\ DepthIn(f, a) = DepthIn(d, a)
  BY <1>1
<1> QED
  BY <1>1, <1>2, <1>3, Zenon DEF InSecret

\* A start tag: a secret element outside any other is the outermost one.
LEMMA SecretStarts ==
    ASSUME NEW d, NEW e, NEW f, NEW n, NEW s, StackOK(d, s), Longer(d, e, f, n),
           Opened(d, e, f, n, s), e.k = "start", NEW x \in Nat, InSecret(d, x),
           NEW y, y = IF x = 0 /\ e.n \in Secret THEN Len(s) + 1 ELSE x
    PROVE  InSecret(f, y)
<1>1. /\ Len(f) = n /\ 1..n = (1..Len(d)) \cup {n} /\ n \notin 1..Len(d) /\ Len(d) \in Nat
      /\ \A i \in 1..n : DepthIn(f, i) = DepthIn(d, i)
      /\ n = Len(d) + 1 /\ DepthIn(f, n) = Len(s) /\ Len(s) \in Nat
  BY DEF Longer, Opened
<1>2. ASSUME NEW a \in 1..n
      PROVE  OpenSecret(f, a) <=> (a = n /\ e.n \in Secret) \/ (a \in 1..Len(d) /\ OpenSecret(d, a))
  <2>1. OpenSecret(f, a) <=>
               \/ a = n /\ e.k = "start" /\ e.n \in Secret
               \/ /\ a \in 1..Len(d) /\ OpenSecret(d, a)
                  /\ ~(e.k = "end" /\ Len(s) = DepthIn(d, a) + 1)
    BY <1>2, SecretGrows, Zenon
  <2> QED
    BY <2>1
<1>3. \A a \in 1..Len(d) : a \in 1..n /\ DepthIn(f, a) = DepthIn(d, a)
  BY <1>1
<1>4. CASE x = 0 /\ e.n \in Secret
  <2>1. y = Len(s) + 1 /\ y # 0
    BY <1>1, <1>4
  <2>2. \A a \in 1..n : OpenSecret(f, a) <=> a = n
    BY <1>2, <1>4, Zenon DEF InSecret
  <2>3. n \in 1..n /\ DepthIn(f, n) <= DepthIn(f, n)
    BY <1>1
  <2> QED
    BY <1>1, <2>1, <2>2, <2>3 DEF InSecret
<1>5. CASE x = 0 /\ e.n \notin Secret
  <2>1. y = 0
    BY <1>5
  <2>2. \A a \in 1..n : ~OpenSecret(f, a)
    BY <1>2, <1>5, Zenon DEF InSecret
  <2> QED
    BY <1>1, <2>1, <2>2 DEF InSecret
<1>6. CASE x # 0
  <2>1. y = x
    BY <1>6
  <2>2. PICK a \in 1..Len(d) :
            /\ OpenSecret(d, a) /\ DepthIn(d, a) + 1 = x
            /\ \A b \in 1..Len(d) : OpenSecret(d, b) => DepthIn(d, a) <= DepthIn(d, b)
    BY <1>6 DEF InSecret
  <2>3. a \in 1..n /\ OpenSecret(f, a) /\ DepthIn(f, a) + 1 = x
    BY <1>2, <1>3, <2>2
  <2>4. DepthIn(d, a) < Len(s) /\ DepthIn(d, a) \in Nat
    BY <1>1, <2>2 DEF OpenSecret, StackOK
  <2>5. ASSUME NEW b \in 1..n, OpenSecret(f, b) PROVE DepthIn(f, a) <= DepthIn(f, b)
    <3>1. CASE b = n
      BY <1>1, <1>3, <2>4, <3>1
    <3>2. CASE b \in 1..Len(d) /\ OpenSecret(d, b)
      BY <1>3, <2>2, <3>2
    <3> QED
      BY <1>2, <2>5, <3>1, <3>2
  <2> QED
    BY <1>1, <1>6, <2>1, <2>3, <2>5, Zenon DEF InSecret
<1> QED
  BY <1>4, <1>5, <1>6

\* An end tag: the outermost secret element is left by its own end tag only.
LEMMA SecretEnds ==
    ASSUME NEW d, NEW e, NEW f, NEW n, NEW s, StackOK(d, s), Longer(d, e, f, n),
           Opened(d, e, f, n, s), e.k = "end", NEW x \in Nat, InSecret(d, x),
           NEW y, y = IF x = Len(s) THEN 0 ELSE x
    PROVE  InSecret(f, y)
<1>1. /\ Len(f) = n /\ 1..n = (1..Len(d)) \cup {n} /\ n \notin 1..Len(d) /\ Len(d) \in Nat
      /\ \A i \in 1..n : DepthIn(f, i) = DepthIn(d, i)
      /\ n = Len(d) + 1 /\ Len(s) \in Nat
  BY DEF Longer, Opened
<1>2. ASSUME NEW a \in 1..n
      PROVE  OpenSecret(f, a) <=>
                 a \in 1..Len(d) /\ OpenSecret(d, a) /\ Len(s) # DepthIn(d, a) + 1
  <2>1. OpenSecret(f, a) <=>
               \/ a = n /\ e.k = "start" /\ e.n \in Secret
               \/ /\ a \in 1..Len(d) /\ OpenSecret(d, a)
                  /\ ~(e.k = "end" /\ Len(s) = DepthIn(d, a) + 1)
    BY <1>2, SecretGrows, Zenon
  <2> QED
    BY <2>1
<1>3. \A a \in 1..Len(d) : a \in 1..n /\ DepthIn(f, a) = DepthIn(d, a)
  BY <1>1
<1>4. CASE x = 0
  <2>1. y = 0
    BY <1>4
  <2>2. \A a \in 1..n : ~OpenSecret(f, a)
    BY <1>2, <1>4, Zenon DEF InSecret
  <2> QED
    BY <1>1, <2>1, <2>2 DEF InSecret
<1>5. CASE x # 0
  <2>1. PICK a \in 1..Len(d) :
            /\ OpenSecret(d, a) /\ DepthIn(d, a) + 1 = x
            /\ \A b \in 1..Len(d) : OpenSecret(d, b) => DepthIn(d, a) <= DepthIn(d, b)
    BY <1>5 DEF InSecret
  <2>2. CASE x = Len(s)
    <3>1. y = 0
      BY <2>2
    <3>2. ASSUME NEW b \in 1..n, OpenSecret(f, b) PROVE FALSE
      <4>1. b \in 1..Len(d) /\ OpenSecret(d, b) /\ Len(s) # DepthIn(d, b) + 1
        BY <1>2, <3>2
      <4>2. /\ DepthIn(d, b) < Len(s) /\ DepthIn(d, b) \in Nat /\ DepthIn(d, a) \in Nat
            /\ DepthIn(d, a) <= DepthIn(d, b)
        BY <1>1, <2>1, <4>1 DEF OpenSecret, StackOK
      <4> QED
        BY <1>1, <2>1, <2>2, <4>1, <4>2
    <3> QED
      BY <1>1, <3>1, <3>2 DEF InSecret
  <2>3. CASE x # Len(s)
    <3>1. y = x
      BY <2>3
    <3>2. a \in 1..n /\ OpenSecret(f, a) /\ DepthIn(f, a) + 1 = x
      BY <1>2, <1>3, <2>1, <2>3
    <3>3. ASSUME NEW b \in 1..n, OpenSecret(f, b) PROVE DepthIn(f, a) <= DepthIn(f, b)
      <4>1. b \in 1..Len(d) /\ OpenSecret(d, b)
        BY <1>2, <3>3
      <4> QED
        BY <1>3, <2>1, <4>1
    <3> QED
      BY <1>1, <1>5, <3>1, <3>2, <3>3, Zenon DEF InSecret
  <2> QED
    BY <2>2, <2>3
<1> QED
  BY <1>4, <1>5

\* The markers in an output that is one longer.
LEMMA ZerosAppend ==
    ASSUME NEW q \in Seq(Int), NEW x \in Int
    PROVE  /\ IsFiniteSet(Zeros(q)) /\ Cardinality(Zeros(q)) \in Nat
           /\ x = 0 => Cardinality(Zeros(Append(q, x))) = Cardinality(Zeros(q)) + 1
           /\ x # 0 => Zeros(Append(q, x)) = Zeros(q)
<1> DEFINE w == Append(q, x)
           m == Len(q) + 1
<1>1. /\ DOMAIN w = 1..m /\ DOMAIN q = 1..Len(q) /\ Len(q) \in Nat /\ m = Len(q) + 1
      /\ \A k \in 1..Len(q) : w[k] = q[k]
      /\ w[m] = x
  OBVIOUS
<1> HIDE DEF w, m
<1>2. 1..m = (1..Len(q)) \cup {m} /\ m \notin 1..Len(q)
  BY <1>1
<1>3. IsFiniteSet(Zeros(q)) /\ Cardinality(Zeros(q)) \in Nat
  <2>1. IsFiniteSet(1..Len(q))
    BY <1>1, FS_Interval
  <2>2. Zeros(q) \in SUBSET (1..Len(q))
    BY <1>1 DEF Zeros
  <2>3. IsFiniteSet(Zeros(q))
    BY <2>1, <2>2, FS_Subset
  <2> QED
    BY <2>3, FS_CardinalityType
<1>4. x = 0 => Zeros(w) = Zeros(q) \cup {m}
  BY <1>1, <1>2 DEF Zeros
<1>5. x # 0 => Zeros(w) = Zeros(q)
  BY <1>1, <1>2 DEF Zeros
<1>6. m \notin Zeros(q)
  BY <1>1, <1>2 DEF Zeros
<1>7. Cardinality(Zeros(q) \cup {m}) = Cardinality(Zeros(q)) + 1
  BY <1>3, <1>6, FS_AddElement
<1> QED
  BY <1>3, <1>4, <1>5, <1>7 DEF w

\* What the output says about the document.
OutputOK(d, q) ==
    /\ q \in Seq(Int) /\ CopiedOK(d, q)
    /\ Cardinality(Zeros(q)) = Cardinality(Runs(HiddenIn(d)))
    /\ -1 \notin Elems(q)

\* An event that is neither hidden nor the end is copied.
LEMMA CopyGrows ==
    ASSUME NEW d, NEW e, NEW f, NEW n, Longer(d, e, f, n), NEW q, OutputOK(d, q),
           HiddenIn(f) = HiddenIn(d), e.k \notin {"eof", "bad"}
    PROVE  OutputOK(f, Append(q, n)) /\ n \notin HiddenIn(f)
<1> DEFINE w == Append(q, n)
<1>1. /\ f[n] = e /\ n = Len(d) + 1 /\ Len(f) = n /\ n \notin 1..Len(d) /\ n \in Nat \ {0}
      /\ \A i \in 1..Len(d) : f[i] = d[i]
      /\ 1..n = (1..Len(d)) \cup {n}
  BY DEF Longer
<1>2. /\ q \in Seq(Int) /\ CopiedOK(d, q) /\ -1 \notin Elems(q)
      /\ Cardinality(Zeros(q)) = Cardinality(Runs(HiddenIn(d)))
  BY DEF OutputOK
<1>3. n \in Int /\ n # 0 /\ n # -1
  BY <1>1
<1>4. w \in Seq(Int)
  BY <1>2, <1>3
<1>5. Zeros(w) = Zeros(q)
  BY <1>2, <1>3, ZerosAppend
<1>6. \A y : y \in Elems(w) <=> y \in Elems(q) \/ y = n
  BY <1>2, <1>3, ElemsAppend
<1>7. n \notin HiddenIn(f)
  BY <1>1 DEF HiddenIn
<1> HIDE DEF w
<1>8. ASSUME NEW i \in Nat \ {0}
      PROVE  i \in Elems(w) <=> i \in 1..n /\ f[i].k \notin {"eof", "bad"} /\ i \notin HiddenIn(f)
  <2>1. i \in Elems(q) <=> i \in 1..Len(d) /\ d[i].k \notin {"eof", "bad"} /\ i \notin HiddenIn(d)
    BY <1>2 DEF CopiedOK
  <2>2. CASE i = n
    BY <1>1, <1>6, <1>7, <2>2
  <2>3. CASE i # n
    <3>1. i \in 1..n <=> i \in 1..Len(d)
      BY <1>1, <2>3
    <3>2. i \in 1..Len(d) => f[i] = d[i]
      BY <1>1
    <3> QED
      BY <1>6, <2>1, <2>3, <3>1, <3>2
  <2> QED
    BY <2>2, <2>3
<1>9. CopiedOK(f, w)
  BY <1>1, <1>8 DEF CopiedOK
<1>10. -1 \notin Elems(w)
  BY <1>2, <1>3, <1>6
<1>11. OutputOK(f, w)
  BY <1>2, <1>4, <1>5, <1>9, <1>10 DEF OutputOK
<1> QED
  BY <1>7, <1>11 DEF w

\* A hidden text leaves a marker where its stretch begins, and nothing else.
LEMMA HideGrows ==
    ASSUME NEW d, NEW e, NEW f, NEW n, Longer(d, e, f, n), NEW r \in RedactRecord,
           OutputOK(d, r.out), MarkedOK(d, r), e.k = "text", BelowSecret(d),
           NEW w, w = IF r.marked THEN r.out ELSE Append(r.out, 0)
    PROVE  /\ OutputOK(f, w) /\ n \in HiddenIn(f)
           /\ \E a \in 1..n : a..n \in Runs(HiddenIn(f))
<1> DEFINE q == r.out
           T == HiddenIn(d)
           U == HiddenIn(f)
<1>1. /\ f[n] = e /\ n = Len(d) + 1 /\ n - 1 = Len(d) /\ Len(f) = n /\ n \notin 1..Len(d)
      /\ n \in Nat \ {0} /\ Len(d) \in Nat
      /\ \A i \in 1..Len(d) : f[i] = d[i]
      /\ 1..n = (1..Len(d)) \cup {n}
  BY DEF Longer
<1>2. /\ q \in Seq(Int) /\ CopiedOK(d, q) /\ -1 \notin Elems(q)
      /\ Cardinality(Zeros(q)) = Cardinality(Runs(T))
  BY DEF OutputOK
<1>3. T \subseteq 1..Len(d) /\ U = T \cup {n}
  BY HiddenGrows
<1>4. w = IF r.marked THEN q ELSE Append(q, 0)
  OBVIOUS
<1>5. (r.marked <=> Len(d) \in T) /\ (r.marked => \E a \in 1..Len(d) : a..Len(d) \in Runs(T))
  BY DEF MarkedOK
<1>6. r.marked \in BOOLEAN
  BY DEF RedactRecord
<1> HIDE DEF q, T, U
<1>7. w \in Seq(Int) /\ \A y : y # 0 => (y \in Elems(w) <=> y \in Elems(q))
  <2>1. CASE r.marked
    BY <1>2, <1>4, <2>1
  <2>2. CASE ~r.marked
    <3>1. w = Append(q, 0) /\ 0 \in Int
      BY <1>4, <2>2
    <3>2. \A y : y \in Elems(Append(q, 0)) <=> y \in Elems(q) \/ y = 0
      BY <1>2, <3>1, ElemsAppend
    <3>3. Append(q, 0) \in Seq(Int)
      BY <1>2
    <3> QED
      BY <3>1, <3>2, <3>3
  <2> QED
    BY <2>1, <2>2
<1>8. /\ Cardinality(Zeros(w)) = Cardinality(Runs(U))
      /\ \E a \in 1..n : a..n \in Runs(U)
  <2>1. CASE r.marked
    <3>1. PICK a \in 1..(n - 1) : a..(n - 1) \in Runs(T)
      BY <1>1, <1>5, <2>1
    <3>2. a..n \in Runs(U) /\ Cardinality(Runs(U)) = Cardinality(Runs(T))
      BY <1>1, <1>3, <3>1, RunContinues
    <3>3. w = q /\ a \in 1..n
      BY <1>1, <1>4, <2>1
    <3> QED
      BY <1>2, <3>2, <3>3
  <2>2. CASE ~r.marked
    <3>1. n - 1 \notin T /\ T \subseteq 1..(n - 1)
      BY <1>1, <1>3, <1>5, <2>2
    <3>2. n..n \in Runs(U) /\ Cardinality(Runs(U)) = Cardinality(Runs(T)) + 1
      BY <1>1, <1>3, <3>1, RunBegins
    <3>3. w = Append(q, 0) /\ n \in 1..n /\ 0 \in Int
      BY <1>1, <1>4, <2>2
    <3>4. Cardinality(Zeros(Append(q, 0))) = Cardinality(Zeros(q)) + 1
      BY <1>2, <3>3, ZerosAppend
    <3> QED
      BY <1>2, <3>2, <3>3, <3>4
  <2> QED
    BY <2>1, <2>2
<1>9. ASSUME NEW i \in Nat \ {0}
      PROVE  i \in Elems(w) <=> i \in 1..n /\ f[i].k \notin {"eof", "bad"} /\ i \notin U
  <2>1. i \in Elems(q) <=> i \in 1..Len(d) /\ d[i].k \notin {"eof", "bad"} /\ i \notin T
    BY <1>2 DEF CopiedOK, T
  <2>2. i \in Elems(w) <=> i \in Elems(q)
    BY <1>7
  <2>3. CASE i = n
    BY <1>1, <1>3, <2>1, <2>2, <2>3
  <2>4. CASE i # n
    <3>1. i \in 1..n <=> i \in 1..Len(d)
      BY <1>1, <2>4
    <3>2. i \in 1..Len(d) => f[i] = d[i]
      BY <1>1
    <3> QED
      BY <1>3, <2>1, <2>2, <2>4, <3>1, <3>2
  <2> QED
    BY <2>3, <2>4
<1>10. CopiedOK(f, w)
  BY <1>1, <1>9 DEF CopiedOK, U
<1>11. -1 \notin Elems(w)
  BY <1>2, <1>7
<1>12. OutputOK(f, w)
  BY <1>7, <1>8, <1>10, <1>11 DEF OutputOK, U
<1> QED
  BY <1>3, <1>8, <1>12 DEF U

\* The end of the stream is not copied.
LEMMA EndGrows ==
    ASSUME NEW d, NEW e, NEW f, NEW n, Longer(d, e, f, n), NEW q, OutputOK(d, q),
           e.k \in {"eof", "bad"}
    PROVE  /\ OutputOK(f, q)
           /\ Append(q, -1) \in Seq(Int) /\ CopiedOK(f, Append(q, -1))
           /\ Cardinality(Zeros(Append(q, -1))) = Cardinality(Runs(HiddenIn(f)))
<1> DEFINE w == Append(q, -1)
<1>1. /\ f[n] = e /\ n = Len(d) + 1 /\ Len(f) = n /\ n \notin 1..Len(d) /\ n \in Nat \ {0}
      /\ \A i \in 1..Len(d) : f[i] = d[i]
      /\ 1..n = (1..Len(d)) \cup {n}
  BY DEF Longer
<1>2. /\ q \in Seq(Int) /\ CopiedOK(d, q) /\ -1 \notin Elems(q)
      /\ Cardinality(Zeros(q)) = Cardinality(Runs(HiddenIn(d)))
  BY DEF OutputOK
<1>3. HiddenIn(f) = HiddenIn(d)
  BY HiddenGrows
<1>4. w \in Seq(Int) /\ -1 \in Int /\ -1 # 0
  BY <1>2
<1>5. Zeros(w) = Zeros(q)
  BY <1>2, <1>4, ZerosAppend
<1>6. \A y : y \in Elems(w) <=> y \in Elems(q) \/ y = -1
  BY <1>2, <1>4, ElemsAppend
<1> HIDE DEF w
<1>7. ASSUME NEW i \in Nat \ {0}
      PROVE  i \in Elems(q) <=> i \in 1..n /\ f[i].k \notin {"eof", "bad"} /\ i \notin HiddenIn(f)
  <2>1. i \in Elems(q) <=> i \in 1..Len(d) /\ d[i].k \notin {"eof", "bad"} /\ i \notin HiddenIn(d)
    BY <1>2 DEF CopiedOK
  <2>2. CASE i = n
    BY <1>1, <2>1, <2>2
  <2>3. CASE i # n
    <3>1. i \in 1..n <=> i \in 1..Len(d)
      BY <1>1, <2>3
    <3>2. i \in 1..Len(d) => f[i] = d[i]
      BY <1>1
    <3> QED
      BY <1>3, <2>1, <3>1, <3>2
  <2> QED
    BY <2>2, <2>3
<1>8. \A i \in Nat \ {0} : i # -1
  OBVIOUS
<1>9. CopiedOK(f, q)
  BY <1>1, <1>7 DEF CopiedOK
<1>10. CopiedOK(f, w)
  BY <1>1, <1>6, <1>7, <1>8 DEF CopiedOK
<1>11. OutputOK(f, q)
  BY <1>2, <1>3, <1>9 DEF OutputOK
<1>12. Cardinality(Zeros(w)) = Cardinality(Runs(HiddenIn(f)))
  BY <1>2, <1>3, <1>5
<1> QED
  BY <1>4, <1>10, <1>11, <1>12 DEF w

\* A record of redact_structural_secret_elements that goes on.
LEMMA RedactRuns ==
    ASSUME NEW d, NEW r \in RedactRecord, OutputOK(d, r.out), InSecret(d, r.secret), MarkedOK(d, r)
    PROVE  RedactOK(d, r)
BY Zenon DEF RedactOK, OutputOK

\* An event that is copied takes the reader on.
LEMMA RedactCopies ==
    ASSUME NEW d, NEW e, NEW f, NEW n, Longer(d, e, f, n), NEW q, OutputOK(d, q),
           HiddenIn(f) = HiddenIn(d), e.k \notin {"eof", "bad"}, NEW r \in RedactRecord,
           r.out = Append(q, n), ~r.marked, InSecret(f, r.secret)
    PROVE  RedactOK(f, r)
<1>1. OutputOK(f, r.out) /\ n \notin HiddenIn(f)
  BY CopyGrows
<1>2. Len(f) = n
  BY DEF Longer
<1>3. MarkedOK(f, r)
  BY <1>1, <1>2 DEF MarkedOK
<1> QED
  BY <1>1, <1>3, RedactRuns

\* One step of redact_structural_secret_elements.
LEMMA RedactReads ==
    ASSUME NEW e, NEW f, NEW n, Reads(e, f, n), RedactOK(doc, redact), redact.res = "run"
    PROVE  RedactOK(f, RedactStep(redact, e, n))
<1> DEFINE r == RedactStep(redact, e, n)
           here == Append(redact.out, n)
           rest == Append(redact.out, -1)
           text == IF redact.marked THEN redact.out ELSE Append(redact.out, 0)
           down == IF redact.secret = 0 /\ e.n \in Secret THEN Len(open) + 1 ELSE redact.secret
           up == IF redact.secret = Len(open) THEN 0 ELSE redact.secret
<1>1. /\ StackOK(doc, open) /\ Longer(doc, e, f, n) /\ Opened(doc, e, f, n, open)
      /\ e \in Events /\ n \in Nat /\ Len(f) = n /\ f[n] = e /\ Len(open) \in Nat
  BY DEF Reads, Longer, Opened
<1>2. e.k \in {"start", "empty", "end", "eof", "text", "bad", "doctype"}
  BY <1>1 DEF Events, Kinds
<1>3. /\ redact \in RedactRecord /\ OutputOK(doc, redact.out) /\ InSecret(doc, redact.secret)
      /\ MarkedOK(doc, redact)
  <2>1. redact \in RedactRecord
    BY DEF RedactOK
  <2>2. redact.out \in Seq(Int)
    BY <2>1 DEF RedactRecord
  <2> QED
    BY <2>1, <2>2, Zenon DEF RedactOK, OutputOK
<1>4. redact.secret \in Nat
  BY <1>3 DEF RedactRecord
<1>5. redact.secret # 0 <=> BelowSecret(doc)
  BY <1>3, InSecretIs
<1>6. r \in RedactRecord
  BY <1>1, <1>3, RedactEnds
<1>7. ~(e.k = "text" /\ redact.secret # 0) => HiddenIn(f) = HiddenIn(doc)
  BY <1>1, <1>5, HiddenGrows
<1>8. /\ redact.secret # 0 /\ e.k = "text" => r = [redact EXCEPT !.out = text, !.marked = TRUE]
      /\ e.k = "bad" => r = [redact EXCEPT !.out = rest, !.res = "ok"]
      /\ e.k = "eof" => r = [redact EXCEPT !.res = "ok"]
      /\ e.k = "start" => r = [redact EXCEPT !.out = here, !.marked = FALSE, !.secret = down]
      /\ e.k = "end" => r = [redact EXCEPT !.out = here, !.marked = FALSE, !.secret = up]
      /\ e.k \in {"empty", "doctype"} \/ (e.k = "text" /\ redact.secret = 0) =>
             r = [redact EXCEPT !.out = here, !.marked = FALSE]
  BY <1>1, <1>3, RedactForms
<1>9. here = Append(redact.out, n) /\ rest = Append(redact.out, -1)
  OBVIOUS
<1>10. text = IF redact.marked THEN redact.out ELSE Append(redact.out, 0)
  OBVIOUS
<1>11. down = IF redact.secret = 0 /\ e.n \in Secret THEN Len(open) + 1 ELSE redact.secret
  OBVIOUS
<1>12. up = IF redact.secret = Len(open) THEN 0 ELSE redact.secret
  OBVIOUS
<1> SUFFICES RedactOK(f, r)
  OBVIOUS
<1> HIDE DEF r, here, rest, text, down, up
<1>13. CASE redact.secret # 0 /\ e.k = "text"
  <2>1. r = [redact EXCEPT !.out = text, !.marked = TRUE]
    BY <1>8, <1>13
  <2>2. r.out = text /\ r.marked = TRUE /\ r.secret = redact.secret
    BY <1>3, <2>1 DEF RedactRecord
  <2>3. OutputOK(f, text) /\ n \in HiddenIn(f) /\ \E a \in 1..n : a..n \in Runs(HiddenIn(f))
    BY <1>1, <1>3, <1>5, <1>10, <1>13, HideGrows
  <2>4. InSecret(f, redact.secret)
    <3>1. e.k \notin {"start", "end"}
      BY <1>13
    <3> QED
      BY <1>1, <1>3, <3>1, SecretStays
  <2>5. MarkedOK(f, r)
    BY <1>1, <2>2, <2>3 DEF MarkedOK
  <2> QED
    BY <1>6, <2>2, <2>3, <2>4, <2>5, RedactRuns
<1>14. CASE e.k = "bad"
  <2>1. r = [redact EXCEPT !.out = rest, !.res = "ok"]
    BY <1>8, <1>14
  <2>2. r.out = rest /\ r.res = "ok"
    BY <1>3, <2>1 DEF RedactRecord
  <2>3. CopiedOK(f, rest) /\ Cardinality(Zeros(rest)) = Cardinality(Runs(HiddenIn(f)))
    BY <1>1, <1>3, <1>9, <1>14, EndGrows
  <2>4. f[Len(f)].k = "bad" /\ "ok" # "run"
    BY <1>1, <1>14
  <2> QED
    BY <1>6, <2>2, <2>3, <2>4, Zenon DEF RedactOK
<1>15. CASE e.k = "eof"
  <2>1. r = [redact EXCEPT !.res = "ok"]
    BY <1>8, <1>15
  <2>2. r.out = redact.out /\ r.res = "ok"
    BY <1>3, <2>1 DEF RedactRecord
  <2>3. OutputOK(f, redact.out)
    BY <1>1, <1>3, <1>15, EndGrows
  <2>4. "ok" # "run"
    OBVIOUS
  <2> QED
    BY <1>6, <2>2, <2>3, <2>4, Zenon DEF RedactOK, OutputOK
<1>16. CASE e.k = "start"
  <2>1. r = [redact EXCEPT !.out = here, !.marked = FALSE, !.secret = down]
    BY <1>8, <1>16
  <2>2. r.out = here /\ ~r.marked /\ r.secret = down
    BY <1>3, <2>1 DEF RedactRecord
  <2>3. InSecret(f, down)
    BY <1>1, <1>3, <1>4, <1>11, <1>16, SecretStarts
  <2>4. e.k \notin {"eof", "bad"} /\ HiddenIn(f) = HiddenIn(doc)
    BY <1>7, <1>16
  <2> QED
    BY <1>1, <1>3, <1>6, <1>9, <2>2, <2>3, <2>4, RedactCopies
<1>17. CASE e.k = "end"
  <2>1. r = [redact EXCEPT !.out = here, !.marked = FALSE, !.secret = up]
    BY <1>8, <1>17
  <2>2. r.out = here /\ ~r.marked /\ r.secret = up
    BY <1>3, <2>1 DEF RedactRecord
  <2>3. InSecret(f, up)
    BY <1>1, <1>3, <1>4, <1>12, <1>17, SecretEnds
  <2>4. e.k \notin {"eof", "bad"} /\ HiddenIn(f) = HiddenIn(doc)
    BY <1>7, <1>17
  <2> QED
    BY <1>1, <1>3, <1>6, <1>9, <2>2, <2>3, <2>4, RedactCopies
<1>18. CASE e.k \in {"empty", "doctype"} \/ (e.k = "text" /\ redact.secret = 0)
  <2>1. r = [redact EXCEPT !.out = here, !.marked = FALSE]
    BY <1>8, <1>18
  <2>2. r.out = here /\ ~r.marked /\ r.secret = redact.secret
    BY <1>3, <2>1 DEF RedactRecord
  <2>3. e.k \notin {"eof", "bad"} /\ e.k \notin {"start", "end"} /\ HiddenIn(f) = HiddenIn(doc)
    BY <1>7, <1>18
  <2>4. InSecret(f, redact.secret)
    BY <1>1, <1>3, <2>3, SecretStays
  <2> QED
    BY <1>1, <1>3, <1>6, <1>9, <2>2, <2>3, <2>4, RedactCopies
<1> QED
  BY <1>2, <1>13, <1>14, <1>15, <1>16, <1>17, <1>18

-----------------------------------------------------------------------------
(* validate_xml_root: its record and the document. *)

RootRecord == [saw : BOOLEAN, closed : BOOLEAN, res : {"run", "ok", "err"}]

TopAt(d, i) == IsOpening(d, i) /\ DepthIn(d, i) = 0
GoodAt(d, i) ==
    /\ d[i].k # "doctype"
    /\ d[i].k = "text" => DepthIn(d, i) > 0
    /\ IsOpening(d, i) => DepthIn(d, i) < MaxDepth

AllGood(d) == \A i \in 1..Len(d) : GoodAt(d, i)
NoneOpened(d) == \A i \in 1..Len(d) : ~IsOpening(d, i)
OneTop(d) ==
    \E i \in 1..Len(d) : /\ TopAt(d, i) /\ d[i].n = "response"
                         /\ \A j \in 1..Len(d) : TopAt(d, j) => j = i

\* OneResponse of the stream d with the stack s.
OneIn(d, s) == d[Len(d)].k = "eof" /\ s = <<>> /\ OneTop(d) /\ AllGood(d)

\* No continuation of the stream is one response.
Broken(d) ==
    \/ \E i \in 1..Len(d) : ~GoodAt(d, i)
    \/ \E i \in 1..Len(d) : TopAt(d, i) /\ d[i].n # "response"
    \/ \E i, j \in 1..Len(d) : TopAt(d, i) /\ TopAt(d, j) /\ i # j

\* The reader goes on: nothing wrong so far, and it knows the root and whether it is closed.
RootRuns(d, s, r) ==
    /\ AllGood(d)
    /\ ~r.saw => NoneOpened(d)
    /\ r.saw => OneTop(d)
    /\ r.closed <=> r.saw /\ s = <<>>

\* z is the result of redact_structural_secret_elements, which reads to the end.
RootOK(d, s, r, z) ==
    /\ r \in RootRecord
    /\ r.res = "run" => z = "run" /\ RootRuns(d, s, r)
    /\ r.res = "ok" => z = "ok" /\ OneIn(d, s)
    /\ r.res = "err" => Broken(d) \/ (z = "ok" /\ ~OneIn(d, s))

\* The tops and the rules after one more event.
Tops(d, e, f, n, s) ==
    /\ \A i \in 1..Len(d) : /\ TopAt(f, i) <=> TopAt(d, i)
                            /\ GoodAt(f, i) <=> GoodAt(d, i)
                            /\ IsOpening(f, i) <=> IsOpening(d, i)
                            /\ f[i] = d[i]
    /\ TopAt(f, n) <=> e.k \in {"start", "empty"} /\ Len(s) = 0
    /\ GoodAt(f, n) <=> /\ e.k # "doctype"
                        /\ e.k = "text" => Len(s) > 0
                        /\ e.k \in {"start", "empty"} => Len(s) < MaxDepth
    /\ IsOpening(f, n) <=> e.k \in {"start", "empty"}
    /\ f[n] = e /\ Len(f) = n /\ 1..Len(f) = (1..Len(d)) \cup {n} /\ n \notin 1..Len(d)

\* They follow from the stream.
LEMMA TopGrows ==
    ASSUME NEW d, NEW e, NEW f, NEW n, NEW s, Longer(d, e, f, n), Opened(d, e, f, n, s)
    PROVE  Tops(d, e, f, n, s)
<1>1. /\ f[n] = e /\ Len(f) = n /\ 1..Len(f) = (1..Len(d)) \cup {n} /\ n \notin 1..Len(d)
      /\ DepthIn(f, n) = Len(s)
  BY DEF Longer, Opened
<1>2. ASSUME NEW i \in 1..Len(d) PROVE f[i] = d[i] /\ DepthIn(f, i) = DepthIn(d, i)
  BY <1>2 DEF Longer
<1>3. ASSUME NEW i \in 1..Len(d)
      PROVE  /\ TopAt(f, i) <=> TopAt(d, i)
             /\ GoodAt(f, i) <=> GoodAt(d, i)
             /\ IsOpening(f, i) <=> IsOpening(d, i)
  BY <1>2, <1>3, Zenon DEF TopAt, GoodAt, IsOpening
<1>4. IsOpening(f, n) <=> e.k \in {"start", "empty"}
  BY <1>1 DEF IsOpening
<1>5. TopAt(f, n) <=> e.k \in {"start", "empty"} /\ Len(s) = 0
  BY <1>1, <1>4, Zenon DEF TopAt
<1>6. GoodAt(f, n) <=> /\ e.k # "doctype"
                       /\ e.k = "text" => Len(s) > 0
                       /\ e.k \in {"start", "empty"} => Len(s) < MaxDepth
  BY <1>1, <1>4, Zenon DEF GoodAt
<1> QED
  BY <1>1, <1>2, <1>3, <1>4, <1>5, <1>6, Zenon DEF Tops

\* What is broken stays broken.
LEMMA BrokenStays ==
    ASSUME NEW d, NEW e, NEW f, NEW n, NEW s, Longer(d, e, f, n), Opened(d, e, f, n, s), Broken(d)
    PROVE  Broken(f)
<1>1. /\ \A i \in 1..Len(d) : /\ TopAt(f, i) <=> TopAt(d, i)
                              /\ GoodAt(f, i) <=> GoodAt(d, i)
                              /\ f[i] = d[i]
      /\ 1..Len(f) = (1..Len(d)) \cup {n}
  <2>1. Tops(d, e, f, n, s)
    BY TopGrows
  <2> QED
    BY <2>1, Zenon DEF Tops
<1>2. \A i \in 1..Len(d) : i \in 1..Len(f)
  BY <1>1
<1> QED
  BY <1>1, <1>2, Zenon DEF Broken

\* A broken stream is not one response.
LEMMA BrokenIsNotOne ==
    ASSUME NEW d, NEW s, Broken(d)
    PROVE  ~OneIn(d, s)
BY Zenon DEF Broken, OneIn, OneTop, AllGood

\* An event that the rules allow.
LEMMA GoodGrows ==
    ASSUME NEW d, NEW e, NEW f, NEW n, NEW s, Longer(d, e, f, n), Opened(d, e, f, n, s), AllGood(d),
           e.k # "doctype", e.k = "text" => Len(s) > 0,
           e.k \in {"start", "empty"} => Len(s) < MaxDepth
    PROVE  AllGood(f)
<1>1. /\ \A i \in 1..Len(d) : GoodAt(f, i) <=> GoodAt(d, i)
      /\ 1..Len(f) = (1..Len(d)) \cup {n}
      /\ GoodAt(f, n) <=> /\ e.k # "doctype"
                          /\ e.k = "text" => Len(s) > 0
                          /\ e.k \in {"start", "empty"} => Len(s) < MaxDepth
  <2>1. Tops(d, e, f, n, s)
    BY TopGrows
  <2> QED
    BY <2>1, Zenon DEF Tops
<1>2. GoodAt(f, n)
  BY <1>1
<1> QED
  BY <1>1, <1>2 DEF AllGood

\* An event that begins no element at the top.
LEMMA OneTopStays ==
    ASSUME NEW d, NEW e, NEW f, NEW n, NEW s, Longer(d, e, f, n), Opened(d, e, f, n, s),
           OneTop(d), ~(e.k \in {"start", "empty"} /\ Len(s) = 0)
    PROVE  OneTop(f)
<1>1. /\ \A i \in 1..Len(d) : (TopAt(f, i) <=> TopAt(d, i)) /\ f[i] = d[i]
      /\ 1..Len(f) = (1..Len(d)) \cup {n}
      /\ TopAt(f, n) <=> e.k \in {"start", "empty"} /\ Len(s) = 0
  <2>1. Tops(d, e, f, n, s)
    BY TopGrows
  <2> QED
    BY <2>1, Zenon DEF Tops
<1>2. PICK i \in 1..Len(d) : /\ TopAt(d, i) /\ d[i].n = "response"
                             /\ \A j \in 1..Len(d) : TopAt(d, j) => j = i
  BY DEF OneTop
<1>3. i \in 1..Len(f) /\ TopAt(f, i) /\ f[i].n = "response"
  BY <1>1, <1>2
<1>4. ASSUME NEW j \in 1..Len(f), TopAt(f, j) PROVE j = i
  BY <1>1, <1>2, <1>4
<1> QED
  BY <1>3, <1>4 DEF OneTop

\* The first element.
LEMMA OneTopBegins ==
    ASSUME NEW d, NEW e, NEW f, NEW n, NEW s, Longer(d, e, f, n), Opened(d, e, f, n, s),
           NoneOpened(d), e.k \in {"start", "empty"}, Len(s) = 0, e.n = "response"
    PROVE  OneTop(f)
<1>1. /\ \A i \in 1..Len(d) : TopAt(f, i) <=> TopAt(d, i)
      /\ 1..Len(f) = (1..Len(d)) \cup {n} /\ f[n] = e
      /\ TopAt(f, n) <=> e.k \in {"start", "empty"} /\ Len(s) = 0
  <2>1. Tops(d, e, f, n, s)
    BY TopGrows
  <2> QED
    BY <2>1, Zenon DEF Tops
<1>2. \A i \in 1..Len(d) : ~TopAt(f, i)
  BY <1>1, Zenon DEF NoneOpened, TopAt
<1>3. n \in 1..Len(f) /\ TopAt(f, n) /\ f[n].n = "response"
  BY <1>1
<1>4. ASSUME NEW j \in 1..Len(f), TopAt(f, j) PROVE j = n
  BY <1>1, <1>2, <1>4
<1> QED
  BY <1>3, <1>4 DEF OneTop

\* Without a first element nothing is open.
LEMMA NothingOpen ==
    ASSUME NEW d, NEW s, StackOK(d, s), NoneOpened(d)
    PROVE  Len(s) = 0 /\ s = <<>>
<1>1. s \in Seq(Names) /\ Len(s) \in Nat
  BY DEF StackOK
<1>2. Len(s) = 0
  <2> SUFFICES ASSUME Len(s) # 0 PROVE FALSE
    OBVIOUS
  <2>1. 1 \in 1..Len(s)
    BY <1>1
  <2>2. PICK a \in 1..Len(d) : OpenAt(d, a, Len(d) + 1)
    BY <2>1 DEF StackOK
  <2>3. IsOpening(d, a)
    BY <2>2 DEF OpenAt, IsOpening
  <2> QED
    BY <2>2, <2>3 DEF NoneOpened
<1> QED
  BY <1>1, <1>2

\* An error return.
LEMMA RootFails ==
    ASSUME NEW d, NEW s, NEW r \in RootRecord, NEW z, Broken(d) \/ (z = "ok" /\ ~OneIn(d, s)),
           NEW t, t = [r EXCEPT !.res = "err"]
    PROVE  RootOK(d, s, t, z)
<1>1. t \in RootRecord /\ t.res = "err"
  BY DEF RootRecord
<1>2. "err" # "run" /\ "err" # "ok"
  OBVIOUS
<1> QED
  BY <1>1, <1>2, Zenon DEF RootOK

\* The reader goes on.
LEMMA RootGoesOn ==
    ASSUME NEW d, NEW s, NEW r \in RootRecord, r.res = "run", NEW z, z = "run", RootRuns(d, s, r)
    PROVE  RootOK(d, s, r, z)
<1>1. "run" # "err" /\ "run" # "ok"
  OBVIOUS
<1> QED
  BY <1>1, Zenon DEF RootOK

\* A second element at the top, one too deep, or a first one of another name breaks the rules.
LEMMA WrongOpening ==
    ASSUME NEW e, NEW f, NEW n, Reads(e, f, n), NEW z, RootOK(doc, open, root, z),
           root.res = "run", e.k \in {"start", "empty"},
           \/ root.saw /\ open = <<>>
           \/ Len(open) + 1 > MaxDepth
           \/ ~root.saw /\ e.n # "response"
    PROVE  Broken(f)
<1>1. /\ StackOK(doc, open) /\ Longer(doc, e, f, n) /\ Opened(doc, e, f, n, open)
      /\ Len(open) \in Nat /\ open \in Seq(Names) /\ (Len(open) = 0 <=> open = <<>>)
  BY DEF Reads, StackOK, Opened
<1>2. root \in RootRecord /\ AllGood(doc)
      /\ (~root.saw => NoneOpened(doc)) /\ (root.saw => OneTop(doc))
      /\ (root.closed <=> root.saw /\ open = <<>>)
  BY DEF RootOK, RootRuns
<1>3. /\ f[n] = e /\ Len(f) = n /\ 1..Len(f) = (1..Len(doc)) \cup {n} /\ n \notin 1..Len(doc)
      /\ \A i \in 1..Len(doc) : TopAt(f, i) <=> TopAt(doc, i)
      /\ TopAt(f, n) <=> e.k \in {"start", "empty"} /\ Len(open) = 0
      /\ GoodAt(f, n) <=> /\ e.k # "doctype"
                          /\ e.k = "text" => Len(open) > 0
                          /\ e.k \in {"start", "empty"} => Len(open) < MaxDepth
  <2>1. Tops(doc, e, f, n, open)
    BY <1>1, TopGrows
  <2> QED
    BY <2>1, Zenon DEF Tops
<1>4. root.saw \in BOOLEAN /\ root.closed \in BOOLEAN /\ MaxDepth \in Nat
  BY <1>2, ReaderAssumption DEF RootRecord
<1>5. n \in 1..Len(f)
  BY <1>3
<1>6. CASE root.saw /\ open = <<>>
  <2>1. PICK i \in 1..Len(doc) : TopAt(doc, i)
    BY <1>2, <1>6 DEF OneTop
  <2>2. i \in 1..Len(f) /\ TopAt(f, i) /\ i # n /\ TopAt(f, n)
    BY <1>1, <1>3, <1>6, <2>1
  <2> QED
    BY <1>5, <2>2 DEF Broken
<1>7. CASE Len(open) + 1 > MaxDepth
  <2>1. ~(Len(open) < MaxDepth)
    BY <1>1, <1>4, <1>7
  <2>2. ~GoodAt(f, n)
    BY <1>3, <2>1
  <2> QED
    BY <1>5, <2>2 DEF Broken
<1>8. CASE ~root.saw /\ e.n # "response"
  <2>1. Len(open) = 0
    BY <1>1, <1>2, <1>8, NothingOpen
  <2>2. TopAt(f, n) /\ f[n].n # "response"
    BY <1>3, <1>8, <2>1
  <2> QED
    BY <1>5, <2>2 DEF Broken
<1> QED
  BY <1>6, <1>7, <1>8

\* A start or empty tag that validate_xml_root lets pass.
LEMMA RightOpening ==
    ASSUME NEW e, NEW f, NEW n, Reads(e, f, n), NEW z, RootOK(doc, open, root, z),
           root.res = "run", e.k \in {"start", "empty"},
           ~(root.saw /\ open = <<>>), ~(Len(open) + 1 > MaxDepth),
           ~(~root.saw /\ e.n # "response")
    PROVE  AllGood(f) /\ OneTop(f) /\ (root.saw <=> Len(open) # 0) /\ ~root.closed
<1>1. /\ StackOK(doc, open) /\ Longer(doc, e, f, n) /\ Opened(doc, e, f, n, open)
      /\ Len(open) \in Nat /\ open \in Seq(Names) /\ (Len(open) = 0 <=> open = <<>>)
  BY DEF Reads, StackOK, Opened
<1>2. root \in RootRecord /\ AllGood(doc)
      /\ (~root.saw => NoneOpened(doc)) /\ (root.saw => OneTop(doc))
      /\ (root.closed <=> root.saw /\ open = <<>>)
  BY DEF RootOK, RootRuns
<1>3. /\ f[n] = e /\ Len(f) = n /\ 1..Len(f) = (1..Len(doc)) \cup {n} /\ n \notin 1..Len(doc)
      /\ \A i \in 1..Len(doc) : TopAt(f, i) <=> TopAt(doc, i)
      /\ TopAt(f, n) <=> e.k \in {"start", "empty"} /\ Len(open) = 0
      /\ GoodAt(f, n) <=> /\ e.k # "doctype"
                          /\ e.k = "text" => Len(open) > 0
                          /\ e.k \in {"start", "empty"} => Len(open) < MaxDepth
  <2>1. Tops(doc, e, f, n, open)
    BY <1>1, TopGrows
  <2> QED
    BY <2>1, Zenon DEF Tops
<1>4. root.saw \in BOOLEAN /\ root.closed \in BOOLEAN /\ MaxDepth \in Nat
  BY <1>2, ReaderAssumption DEF RootRecord
<1>5. Len(open) < MaxDepth /\ e.k # "doctype" /\ e.k # "text"
  BY <1>1, <1>4
<1>6. AllGood(f)
  BY <1>1, <1>2, <1>5, GoodGrows
<1>7. root.saw <=> Len(open) # 0
  BY <1>1, <1>2, NothingOpen
<1>8. OneTop(f)
  <2>1. CASE root.saw
    BY <1>1, <1>2, <1>7, <2>1, OneTopStays
  <2>2. CASE ~root.saw
    BY <1>1, <1>2, <1>7, <2>2, OneTopBegins
  <2> QED
    BY <2>1, <2>2
<1>9. ~root.closed
  BY <1>2
<1> QED
  BY <1>6, <1>7, <1>8, <1>9

\* Start tags.
LEMMA RootReadsStart ==
    ASSUME NEW e, NEW f, NEW n, Reads(e, f, n), NEW z, RootOK(doc, open, root, z),
           root.res = "run", e.k = "start", NEW y, y = "run"
    PROVE  RootOK(f, Stack(open, e), RootStep(root, e), y)
<1>1. /\ StackOK(doc, open) /\ Longer(doc, e, f, n) /\ Opened(doc, e, f, n, open)
      /\ Len(open) \in Nat /\ open \in Seq(Names) /\ (Len(open) = 0 <=> open = <<>>)
  BY DEF Reads, StackOK, Opened
<1>2. root \in RootRecord /\ AllGood(doc)
      /\ (~root.saw => NoneOpened(doc)) /\ (root.saw => OneTop(doc))
      /\ (root.closed <=> root.saw /\ open = <<>>)
  BY DEF RootOK, RootRuns
<1>3. /\ f[n] = e /\ Len(f) = n /\ 1..Len(f) = (1..Len(doc)) \cup {n} /\ n \notin 1..Len(doc)
      /\ \A i \in 1..Len(doc) : TopAt(f, i) <=> TopAt(doc, i)
      /\ TopAt(f, n) <=> e.k \in {"start", "empty"} /\ Len(open) = 0
      /\ GoodAt(f, n) <=> /\ e.k # "doctype"
                          /\ e.k = "text" => Len(open) > 0
                          /\ e.k \in {"start", "empty"} => Len(open) < MaxDepth
  <2>1. Tops(doc, e, f, n, open)
    BY <1>1, TopGrows
  <2> QED
    BY <2>1, Zenon DEF Tops
<1>4. root.saw \in BOOLEAN /\ root.closed \in BOOLEAN /\ MaxDepth \in Nat
  BY <1>2, ReaderAssumption DEF RootRecord
<1> DEFINE bad == root.closed \/ Len(open) + 1 > MaxDepth \/ (~root.saw /\ e.n # "response")
           r == [root EXCEPT !.saw = TRUE]
<1>5. RootStep(root, e) = IF bad THEN [root EXCEPT !.res = "err"] ELSE r
  BY DEF RootStep
<1>6. e.k \in {"start", "empty"}
  OBVIOUS
<1>7. bad <=> \/ root.saw /\ open = <<>>
              \/ Len(open) + 1 > MaxDepth
              \/ ~root.saw /\ e.n # "response"
  BY <1>2
<1>8. CASE bad
  <2>1. Broken(f)
    <3> HIDE DEF bad
    <3> QED
      BY <1>6, <1>7, <1>8, WrongOpening
  <2>2. RootStep(root, e) = [root EXCEPT !.res = "err"]
    BY <1>5, <1>8
  <2> HIDE DEF r, bad
  <2> QED
    BY <1>2, <2>1, <2>2, RootFails
<1>9. CASE ~bad
  <2>1. AllGood(f) /\ OneTop(f) /\ ~root.closed
    <3> HIDE DEF bad
    <3> QED
      BY <1>6, <1>7, <1>9, RightOpening
  <2>2. r \in RootRecord /\ r.saw = TRUE /\ r.closed = root.closed /\ r.res = "run"
    BY <1>2 DEF RootRecord
  <2>3. Stack(open, e) # <<>>
    <3>1. Stack(open, e) = Append(open, e.n)
      BY DEF Stack
    <3>2. e.n \in Names
      BY DEF Reads, Fits
    <3> QED
      BY <1>1, <3>1, <3>2
  <2> HIDE DEF r, bad
  <2>4. RootRuns(f, Stack(open, e), r)
    BY <2>1, <2>2, <2>3, Zenon DEF RootRuns
  <2> QED
    BY <1>5, <1>9, <2>2, <2>4, RootGoesOn
<1> QED
  BY <1>8, <1>9

\* Empty tags.
LEMMA RootReadsEmpty ==
    ASSUME NEW e, NEW f, NEW n, Reads(e, f, n), NEW z, RootOK(doc, open, root, z),
           root.res = "run", e.k = "empty", NEW y, y = "run"
    PROVE  RootOK(f, Stack(open, e), RootStep(root, e), y)
<1>1. /\ StackOK(doc, open) /\ Longer(doc, e, f, n) /\ Opened(doc, e, f, n, open)
      /\ Len(open) \in Nat /\ open \in Seq(Names) /\ (Len(open) = 0 <=> open = <<>>)
  BY DEF Reads, StackOK, Opened
<1>2. root \in RootRecord /\ AllGood(doc)
      /\ (~root.saw => NoneOpened(doc)) /\ (root.saw => OneTop(doc))
      /\ (root.closed <=> root.saw /\ open = <<>>)
  BY DEF RootOK, RootRuns
<1>3. /\ f[n] = e /\ Len(f) = n /\ 1..Len(f) = (1..Len(doc)) \cup {n} /\ n \notin 1..Len(doc)
      /\ \A i \in 1..Len(doc) : TopAt(f, i) <=> TopAt(doc, i)
      /\ TopAt(f, n) <=> e.k \in {"start", "empty"} /\ Len(open) = 0
      /\ GoodAt(f, n) <=> /\ e.k # "doctype"
                          /\ e.k = "text" => Len(open) > 0
                          /\ e.k \in {"start", "empty"} => Len(open) < MaxDepth
  <2>1. Tops(doc, e, f, n, open)
    BY <1>1, TopGrows
  <2> QED
    BY <2>1, Zenon DEF Tops
<1>4. root.saw \in BOOLEAN /\ root.closed \in BOOLEAN /\ MaxDepth \in Nat
  BY <1>2, ReaderAssumption DEF RootRecord
<1> DEFINE bad == Len(open) + 1 > MaxDepth \/ (~root.saw /\ e.n # "response") \/ BesideRoot(root)
           c == root.closed \/ Len(open) = 0
           r == [root EXCEPT !.saw = TRUE, !.closed = c]
<1>5. RootStep(root, e) = IF bad THEN [root EXCEPT !.res = "err"] ELSE r
  BY DEF RootStep
<1>6. e.k \in {"start", "empty"}
  OBVIOUS
<1>7. bad <=> \/ root.saw /\ open = <<>>
              \/ Len(open) + 1 > MaxDepth
              \/ ~root.saw /\ e.n # "response"
  BY DEF BesideRoot
<1>8. CASE bad
  <2>1. Broken(f)
    <3> HIDE DEF bad
    <3> QED
      BY <1>6, <1>7, <1>8, WrongOpening
  <2>2. RootStep(root, e) = [root EXCEPT !.res = "err"]
    BY <1>5, <1>8
  <2> HIDE DEF r, bad
  <2> QED
    BY <1>2, <2>1, <2>2, RootFails
<1>9. CASE ~bad
  <2>1. AllGood(f) /\ OneTop(f) /\ ~root.closed
    <3> HIDE DEF bad
    <3> QED
      BY <1>6, <1>7, <1>9, RightOpening
  <2>2. c \in BOOLEAN /\ (c <=> open = <<>>)
    BY <1>1, <2>1
  <2> HIDE DEF c
  <2>3. r \in RootRecord /\ r.saw = TRUE /\ r.closed = c /\ r.res = "run"
    BY <1>2, <2>2 DEF RootRecord
  <2>4. Stack(open, e) = open
    BY DEF Stack
  <2> HIDE DEF r, bad
  <2>5. RootRuns(f, Stack(open, e), r)
    BY <2>1, <2>2, <2>3, <2>4, Zenon DEF RootRuns
  <2> QED
    BY <1>5, <1>9, <2>3, <2>5, RootGoesOn
<1> QED
  BY <1>8, <1>9

\* End tags.
LEMMA RootReadsEnd ==
    ASSUME NEW e, NEW f, NEW n, Reads(e, f, n), NEW z, RootOK(doc, open, root, z),
           root.res = "run", e.k = "end", NEW y, y = "run", StackOK(f, Stack(open, e))
    PROVE  RootOK(f, Stack(open, e), RootStep(root, e), y)
<1>1. /\ StackOK(doc, open) /\ Longer(doc, e, f, n) /\ Opened(doc, e, f, n, open)
      /\ Len(open) \in Nat /\ open \in Seq(Names) /\ (Len(open) = 0 <=> open = <<>>)
  BY DEF Reads, StackOK, Opened
<1>2. root \in RootRecord /\ AllGood(doc)
      /\ (~root.saw => NoneOpened(doc)) /\ (root.saw => OneTop(doc))
      /\ (root.closed <=> root.saw /\ open = <<>>)
  BY DEF RootOK, RootRuns
<1>3. /\ f[n] = e /\ Len(f) = n /\ 1..Len(f) = (1..Len(doc)) \cup {n} /\ n \notin 1..Len(doc)
      /\ \A i \in 1..Len(doc) : TopAt(f, i) <=> TopAt(doc, i)
      /\ TopAt(f, n) <=> e.k \in {"start", "empty"} /\ Len(open) = 0
      /\ GoodAt(f, n) <=> /\ e.k # "doctype"
                          /\ e.k = "text" => Len(open) > 0
                          /\ e.k \in {"start", "empty"} => Len(open) < MaxDepth
  <2>1. Tops(doc, e, f, n, open)
    BY <1>1, TopGrows
  <2> QED
    BY <2>1, Zenon DEF Tops
<1>4. root.saw \in BOOLEAN /\ root.closed \in BOOLEAN /\ MaxDepth \in Nat
  BY <1>2, ReaderAssumption DEF RootRecord
<1> DEFINE c == root.closed \/ Len(open) = 1
           r == [root EXCEPT !.closed = c]
<1>5. RootStep(root, e) = r
  BY DEF RootStep
<1>6. open # <<>>
  BY DEF Reads, Fits
<1>7. root.saw /\ ~root.closed
  BY <1>1, <1>2, <1>4, <1>6, NothingOpen
<1>8. Stack(open, e) = <<>> <=> Len(open) = 1
  <2>1. DepthIn(f, n + 1) = Len(open) - 1
    BY <1>1 DEF Opened
  <2>2. DepthIn(f, Len(f) + 1) = Len(Stack(open, e)) /\ Stack(open, e) \in Seq(Names)
    BY DEF StackOK
  <2>3. Len(Stack(open, e)) = Len(open) - 1
    BY <1>3, <2>1, <2>2
  <2>4. Stack(open, e) = <<>> <=> Len(Stack(open, e)) = 0
    BY <2>2
  <2> HIDE DEF Stack
  <2> QED
    BY <1>1, <2>3, <2>4
<1>9. c \in BOOLEAN /\ (c <=> Stack(open, e) = <<>>)
  BY <1>7, <1>8
<1> HIDE DEF c
<1>10. r \in RootRecord /\ r.saw = root.saw /\ r.closed = c /\ r.res = "run"
  BY <1>2, <1>9 DEF RootRecord
<1>11. AllGood(f) /\ OneTop(f)
  <2>1. e.k \notin {"start", "empty"} /\ e.k # "text" /\ e.k # "doctype"
    OBVIOUS
  <2>2. AllGood(f)
    BY <1>1, <1>2, <2>1, GoodGrows
  <2>3. OneTop(f)
    BY <1>1, <1>2, <1>7, <2>1, OneTopStays
  <2> QED
    BY <2>2, <2>3
<1> HIDE DEF r
<1>12. RootRuns(f, Stack(open, e), r)
  BY <1>7, <1>9, <1>10, <1>11, Zenon DEF RootRuns
<1> QED
  BY <1>5, <1>10, <1>12, RootGoesOn

\* Text, and what is refused everywhere.
LEMMA RootReadsOther ==
    ASSUME NEW e, NEW f, NEW n, Reads(e, f, n), NEW z, RootOK(doc, open, root, z),
           root.res = "run", e.k \in {"text", "doctype"}, NEW y, y = "run"
    PROVE  RootOK(f, Stack(open, e), RootStep(root, e), y)
<1>1. /\ StackOK(doc, open) /\ Longer(doc, e, f, n) /\ Opened(doc, e, f, n, open)
      /\ Len(open) \in Nat /\ open \in Seq(Names) /\ (Len(open) = 0 <=> open = <<>>)
  BY DEF Reads, StackOK, Opened
<1>2. root \in RootRecord /\ AllGood(doc)
      /\ (~root.saw => NoneOpened(doc)) /\ (root.saw => OneTop(doc))
      /\ (root.closed <=> root.saw /\ open = <<>>)
  BY DEF RootOK, RootRuns
<1>3. /\ f[n] = e /\ Len(f) = n /\ 1..Len(f) = (1..Len(doc)) \cup {n} /\ n \notin 1..Len(doc)
      /\ \A i \in 1..Len(doc) : TopAt(f, i) <=> TopAt(doc, i)
      /\ TopAt(f, n) <=> e.k \in {"start", "empty"} /\ Len(open) = 0
      /\ GoodAt(f, n) <=> /\ e.k # "doctype"
                          /\ e.k = "text" => Len(open) > 0
                          /\ e.k \in {"start", "empty"} => Len(open) < MaxDepth
  <2>1. Tops(doc, e, f, n, open)
    BY <1>1, TopGrows
  <2> QED
    BY <2>1, Zenon DEF Tops
<1>4. root.saw \in BOOLEAN /\ root.closed \in BOOLEAN /\ MaxDepth \in Nat
  BY <1>2, ReaderAssumption DEF RootRecord
<1>5. n \in 1..Len(f) /\ Stack(open, e) = open
  BY <1>3 DEF Stack
<1>6. CASE e.k = "doctype" \/ Len(open) = 0
  <2>1. RootStep(root, e) = [root EXCEPT !.res = "err"]
    BY <1>6 DEF RootStep
  <2>2. ~GoodAt(f, n)
    <3>1. ~(e.k # "doctype" /\ (e.k = "text" => Len(open) > 0))
      BY <1>1, <1>6
    <3> QED
      BY <1>3, <3>1
  <2>3. Broken(f)
    BY <1>5, <2>2 DEF Broken
  <2> QED
    BY <1>2, <2>1, <2>3, RootFails
<1>7. CASE e.k = "text" /\ Len(open) # 0
  <2>1. RootStep(root, e) = root
    BY <1>7 DEF RootStep
  <2>2. e.k \notin {"start", "empty"} /\ e.k # "doctype" /\ Len(open) > 0
    BY <1>1, <1>7
  <2>3. AllGood(f)
    BY <1>1, <1>2, <2>2, GoodGrows
  <2>4. root.saw
    BY <1>1, <1>2, <1>4, <1>7, NothingOpen
  <2>5. OneTop(f)
    BY <1>1, <1>2, <2>2, <2>4, OneTopStays
  <2>6. RootRuns(f, Stack(open, e), root)
    BY <1>2, <1>5, <2>3, <2>4, <2>5, Zenon DEF RootRuns
  <2> QED
    BY <1>2, <2>1, <2>6, RootGoesOn
<1> QED
  BY <1>6, <1>7

\* The end of the stream.
LEMMA RootReadsEof ==
    ASSUME NEW e, NEW f, NEW n, Reads(e, f, n), NEW z, RootOK(doc, open, root, z),
           root.res = "run", e.k \in {"eof", "bad"}
    PROVE  RootOK(f, Stack(open, e), RootStep(root, e), "ok")
<1>1. /\ StackOK(doc, open) /\ Longer(doc, e, f, n) /\ Opened(doc, e, f, n, open)
      /\ Len(open) \in Nat /\ open \in Seq(Names) /\ (Len(open) = 0 <=> open = <<>>)
  BY DEF Reads, StackOK, Opened
<1>2. root \in RootRecord /\ AllGood(doc)
      /\ (~root.saw => NoneOpened(doc)) /\ (root.saw => OneTop(doc))
      /\ (root.closed <=> root.saw /\ open = <<>>)
  BY DEF RootOK, RootRuns
<1>3. /\ f[n] = e /\ Len(f) = n /\ 1..Len(f) = (1..Len(doc)) \cup {n} /\ n \notin 1..Len(doc)
      /\ \A i \in 1..Len(doc) : TopAt(f, i) <=> TopAt(doc, i)
      /\ TopAt(f, n) <=> e.k \in {"start", "empty"} /\ Len(open) = 0
      /\ GoodAt(f, n) <=> /\ e.k # "doctype"
                          /\ e.k = "text" => Len(open) > 0
                          /\ e.k \in {"start", "empty"} => Len(open) < MaxDepth
  <2>1. Tops(doc, e, f, n, open)
    BY <1>1, TopGrows
  <2> QED
    BY <2>1, Zenon DEF Tops
<1>4. root.saw \in BOOLEAN /\ root.closed \in BOOLEAN /\ MaxDepth \in Nat
  BY <1>2, ReaderAssumption DEF RootRecord
<1> DEFINE good == e.k = "eof" /\ root.saw /\ root.closed /\ Len(open) = 0
           r == [root EXCEPT !.res = "ok"]
<1>5. RootStep(root, e) = IF good THEN r ELSE [root EXCEPT !.res = "err"]
  BY DEF RootStep
<1>6. Stack(open, e) = open /\ f[Len(f)] = e
  BY <1>3 DEF Stack
<1>7. e.k \notin {"start", "empty"} /\ e.k # "text" /\ e.k # "doctype"
  OBVIOUS
<1>8. AllGood(f)
  BY <1>1, <1>2, <1>7, GoodGrows
<1>9. CASE good
  <2>1. OneTop(f)
    BY <1>1, <1>2, <1>7, <1>9, OneTopStays
  <2>2. OneIn(f, Stack(open, e))
    BY <1>1, <1>6, <1>8, <1>9, <2>1 DEF OneIn
  <2>3. r \in RootRecord /\ r.res = "ok" /\ "ok" # "run" /\ "ok" # "err"
    BY <1>2 DEF RootRecord
  <2> HIDE DEF r, good
  <2>4. RootOK(f, Stack(open, e), r, "ok")
    BY <2>2, <2>3, Zenon DEF RootOK
  <2> QED
    BY <1>5, <1>9, <2>4
<1>10. CASE ~good
  <2>1. ASSUME OneIn(f, open) PROVE FALSE
    <3>1. e.k = "eof" /\ open = <<>> /\ OneTop(f)
      BY <1>6, <2>1 DEF OneIn
    <3>2. ~root.saw
      BY <1>1, <1>2, <1>10, <3>1
    <3>3. PICK i \in 1..Len(f) : TopAt(f, i)
      BY <3>1 DEF OneTop
    <3>4. i \in 1..Len(doc) /\ TopAt(doc, i)
      BY <1>3, <1>7, <3>3
    <3> QED
      BY <1>2, <3>2, <3>4 DEF NoneOpened, TopAt
  <2>2. RootStep(root, e) = [root EXCEPT !.res = "err"]
    BY <1>5, <1>10
  <2> HIDE DEF good
  <2> QED
    BY <1>2, <1>6, <2>1, <2>2, RootFails
<1> QED
  BY <1>9, <1>10

\* One step of validate_xml_root.
LEMMA RootReads ==
    ASSUME NEW e, NEW f, NEW n, Reads(e, f, n), NEW z, RootOK(doc, open, root, z),
           root.res = "run", StackOK(f, Stack(open, e)), NEW y,
           e.k \in {"eof", "bad"} => y = "ok", e.k \notin {"eof", "bad"} => y = "run"
    PROVE  RootOK(f, Stack(open, e), RootStep(root, e), y)
<1>1. e.k \in {"start", "empty", "end", "eof", "text", "bad", "doctype"}
  BY DEF Reads, Fits, Events, Kinds
<1>2. CASE e.k \in {"eof", "bad"}
  BY <1>2, RootReadsEof
<1>3. CASE e.k = "start"
  BY <1>3, RootReadsStart
<1>4. CASE e.k = "empty"
  BY <1>4, RootReadsEmpty
<1>5. CASE e.k = "end"
  BY <1>5, RootReadsEnd
<1>6. CASE e.k \in {"text", "doctype"}
  BY <1>6, RootReadsOther
<1> QED
  BY <1>1, <1>2, <1>3, <1>4, <1>5, <1>6

\* What an answer that is returned whole rests on.
AnswerInv ==
    /\ ScanInv
    /\ RedactOK(doc, redact)
    /\ RootOK(doc, open, root, redact.res)

\* It holds before the first event.
LEMMA AnswerStarts == Init => AnswerInv
<1> SUFFICES ASSUME Init PROVE AnswerInv
  OBVIOUS
<1>1. Len(doc) = 0 /\ 1..Len(doc) = {} /\ open = <<>>
  BY EmptyStream DEF Init
<1>2. /\ redact \in RedactRecord /\ redact.res = "run" /\ redact.out = <<>> /\ ~redact.marked
      /\ redact.secret = 0
  BY DEF Init, RedactRecord
<1>3. HiddenIn(doc) = {}
  BY <1>1 DEF HiddenIn
<1>4. Runs({}) = {} /\ Zeros(<<>>) = {} /\ Elems(<<>>) = {}
  <2>1. Runs({}) = {}
    BY DEF Runs
  <2>2. Zeros(<<>>) = {} /\ Elems(<<>>) = {}
    BY DEF Zeros, Elems
  <2> QED
    BY <2>1, <2>2
<1>5. OutputOK(doc, redact.out)
  <2>1. redact.out \in Seq(Int) /\ -1 \notin Elems(redact.out)
    BY <1>2, <1>4
  <2>2. CopiedOK(doc, redact.out)
    BY <1>1, <1>2, <1>4 DEF CopiedOK
  <2>3. Cardinality(Zeros(redact.out)) = Cardinality(Runs(HiddenIn(doc)))
    BY <1>2, <1>3, <1>4
  <2> QED
    BY <2>1, <2>2, <2>3 DEF OutputOK
<1>6. InSecret(doc, redact.secret)
  BY <1>1, <1>2 DEF InSecret
<1>7. MarkedOK(doc, redact)
  BY <1>2, <1>3 DEF MarkedOK
<1>8. RedactOK(doc, redact)
  BY <1>2, <1>5, <1>6, <1>7, RedactRuns
<1>9. root \in RootRecord /\ root.res = "run" /\ ~root.saw /\ ~root.closed
  BY DEF Init, RootRecord
<1>10. AllGood(doc) /\ NoneOpened(doc)
  BY <1>1 DEF AllGood, NoneOpened
<1>11. RootRuns(doc, open, root)
  BY <1>9, <1>10, Zenon DEF RootRuns
<1>12. RootOK(doc, open, root, redact.res)
  BY <1>2, <1>9, <1>11, RootGoesOn
<1> QED
  BY <1>8, <1>12, ScanStarts DEF AnswerInv

\* Every event keeps it.
LEMMA AnswerKept == AnswerInv /\ [Next]_vars => AnswerInv'
<1> SUFFICES ASSUME AnswerInv, [Next]_vars PROVE AnswerInv'
  OBVIOUS
<1>0. ScanInv'
  BY ScanKept DEF AnswerInv
<1>1. CASE UNCHANGED vars
  <2>1. doc' = doc /\ open' = open /\ redact' = redact /\ root' = root
    BY <1>1 DEF vars
  <2> QED
    BY <1>0, <2>1 DEF AnswerInv
<1>2. CASE Next
  <2>1. /\ StackOK(doc, open) /\ ask \in Windows
        /\ RedactOK(doc, redact) /\ RootOK(doc, open, root, redact.res)
    BY DEF AnswerInv, ScanInv, StreamInv
  <2>2. PICK e \in Events : ReadsOne(e)
    BY <1>2, <2>1, NextReads
  <2>3. /\ Reads(e, doc', Len(doc) + 1)
        /\ open' = Stack(open, e) /\ StackOK(doc', Stack(open, e))
    BY <2>1, <2>2, ReadGrows
  <2>4. /\ redact.res = "run" /\ redact' = RedactStep(redact, e, Len(doc) + 1)
        /\ root' = IF Running(root) THEN RootStep(root, e) ELSE root
    BY <2>2 DEF ReadsOne, Read
  <2>5. redact \in RedactRecord /\ root \in RootRecord
    BY <2>1 DEF RedactOK, RootOK
  <2>6. Len(doc) + 1 \in Nat /\ Len(open) \in Nat
    BY <2>3 DEF Reads, Longer, Opened
  <2>7. redact' \in RedactRecord /\ (redact'.res = "ok" <=> e.k \in {"bad", "eof"})
    BY <2>4, <2>5, <2>6, RedactEnds
  <2>8. RedactOK(doc', redact')
    BY <2>1, <2>3, <2>4, RedactReads
  <2>9. /\ e.k \in {"eof", "bad"} => redact'.res = "ok"
        /\ e.k \notin {"eof", "bad"} => redact'.res = "run"
    BY <2>7 DEF RedactRecord
  <2>10. RootOK(doc', open', root', redact'.res)
    <3>1. CASE root.res = "run"
      BY <2>1, <2>3, <2>4, <2>9, <3>1, RootReads DEF Running
    <3>2. CASE root.res # "run"
      <4>1. root' = root /\ root.res = "err"
        <5>1. root.res # "ok"
          BY <2>1, <2>4 DEF RootOK
        <5> QED
          BY <2>4, <2>5, <3>2, <5>1 DEF Running, RootRecord
      <4>2. Broken(doc)
        BY <2>1, <2>4, <4>1 DEF RootOK
      <4>3. Broken(doc')
        <5>1. Longer(doc, e, doc', Len(doc) + 1) /\ Opened(doc, e, doc', Len(doc) + 1, open)
          BY <2>3 DEF Reads
        <5> QED
          BY <4>2, <5>1, BrokenStays
      <4>4. "err" # "run" /\ "err" # "ok"
        OBVIOUS
      <4> QED
        BY <2>5, <4>1, <4>3, <4>4, Zenon DEF RootOK
    <3> QED
      BY <3>1, <3>2
  <2> QED
    BY <1>0, <2>8, <2>10 DEF AnswerInv
<1> QED
  BY <1>1, <1>2

\* The invariant says what SecretsHidden does.
LEMMA AnswerHides == AnswerInv => SecretsHidden
<1> SUFFICES ASSUME AnswerInv PROVE SecretsHidden
  OBVIOUS
<1>1. /\ StackOK(doc, open) /\ StreamEnds
      /\ RedactOK(doc, redact) /\ RootOK(doc, open, root, redact.res)
  BY DEF AnswerInv, ScanInv, StreamInv
<1>2. Len(doc) \in Nat /\ \A i \in Seen : i \in Nat \ {0}
  BY <1>1 DEF StackOK, Seen
<1> DEFINE hidden == {i \in Seen : IsText(i) /\ Under(Secret, i)}
<1>3. hidden = HiddenIn(doc)
  <2>1. ASSUME NEW i \in Seen, NEW a \in 1..(i - 1) PROVE Around(a, i) <=> OpenAt(doc, a, i)
    <3>1. a \in Nat \ {0} /\ i \in Nat \ {0}
      BY <1>2, <2>1
    <3> QED
      BY <3>1, AroundIs
  <2>2. ASSUME NEW i \in Seen
        PROVE  IsText(i) /\ Under(Secret, i) <=>
                   doc[i].k = "text" /\ \E a \in 1..(i - 1) : OpenAt(doc, a, i) /\ doc[a].n \in Secret
    BY <2>1, <2>2, Zenon DEF IsText, Under
  <2> QED
    BY <2>2 DEF HiddenIn, Seen
<1> HIDE DEF hidden
<1>4. OneResponse <=> OneIn(doc, open)
  <2>1. \A i : Opens(i) <=> IsOpening(doc, i)
    BY DEF Opens, IsOpening
  <2>2. \A i : Depth(i) = DepthIn(doc, i)
    BY DepthIs
  <2> QED
    BY <2>1, <2>2, Zenon DEF OneResponse, OneIn, OneTop, AllGood, TopAt, GoodAt, Seen, IsText
<1>5. \A i \in Seen : i \in Elems(redact.out) <=> doc[i].k \notin {"eof", "bad"} /\ i \notin hidden
  BY <1>1, <1>2, <1>3 DEF RedactOK, CopiedOK, Seen
<1>6. Cardinality({k \in DOMAIN redact.out : redact.out[k] = 0}) = Cardinality(Runs(hidden))
  BY <1>1, <1>3 DEF RedactOK, Zeros
<1>7. -1 \notin Elems(ReturnedXml)
  <2>1. CASE root.res = "ok"
    <3>1. doc[Len(doc)].k = "eof"
      BY <1>1, <2>1 DEF RootOK, OneIn
    <3>2. -1 \notin Elems(redact.out)
      BY <1>1, <3>1 DEF RedactOK
    <3> QED
      BY <2>1, <3>2 DEF ReturnedXml
  <2>2. CASE root.res # "ok"
    <3>1. ReturnedXml = <<>>
      BY <2>2 DEF ReturnedXml
    <3> QED
      BY <3>1 DEF Elems
  <2> QED
    BY <2>1, <2>2
<1>8. ASSUME redact.res = "ok" PROVE root.res = "ok" <=> OneResponse
  <2>1. root.res \in {"run", "ok", "err"} /\ "ok" # "run"
    BY <1>1 DEF RootOK, RootRecord
  <2>2. CASE root.res = "ok"
    BY <1>1, <1>4, <2>2 DEF RootOK
  <2>3. CASE root.res = "err"
    <3>1. ~OneIn(doc, open)
      BY <1>1, <2>3, BrokenIsNotOne DEF RootOK
    <3> QED
      BY <1>4, <2>3, <3>1
  <2>4. CASE root.res = "run"
    BY <1>1, <1>8, <2>1, <2>4 DEF RootOK
  <2> QED
    BY <2>1, <2>2, <2>3, <2>4
<1> QED
  BY <1>5, <1>6, <1>7, <1>8, Zenon DEF SecretsHidden, hidden

\* redact_structural_secret_elements and validate_xml_root: for every answer, however it is
\* nested, split into runs or cut off, no run of text below a secret element is copied,
\* everything else is, each stretch of hidden text leaves one marker, and what is returned
\* is one whole response.
THEOREM SecretsAreHidden == Spec => []SecretsHidden
<1>1. Init => AnswerInv
  BY AnswerStarts
<1>2. AnswerInv /\ [Next]_vars => AnswerInv'
  BY AnswerKept
<1>3. AnswerInv => SecretsHidden
  BY AnswerHides
<1> QED
  BY <1>1, <1>2, <1>3, PTL DEF Spec

-----------------------------------------------------------------------------
(* parse_grouped_entries and list_child_entries: the parent of an entry. *)

\* The element at i lies directly in one named x.
ParentIn(d, i, x) ==
    \E a \in 1..(i - 1) : OpenAt(d, a, i) /\ DepthIn(d, a) = DepthIn(d, i) - 1 /\ d[a].n = x

\* An entry directly in an element named x.
EntryIn(d, i, x) == IsOpening(d, i) /\ d[i].n = "entry" /\ ParentIn(d, i, x)

\* The innermost open element is named x.
TopIs(s, x) == s # <<>> /\ s[Len(s)] = x

\* Where an entry lies is settled when it opens.
LEMMA EntryInSame ==
    ASSUME NEW d, NEW e, NEW f, NEW n, Longer(d, e, f, n), NEW i \in 1..Len(d), NEW x
    PROVE  EntryIn(f, i, x) <=> EntryIn(d, i, x)
<1>1. i \in 1..n /\ f[i] = d[i] /\ DepthIn(f, i) = DepthIn(d, i)
  BY DEF Longer
<1>2. ASSUME NEW a \in 1..(i - 1)
      PROVE  /\ OpenAt(f, a, i) <=> OpenAt(d, a, i)
             /\ f[a] = d[a] /\ DepthIn(f, a) = DepthIn(d, a)
  <2>1. a \in 1..Len(d) /\ a \in 1..n
    BY <1>2 DEF Longer
  <2> QED
    BY <1>1, <2>1 DEF Longer
<1>3. ParentIn(f, i, x) <=> ParentIn(d, i, x)
  BY <1>1, <1>2, Zenon DEF ParentIn
<1> QED
  BY <1>1, <1>3, Zenon DEF EntryIn, IsOpening

\* The new element lies directly in the innermost open one.
LEMMA ParentNew ==
    ASSUME NEW e, NEW f, NEW n, Reads(e, f, n), NEW x
    PROVE  ParentIn(f, n, x) <=> TopIs(open, x)
<1>1. StackOK(doc, open) /\ Longer(doc, e, f, n) /\ Opened(doc, e, f, n, open)
  BY DEF Reads
<1>2. /\ n = Len(doc) + 1 /\ Len(doc) \in Nat /\ 1..n = (1..Len(doc)) \cup {n} /\ n \in 1..n
      /\ Len(open) \in Nat /\ DepthIn(f, n) = Len(open) /\ 1..(n - 1) = 1..Len(doc)
  BY <1>1 DEF Longer, Opened
<1>3. ASSUME NEW a \in 1..Len(doc)
      PROVE  /\ OpenAt(f, a, n) <=> OpenAt(doc, a, n)
             /\ f[a] = doc[a] /\ DepthIn(f, a) = DepthIn(doc, a) /\ DepthIn(doc, a) \in Nat
             /\ OpenAt(doc, a, n) => DepthIn(doc, a) < Len(open)
                                      /\ doc[a].n = open[DepthIn(doc, a) + 1]
  <2>1. a \in 1..n
    BY <1>2, <1>3
  <2> QED
    BY <1>1, <1>2, <1>3, <2>1 DEF Longer, StackOK
<1>4. open \in Seq(Names) /\ (open # <<>> => Len(open) \in 1..Len(open))
  <2>1. open \in Seq(Names)
    BY <1>1 DEF StackOK
  <2>2. open # <<>> => Len(open) # 0
    BY <2>1
  <2> QED
    BY <1>2, <2>1, <2>2
<1>5. ASSUME ParentIn(f, n, x) PROVE TopIs(open, x)
  <2>1. PICK a \in 1..Len(doc) : OpenAt(f, a, n) /\ DepthIn(f, a) = DepthIn(f, n) - 1 /\ f[a].n = x
    BY <1>2, <1>5 DEF ParentIn
  <2>2. DepthIn(doc, a) = Len(open) - 1 /\ doc[a].n = x /\ doc[a].n = open[DepthIn(doc, a) + 1]
        /\ DepthIn(doc, a) \in Nat
    BY <1>2, <1>3, <2>1
  <2>3. DepthIn(doc, a) + 1 = Len(open) /\ Len(open) # 0
    BY <1>2, <2>2
  <2>4. open # <<>>
    BY <2>3
  <2> QED
    BY <2>2, <2>3, <2>4 DEF TopIs
<1>6. ASSUME TopIs(open, x) PROVE ParentIn(f, n, x)
  <2>1. Len(open) \in 1..Len(open) /\ open[Len(open)] = x
    BY <1>4, <1>6 DEF TopIs
  <2>2. PICK a \in 1..Len(doc) : OpenAt(doc, a, n) /\ DepthIn(doc, a) = Len(open) - 1
    BY <1>1, <1>2, <2>1 DEF StackOK
  <2>3. DepthIn(doc, a) + 1 = Len(open)
    BY <1>2, <2>2
  <2>4. doc[a].n = x
    BY <1>3, <2>1, <2>2, <2>3
  <2>5. OpenAt(f, a, n) /\ DepthIn(f, a) = DepthIn(f, n) - 1 /\ f[a].n = x
    BY <1>2, <1>3, <2>2, <2>4
  <2> QED
    BY <1>2, <2>5 DEF ParentIn
<1> QED
  BY <1>5, <1>6

\* The new event opens an entry there.
LEMMA EntryInNew ==
    ASSUME NEW e, NEW f, NEW n, Reads(e, f, n), NEW x
    PROVE  EntryIn(f, n, x) <=> e.k \in {"start", "empty"} /\ e.n = "entry" /\ TopIs(open, x)
<1>1. f[n] = e
  BY DEF Reads, Longer
<1>2. ParentIn(f, n, x) <=> TopIs(open, x)
  BY ParentNew
<1> QED
  BY <1>1, <1>2, Zenon DEF EntryIn, IsOpening

-----------------------------------------------------------------------------
(* Elements of a set and the tags that close them. *)

ClosedOf(d, T) == {p \in (1..Len(d)) \X (1..Len(d)) : p[1] \in T /\ ClosesAt(d, p[1], p[2])}

\* The closed elements after one more event.
LEMMA ClosedGrows ==
    ASSUME NEW d, NEW e, NEW f, NEW n, Longer(d, e, f, n), NEW T, NEW U,
           \A i \in 1..Len(d) : i \in U <=> i \in T
    PROVE  \A p : p \in ClosedOf(f, U) <=>
               \/ p \in ClosedOf(d, T)
               \/ p \in (1..n) \X {n} /\ p[1] \in U /\ ClosesAt(f, p[1], n)
<1>1. /\ Len(f) = n /\ 1..n = (1..Len(d)) \cup {n} /\ n \notin 1..Len(d)
      /\ Len(d) \in Nat /\ n = Len(d) + 1
  BY DEF Longer
<1>2. ASSUME NEW i \in 1..n, NEW j \in 1..Len(d), ClosesAt(f, i, j) PROVE i \in 1..Len(d)
  BY <1>1, <1>2 DEF ClosesAt, OpenAt
<1>3. ASSUME NEW i \in 1..Len(d), NEW j \in 1..Len(d)
      PROVE  ClosesAt(f, i, j) <=> ClosesAt(d, i, j)
  BY <1>3, ClosesSame
<1>4. ASSUME NEW i \in 1..n, NEW j \in 1..n
      PROVE  <<i, j>> \in ClosedOf(f, U) <=>
                 \/ <<i, j>> \in ClosedOf(d, T)
                 \/ j = n /\ i \in U /\ ClosesAt(f, i, n)
  <2>1. <<i, j>> \in ClosedOf(f, U) <=> i \in U /\ ClosesAt(f, i, j)
    BY <1>1, <1>4 DEF ClosedOf
  <2>2. <<i, j>> \in ClosedOf(d, T) <=>
            i \in 1..Len(d) /\ j \in 1..Len(d) /\ i \in T /\ ClosesAt(d, i, j)
    BY DEF ClosedOf
  <2>3. CASE j = n
    BY <1>1, <2>1, <2>2, <2>3
  <2>4. CASE j \in 1..Len(d)
    <3>1. j # n
      BY <1>1, <2>4
    <3> QED
      BY <1>2, <1>3, <2>1, <2>2, <2>4, <3>1
  <2> QED
    BY <1>1, <1>4, <2>3, <2>4
<1>5. ASSUME NEW p
      PROVE  p \in ClosedOf(f, U) <=>
               \/ p \in ClosedOf(d, T)
               \/ p \in (1..n) \X {n} /\ p[1] \in U /\ ClosesAt(f, p[1], n)
  <2>1. ASSUME p \in (1..n) \X (1..n)
        PROVE  p \in ClosedOf(f, U) <=>
                   \/ p \in ClosedOf(d, T)
                   \/ p \in (1..n) \X {n} /\ p[1] \in U /\ ClosesAt(f, p[1], n)
    <3>1. PICK i \in 1..n, j \in 1..n : p = <<i, j>>
      BY <2>1
    <3>2. p[1] = i /\ (p \in (1..n) \X {n} <=> j = n)
      BY <3>1
    <3> QED
      BY <1>4, <3>1, <3>2
  <2>2. p \in ClosedOf(f, U) => p \in (1..n) \X (1..n)
    BY <1>1 DEF ClosedOf
  <2>3. p \in ClosedOf(d, T) => p \in (1..n) \X (1..n)
    BY <1>1 DEF ClosedOf
  <2>4. p \in (1..n) \X {n} => p \in (1..n) \X (1..n)
    BY <1>1
  <2> QED
    BY <2>1, <2>2, <2>3, <2>4
<1> QED
  BY <1>5

\* An event that closes none of them.
LEMMA ClosedSame ==
    ASSUME NEW d, NEW e, NEW f, NEW n, Longer(d, e, f, n), NEW T, NEW U,
           \A i \in 1..Len(d) : i \in U <=> i \in T,
           \A i \in 1..n : ~(i \in U /\ ClosesAt(f, i, n))
    PROVE  ClosedOf(f, U) = ClosedOf(d, T)
<1>1. ASSUME NEW p, p \in (1..n) \X {n} PROVE ~(p[1] \in U /\ ClosesAt(f, p[1], n))
  <2>1. p[1] \in 1..n
    BY <1>1
  <2> QED
    BY <2>1
<1>2. \A p : p \in ClosedOf(f, U) <=>
               \/ p \in ClosedOf(d, T)
               \/ p \in (1..n) \X {n} /\ p[1] \in U /\ ClosesAt(f, p[1], n)
  BY ClosedGrows, Zenon
<1>3. \A p : p \in ClosedOf(f, U) <=> p \in ClosedOf(d, T)
  BY <1>1, <1>2, Zenon
<1> QED
  BY <1>3

\* An event that closes one of them, i.
LEMMA ClosedOne ==
    ASSUME NEW d, NEW e, NEW f, NEW n, Longer(d, e, f, n), NEW T, NEW U, NEW i \in 1..n,
           \A j \in 1..Len(d) : j \in U <=> j \in T,
           i \in U, \A j \in 1..n : ClosesAt(f, j, n) <=> j = i
    PROVE  ClosedOf(f, U) = ClosedOf(d, T) \cup {<<i, n>>}
<1>1. ASSUME NEW p
      PROVE  (p \in (1..n) \X {n} /\ p[1] \in U /\ ClosesAt(f, p[1], n)) <=> p = <<i, n>>
  <2>1. ASSUME p \in (1..n) \X {n}, ClosesAt(f, p[1], n)
        PROVE  p = <<i, n>>
    <3>1. PICK j \in 1..n : p = <<j, n>>
      BY <2>1
    <3>2. p[1] = j
      BY <3>1
    <3> QED
      BY <2>1, <3>1, <3>2
  <2>2. ASSUME p = <<i, n>>
        PROVE  p \in (1..n) \X {n} /\ p[1] = i
    BY <2>2
  <2> QED
    BY <2>1, <2>2
<1>2. \A p : p \in ClosedOf(f, U) <=>
               \/ p \in ClosedOf(d, T)
               \/ p \in (1..n) \X {n} /\ p[1] \in U /\ ClosesAt(f, p[1], n)
  BY ClosedGrows, Zenon
<1>3. \A p : p \in ClosedOf(f, U) <=> p \in ClosedOf(d, T) \/ p = <<i, n>>
  BY <1>1, <1>2, Zenon
<1> QED
  BY <1>3

-----------------------------------------------------------------------------
(* Elements that hold none of their own name. *)

\* Below an open x only what it may hold is open.
NestOK(s, S, x) == \A l, m \in 1..Len(s) : l < m /\ s[l] = x => s[m] \in S

\* A stack without its innermost element.
LEMMA FrontIs ==
    ASSUME NEW V, NEW t \in Seq(V), Len(t) # 0
    PROVE  /\ SubSeq(t, 1, Len(t) - 1) \in Seq(V)
           /\ Len(SubSeq(t, 1, Len(t) - 1)) = Len(t) - 1
           /\ \A l \in 1..(Len(t) - 1) : SubSeq(t, 1, Len(t) - 1)[l] = t[l]
<1>1. Len(t) \in Nat \ {0}
  OBVIOUS
<1>2. 1 \in 1..(Len(t) + 1) /\ Len(t) - 1 \in 0..Len(t)
  BY <1>1
<1>3. 1 <= (Len(t) - 1) + 1 /\ (Len(t) - 1) - 1 + 1 = Len(t) - 1
  BY <1>1
<1> QED
  BY <1>1, <1>2, <1>3, SubSeqProperties

\* Every element opens in one that may hold it.
LEMMA NestKept ==
    ASSUME open \in Seq(Names), NEW S, NEW x, Within(S, x), NestOK(open, S, x), [Next]_vars
    PROVE  NestOK(open', S, x)
<1>1. Len(open) \in Nat
  OBVIOUS
<1>2. ASSUME NEW m \in Names, m \in Child[Here], open' = Append(open, m)
      PROVE  NestOK(open', S, x)
  <2>1. /\ Len(open') = Len(open) + 1 /\ open'[Len(open) + 1] = m
        /\ \A l \in 1..Len(open) : open'[l] = open[l]
    BY <1>2
  <2>2. ASSUME NEW l \in 1..Len(open), open[l] = x PROVE m \in S
    <3>1. Here = open[Len(open)] /\ Len(open) \in 1..Len(open)
      <4>1. open # <<>>
        BY <2>2
      <4>2. Len(open) # 0
        BY <4>1
      <4> QED
        BY <1>1, <4>1, <4>2 DEF Here
    <3>2. Here \in S \cup {x}
      BY <1>1, <2>2, <3>1 DEF NestOK
    <3> QED
      BY <1>2, <3>2 DEF Within
  <2>3. ASSUME NEW l \in 1..Len(open'), NEW k \in 1..Len(open'), l < k, open'[l] = x
        PROVE  open'[k] \in S
    <3>1. l \in 1..Len(open) /\ (k = Len(open) + 1 \/ k \in 1..Len(open))
      BY <1>1, <2>1, <2>3
    <3> QED
      BY <2>1, <2>2, <2>3, <3>1 DEF NestOK
  <2> QED
    BY <2>3 DEF NestOK
<1>3. ASSUME open # <<>>, open' = SubSeq(open, 1, Len(open) - 1) PROVE NestOK(open', S, x)
  <2>1. Len(open) # 0
    BY <1>3
  <2>2. Len(open') = Len(open) - 1 /\ \A l \in 1..(Len(open) - 1) : open'[l] = open[l]
    BY <1>3, <2>1, FrontIs
  <2>3. \A l \in 1..Len(open') : l \in 1..Len(open) /\ open'[l] = open[l]
    BY <1>1, <2>2
  <2> QED
    BY <2>3 DEF NestOK
<1>4. ASSUME open' = open PROVE NestOK(open', S, x)
  BY <1>4 DEF NestOK
<1>5. ASSUME NEW m \in Names, Open(m) PROVE m \in Child[Here] /\ open' = Append(open, m)
  BY <1>5 DEF Open, MayHold, Read, Event
<1>6. ASSUME NEW m \in Names, Leaf(m) PROVE open' = open
  BY <1>6 DEF Leaf, Read, Event
<1>7. ASSUME Close PROVE open # <<>> /\ open' = SubSeq(open, 1, Len(open) - 1)
  BY <1>7 DEF Close, Read, Event
<1>8. ASSUME Chars \/ Doctype \/ End \/ CutBody \/ Garble PROVE open' = open
  BY <1>8 DEF Chars, Doctype, End, CutBody, Garble, Read, Event
<1>9. ASSUME UNCHANGED vars PROVE open' = open
  BY <1>9 DEF vars
<1> QED
  BY <1>2, <1>3, <1>4, <1>5, <1>6, <1>7, <1>8, <1>9 DEF Next

\* An x does not lie in another.
LEMMA NotNested ==
    ASSUME NEW S, NEW x, Within(S, x), NestOK(open, S, x),
           NEW l \in 1..Len(open), NEW m \in 1..Len(open), open[l] = x, open[m] = x
    PROVE  l = m
<1>1. ~(l < m) /\ ~(m < l)
  BY DEF NestOK, Within
<1> QED
  BY <1>1

-----------------------------------------------------------------------------
(* parse_grouped_entries. *)

GroupRecord == [groups : Seq([at : Nat, members : Seq(Nat)]), res : {"run", "ok", "err"}]

\* The device entries two levels below the element g.
MembersIn(d, g) ==
    {i \in 1..Len(d) : /\ EntryIn(d, i, "devices") /\ OpenAt(d, g, i)
                       /\ DepthIn(d, i) = DepthIn(d, g) + 2}

\* The groups are the entries of dg elements, in any number.
AtsOK(d, gs) ==
    \A i : i \in Elems([k \in DOMAIN gs |-> gs[k].at]) <=> i \in 1..Len(d) /\ EntryIn(d, i, "dg")

MembersOK(d, gs) ==
    \A k \in DOMAIN gs : \A i : i \in Elems(gs[k].members) <=> i \in MembersIn(d, gs[k].at)

\* Only the last group may still be open, directly in a dg.
LastOpen(d, s, gs) ==
    \A k \in DOMAIN gs : OpenAt(d, gs[k].at, Len(d) + 1) =>
        /\ k = Len(gs)
        /\ DepthIn(d, gs[k].at) \in 1..Len(s) /\ s[DepthIn(d, gs[k].at)] = "dg"

GroupsOK(d, s, gs) ==
    /\ gs \in Seq([at : Nat, members : Seq(Nat)])
    /\ \A k \in DOMAIN gs : gs[k].at \in 1..Len(d)
    /\ AtsOK(d, gs) /\ MembersOK(d, gs) /\ LastOpen(d, s, gs)

\* The members of a group after one more event.
LEMMA MembersGrow ==
    ASSUME NEW e, NEW f, NEW n, Reads(e, f, n), NEW g \in 1..Len(doc)
    PROVE  \A i : i \in MembersIn(f, g) <=>
               \/ i \in MembersIn(doc, g)
               \/ /\ i = n /\ e.k \in {"start", "empty"} /\ e.n = "entry" /\ TopIs(open, "devices")
                  /\ OpenAt(doc, g, n) /\ Len(open) = DepthIn(doc, g) + 2
<1>1. Longer(doc, e, f, n) /\ Opened(doc, e, f, n, open)
  BY DEF Reads
<1>2. /\ Len(f) = n /\ 1..n = (1..Len(doc)) \cup {n} /\ n \notin 1..Len(doc)
      /\ g \in 1..n /\ n \in 1..n
      /\ \A i \in 1..n : DepthIn(f, i) = DepthIn(doc, i)
      /\ \A i \in 1..n, a \in 1..n : OpenAt(f, a, i) <=> OpenAt(doc, a, i)
      /\ DepthIn(f, n) = Len(open)
  BY <1>1 DEF Longer, Opened
<1>3. ASSUME NEW i \in 1..Len(doc) PROVE i \in MembersIn(f, g) <=> i \in MembersIn(doc, g)
  <2>1. i \in 1..n
    BY <1>2
  <2>2. EntryIn(f, i, "devices") <=> EntryIn(doc, i, "devices")
    BY <1>1, EntryInSame
  <2>3. OpenAt(f, g, i) <=> OpenAt(doc, g, i)
    BY <1>2, <2>1
  <2>4. DepthIn(f, i) = DepthIn(doc, i) /\ DepthIn(f, g) = DepthIn(doc, g)
    BY <1>2, <2>1
  <2> QED
    BY <1>2, <2>1, <2>2, <2>3, <2>4, Zenon DEF MembersIn
<1>4. n \in MembersIn(f, g) <=>
          /\ e.k \in {"start", "empty"} /\ e.n = "entry" /\ TopIs(open, "devices")
          /\ OpenAt(doc, g, n) /\ Len(open) = DepthIn(doc, g) + 2
  <2>1. EntryIn(f, n, "devices") <=>
            e.k \in {"start", "empty"} /\ e.n = "entry" /\ TopIs(open, "devices")
    BY EntryInNew
  <2>2. OpenAt(f, g, n) <=> OpenAt(doc, g, n)
    BY <1>2
  <2>3. DepthIn(f, n) = Len(open) /\ DepthIn(f, g) = DepthIn(doc, g)
    BY <1>2
  <2> QED
    BY <1>2, <2>1, <2>2, <2>3, Zenon DEF MembersIn
<1>5. \A i : i \in MembersIn(f, g) => i = n \/ i \in 1..Len(doc)
  BY <1>2 DEF MembersIn
<1>6. \A i : i \in MembersIn(doc, g) => i \in 1..Len(doc)
  BY DEF MembersIn
<1> QED
  BY <1>2, <1>3, <1>4, <1>5, <1>6, Zenon

\* The groups after one more event.
LEMMA GroupGrows ==
    ASSUME NEW e, NEW f, NEW n, Reads(e, f, n)
    PROVE  \A i : i \in 1..Len(f) /\ EntryIn(f, i, "dg") <=>
               \/ i \in 1..Len(doc) /\ EntryIn(doc, i, "dg")
               \/ i = n /\ e.k \in {"start", "empty"} /\ e.n = "entry" /\ TopIs(open, "dg")
<1>1. Longer(doc, e, f, n)
  BY DEF Reads
<1>2. Len(f) = n /\ 1..n = (1..Len(doc)) \cup {n} /\ n \notin 1..Len(doc)
  BY <1>1 DEF Longer
<1>3. \A i \in 1..Len(doc) : EntryIn(f, i, "dg") <=> EntryIn(doc, i, "dg")
  BY <1>1, EntryInSame
<1>4. EntryIn(f, n, "dg") <=> e.k \in {"start", "empty"} /\ e.n = "entry" /\ TopIs(open, "dg")
  BY EntryInNew
<1> QED
  BY <1>2, <1>3, <1>4, Zenon

\* What stays on the stack is where it was.
LEMMA StackSame ==
    ASSUME NEW s \in Seq(Names), NEW e, Fits(s, e), NEW l \in 1..Len(s), l \in 1..Len(Stack(s, e))
    PROVE  Stack(s, e)[l] = s[l]
<1>1. Len(s) \in Nat
  OBVIOUS
<1>2. CASE e.k = "start"
  <2>1. Stack(s, e) = Append(s, e.n)
    BY <1>2 DEF Stack
  <2>2. Append(s, e.n)[l] = s[l]
    OBVIOUS
  <2> QED
    BY <2>1, <2>2
<1>3. CASE e.k = "end"
  <2>1. Stack(s, e) = SubSeq(s, 1, Len(s) - 1)
    BY <1>3 DEF Stack
  <2>2. Len(s) # 0
    BY <1>1
  <2>3. l \in 1..(Len(s) - 1)
    <3>1. Len(Stack(s, e)) = Len(s) - 1
      BY <2>1, <2>2, FrontIs
    <3> QED
      BY <3>1
  <2>4. SubSeq(s, 1, Len(s) - 1)[l] = s[l]
    BY <2>2, <2>3, FrontIs
  <2> QED
    BY <2>1, <2>4
<1>4. CASE e.k \notin {"start", "end"}
  BY <1>4 DEF Stack
<1> QED
  BY <1>2, <1>3, <1>4

\* A group that was the only open one still is, if it is still open.
LEMMA LastOpenKept ==
    ASSUME NEW e, NEW f, NEW n, Reads(e, f, n), StackOK(f, Stack(open, e)), NEW gs,
           LastOpen(doc, open, gs), NEW k \in DOMAIN gs, gs[k].at \in 1..Len(doc),
           OpenAt(f, gs[k].at, n + 1)
    PROVE  /\ k = Len(gs) /\ OpenAt(doc, gs[k].at, n)
           /\ DepthIn(f, gs[k].at) \in 1..Len(Stack(open, e))
           /\ Stack(open, e)[DepthIn(f, gs[k].at)] = "dg"
<1> DEFINE g == gs[k].at
           t == Stack(open, e)
<1>0. g \in 1..Len(doc) /\ OpenAt(f, g, n + 1) /\ g = gs[k].at
  OBVIOUS
<1> HIDE DEF g, t
<1>1. Longer(doc, e, f, n) /\ Opened(doc, e, f, n, open)
  BY DEF Reads
<1>2. /\ n = Len(doc) + 1 /\ Len(f) = n /\ g \in 1..n /\ g # n
      /\ DepthIn(f, g) = DepthIn(doc, g)
  <2>1. g \in 1..n /\ g # n
    BY <1>0, <1>1 DEF Longer
  <2> QED
    BY <1>1, <2>1 DEF Longer
<1>3. OpenAt(doc, g, n)
  BY <1>0, <1>1, <1>2 DEF Opened
<1>4. k = Len(gs) /\ DepthIn(doc, g) \in 1..Len(open) /\ open[DepthIn(doc, g)] = "dg"
  BY <1>0, <1>2, <1>3 DEF LastOpen
<1>5. DepthIn(f, g) < Len(t) /\ DepthIn(f, g) \in Nat /\ Len(t) \in Nat
  BY <1>0, <1>2 DEF StackOK, t
<1>6. DepthIn(f, g) \in 1..Len(t) /\ DepthIn(f, g) \in 1..Len(open)
  BY <1>2, <1>4, <1>5
<1>7. t[DepthIn(f, g)] = open[DepthIn(f, g)]
  <2>1. open \in Seq(Names) /\ Fits(open, e)
    BY DEF Reads, StackOK
  <2> QED
    BY <1>6, <2>1, StackSame DEF t
<1> QED
  BY <1>0, <1>2, <1>3, <1>4, <1>6, <1>7 DEF t

\* An event that opens neither a group nor a member of one.
LEMMA GroupsSame ==
    ASSUME NEW e, NEW f, NEW n, Reads(e, f, n), StackOK(f, Stack(open, e)), NEW gs,
           GroupsOK(doc, open, gs),
           ~(e.k \in {"start", "empty"} /\ e.n = "entry" /\ TopIs(open, "dg")),
           \A k \in DOMAIN gs :
               ~(/\ e.k \in {"start", "empty"} /\ e.n = "entry" /\ TopIs(open, "devices")
                 /\ OpenAt(doc, gs[k].at, n) /\ Len(open) = DepthIn(doc, gs[k].at) + 2)
    PROVE  GroupsOK(f, Stack(open, e), gs)
<1>1. /\ gs \in Seq([at : Nat, members : Seq(Nat)])
      /\ \A k \in DOMAIN gs : gs[k].at \in 1..Len(doc)
      /\ AtsOK(doc, gs) /\ MembersOK(doc, gs) /\ LastOpen(doc, open, gs)
  BY DEF GroupsOK
<1>2. Len(f) = n /\ 1..n = (1..Len(doc)) \cup {n}
  BY DEF Reads, Longer
<1>3. AtsOK(f, gs)
  BY <1>1, GroupGrows, Zenon DEF AtsOK
<1>4. MembersOK(f, gs)
  <2>1. ASSUME NEW k \in DOMAIN gs, NEW i
        PROVE  i \in Elems(gs[k].members) <=> i \in MembersIn(f, gs[k].at)
    <3>1. gs[k].at \in 1..Len(doc)
      BY <1>1
    <3>2. i \in MembersIn(f, gs[k].at) <=>
              \/ i \in MembersIn(doc, gs[k].at)
              \/ /\ i = n /\ e.k \in {"start", "empty"} /\ e.n = "entry" /\ TopIs(open, "devices")
                 /\ OpenAt(doc, gs[k].at, n) /\ Len(open) = DepthIn(doc, gs[k].at) + 2
      BY <3>1, MembersGrow
    <3> QED
      BY <1>1, <3>2, Zenon DEF MembersOK
  <2> QED
    BY <2>1, Zenon DEF MembersOK
<1>5. LastOpen(f, Stack(open, e), gs)
  <2>1. ASSUME NEW k \in DOMAIN gs, OpenAt(f, gs[k].at, n + 1)
        PROVE  /\ k = Len(gs)
               /\ DepthIn(f, gs[k].at) \in 1..Len(Stack(open, e))
               /\ Stack(open, e)[DepthIn(f, gs[k].at)] = "dg"
    BY <1>1, <2>1, LastOpenKept
  <2> QED
    BY <1>2, <2>1 DEF LastOpen
<1>6. \A k \in DOMAIN gs : gs[k].at \in 1..Len(f)
  BY <1>1, <1>2
<1> QED
  BY <1>1, <1>3, <1>4, <1>5, <1>6, Zenon DEF GroupsOK

\* The positions of a list of groups with one more.
LEMMA AtsAppend ==
    ASSUME NEW gs \in Seq([at : Nat, members : Seq(Nat)]),
           NEW g \in [at : Nat, members : Seq(Nat)]
    PROVE  \A i : i \in Elems([k \in DOMAIN Append(gs, g) |-> Append(gs, g)[k].at]) <=>
                      i \in Elems([k \in DOMAIN gs |-> gs[k].at]) \/ i = g.at
<1> DEFINE hs == Append(gs, g)
<1>1. /\ DOMAIN hs = 1..(Len(gs) + 1) /\ DOMAIN gs = 1..Len(gs) /\ Len(gs) \in Nat
      /\ \A k \in 1..Len(gs) : hs[k] = gs[k]
      /\ hs[Len(gs) + 1] = g
  OBVIOUS
<1> HIDE DEF hs
<1>2. \A i : i \in Elems([k \in DOMAIN hs |-> hs[k].at]) <=> \E k \in DOMAIN hs : hs[k].at = i
  BY DEF Elems
<1>3. \A i : i \in Elems([k \in DOMAIN gs |-> gs[k].at]) <=> \E k \in DOMAIN gs : gs[k].at = i
  BY DEF Elems
<1>4. DOMAIN hs = (DOMAIN gs) \cup {Len(gs) + 1}
  BY <1>1
<1>5. ASSUME NEW i
      PROVE  (\E k \in DOMAIN hs : hs[k].at = i) <=> (\E k \in DOMAIN gs : gs[k].at = i) \/ i = g.at
  BY <1>1, <1>4
<1> QED
  BY <1>2, <1>3, <1>5 DEF hs

\* An entry that opens directly in a dg begins a group, the only open one.
LEMMA GroupBegins ==
    ASSUME NEW e, NEW f, NEW n, Reads(e, f, n), StackOK(f, Stack(open, e)), NEW gs,
           GroupsOK(doc, open, gs), NEW S, Within(S, "dg"), NestOK(open, S, "dg"),
           e.k \in {"start", "empty"}, e.n = "entry", TopIs(open, "dg")
    PROVE  GroupsOK(f, Stack(open, e), Append(gs, [at |-> n, members |-> <<>>]))
<1> DEFINE g == [at |-> n, members |-> <<>>]
           hs == Append(gs, g)
           V == [at : Nat, members : Seq(Nat)]
<1>1. /\ gs \in Seq(V)
      /\ \A k \in DOMAIN gs : gs[k].at \in 1..Len(doc)
      /\ AtsOK(doc, gs) /\ MembersOK(doc, gs) /\ LastOpen(doc, open, gs)
  BY DEF GroupsOK
<1>2. /\ Len(f) = n /\ n = Len(doc) + 1 /\ 1..n = (1..Len(doc)) \cup {n} /\ n \in Nat /\ n \in 1..n
      /\ Len(doc) \in Nat
  BY DEF Reads, Longer
<1>3. g \in V /\ g.at = n /\ g.members = <<>>
  BY <1>2
<1>4. /\ hs \in Seq(V) /\ Len(hs) = Len(gs) + 1 /\ Len(gs) \in Nat
      /\ DOMAIN hs = (1..Len(gs)) \cup {Len(gs) + 1} /\ DOMAIN gs = 1..Len(gs)
      /\ \A k \in 1..Len(gs) : hs[k] = gs[k]
      /\ hs[Len(gs) + 1] = g
  BY <1>1, <1>3
<1>5. \A i : i \in Elems([k \in DOMAIN hs |-> hs[k].at]) <=>
                 i \in Elems([k \in DOMAIN gs |-> gs[k].at]) \/ i = n
  <2>1. \A i : i \in Elems([k \in DOMAIN hs |-> hs[k].at]) <=>
                 i \in Elems([k \in DOMAIN gs |-> gs[k].at]) \/ i = g.at
    <3> HIDE DEF g
    <3> QED
      BY <1>1, <1>3, AtsAppend DEF hs, V
  <2> QED
    BY <1>3, <2>1
<1> HIDE DEF hs, g, V
<1>6. \A k \in DOMAIN hs : hs[k].at \in 1..Len(f)
  BY <1>1, <1>2, <1>3, <1>4
<1>7. AtsOK(f, hs)
  <2>1. \A i : i \in 1..Len(f) /\ EntryIn(f, i, "dg") <=>
                   (i \in 1..Len(doc) /\ EntryIn(doc, i, "dg")) \/ i = n
    BY GroupGrows, Zenon
  <2> QED
    BY <1>1, <1>5, <2>1, Zenon DEF AtsOK
<1>8. MembersOK(f, hs)
  <2>1. "dg" # "devices"
    OBVIOUS
  <2>2. ~TopIs(open, "devices")
    BY <2>1 DEF TopIs
  <2>3. ASSUME NEW k \in 1..Len(gs), NEW i
        PROVE  i \in Elems(hs[k].members) <=> i \in MembersIn(f, hs[k].at)
    <3>1. gs[k].at \in 1..Len(doc) /\ hs[k] = gs[k] /\ k \in DOMAIN gs
      BY <1>1, <1>4
    <3>2. i \in MembersIn(f, gs[k].at) <=> i \in MembersIn(doc, gs[k].at)
      BY <2>2, <3>1, MembersGrow, Zenon
    <3> QED
      BY <1>1, <3>1, <3>2 DEF MembersOK
  <2>4. ASSUME NEW i
        PROVE  i \in Elems(g.members) <=> i \in MembersIn(f, g.at)
    <3>1. i \notin Elems(g.members)
      BY <1>3 DEF Elems
    <3>2. i \notin MembersIn(f, n)
      BY <1>2 DEF MembersIn, OpenAt
    <3> QED
      BY <1>3, <3>1, <3>2
  <2>5. ASSUME NEW k \in DOMAIN hs, NEW i
        PROVE  i \in Elems(hs[k].members) <=> i \in MembersIn(f, hs[k].at)
    <3>1. k \in 1..Len(gs) \/ k = Len(gs) + 1
      BY <1>4
    <3> QED
      BY <1>4, <2>3, <2>4, <3>1
  <2> QED
    BY <2>5, Zenon DEF MembersOK
<1>9. LastOpen(f, Stack(open, e), hs)
  <2>0. /\ Len(open) \in Nat /\ Len(open) # 0 /\ open[Len(open)] = "dg" /\ Len(open) \in 1..Len(open)
        /\ open \in Seq(Names)
    <3>1. open \in Seq(Names) /\ open # <<>>
      BY DEF Reads, StackOK, TopIs
    <3>2. Len(open) \in Nat /\ Len(open) # 0
      BY <3>1
    <3> QED
      BY <3>1, <3>2 DEF TopIs
  <2>1. ASSUME NEW k \in 1..Len(gs), OpenAt(f, gs[k].at, n + 1) PROVE FALSE
    <3>1. gs[k].at \in 1..Len(doc) /\ k \in DOMAIN gs
      BY <1>1, <1>4
    <3>2. OpenAt(doc, gs[k].at, n)
      BY <1>1, <2>1, <3>1, LastOpenKept
    <3>3. DepthIn(doc, gs[k].at) \in 1..Len(open) /\ open[DepthIn(doc, gs[k].at)] = "dg"
      BY <1>1, <1>2, <3>1, <3>2 DEF LastOpen
    <3>4. DepthIn(doc, gs[k].at) = Len(open)
      BY <2>0, <3>3, NotNested
    <3>5. DepthIn(doc, gs[k].at) < Len(open)
      BY <1>2, <3>1, <3>2 DEF Reads, StackOK
    <3> QED
      BY <2>0, <3>4, <3>5
  <2>2. ASSUME NEW k \in DOMAIN hs, OpenAt(f, hs[k].at, n + 1)
        PROVE  /\ k = Len(hs)
               /\ DepthIn(f, hs[k].at) \in 1..Len(Stack(open, e))
               /\ Stack(open, e)[DepthIn(f, hs[k].at)] = "dg"
    <3>1. k = Len(gs) + 1
      BY <1>4, <2>1, <2>2
    <3>2. hs[k].at = n
      BY <1>3, <1>4, <3>1
    <3>3. DepthIn(f, n) = Len(open)
      BY DEF Reads, Opened
    <3>4. DepthIn(f, n) < Len(Stack(open, e)) /\ Len(Stack(open, e)) \in Nat
      BY <1>2, <2>2, <3>2 DEF StackOK
    <3>5. Len(open) \in 1..Len(Stack(open, e))
      BY <2>0, <3>3, <3>4
    <3>6. Stack(open, e)[Len(open)] = open[Len(open)]
      <4>1. Fits(open, e)
        BY DEF Reads
      <4> QED
        BY <2>0, <3>5, <4>1, StackSame
    <3> QED
      BY <1>4, <2>0, <3>1, <3>2, <3>3, <3>5, <3>6
  <2> QED
    BY <1>2, <2>2 DEF LastOpen
<1>10. GroupsOK(f, Stack(open, e), hs)
  BY <1>4, <1>6, <1>7, <1>8, <1>9 DEF GroupsOK, V
<1> QED
  BY <1>10 DEF hs, g

\* Below dg, entry and devices there is an open group.
LEMMA EnclosingGroup ==
    ASSUME StackOK(doc, open), NEW n, n = Len(doc) + 1, Len(open) \in Nat, Len(open) >= 3,
           open[Len(open) - 2] = "dg", open[Len(open) - 1] = "entry"
    PROVE  \E g \in 1..Len(doc) : /\ OpenAt(doc, g, n) /\ EntryIn(doc, g, "dg")
                                  /\ DepthIn(doc, g) = Len(open) - 2
<1>1. Len(open) - 2 \in 1..Len(open) /\ Len(open) - 1 \in 1..Len(open)
  OBVIOUS
<1>2. PICK a \in 1..Len(doc) : OpenAt(doc, a, n) /\ DepthIn(doc, a) = (Len(open) - 2) - 1
  BY <1>1 DEF StackOK
<1>3. PICK g \in 1..Len(doc) : OpenAt(doc, g, n) /\ DepthIn(doc, g) = (Len(open) - 1) - 1
  BY <1>1 DEF StackOK
<1>4. /\ DepthIn(doc, a) + 1 = Len(open) - 2 /\ DepthIn(doc, g) + 1 = Len(open) - 1
      /\ DepthIn(doc, g) = Len(open) - 2
      /\ DepthIn(doc, a) < DepthIn(doc, g) /\ DepthIn(doc, a) = DepthIn(doc, g) - 1
  BY <1>2, <1>3
<1>5. doc[a].n = "dg" /\ doc[g].n = "entry"
  <2>1. doc[a].n = open[DepthIn(doc, a) + 1] /\ doc[g].n = open[DepthIn(doc, g) + 1]
    BY <1>2, <1>3 DEF StackOK
  <2> QED
    BY <1>4, <2>1
<1>6. a \in 1..(g - 1) /\ OpenAt(doc, a, g)
  BY <1>2, <1>3, <1>4, OuterIsAround
<1>7. ParentIn(doc, g, "dg")
  BY <1>4, <1>5, <1>6 DEF ParentIn
<1>8. IsOpening(doc, g)
  BY <1>3 DEF OpenAt, IsOpening
<1> QED
  BY <1>3, <1>4, <1>5, <1>7, <1>8 DEF EntryIn

\* What record_entry_open looks at.
LEMMA EndsIs ==
    ASSUME open \in Seq(Names)
    PROVE  /\ EndsWith(<<"dg">>) <=> TopIs(open, "dg")
           /\ EndsWith(<<"devices">>) <=> TopIs(open, "devices")
           /\ EndsWith(<<"dg", "entry", "devices">>) <=>
                  /\ Len(open) >= 3 /\ open[Len(open) - 2] = "dg"
                  /\ open[Len(open) - 1] = "entry" /\ open[Len(open)] = "devices"
<1>1. Len(open) \in Nat /\ (open # <<>> <=> Len(open) >= 1)
  OBVIOUS
<1>2. ASSUME NEW k \in {1, 3}, Len(open) >= k
      PROVE  /\ SubSeq(open, Len(open) - k + 1, Len(open)) \in Seq(Names)
             /\ Len(SubSeq(open, Len(open) - k + 1, Len(open))) = k
             /\ \A i \in 1..k : SubSeq(open, Len(open) - k + 1, Len(open))[i] = open[Len(open) - k + i]
  <2>1. Len(open) - k + 1 \in Int /\ Len(open) \in Int /\ Len(open) - k + 1 <= Len(open)
    BY <1>1, <1>2
  <2>2. \A i \in (Len(open) - k + 1)..Len(open) : open[i] \in Names
    BY <1>1, <1>2
  <2>3. Len(open) - (Len(open) - k + 1) + 1 = k
    BY <1>1
  <2>4. \A i \in 1..k : (Len(open) - k + 1) + i - 1 = Len(open) - k + i
    BY <1>1
  <2> QED
    BY <2>1, <2>2, <2>3, <2>4, SubSeqProperties
<1>3. ASSUME NEW x PROVE EndsWith(<<x>>) <=> TopIs(open, x)
  <2> DEFINE t == SubSeq(open, Len(open) - 1 + 1, Len(open))
  <2>1. EndsWith(<<x>>) <=> Len(open) >= 1 /\ t = <<x>>
    BY DEF EndsWith
  <2>2. ASSUME Len(open) >= 1 PROVE t \in Seq(Names) /\ Len(t) = 1 /\ t[1] = open[Len(open)]
    <3>1. 1 \in {1, 3} /\ 1 \in 1..1 /\ Len(open) - 1 + 1 = Len(open)
      BY <1>1
    <3> QED
      BY <1>2, <2>2, <3>1
  <2> HIDE DEF t
  <2>3. ASSUME Len(open) >= 1 PROVE t = <<x>> <=> open[Len(open)] = x
    BY <2>2, <2>3
  <2> QED
    BY <1>1, <2>1, <2>3, Zenon DEF TopIs
<1>4. EndsWith(<<"dg", "entry", "devices">>) <=>
          /\ Len(open) >= 3 /\ open[Len(open) - 2] = "dg"
          /\ open[Len(open) - 1] = "entry" /\ open[Len(open)] = "devices"
  <2> DEFINE t == SubSeq(open, Len(open) - 3 + 1, Len(open))
             w == <<"dg", "entry", "devices">>
  <2>0. Len(w) = 3 /\ w[1] = "dg" /\ w[2] = "entry" /\ w[3] = "devices"
    OBVIOUS
  <2>1. EndsWith(w) <=> Len(open) >= 3 /\ t = w
    BY DEF EndsWith
  <2>2. ASSUME Len(open) >= 3
        PROVE  /\ t \in Seq(Names) /\ Len(t) = 3 /\ t[1] = open[Len(open) - 2]
               /\ t[2] = open[Len(open) - 1] /\ t[3] = open[Len(open)]
    <3>1. /\ 3 \in {1, 3} /\ 1 \in 1..3 /\ 2 \in 1..3 /\ 3 \in 1..3
          /\ Len(open) - 3 + 1 = Len(open) - 2 /\ Len(open) - 3 + 2 = Len(open) - 1
          /\ Len(open) - 3 + 3 = Len(open)
      BY <1>1
    <3> QED
      BY <1>2, <2>2, <3>1
  <2> HIDE DEF t, w
  <2>3. ASSUME Len(open) >= 3
        PROVE  t = w <=> t[1] = w[1] /\ t[2] = w[2] /\ t[3] = w[3]
    <3>1. ASSUME t[1] = w[1], t[2] = w[2], t[3] = w[3] PROVE t = w
      BY <2>0, <2>2, <2>3, <3>1 DEF w
    <3> QED
      BY <3>1
  <2>4. ASSUME Len(open) >= 3
        PROVE  t = w <=> /\ open[Len(open) - 2] = "dg"
                         /\ open[Len(open) - 1] = "entry" /\ open[Len(open)] = "devices"
    BY <2>0, <2>2, <2>3, <2>4, Zenon
  <2> QED
    BY <2>1, <2>4, Zenon DEF w
<1> QED
  BY <1>3, <1>4

\* An entry that opens in a devices element of a group joins that group.
LEMMA MemberJoins ==
    ASSUME NEW e, NEW f, NEW n, Reads(e, f, n), StackOK(f, Stack(open, e)), NEW gs,
           GroupsOK(doc, open, gs), NEW hs, NEW z, z = Len(gs), z > 0,
           hs = [gs EXCEPT ![z].members = Append(gs[z].members, n)],
           e.k \in {"start", "empty"}, e.n = "entry",
           Len(open) >= 3, open[Len(open) - 2] = "dg", open[Len(open) - 1] = "entry",
           TopIs(open, "devices")
    PROVE  GroupsOK(f, Stack(open, e), hs)
<1> DEFINE V == [at : Nat, members : Seq(Nat)]
<1>1. /\ gs \in Seq(V)
      /\ \A k \in DOMAIN gs : gs[k].at \in 1..Len(doc)
      /\ AtsOK(doc, gs) /\ MembersOK(doc, gs) /\ LastOpen(doc, open, gs)
  BY DEF GroupsOK
<1>2. /\ Len(f) = n /\ n = Len(doc) + 1 /\ 1..n = (1..Len(doc)) \cup {n} /\ n \in Nat
      /\ Len(open) \in Nat
  BY DEF Reads, Longer, Opened
<1>3. z \in DOMAIN gs /\ gs[z] \in V /\ gs[z].members \in Seq(Nat) /\ gs[z].at \in Nat
  <2>1. z \in DOMAIN gs
    BY <1>1
  <2>2. gs[z] \in V
    <3> HIDE DEF V
    <3> QED
      BY <1>1, <2>1
  <2> QED
    BY <2>1, <2>2
<1> DEFINE ms == Append(gs[z].members, n)
<1>4. ms \in Seq(Nat) /\ \A i : i \in Elems(ms) <=> i \in Elems(gs[z].members) \/ i = n
  <2>1. \A i : i \in Elems(ms) <=> i \in Elems(gs[z].members) \/ i = n
    <3> DEFINE es == gs[z].members
    <3>1. es \in Seq(Nat)
      BY <1>3
    <3> HIDE DEF es
    <3>2. \A i : i \in Elems(Append(es, n)) <=> i \in Elems(es) \/ i = n
      BY <1>2, <3>1, ElemsAppend
    <3> QED
      BY <3>2 DEF es
  <2> QED
    BY <1>2, <1>3, <2>1
<1>5. hs = [gs EXCEPT ![z] = [gs[z] EXCEPT !.members = ms]]
  OBVIOUS
<1> HIDE DEF ms
<1>6. /\ [gs[z] EXCEPT !.members = ms] \in V
      /\ [gs[z] EXCEPT !.members = ms].at = gs[z].at
      /\ [gs[z] EXCEPT !.members = ms].members = ms
  BY <1>3, <1>4
<1>7. /\ hs \in Seq(V) /\ Len(hs) = Len(gs) /\ DOMAIN hs = DOMAIN gs
      /\ \A k \in DOMAIN gs : hs[k] = IF k = z THEN [gs[z] EXCEPT !.members = ms] ELSE gs[k]
  <2> DEFINE w == [gs[z] EXCEPT !.members = ms]
  <2> HIDE DEF w, V
  <2>1. w \in V /\ hs = [gs EXCEPT ![z] = w]
    BY <1>5, <1>6 DEF w
  <2>2. z \in 1..Len(gs) /\ DOMAIN gs = 1..Len(gs) /\ Len(gs) \in Nat
    BY <1>1, <1>3
  <2>3. /\ [gs EXCEPT ![z] = w] \in Seq(V)
        /\ Len([gs EXCEPT ![z] = w]) = Len(gs)
        /\ \A k \in 1..Len(gs) : [gs EXCEPT ![z] = w][k] = IF k = z THEN w ELSE gs[k]
    BY <1>1, <2>1, <2>2, ExceptSeq
  <2>4. DOMAIN hs = 1..Len(hs)
    BY <2>1, <2>3
  <2> QED
    BY <2>1, <2>2, <2>3, <2>4 DEF w
<1>8. /\ \A k \in DOMAIN gs : hs[k].at = gs[k].at
      /\ \A k \in DOMAIN gs : k # z => hs[k].members = gs[k].members
      /\ hs[z].members = ms
  BY <1>3, <1>6, <1>7
<1> HIDE DEF V
<1>9. AtsOK(f, hs)
  <2>1. [k \in DOMAIN hs |-> hs[k].at] = [k \in DOMAIN gs |-> gs[k].at]
    BY <1>7, <1>8
  <2>2. ~TopIs(open, "dg")
    <3>1. "dg" # "devices"
      OBVIOUS
    <3> QED
      BY <3>1 DEF TopIs
  <2>3. \A i : i \in 1..Len(f) /\ EntryIn(f, i, "dg") <=> i \in 1..Len(doc) /\ EntryIn(doc, i, "dg")
    BY <2>2, GroupGrows, Zenon
  <2> QED
    BY <1>1, <2>1, <2>3, Zenon DEF AtsOK
<1>10. OpenAt(doc, gs[z].at, n) /\ Len(open) = DepthIn(doc, gs[z].at) + 2
  <2>1. StackOK(doc, open)
    BY DEF Reads
  <2>2. PICK g \in 1..Len(doc) : /\ OpenAt(doc, g, n) /\ EntryIn(doc, g, "dg")
                                 /\ DepthIn(doc, g) = Len(open) - 2
    BY <1>2, <2>1, EnclosingGroup
  <2>3. g \in Elems([k \in DOMAIN gs |-> gs[k].at])
    BY <1>1, <2>2 DEF AtsOK
  <2>4. PICK k \in DOMAIN gs : gs[k].at = g
    BY <2>3 DEF Elems
  <2>5. k = z
    BY <1>1, <1>2, <2>2, <2>4 DEF LastOpen
  <2> QED
    BY <1>2, <2>2, <2>4, <2>5
<1>11. MembersOK(f, hs)
  <2>1. ASSUME NEW k \in DOMAIN gs, k # z, NEW i
        PROVE  i \in Elems(gs[k].members) <=> i \in MembersIn(f, gs[k].at)
    <3>1. gs[k].at \in 1..Len(doc)
      BY <1>1
    <3>2. i \in MembersIn(f, gs[k].at) <=>
              \/ i \in MembersIn(doc, gs[k].at)
              \/ /\ i = n /\ e.k \in {"start", "empty"} /\ e.n = "entry" /\ TopIs(open, "devices")
                 /\ OpenAt(doc, gs[k].at, n) /\ Len(open) = DepthIn(doc, gs[k].at) + 2
      BY <3>1, MembersGrow
    <3>3. ~OpenAt(doc, gs[k].at, n)
      BY <1>1, <1>2, <2>1 DEF LastOpen
    <3> QED
      BY <1>1, <3>2, <3>3, Zenon DEF MembersOK
  <2>2. ASSUME NEW i
        PROVE  i \in Elems(ms) <=> i \in MembersIn(f, gs[z].at)
    <3>1. gs[z].at \in 1..Len(doc)
      BY <1>1, <1>3
    <3>2. i \in MembersIn(f, gs[z].at) <=>
              \/ i \in MembersIn(doc, gs[z].at)
              \/ /\ i = n /\ e.k \in {"start", "empty"} /\ e.n = "entry" /\ TopIs(open, "devices")
                 /\ OpenAt(doc, gs[z].at, n) /\ Len(open) = DepthIn(doc, gs[z].at) + 2
      BY <3>1, MembersGrow
    <3>3. i \in Elems(ms) <=> i \in Elems(gs[z].members) \/ i = n
      BY <1>4
    <3> QED
      BY <1>1, <1>3, <1>10, <3>2, <3>3, Zenon DEF MembersOK
  <2>3. ASSUME NEW k \in DOMAIN hs, NEW i
        PROVE  i \in Elems(hs[k].members) <=> i \in MembersIn(f, hs[k].at)
    BY <1>7, <1>8, <2>1, <2>2
  <2> QED
    BY <2>3, Zenon DEF MembersOK
<1>12. LastOpen(f, Stack(open, e), hs)
  <2>1. ASSUME NEW k \in DOMAIN gs, OpenAt(f, gs[k].at, n + 1)
        PROVE  /\ k = Len(gs)
               /\ DepthIn(f, gs[k].at) \in 1..Len(Stack(open, e))
               /\ Stack(open, e)[DepthIn(f, gs[k].at)] = "dg"
    <3>1. gs[k].at \in 1..Len(doc) /\ LastOpen(doc, open, gs)
      BY <1>1
    <3> QED
      BY <2>1, <3>1, LastOpenKept
  <2> QED
    BY <1>2, <1>7, <1>8, <2>1 DEF LastOpen
<1>13. \A k \in DOMAIN hs : hs[k].at \in 1..Len(f)
  BY <1>1, <1>2, <1>7, <1>8
<1> QED
  BY <1>7, <1>9, <1>11, <1>12, <1>13, Zenon DEF GroupsOK, V

\* One step of parse_grouped_entries.
LEMMA GroupReads ==
    ASSUME NEW e, NEW f, NEW n, Reads(e, f, n), StackOK(f, Stack(open, e)),
           group \in GroupRecord, group.res = "run", GroupsOK(doc, open, group.groups),
           NEW S, Within(S, "dg"), NestOK(open, S, "dg")
    PROVE  /\ GroupStep(group, e, n).res \in {"run", "ok", "err"}
           /\ GroupStep(group, e, n).res = "ok" => e.k = "eof"
           /\ GroupStep(group, e, n).res # "err" =>
                  GroupsOK(f, Stack(open, e), GroupStep(group, e, n).groups)
<1> DEFINE gs == group.groups
           r == GroupStep(group, e, n)
           z == Len(gs)
<1>1. /\ gs \in Seq([at : Nat, members : Seq(Nat)]) /\ z \in Nat
      /\ \A k \in DOMAIN gs : gs[k].at \in 1..Len(doc)
      /\ AtsOK(doc, gs) /\ MembersOK(doc, gs) /\ LastOpen(doc, open, gs)
  <2>1. gs \in Seq([at : Nat, members : Seq(Nat)])
    BY DEF GroupsOK
  <2> QED
    BY <2>1 DEF GroupsOK
<1>2. open \in Seq(Names) /\ n = Len(doc) + 1 /\ Len(open) \in Nat
  BY DEF Reads, StackOK, Longer, Opened
<1>3. e.k \in {"start", "empty", "end", "eof", "text", "bad", "doctype"}
  BY DEF Reads, Fits, Events, Kinds
<1>4. "run" # "ok" /\ "err" # "ok" /\ "err" # "run"
  OBVIOUS
<1>5. ASSUME ~(e.k \in {"start", "empty"} /\ e.n = "entry") PROVE GroupsOK(f, Stack(open, e), gs)
  BY <1>5, GroupsSame
<1>6. CASE e.k \in {"end", "text", "eof"} \/ (e.k \in {"start", "empty"} /\ e.n # "entry")
  <2>1. r = group \/ (e.k = "eof" /\ r = [group EXCEPT !.res = "ok"])
    BY <1>6 DEF GroupStep
  <2>2. r.groups = gs /\ (r.res = "run" \/ (e.k = "eof" /\ r.res = "ok"))
    BY <2>1 DEF GroupRecord
  <2> QED
    BY <1>4, <1>5, <1>6, <2>2
<1>7. CASE e.k \in {"bad", "doctype"}
  <2>1. r = [group EXCEPT !.res = "err"]
    BY <1>7 DEF GroupStep
  <2>2. r.res = "err"
    BY <2>1 DEF GroupRecord
  <2> QED
    BY <1>4, <2>2
<1>8. CASE e.k \in {"start", "empty"} /\ e.n = "entry"
  <2>1. r = RecordOpen(group, n)
    BY <1>8 DEF GroupStep
  <2>2. /\ EndsWith(<<"dg">>) <=> TopIs(open, "dg")
        /\ EndsWith(<<"dg", "entry", "devices">>) <=>
               /\ Len(open) >= 3 /\ open[Len(open) - 2] = "dg"
               /\ open[Len(open) - 1] = "entry" /\ open[Len(open)] = "devices"
    BY <1>2, EndsIs
  <2>3. ASSUME r = [group EXCEPT !.res = "err"] PROVE r.res = "err"
    BY <2>3 DEF GroupRecord
  <2>4. CASE EndsWith(<<"dg">>) /\ z < MaxList
    <3>1. r = [group EXCEPT !.groups = Append(gs, [at |-> n, members |-> <<>>])]
      BY <1>1, <2>1, <2>4, ReaderAssumption DEF RecordOpen
    <3>2. r.groups = Append(gs, [at |-> n, members |-> <<>>]) /\ r.res = "run"
      BY <3>1 DEF GroupRecord
    <3>3. GroupsOK(f, Stack(open, e), Append(gs, [at |-> n, members |-> <<>>]))
      BY <1>8, <2>2, <2>4, GroupBegins
    <3> QED
      BY <1>4, <3>2, <3>3
  <2>5. CASE EndsWith(<<"dg">>) /\ ~(z < MaxList)
    <3>1. r = [group EXCEPT !.res = "err"]
      BY <1>1, <2>1, <2>5, ReaderAssumption DEF RecordOpen
    <3> QED
      BY <1>4, <2>3, <3>1
  <2>6. CASE ~EndsWith(<<"dg">>) /\ EndsWith(<<"dg", "entry", "devices">>) /\ z > 0
    <3>1. CASE Len(gs[z].members) >= MaxList
      <4>1. r = [group EXCEPT !.res = "err"]
        BY <2>1, <2>6, <3>1 DEF RecordOpen
      <4> QED
        BY <1>4, <2>3, <4>1
    <3>2. CASE ~(Len(gs[z].members) >= MaxList)
      <4>1. r = [group EXCEPT !.groups[z].members = Append(gs[z].members, n)]
        BY <2>1, <2>6, <3>2 DEF RecordOpen
      <4> DEFINE hs == [gs EXCEPT ![z].members = Append(gs[z].members, n)]
      <4>2. r.groups = hs /\ r.res = "run"
        BY <4>1 DEF GroupRecord
      <4>3. TopIs(open, "devices")
        <5>1. open # <<>>
          BY <1>2, <2>2, <2>6
        <5> QED
          BY <2>2, <2>6, <5>1 DEF TopIs
      <4>4. GroupsOK(f, Stack(open, e), hs)
        BY <1>8, <2>2, <2>6, <4>3, MemberJoins
      <4> QED
        BY <1>4, <4>2, <4>4
    <3> QED
      BY <3>1, <3>2
  <2>7. CASE ~EndsWith(<<"dg">>) /\ ~(EndsWith(<<"dg", "entry", "devices">>) /\ z > 0)
    <3>1. r = group
      BY <2>1, <2>7 DEF RecordOpen
    <3>2. ASSUME NEW k \in DOMAIN gs, TopIs(open, "devices"), OpenAt(doc, gs[k].at, n),
                 Len(open) = DepthIn(doc, gs[k].at) + 2
          PROVE  FALSE
      <4> DEFINE g == gs[k].at
      <4>1. /\ g \in 1..Len(doc) /\ EntryIn(doc, g, "dg")
            /\ DepthIn(doc, g) \in 1..Len(open) /\ open[DepthIn(doc, g)] = "dg"
        <5>1. g \in Elems([kk \in DOMAIN gs |-> gs[kk].at])
          BY DEF Elems
        <5>2. g \in 1..Len(doc) /\ EntryIn(doc, g, "dg")
          BY <1>1, <5>1 DEF AtsOK
        <5> QED
          BY <1>1, <1>2, <3>2, <5>2 DEF LastOpen
      <4>2. Len(open) >= 3 /\ DepthIn(doc, g) = Len(open) - 2 /\ DepthIn(doc, g) + 1 = Len(open) - 1
        BY <1>2, <3>2, <4>1
      <4>3. open[Len(open) - 1] = "entry"
        <5>1. doc[g].n = open[DepthIn(doc, g) + 1]
          BY <1>2, <3>2, <4>1 DEF Reads, StackOK
        <5> QED
          BY <4>1, <4>2, <5>1 DEF EntryIn
      <4>4. z > 0
        BY <1>1
      <4> QED
        BY <2>2, <2>7, <3>2, <4>1, <4>2, <4>3, <4>4 DEF TopIs
    <3>3. GroupsOK(f, Stack(open, e), gs)
      BY <2>2, <2>7, <3>2, GroupsSame
    <3> QED
      BY <1>4, <3>1, <3>3
  <2> QED
    BY <1>1, <2>4, <2>5, <2>6, <2>7, ReaderAssumption
<1> QED
  BY <1>3, <1>6, <1>7, <1>8

-----------------------------------------------------------------------------
(* list_child_entries. *)

ListRecord == [pend : Nat, at : Nat, entries : Seq(Pairs), res : {"run", "ok", "err"}]

\* The entries that are direct children of a devices element, and the outermost of them.
DeviceAt(d, i) == EntryIn(d, i, "devices")
OutermostAt(d, i) ==
    DeviceAt(d, i) /\ \A a \in 1..(i - 1) : ~(DeviceAt(d, a) /\ OpenAt(d, a, i))
Outermost(d) == {i \in 1..Len(d) : OutermostAt(d, i)}

\* at is the depth of the open outermost one, pend; 0 without one.
ListPending(d, r) ==
    /\ r.at = 0 => \A a \in 1..Len(d) : ~(DeviceAt(d, a) /\ OpenAt(d, a, Len(d) + 1))
    /\ r.at # 0 => /\ r.pend \in 1..Len(d) /\ OutermostAt(d, r.pend)
                   /\ OpenAt(d, r.pend, Len(d) + 1) /\ DepthIn(d, r.pend) + 1 = r.at

ListOK(d, r) ==
    /\ \A p : p \in Elems(r.entries) <=> p \in ClosedOf(d, Outermost(d))
    /\ ListPending(d, r)

\* The outermost ones after one more event.
LEMMA OutermostGrows ==
    ASSUME NEW e, NEW f, NEW n, Reads(e, f, n)
    PROVE  /\ \A a \in 1..Len(doc) : DeviceAt(f, a) <=> DeviceAt(doc, a)
           /\ \A a \in 1..Len(doc) : OutermostAt(f, a) <=> OutermostAt(doc, a)
           /\ DeviceAt(f, n) <=> e.k \in {"start", "empty"} /\ e.n = "entry" /\ TopIs(open, "devices")
           /\ OutermostAt(f, n) <=>
                  /\ DeviceAt(f, n)
                  /\ \A a \in 1..Len(doc) : ~(DeviceAt(doc, a) /\ OpenAt(doc, a, n))
<1>1. Longer(doc, e, f, n)
  BY DEF Reads
<1>2. /\ 1..n = (1..Len(doc)) \cup {n} /\ n = Len(doc) + 1 /\ Len(doc) \in Nat
      /\ n - 1 = Len(doc)
      /\ \A i \in 1..n, a \in 1..n : OpenAt(f, a, i) <=> OpenAt(doc, a, i)
  BY <1>1 DEF Longer
<1>3. ASSUME NEW a \in 1..Len(doc) PROVE DeviceAt(f, a) <=> DeviceAt(doc, a)
  BY <1>1, EntryInSame DEF DeviceAt
<1>4. ASSUME NEW a \in 1..Len(doc) PROVE OutermostAt(f, a) <=> OutermostAt(doc, a)
  <2>1. ASSUME NEW b \in 1..(a - 1)
        PROVE  DeviceAt(f, b) /\ OpenAt(f, b, a) <=> DeviceAt(doc, b) /\ OpenAt(doc, b, a)
    <3>1. b \in 1..Len(doc) /\ b \in 1..n /\ a \in 1..n
      BY <1>2
    <3>2. DeviceAt(f, b) <=> DeviceAt(doc, b)
      BY <1>3, <3>1
    <3>3. OpenAt(f, b, a) <=> OpenAt(doc, b, a)
      BY <1>2, <3>1
    <3> QED
      BY <3>2, <3>3
  <2>2. DeviceAt(f, a) <=> DeviceAt(doc, a)
    BY <1>3
  <2> QED
    BY <2>1, <2>2, Zenon DEF OutermostAt
<1>5. DeviceAt(f, n) <=> e.k \in {"start", "empty"} /\ e.n = "entry" /\ TopIs(open, "devices")
  BY EntryInNew DEF DeviceAt
<1>6. \A a \in 1..Len(doc) : OpenAt(f, a, n) <=> OpenAt(doc, a, n)
  BY <1>2
<1>7. OutermostAt(f, n) <=>
          /\ DeviceAt(f, n)
          /\ \A a \in 1..Len(doc) : ~(DeviceAt(doc, a) /\ OpenAt(doc, a, n))
  BY <1>2, <1>3, <1>6, Zenon DEF OutermostAt
<1> QED
  BY <1>3, <1>4, <1>5, <1>7

\* The same of the set.
LEMMA OutermostSet ==
    ASSUME NEW e, NEW f, NEW n, Reads(e, f, n)
    PROVE  /\ \A i \in 1..Len(doc) : i \in Outermost(f) <=> i \in Outermost(doc)
           /\ \A i \in 1..n : i \in Outermost(f) <=> OutermostAt(f, i)
<1>1. Len(f) = n /\ 1..n = (1..Len(doc)) \cup {n}
  BY DEF Reads, Longer
<1>2. \A a \in 1..Len(doc) : OutermostAt(f, a) <=> OutermostAt(doc, a)
  BY OutermostGrows
<1>3. \A i \in 1..n : i \in Outermost(f) <=> OutermostAt(f, i)
  BY <1>1 DEF Outermost
<1>4. \A i \in 1..Len(doc) : i \in Outermost(doc) <=> OutermostAt(doc, i)
  BY DEF Outermost
<1> QED
  BY <1>1, <1>2, <1>3, <1>4, Zenon

\* An event that completes no outermost entry.
LEMMA ListSame ==
    ASSUME NEW e, NEW f, NEW n, Reads(e, f, n), NEW r, ListOK(doc, r),
           \A i \in 1..n : ~(OutermostAt(f, i) /\ ClosesAt(f, i, n)),
           NEW t, t.entries = r.entries, ListPending(f, t)
    PROVE  ListOK(f, t)
<1>1. Longer(doc, e, f, n)
  BY DEF Reads
<1>2. /\ \A i \in 1..Len(doc) : i \in Outermost(f) <=> i \in Outermost(doc)
      /\ \A i \in 1..n : i \in Outermost(f) <=> OutermostAt(f, i)
  BY OutermostSet
<1>3. \A i \in 1..n : ~(i \in Outermost(f) /\ ClosesAt(f, i, n))
  BY <1>2
<1>4. ClosedOf(f, Outermost(f)) = ClosedOf(doc, Outermost(doc))
  BY <1>1, <1>2, <1>3, ClosedSame
<1> QED
  BY <1>4, Zenon DEF ListOK

\* The closed outermost entries after an event that closes i.
LEMMA OutermostOne ==
    ASSUME NEW e, NEW f, NEW n, Reads(e, f, n), NEW i \in 1..n, OutermostAt(f, i),
           \A j \in 1..n : ClosesAt(f, j, n) <=> j = i
    PROVE  ClosedOf(f, Outermost(f)) = ClosedOf(doc, Outermost(doc)) \cup {<<i, n>>}
<1>1. Longer(doc, e, f, n)
  BY DEF Reads
<1>2. /\ \A j \in 1..Len(doc) : j \in Outermost(f) <=> j \in Outermost(doc)
      /\ i \in Outermost(f)
  BY OutermostSet
<1>3. ASSUME NEW T, NEW U, \A j \in 1..Len(doc) : j \in U <=> j \in T, i \in U
      PROVE  ClosedOf(f, U) = ClosedOf(doc, T) \cup {<<i, n>>}
  BY <1>1, <1>3, ClosedOne
<1> QED
  BY <1>2, <1>3

\* An event that completes the outermost entry i.
LEMMA ListOne ==
    ASSUME NEW e, NEW f, NEW n, Reads(e, f, n), NEW r \in ListRecord, ListOK(doc, r),
           NEW i \in 1..n, OutermostAt(f, i), \A j \in 1..n : ClosesAt(f, j, n) <=> j = i,
           NEW t, t.entries = Append(r.entries, <<i, n>>), ListPending(f, t)
    PROVE  ListOK(f, t) /\ t.entries \in Seq(Pairs)
<1>1. Longer(doc, e, f, n) /\ n \in Nat
  BY DEF Reads, Longer
<1>2. /\ \A j \in 1..Len(doc) : j \in Outermost(f) <=> j \in Outermost(doc)
      /\ i \in Outermost(f)
  BY OutermostSet
<1>3. ClosedOf(f, Outermost(f)) = ClosedOf(doc, Outermost(doc)) \cup {<<i, n>>}
  BY OutermostOne
<1>4. PICK p : p = <<i, n>>
  OBVIOUS
<1>5. p \in Pairs /\ r.entries \in Seq(Pairs)
  BY <1>1, <1>4 DEF Pairs, ListRecord
<1>6. \A q : q \in Elems(Append(r.entries, p)) <=> q \in Elems(r.entries) \/ q = p
  BY <1>5, ElemsAppend
<1>7. ASSUME NEW q PROVE q \in ClosedOf(f, Outermost(f)) <=> q \in ClosedOf(doc, Outermost(doc)) \/ q = p
  BY <1>3, <1>4
<1>8. \A q : q \in Elems(t.entries) <=> q \in ClosedOf(f, Outermost(f))
  BY <1>4, <1>6, <1>7, Zenon DEF ListOK
<1>9. t.entries \in Seq(Pairs)
  BY <1>4, <1>5
<1> QED
  BY <1>8, <1>9 DEF ListOK

\* An event that leaves the open entry open, or opens none when none is.
LEMMA ListPendingKept ==
    ASSUME NEW e, NEW f, NEW n, Reads(e, f, n), NEW r, ListPending(doc, r),
           r.at = 0 => ~(e.k = "start" /\ e.n = "entry" /\ TopIs(open, "devices")),
           r.at # 0 => ~(e.k = "end" /\ r.at = Len(open))
    PROVE  ListPending(f, r)
<1>1. Longer(doc, e, f, n) /\ Opened(doc, e, f, n, open)
  BY DEF Reads
<1>2. /\ Len(f) = n /\ n = Len(doc) + 1 /\ 1..n = (1..Len(doc)) \cup {n} /\ n \notin 1..Len(doc)
      /\ Len(open) \in Nat
      /\ \A a \in 1..n : DepthIn(f, a) = DepthIn(doc, a)
  BY <1>1 DEF Longer, Opened
<1>3. \A a \in 1..n :
          OpenAt(f, a, n + 1) <=>
              \/ a = n /\ e.k = "start"
              \/ /\ a \in 1..Len(doc) /\ OpenAt(doc, a, n)
                 /\ ~(e.k = "end" /\ Len(open) = DepthIn(doc, a) + 1)
  BY <1>1 DEF Opened
<1>4. /\ \A a \in 1..Len(doc) : DeviceAt(f, a) <=> DeviceAt(doc, a)
      /\ \A a \in 1..Len(doc) : OutermostAt(f, a) <=> OutermostAt(doc, a)
      /\ DeviceAt(f, n) <=> e.k \in {"start", "empty"} /\ e.n = "entry" /\ TopIs(open, "devices")
  BY OutermostGrows
<1>5. CASE r.at = 0
  <2>1. \A a \in 1..Len(doc) : ~(DeviceAt(doc, a) /\ OpenAt(doc, a, n))
    BY <1>2, <1>5 DEF ListPending
  <2>2. ASSUME NEW a \in 1..n, DeviceAt(f, a), OpenAt(f, a, n + 1) PROVE FALSE
    <3>1. CASE a = n
      <4>1. e.k = "start"
        BY <1>2, <1>3, <2>2, <3>1
      <4> QED
        BY <1>4, <1>5, <2>2, <3>1, <4>1
    <3>2. CASE a \in 1..Len(doc)
      BY <1>2, <1>3, <1>4, <2>1, <2>2, <3>2
    <3> QED
      BY <1>2, <3>1, <3>2
  <2> QED
    BY <1>2, <1>5, <2>2 DEF ListPending
<1>6. CASE r.at # 0
  <2>1. /\ r.pend \in 1..Len(doc) /\ OutermostAt(doc, r.pend)
        /\ OpenAt(doc, r.pend, n) /\ DepthIn(doc, r.pend) + 1 = r.at
    BY <1>2, <1>6 DEF ListPending
  <2>2. r.pend \in 1..n /\ DepthIn(f, r.pend) + 1 = r.at
    BY <1>2, <2>1
  <2>3. OpenAt(f, r.pend, n + 1)
    BY <1>3, <1>6, <2>1, <2>2
  <2>4. OutermostAt(f, r.pend)
    BY <1>4, <2>1
  <2> QED
    BY <1>2, <1>6, <2>2, <2>3, <2>4 DEF ListPending
<1> QED
  BY <1>5, <1>6

\* What an event other than an end closes.
LEMMA ClosesOwn ==
    ASSUME NEW e, NEW f, NEW n, Reads(e, f, n), e.k # "end", NEW i \in 1..n
    PROVE  ClosesAt(f, i, n) <=> i = n /\ e.k = "empty"
<1>1. Longer(doc, e, f, n) /\ Opened(doc, e, f, n, open)
  BY DEF Reads
<1>2. ClosesAt(f, i, n) <=>
          \/ i = n /\ e.k = "empty"
          \/ i \in 1..Len(doc) /\ OpenAt(doc, i, n) /\ e.k = "end" /\ Len(open) = DepthIn(doc, i) + 1
  BY <1>1, ClosesNew
<1> QED
  BY <1>2

\* A start or an element without content.
LEMMA ListReadsOpening ==
    ASSUME NEW e, NEW f, NEW n, Reads(e, f, n), list \in ListRecord, list.res = "run",
           ListOK(doc, list), e.k \in {"start", "empty"}
    PROVE  /\ ListStep(list, e, n) \in ListRecord
           /\ ListStep(list, e, n).res \in {"run", "err"}
           /\ ListStep(list, e, n).res # "err" => ListOK(f, ListStep(list, e, n))
<1> DEFINE r == ListStep(list, e, n)
           listed == list.at = 0 /\ e.n = "entry" /\ TopIs(open, "devices")
           full == Len(list.entries) >= MaxList
<1>1. ListPending(doc, list)
  BY DEF ListOK
<1>2. Longer(doc, e, f, n) /\ Opened(doc, e, f, n, open) /\ open \in Seq(Names)
  BY DEF Reads, StackOK
<1>3. /\ Len(f) = n /\ n = Len(doc) + 1 /\ 1..n = (1..Len(doc)) \cup {n} /\ n \notin 1..Len(doc)
      /\ n \in Nat /\ n \in 1..n /\ Len(open) \in Nat /\ Len(doc) \in Nat
      /\ DepthIn(f, n) = Len(open)
  BY <1>2 DEF Longer, Opened
<1>4. EndsWith(<<"devices">>) <=> TopIs(open, "devices")
  BY <1>2, EndsIs
<1>5. /\ \A a \in 1..Len(doc) : OutermostAt(f, a) <=> OutermostAt(doc, a)
      /\ DeviceAt(f, n) <=> e.k \in {"start", "empty"} /\ e.n = "entry" /\ TopIs(open, "devices")
      /\ OutermostAt(f, n) <=>
             /\ DeviceAt(f, n)
             /\ \A a \in 1..Len(doc) : ~(DeviceAt(doc, a) /\ OpenAt(doc, a, n))
  BY OutermostGrows
<1>6. \A i \in 1..n : ClosesAt(f, i, n) <=> i = n /\ e.k = "empty"
  BY ClosesOwn
<1>7. listed => OutermostAt(f, n)
  <2>1. SUFFICES ASSUME listed PROVE OutermostAt(f, n)
    OBVIOUS
  <2>2. \A a \in 1..Len(doc) : ~(DeviceAt(doc, a) /\ OpenAt(doc, a, n))
    BY <1>1, <1>3, <2>1 DEF ListPending
  <2> QED
    BY <1>5, <2>1, <2>2
<1>8. ~listed => ~OutermostAt(f, n)
  <2>1. SUFFICES ASSUME ~listed, DeviceAt(f, n) PROVE ~OutermostAt(f, n)
    BY <1>5
  <2>2. list.at # 0
    BY <1>5, <2>1
  <2>3. list.pend \in 1..Len(doc) /\ DeviceAt(doc, list.pend) /\ OpenAt(doc, list.pend, n)
    BY <1>1, <1>3, <2>2 DEF ListPending, OutermostAt
  <2> QED
    BY <1>5, <2>3
<1>9. "run" # "err" /\ "start" # "empty" /\ "start" # "end" /\ "empty" # "end"
  OBVIOUS
<1>10. CASE listed /\ full
  <2>1. r = [list EXCEPT !.res = "err"]
    BY <1>4, <1>10 DEF ListStep
  <2>2. r \in ListRecord /\ r.res = "err"
    BY <2>1 DEF ListRecord
  <2> QED
    BY <2>2
<1>11. CASE listed /\ ~full /\ e.k = "start"
  <2>1. r = [list EXCEPT !.pend = n, !.at = Len(open) + 1]
    BY <1>4, <1>11 DEF ListStep
  <2>2. /\ r \in ListRecord /\ r.res = "run" /\ r.pend = n /\ r.at = Len(open) + 1 /\ r.at # 0
        /\ r.entries = list.entries
    <3> DEFINE k == Len(open) + 1
    <3>1. k \in Nat /\ k # 0
      BY <1>3
    <3>2. r = [list EXCEPT !.pend = n, !.at = k]
      BY <2>1
    <3> HIDE DEF k, r
    <3>3. /\ r \in ListRecord /\ r.res = "run" /\ r.pend = n /\ r.at = k
          /\ r.entries = list.entries
      BY <1>3, <3>1, <3>2 DEF ListRecord
    <3> QED
      BY <3>1, <3>3 DEF k
  <2> HIDE DEF r
  <2>3. OpenAt(f, n, n + 1)
    BY <1>2, <1>3, <1>11 DEF Opened
  <2>4. ListPending(f, r)
    BY <1>3, <1>7, <1>11, <2>2, <2>3 DEF ListPending
  <2>5. \A i \in 1..n : ~(OutermostAt(f, i) /\ ClosesAt(f, i, n))
    BY <1>6, <1>9, <1>11
  <2>6. ListOK(f, r)
    BY <2>2, <2>4, <2>5, ListSame
  <2> QED
    BY <2>2, <2>6 DEF r
<1>12. CASE listed /\ ~full /\ e.k = "empty"
  <2>1. r = [list EXCEPT !.entries = Append(list.entries, <<n, n>>)]
    BY <1>4, <1>9, <1>12 DEF ListStep
  <2> DEFINE es == Append(list.entries, <<n, n>>)
  <2>2. es \in Seq(Pairs)
    <3>1. <<n, n>> \in Pairs /\ list.entries \in Seq(Pairs)
      BY <1>3 DEF Pairs, ListRecord
    <3> QED
      BY <3>1
  <2>3. r = [list EXCEPT !.entries = es]
    BY <2>1
  <2> HIDE DEF es, r
  <2>4. /\ r \in ListRecord /\ r.res = "run" /\ r.pend = list.pend /\ r.at = list.at
        /\ r.entries = es
    BY <2>2, <2>3 DEF ListRecord
  <2>5. ListPending(f, list)
    BY <1>1, <1>9, <1>12, ListPendingKept
  <2>6. ListPending(f, r)
    BY <2>4, <2>5 DEF ListPending
  <2>7. \A j \in 1..n : ClosesAt(f, j, n) <=> j = n
    BY <1>6, <1>12
  <2>8. ListOK(f, r)
    BY <1>3, <1>7, <1>12, <2>4, <2>6, <2>7, ListOne DEF es
  <2> QED
    BY <2>4, <2>8 DEF r
<1>13. CASE ~listed
  <2>1. r = list
    BY <1>4, <1>9, <1>13 DEF ListStep
  <2>2. ListPending(f, list)
    BY <1>1, <1>9, <1>13, ListPendingKept
  <2>3. \A i \in 1..n : ~(OutermostAt(f, i) /\ ClosesAt(f, i, n))
    BY <1>6, <1>8, <1>13
  <2>4. ListOK(f, list)
    BY <2>2, <2>3, ListSame
  <2> QED
    BY <2>1, <2>4
<1> QED
  BY <1>10, <1>11, <1>12, <1>13

\* An end tag completes the open entry when it is its own.
LEMMA ListReadsEnd ==
    ASSUME NEW e, NEW f, NEW n, Reads(e, f, n), list \in ListRecord, list.res = "run",
           ListOK(doc, list), e.k = "end"
    PROVE  /\ ListStep(list, e, n) \in ListRecord
           /\ ListStep(list, e, n).res = "run" /\ ListOK(f, ListStep(list, e, n))
<1> DEFINE r == ListStep(list, e, n)
<1>1. ListPending(doc, list)
  BY DEF ListOK
<1>2. StackOK(doc, open) /\ Longer(doc, e, f, n) /\ Opened(doc, e, f, n, open)
  BY DEF Reads
<1>3. /\ Len(f) = n /\ n = Len(doc) + 1 /\ 1..n = (1..Len(doc)) \cup {n} /\ n \notin 1..Len(doc)
      /\ n \in Nat /\ n \in 1..n /\ Len(open) \in Nat /\ Len(doc) \in Nat
  BY <1>2 DEF Longer, Opened
<1>4. PICK a \in 1..Len(doc) :
          /\ OpenAt(doc, a, n) /\ DepthIn(doc, a) + 1 = Len(open) /\ doc[a].n = e.n
          /\ \A i \in 1..n : ClosesAt(f, i, n) <=> i = a
  BY Innermost
<1>5. /\ \A i \in 1..Len(doc) : OutermostAt(f, i) <=> OutermostAt(doc, i)
      /\ \A i \in 1..Len(doc) : DeviceAt(f, i) <=> DeviceAt(doc, i)
      /\ DeviceAt(f, n) <=> e.k \in {"start", "empty"} /\ e.n = "entry" /\ TopIs(open, "devices")
  BY OutermostGrows
<1>6. \A b \in 1..n : OpenAt(f, b, n + 1) <=>
          b \in 1..Len(doc) /\ OpenAt(doc, b, n) /\ Len(open) # DepthIn(doc, b) + 1
  BY <1>2 DEF Opened
<1>7. \A b \in 1..Len(doc) : DepthIn(doc, b) \in Nat /\ (OpenAt(doc, b, n) => DepthIn(doc, b) < Len(open))
  BY <1>2, <1>3 DEF StackOK
<1>8. list.at # 0 =>
         /\ list.pend \in 1..Len(doc) /\ OutermostAt(doc, list.pend) /\ DeviceAt(doc, list.pend)
         /\ OpenAt(doc, list.pend, n) /\ DepthIn(doc, list.pend) + 1 = list.at
  BY <1>1, <1>3 DEF ListPending, OutermostAt
<1>9. ASSUME NEW b \in 1..Len(doc), OpenAt(doc, b, n), DepthIn(doc, b) = DepthIn(doc, a) PROVE b = a
  <2>1. b <= a /\ a <= b
    BY <1>2, <1>3, <1>4, <1>7, <1>9 DEF StackOK
  <2> QED
    BY <2>1
<1>10. CASE list.at = Len(open)
  <2>1. r = [list EXCEPT !.entries = Append(list.entries, <<list.pend, n>>), !.at = 0]
    BY <1>10 DEF ListStep
  <2>2. list.at # 0 /\ list.pend = a
    <3>1. list.at # 0
      BY <1>4, <1>7, <1>10
    <3>2. DepthIn(doc, list.pend) = DepthIn(doc, a)
      BY <1>4, <1>7, <1>8, <1>10, <3>1
    <3> QED
      BY <1>8, <1>9, <3>1, <3>2
  <2> DEFINE es == Append(list.entries, <<a, n>>)
  <2>3. es \in Seq(Pairs)
    <3>1. <<a, n>> \in Pairs /\ list.entries \in Seq(Pairs)
      BY <1>3 DEF Pairs, ListRecord
    <3> QED
      BY <3>1
  <2>4. r = [list EXCEPT !.entries = es, !.at = 0]
    BY <2>1, <2>2
  <2> HIDE DEF es, r
  <2>5. /\ r \in ListRecord /\ r.res = "run" /\ r.at = 0 /\ r.entries = es
    BY <2>3, <2>4 DEF ListRecord
  <2>6. ListPending(f, r)
    <3>1. ASSUME NEW b \in 1..n, DeviceAt(f, b), OpenAt(f, b, n + 1) PROVE FALSE
      <4>1. b \in 1..Len(doc) /\ OpenAt(doc, b, n) /\ Len(open) # DepthIn(doc, b) + 1
        BY <1>6, <3>1
      <4>2. DeviceAt(doc, b)
        BY <1>5, <3>1, <4>1
      <4>3. DepthIn(doc, b) < DepthIn(doc, a)
        BY <1>3, <1>4, <1>7, <4>1
      <4>4. b \in 1..(a - 1) /\ OpenAt(doc, b, a)
        BY <1>2, <1>3, <1>4, <4>1, <4>3, OuterIsAround
      <4> QED
        BY <1>8, <2>2, <4>2, <4>4 DEF OutermostAt
    <3> QED
      BY <1>3, <2>5, <3>1 DEF ListPending
  <2>7. a \in 1..n /\ OutermostAt(f, a)
    BY <1>3, <1>5, <1>8, <2>2
  <2>8. ListOK(f, r)
    BY <1>4, <2>5, <2>6, <2>7, ListOne DEF es
  <2> QED
    BY <2>5, <2>8 DEF r
<1>11. CASE list.at # Len(open)
  <2>1. r = list
    BY <1>11 DEF ListStep
  <2>2. ListPending(f, list)
    BY <1>1, <1>11, ListPendingKept
  <2>3. ~OutermostAt(doc, a)
    <3>1. CASE list.at = 0
      BY <1>1, <1>3, <1>4, <3>1 DEF ListPending, OutermostAt
    <3>2. CASE list.at # 0
      <4>1. DepthIn(doc, list.pend) < DepthIn(doc, a)
        BY <1>3, <1>4, <1>7, <1>8, <1>11, <3>2
      <4>2. list.pend \in 1..(a - 1) /\ OpenAt(doc, list.pend, a)
        BY <1>2, <1>3, <1>4, <1>8, <3>2, <4>1, OuterIsAround
      <4> QED
        BY <1>8, <3>2, <4>2 DEF OutermostAt
    <3> QED
      BY <3>1, <3>2
  <2>4. \A i \in 1..n : ~(OutermostAt(f, i) /\ ClosesAt(f, i, n))
    BY <1>4, <1>5, <2>3
  <2>5. ListOK(f, list)
    BY <2>2, <2>4, ListSame
  <2> QED
    BY <2>1, <2>5
<1> QED
  BY <1>10, <1>11

\* One step of list_child_entries.
LEMMA ListReads ==
    ASSUME NEW e, NEW f, NEW n, Reads(e, f, n), list \in ListRecord, list.res = "run",
           ListOK(doc, list)
    PROVE  /\ ListStep(list, e, n) \in ListRecord
           /\ ListStep(list, e, n).res = "ok" => e.k = "eof"
           /\ ListStep(list, e, n).res # "err" => ListOK(f, ListStep(list, e, n))
<1> DEFINE r == ListStep(list, e, n)
<1>1. e.k \in {"start", "empty", "end", "eof", "text", "bad", "doctype"}
  BY DEF Reads, Fits, Events, Kinds
<1>2. "run" # "ok" /\ "err" # "ok" /\ "err" # "run"
  OBVIOUS
<1>3. CASE e.k \in {"start", "empty"}
  BY <1>2, <1>3, ListReadsOpening
<1>4. CASE e.k = "end"
  BY <1>2, <1>4, ListReadsEnd
<1>5. CASE e.k \in {"bad", "doctype"}
  <2>1. r = [list EXCEPT !.res = "err"]
    BY <1>5 DEF ListStep
  <2>2. r \in ListRecord /\ r.res = "err"
    BY <2>1 DEF ListRecord
  <2> QED
    BY <1>2, <2>2
<1>6. CASE e.k \in {"text", "eof"}
  <2>1. r = list \/ (e.k = "eof" /\ r = [list EXCEPT !.res = "ok"])
    BY <1>6 DEF ListStep
  <2>2. /\ r \in ListRecord /\ r.pend = list.pend /\ r.at = list.at /\ r.entries = list.entries
        /\ r.res = "run" \/ (e.k = "eof" /\ r.res = "ok")
    BY <2>1 DEF ListRecord
  <2> HIDE DEF r
  <2>3. ListPending(f, list)
    BY <1>6, ListPendingKept DEF ListOK
  <2>4. ListPending(f, r)
    BY <2>2, <2>3 DEF ListPending
  <2>5. \A i \in 1..n : ~(OutermostAt(f, i) /\ ClosesAt(f, i, n))
    BY <1>6, ClosesOwn
  <2>6. ListOK(f, r)
    BY <2>2, <2>4, <2>5, ListSame
  <2> QED
    BY <1>2, <2>2, <2>6 DEF r
<1> QED
  BY <1>1, <1>3, <1>4, <1>5, <1>6

\* The record a step of parse_grouped_entries leaves.
LEMMA GroupShape ==
    ASSUME group \in GroupRecord, NEW e, NEW n
    PROVE  \E gs, z : GroupStep(group, e, n) = [groups |-> gs, res |-> z]
<1> DEFINE r == GroupStep(group, e, n)
           z == Len(group.groups)
<1>1. \/ r = group
      \/ r = [group EXCEPT !.res = "err"]
      \/ r = [group EXCEPT !.res = "ok"]
      \/ r = [group EXCEPT !.groups = Append(group.groups, [at |-> n, members |-> <<>>])]
      \/ r = [group EXCEPT !.groups[z].members = Append(group.groups[z].members, n)]
  BY DEF GroupStep, RecordOpen
<1>2. ASSUME NEW gs, r = [group EXCEPT !.groups = gs] PROVE r = [groups |-> gs, res |-> group.res]
  <2>1. PICK q : q = group /\ q \in GroupRecord
    OBVIOUS
  <2> QED
    BY <1>2, <2>1 DEF GroupRecord
<1>3. ASSUME NEW x, r = [group EXCEPT !.res = x] PROVE r = [groups |-> group.groups, res |-> x]
  <2>1. PICK q : q = group /\ q \in GroupRecord
    OBVIOUS
  <2> QED
    BY <1>3, <2>1 DEF GroupRecord
<1>4. group = [groups |-> group.groups, res |-> group.res]
  BY DEF GroupRecord
<1>5. CASE r = [group EXCEPT !.groups[z].members = Append(group.groups[z].members, n)]
  <2> DEFINE gs == [group.groups EXCEPT ![z].members = Append(group.groups[z].members, n)]
  <2>1. r = [group EXCEPT !.groups = gs]
    BY <1>5
  <2> HIDE DEF gs, r
  <2>2. r = [groups |-> gs, res |-> group.res]
    BY <1>2, <2>1
  <2> QED
    BY <2>2 DEF r
<1> HIDE DEF r, z
<1>6. \E gs, x : r = [groups |-> gs, res |-> x]
  <2>1. CASE r = group
    BY <1>4, <2>1
  <2>2. CASE r = [group EXCEPT !.res = "err"]
    BY <1>3, <2>2
  <2>3. CASE r = [group EXCEPT !.res = "ok"]
    BY <1>3, <2>3
  <2>4. CASE r = [group EXCEPT !.groups = Append(group.groups, [at |-> n, members |-> <<>>])]
    BY <1>2, <2>4
  <2> QED
    BY <1>1, <1>5, <2>1, <2>2, <2>3, <2>4 DEF r
<1> QED
  BY <1>6 DEF r

\* Both readers; they return without an error only when the stream has ended.
GroupReader ==
    /\ group.res \in {"run", "ok", "err"}
    /\ group.res = "run" => group \in GroupRecord
    /\ group.res # "err" => GroupsOK(doc, open, group.groups)
    /\ group.res = "ok" => redact.res = "ok"
ListReader ==
    /\ list \in ListRecord
    /\ list.res # "err" => ListOK(doc, list)
    /\ list.res = "ok" => redact.res = "ok"
EntryInv(S) == ScanInv /\ NestOK(open, S, "dg") /\ GroupReader /\ ListReader

\* They hold before the first event.
LEMMA EntryStarts == ASSUME NEW S PROVE Init => EntryInv(S)
<1> SUFFICES ASSUME Init PROVE EntryInv(S)
  OBVIOUS
<1>1. Len(doc) = 0 /\ 1..Len(doc) = {} /\ open = <<>>
  BY EmptyStream DEF Init
<1>2. ScanInv
  BY ScanStarts
<1>3. NestOK(open, S, "dg")
  <2>1. 1..Len(open) = {}
    BY <1>1
  <2> QED
    BY <2>1 DEF NestOK
<1>4. group = [groups |-> <<>>, res |-> "run"] /\ list = [pend |-> 0, at |-> 0, entries |-> <<>>, res |-> "run"]
  BY DEF Init
<1>5. "run" # "ok" /\ "run" # "err"
  OBVIOUS
<1>6. GroupReader
  <2>1. group \in GroupRecord /\ group.res = "run" /\ group.groups = <<>>
    BY <1>4 DEF GroupRecord
  <2>2. <<>> \in Seq([at : Nat, members : Seq(Nat)]) /\ DOMAIN <<>> = {}
    OBVIOUS
  <2>3. Elems([k \in DOMAIN <<>> |-> <<>>[k].at]) = {}
    BY <2>2 DEF Elems
  <2>4. AtsOK(doc, <<>>) /\ MembersOK(doc, <<>>) /\ LastOpen(doc, open, <<>>)
    BY <1>1, <2>2, <2>3 DEF AtsOK, MembersOK, LastOpen
  <2>5. GroupsOK(doc, open, <<>>)
    BY <2>2, <2>4 DEF GroupsOK
  <2> QED
    BY <1>5, <2>1, <2>5 DEF GroupReader
<1>7. ListReader
  <2>1. list \in ListRecord /\ list.res = "run" /\ list.at = 0 /\ list.entries = <<>>
    BY <1>4 DEF ListRecord
  <2>2. Elems(list.entries) = {} /\ ClosedOf(doc, Outermost(doc)) = {}
    BY <1>1, <2>1 DEF Elems, ClosedOf
  <2>3. ListOK(doc, list)
    BY <1>1, <2>1, <2>2 DEF ListOK, ListPending
  <2> QED
    BY <1>5, <2>1, <2>3 DEF ListReader
<1> QED
  BY <1>2, <1>3, <1>6, <1>7 DEF EntryInv

\* Every event keeps them.
LEMMA EntryKept ==
    ASSUME NEW S, Within(S, "dg")
    PROVE  EntryInv(S) /\ [Next]_vars => EntryInv(S)'
<1> SUFFICES ASSUME EntryInv(S), [Next]_vars PROVE EntryInv(S)'
  OBVIOUS
<1>0. ScanInv' /\ StackOK(doc, open) /\ ask \in Windows /\ StreamEnds /\ NestOK(open, S, "dg")
  BY ScanKept DEF EntryInv, ScanInv, StreamInv
<1>1. NestOK(open', S, "dg")
  <2>1. open \in Seq(Names)
    BY <1>0 DEF StackOK
  <2> QED
    BY <1>0, <2>1, NestKept
<1>2. CASE UNCHANGED vars
  <2>1. doc' = doc /\ open' = open /\ redact' = redact /\ group' = group /\ list' = list
    BY <1>2 DEF vars
  <2>2. GroupReader' /\ ListReader'
    BY <2>1 DEF EntryInv, GroupReader, ListReader
  <2> QED
    BY <1>0, <1>1, <2>2 DEF EntryInv
<1>3. CASE Next
  <2>1. PICK e \in Events : ReadsOne(e)
    BY <1>0, <1>3, NextReads
  <2>2. PICK n : n = Len(doc) + 1
    OBVIOUS
  <2>3. Reads(e, doc', n) /\ open' = Stack(open, e) /\ StackOK(doc', Stack(open, e))
    BY <1>0, <2>1, <2>2, ReadGrows
  <2>4. /\ redact.res = "run" /\ redact' = RedactStep(redact, e, n)
        /\ group' = IF Running(group) THEN GroupStep(group, e, n) ELSE group
        /\ list' = IF Running(list) THEN ListStep(list, e, n) ELSE list
    BY <2>1, <2>2 DEF ReadsOne, Read
  <2>5. redact'.res = "ok" <=> e.k \in {"bad", "eof"}
    <3>1. n \in Nat /\ Len(open) \in Nat
      BY <2>3 DEF Reads, Longer, Opened
    <3> QED
      BY <1>0, <2>4, <3>1, RedactEnds DEF StreamEnds
  <2>6. "run" # "ok" /\ "err" # "ok" /\ "err" # "run"
    OBVIOUS
  <2>7. GroupReader'
    <3>1. GroupReader
      BY DEF EntryInv
    <3>2. CASE group.res = "run"
      <4>1. group' = GroupStep(group, e, n)
        BY <2>4, <3>2 DEF Running
      <4>2. group \in GroupRecord /\ GroupsOK(doc, open, group.groups)
        BY <2>6, <3>1, <3>2 DEF GroupReader
      <4>3. /\ group'.res \in {"run", "ok", "err"}
            /\ group'.res = "ok" => e.k = "eof"
            /\ group'.res # "err" => GroupsOK(doc', open', group'.groups)
        BY <1>0, <2>3, <3>2, <4>1, <4>2, GroupReads
      <4>4. ASSUME group'.res = "run" PROVE group' \in GroupRecord
        <5>1. PICK gs, z : group' = [groups |-> gs, res |-> z]
          BY <4>1, <4>2, GroupShape
        <5>2. group'.groups = gs /\ group'.res = z
          BY <5>1
        <5>3. gs \in Seq([at : Nat, members : Seq(Nat)])
          BY <2>6, <4>3, <4>4, <5>2 DEF GroupsOK
        <5>4. z = "run"
          BY <4>4, <5>2
        <5> QED
          BY <5>1, <5>3, <5>4 DEF GroupRecord
      <4> QED
        BY <2>5, <4>3, <4>4 DEF GroupReader
    <3>3. CASE group.res # "run"
      <4>1. group' = group /\ group.res = "err"
        BY <2>4, <2>6, <3>1, <3>3 DEF Running, GroupReader
      <4> QED
        BY <2>6, <4>1 DEF GroupReader
    <3> QED
      BY <3>2, <3>3
  <2>8. ListReader'
    <3>1. ListReader
      BY DEF EntryInv
    <3>2. CASE list.res = "run"
      <4>1. list' = ListStep(list, e, n)
        BY <2>4, <3>2 DEF Running
      <4>2. list \in ListRecord /\ ListOK(doc, list)
        BY <2>6, <3>1, <3>2 DEF ListReader
      <4>3. /\ list' \in ListRecord
            /\ list'.res = "ok" => e.k = "eof"
            /\ list'.res # "err" => ListOK(doc', list')
        BY <2>3, <3>2, <4>1, <4>2, ListReads
      <4> QED
        BY <2>5, <4>3 DEF ListReader
    <3>3. CASE list.res # "run"
      <4>1. list' = list /\ list.res = "err"
        BY <2>4, <2>6, <3>1, <3>3 DEF Running, ListReader, ListRecord
      <4> QED
        BY <2>6, <3>1, <4>1 DEF ListReader
    <3> QED
      BY <3>2, <3>3
  <2> QED
    BY <1>0, <1>1, <2>7, <2>8 DEF EntryInv
<1> QED
  BY <1>2, <1>3

\* The parent of an element, in the words of the model.
LEMMA ParentIsIn ==
    ASSUME StackOK(doc, open), NEW i \in Seen, NEW x
    PROVE  ParentIs(i, x) <=> ParentIn(doc, i, x)
<1>1. Len(doc) \in Nat /\ i \in Nat \ {0}
  BY DEF StackOK, Seen
<1>2. \A a \in 1..(i - 1) : Around(a, i) <=> OpenAt(doc, a, i)
  BY <1>1, AroundIs
<1>3. \A a : Depth(a) = DepthIn(doc, a)
  BY DepthIs
<1> QED
  BY <1>2, <1>3, Zenon DEF ParentIs, ParentIn

\* What they rest on says what MembersHaveTheirGroup does.
LEMMA EntryAnswers == ASSUME NEW S PROVE EntryInv(S) => MembersHaveTheirGroup
<1> SUFFICES ASSUME EntryInv(S) PROVE MembersHaveTheirGroup
  OBVIOUS
<1>1. StackOK(doc, open) /\ GroupReader /\ ListReader /\ "ok" # "err"
  BY DEF EntryInv, ScanInv, StreamInv
<1>2. Len(doc) \in Nat /\ Seen = 1..Len(doc) /\ \A i \in Seen : i \in Nat \ {0}
  BY <1>1 DEF StackOK, Seen
<1>3. ASSUME NEW i \in Seen, NEW x
      PROVE  Opens(i) /\ doc[i].n = "entry" /\ ParentIs(i, x) <=> EntryIn(doc, i, x)
  <2>1. ParentIs(i, x) <=> ParentIn(doc, i, x)
    BY <1>1, ParentIsIn
  <2> QED
    BY <2>1, Zenon DEF Opens, EntryIn, IsOpening
<1>4. ASSUME group.res = "ok"
      PROVE  /\ Elems([k \in DOMAIN group.groups |-> group.groups[k].at]) =
                    {i \in Seen : Opens(i) /\ doc[i].n = "entry" /\ ParentIs(i, "dg")}
             /\ \A g \in Elems(group.groups) :
                    Elems(g.members) =
                        {i \in Seen : /\ Opens(i) /\ doc[i].n = "entry" /\ ParentIs(i, "devices")
                                      /\ Around(g.at, i) /\ Depth(i) = Depth(g.at) + 2}
  <2>1. GroupsOK(doc, open, group.groups)
    BY <1>1, <1>4 DEF GroupReader
  <2> DEFINE gs == group.groups
  <2>2. /\ \A k \in DOMAIN gs : gs[k].at \in 1..Len(doc)
        /\ AtsOK(doc, gs) /\ MembersOK(doc, gs)
    BY <2>1 DEF GroupsOK
  <2>3. Elems([k \in DOMAIN gs |-> gs[k].at]) =
            {i \in Seen : Opens(i) /\ doc[i].n = "entry" /\ ParentIs(i, "dg")}
    <3>1. \A i : i \in Elems([k \in DOMAIN gs |-> gs[k].at]) <=> i \in Seen /\ EntryIn(doc, i, "dg")
      BY <1>2, <2>2 DEF AtsOK
    <3> QED
      BY <1>3, <3>1
  <2>4. ASSUME NEW k \in DOMAIN gs
        PROVE  Elems(gs[k].members) =
                   {i \in Seen : /\ Opens(i) /\ doc[i].n = "entry" /\ ParentIs(i, "devices")
                                 /\ Around(gs[k].at, i) /\ Depth(i) = Depth(gs[k].at) + 2}
    <3> DEFINE g == gs[k].at
               ms == Elems(gs[k].members)
    <3>1. g \in Nat \ {0}
      BY <1>2, <2>2
    <3>2. \A i : i \in ms <=> i \in MembersIn(doc, g)
      BY <2>2 DEF MembersOK
    <3> HIDE DEF g, ms
    <3>3. ASSUME NEW i \in Seen
          PROVE  i \in MembersIn(doc, g) <=>
                     /\ Opens(i) /\ doc[i].n = "entry" /\ ParentIs(i, "devices")
                     /\ Around(g, i) /\ Depth(i) = Depth(g) + 2
      <4>1. Around(g, i) <=> OpenAt(doc, g, i)
        BY <1>2, <3>1, AroundIs
      <4>2. Depth(i) = DepthIn(doc, i) /\ Depth(g) = DepthIn(doc, g)
        BY DepthIs
      <4>3. Opens(i) /\ doc[i].n = "entry" /\ ParentIs(i, "devices") <=> EntryIn(doc, i, "devices")
        BY <1>3
      <4> QED
        BY <1>2, <4>1, <4>2, <4>3, Zenon DEF MembersIn
    <3>4. \A i : i \in MembersIn(doc, g) => i \in Seen
      BY <1>2 DEF MembersIn
    <3>5. ms = {i \in Seen : /\ Opens(i) /\ doc[i].n = "entry" /\ ParentIs(i, "devices")
                             /\ Around(g, i) /\ Depth(i) = Depth(g) + 2}
      BY <3>2, <3>3, <3>4
    <3> QED
      BY <3>5 DEF ms, g
  <2>5. \A g \in Elems(gs) : \E k \in DOMAIN gs : g = gs[k]
    BY DEF Elems
  <2> QED
    BY <2>3, <2>4, <2>5
<1>5. ASSUME list.res = "ok"
      PROVE  LET listed(i) == Opens(i) /\ doc[i].n = "entry" /\ ParentIs(i, "devices")
             IN Elems(list.entries) =
                    {p \in Seen \X Seen :
                        /\ listed(p[1]) /\ Closes(p[1], p[2])
                        /\ ~ \E a \in 1..(p[1] - 1) : listed(a) /\ Around(a, p[1])}
  <2> DEFINE listed(i) == Opens(i) /\ doc[i].n = "entry" /\ ParentIs(i, "devices")
             es == Elems(list.entries)
  <2>1. \A p : p \in es <=> p \in ClosedOf(doc, Outermost(doc))
    BY <1>1, <1>5 DEF ListReader, ListOK
  <2>2. \A i \in Seen : listed(i) <=> DeviceAt(doc, i)
    BY <1>3 DEF DeviceAt
  <2> HIDE DEF listed, es
  <2>3. ASSUME NEW i \in Seen
        PROVE  (i \in Outermost(doc)) <=>
                   listed(i) /\ ~ \E a \in 1..(i - 1) : listed(a) /\ Around(a, i)
    <3>1. \A a \in 1..(i - 1) : a \in Seen /\ (Around(a, i) <=> OpenAt(doc, a, i))
      BY <1>2, AroundIs
    <3>2. i \in Outermost(doc) <=> OutermostAt(doc, i)
      BY <1>2 DEF Outermost
    <3> QED
      BY <2>2, <3>1, <3>2, Zenon DEF OutermostAt
  <2>4. ASSUME NEW p \in Seen \X Seen
        PROVE  p \in ClosedOf(doc, Outermost(doc)) <=>
                   /\ listed(p[1]) /\ Closes(p[1], p[2])
                   /\ ~ \E a \in 1..(p[1] - 1) : listed(a) /\ Around(a, p[1])
    <3>1. p[1] \in Seen /\ p[2] \in Seen
      BY <2>4
    <3>2. Closes(p[1], p[2]) <=> ClosesAt(doc, p[1], p[2])
      BY <1>2, <3>1, ClosesIs
    <3>3. p \in ClosedOf(doc, Outermost(doc)) <=> p[1] \in Outermost(doc) /\ ClosesAt(doc, p[1], p[2])
      BY <1>2 DEF ClosedOf
    <3>4. p[1] \in Outermost(doc) <=>
              listed(p[1]) /\ ~ \E a \in 1..(p[1] - 1) : listed(a) /\ Around(a, p[1])
      BY <2>3, <3>1
    <3> QED
      BY <3>2, <3>3, <3>4, Zenon
  <2>5. \A p : p \in ClosedOf(doc, Outermost(doc)) => p \in Seen \X Seen
    BY <1>2 DEF ClosedOf
  <2>6. es = {p \in Seen \X Seen :
                  /\ listed(p[1]) /\ Closes(p[1], p[2])
                  /\ ~ \E a \in 1..(p[1] - 1) : listed(a) /\ Around(a, p[1])}
    BY <2>1, <2>4, <2>5
  <2> QED
    BY <2>6 DEF listed, es
<1> QED
  BY <1>4, <1>5, Zenon DEF MembersHaveTheirGroup

\* parse_grouped_entries and list_child_entries: for every answer in which no dg holds another,
\* every device is reported under the group that encloses it, and the devices of a list are
\* reported once, whole and without those nested in them.
THEOREM MembersAlwaysHaveTheirGroup ==
    ASSUME NeverNested("dg") PROVE Spec => []MembersHaveTheirGroup
<1> PICK S \in SUBSET Names : Within(S, "dg")
  BY DEF NeverNested
<1>1. Init => EntryInv(S)
  BY EntryStarts
<1>2. EntryInv(S) /\ [Next]_vars => EntryInv(S)'
  BY EntryKept
<1>3. EntryInv(S) => MembersHaveTheirGroup
  BY EntryAnswers
<1> QED
  BY <1>1, <1>2, <1>3, PTL DEF Spec

-----------------------------------------------------------------------------
(* first_child_text and collect_text_for_elements: text in pieces. *)

\* The stretches of a set of texts with one that begins a new stretch.
LEMMA RunsBegin ==
    ASSUME NEW n \in Nat \ {0}, NEW T, T \subseteq 1..(n - 1), (n - 1) \notin T
    PROVE  \A R : R \in Runs(T \cup {n}) <=> R \in Runs(T) \/ R = n..n
<1> DEFINE U == T \cup {n}
<1>1. T \subseteq Nat /\ U \subseteq Nat /\ n \notin T /\ (n + 1) \notin U /\ (n - 1) \notin U
  OBVIOUS
<1>2. U = T \cup {n}
  OBVIOUS
<1>3. n..n \in Runs(U)
  BY RunBegins
<1> HIDE DEF U
<1>4. ASSUME NEW R, R \in Runs(T) PROVE R \in Runs(U)
  <2>1. PICK i, j \in Nat : /\ R = i..j /\ i <= j /\ R \subseteq T
                             /\ (i - 1) \notin T /\ (j + 1) \notin T
    BY <1>1, <1>4, RunEnds
  <2>2. i \in T /\ j \in T
    BY <2>1
  <2>3. j # n - 1 /\ i - 1 # n
    BY <2>2
  <2>4. j + 1 # n
    BY <2>3
  <2>5. R \subseteq U /\ (i - 1) \notin U /\ (j + 1) \notin U
    BY <1>2, <2>1, <2>3, <2>4
  <2> QED
    BY <2>1, <2>5, RunIs
<1>5. ASSUME NEW R, R \in Runs(U) PROVE R \in Runs(T) \/ R = n..n
  <2>1. PICK i, j \in Nat : /\ R = i..j /\ i <= j /\ R \subseteq U
                             /\ (i - 1) \notin U /\ (j + 1) \notin U
    BY <1>1, <1>5, RunEnds
  <2>2. CASE n \in R
    <3>1. i <= n /\ n <= j
      BY <2>1, <2>2
    <3>2. j \in U
      BY <2>1
    <3>3. j = n
      BY <1>2, <2>1, <3>1, <3>2
    <3>4. i = n
      <4>1. SUFFICES ASSUME i # n PROVE FALSE
        OBVIOUS
      <4>2. n - 1 \in R
        BY <2>1, <3>1, <3>3, <4>1
      <4> QED
        BY <1>1, <2>1, <4>2
    <3> QED
      BY <2>1, <3>3, <3>4
  <2>3. CASE n \notin R
    <3>1. R \subseteq T /\ (i - 1) \notin T /\ (j + 1) \notin T
      BY <1>2, <2>1, <2>3
    <3> QED
      BY <2>1, <3>1, RunIs
  <2> QED
    BY <2>2, <2>3
<1> QED
  BY <1>3, <1>4, <1>5 DEF U

\* The stretches of a set of texts with one that continues the last stretch.
LEMMA RunsContinue ==
    ASSUME NEW n \in Nat \ {0}, NEW T, NEW a \in 1..(n - 1), T \subseteq 1..(n - 1),
           a..(n - 1) \in Runs(T)
    PROVE  \A R : R \in Runs(T \cup {n}) <=> (R \in Runs(T) /\ R # a..(n - 1)) \/ R = a..n
<1> DEFINE U == T \cup {n}
<1>1. T \subseteq Nat /\ U \subseteq Nat /\ n \notin T /\ (n + 1) \notin U
  OBVIOUS
<1>2. a \in Nat \ {0} /\ a <= n - 1 /\ n - 1 \in Nat
  OBVIOUS
<1>3. a..(n - 1) \subseteq T /\ (a - 1) \notin T
  BY <1>2, RunIs
<1>4. U = T \cup {n}
  OBVIOUS
<1>5. a..n \in Runs(U)
  BY RunContinues
<1> HIDE DEF U
<1>9. ASSUME NEW R, R \in Runs(T), R # a..(n - 1) PROVE R \in Runs(U)
  <2>1. PICK i, j \in Nat : /\ R = i..j /\ i <= j /\ R \subseteq T
                             /\ (i - 1) \notin T /\ (j + 1) \notin T
    BY <1>1, <1>9, RunEnds
  <2>2. i \in T /\ j \in T
    BY <2>1
  <2>3. i \in 1..(n - 1) /\ j \in 1..(n - 1)
    BY <2>2
  <2>4. j # n - 1
    <3>1. SUFFICES ASSUME j = n - 1 PROVE FALSE
      OBVIOUS
    <3>2. CASE i < a
      <4>1. a - 1 \in R
        BY <1>2, <2>1, <3>1, <3>2
      <4> QED
        BY <1>3, <2>1, <4>1
    <3>3. CASE i > a
      <4>1. i - 1 \in a..(n - 1)
        BY <1>2, <2>3, <3>3
      <4> QED
        BY <1>3, <2>1, <4>1
    <3>4. CASE i = a
      BY <1>9, <2>1, <3>1, <3>4
    <3> QED
      BY <1>2, <2>1, <3>2, <3>3, <3>4
  <2>5. i - 1 # n /\ j + 1 # n
    BY <2>3, <2>4
  <2>6. R \subseteq U /\ (i - 1) \notin U /\ (j + 1) \notin U
    BY <1>4, <2>1, <2>5
  <2> QED
    BY <2>1, <2>6, RunIs
<1>10. ASSUME NEW R, R \in Runs(U) PROVE R = a..n \/ (R \in Runs(T) /\ R # a..(n - 1))
  <2>1. PICK i, j \in Nat : /\ R = i..j /\ i <= j /\ R \subseteq U
                             /\ (i - 1) \notin U /\ (j + 1) \notin U
    BY <1>1, <1>10, RunEnds
  <2>2. CASE n \in R
    <3>1. i <= n /\ n <= j
      BY <2>1, <2>2
    <3>2. j \in U
      BY <2>1
    <3>3. j = n
      BY <1>4, <2>1, <3>1, <3>2
    <3>4. i = a
      <4>1. CASE i < a
        <5>1. a - 1 \in R /\ a - 1 # n
          BY <1>2, <2>1, <3>3, <4>1
        <5> QED
          BY <1>3, <1>4, <2>1, <5>1
      <4>2. CASE i > a
        <5>1. i - 1 \in a..(n - 1)
          BY <1>2, <3>1, <4>2
        <5> QED
          BY <1>3, <1>4, <2>1, <5>1
      <4> QED
        BY <1>2, <2>1, <4>1, <4>2
    <3> QED
      BY <2>1, <3>3, <3>4
  <2>3. CASE n \notin R
    <3>1. R \subseteq T /\ (i - 1) \notin T /\ (j + 1) \notin T
      BY <1>4, <2>1, <2>3
    <3>2. R \in Runs(T)
      BY <2>1, <3>1, RunIs
    <3>3. R # a..(n - 1)
      <4>1. SUFFICES ASSUME R = a..(n - 1) PROVE FALSE
        OBVIOUS
      <4>2. n - 1 \in i..j /\ j \in a..(n - 1)
        BY <1>2, <2>1, <4>1
      <4>3. j + 1 = n
        BY <1>2, <2>1, <4>2
      <4> QED
        BY <1>4, <2>1, <4>3
    <3> QED
      BY <3>2, <3>3
  <2> QED
    BY <2>2, <2>3
<1>11. a..n \notin Runs(T)
  <2>1. n \in a..n
    BY <1>2
  <2> QED
    BY <1>1, <2>1 DEF Runs
<1> QED
  BY <1>5, <1>9, <1>10 DEF U

\* What the pieces ps and the unfinished one, cur, hold: the stretches of T.
HoldRuns(T, ps, cur) ==
    \A R : R \in Runs(T) <=> (\E p \in Elems(ps) : Elems(p) = R) \/ (cur # <<>> /\ R = Elems(cur))

\* Each piece is in order, and so are the pieces.
InOrder(m, ps) ==
    /\ \A k \in DOMAIN ps : Ascending(ps[k]) /\ ps[k] # <<>> /\ ps[k][1] \in 1..m
    /\ \A k \in 1..(Len(ps) - 1) : ps[k][1] < ps[k + 1][1]

\* The unfinished piece is the stretch that ends at position m.
LastPiece(T, m, ps, cur) ==
    IF cur = <<>> THEN m \notin T
    ELSE /\ \E a \in 1..m : Elems(cur) = a..m /\ a..m \in Runs(T)
         /\ Ascending(cur) /\ cur[1] \in 1..m
         /\ \A k \in DOMAIN ps : ps[k][1] < cur[1] /\ m \notin Elems(ps[k])

TextOK(T, m, ps, cur) ==
    /\ T \subseteq 1..m /\ ps \in Seq(Seq(Nat)) /\ cur \in Seq(Nat)
    /\ HoldRuns(T, ps, cur) /\ InOrder(m, ps) /\ LastPiece(T, m, ps, cur)

\* No text yet.
LEMMA NoText == ASSUME NEW m \in Nat PROVE TextOK({}, m, <<>>, <<>>)
<1>1. Runs({}) = {} /\ Elems(<<>>) = {}
  BY DEF Runs, Elems
<1>2. HoldRuns({}, <<>>, <<>>)
  BY <1>1 DEF HoldRuns
<1>3. InOrder(m, <<>>)
  <2>1. DOMAIN <<>> = {} /\ 1..(Len(<<>>) - 1) = {}
    OBVIOUS
  <2> QED
    BY <2>1 DEF InOrder
<1>4. LastPiece({}, m, <<>>, <<>>)
  BY DEF LastPiece
<1> QED
  BY <1>2, <1>3, <1>4 DEF TextOK

\* A position that is not a text: the unfinished piece is finished.
LEMMA TextCut ==
    ASSUME NEW m \in Nat, NEW n, n = m + 1, NEW T, NEW ps, NEW cur, TextOK(T, m, ps, cur)
    PROVE  TextOK(T, n, IF cur = <<>> THEN ps ELSE Append(ps, cur), <<>>)
<1>1. /\ T \subseteq 1..m /\ ps \in Seq(Seq(Nat)) /\ cur \in Seq(Nat)
      /\ HoldRuns(T, ps, cur) /\ InOrder(m, ps) /\ LastPiece(T, m, ps, cur)
  BY DEF TextOK
<1>2. T \subseteq 1..n /\ n \notin T /\ 1..m \subseteq 1..n
  BY <1>1
<1>3. LastPiece(T, n, ps, <<>>) /\ LastPiece(T, n, Append(ps, cur), <<>>)
  BY <1>2 DEF LastPiece
<1>4. CASE cur = <<>>
  <2>1. HoldRuns(T, ps, <<>>)
    BY <1>1, <1>4
  <2>2. InOrder(n, ps)
    BY <1>1, <1>2 DEF InOrder
  <2>3. <<>> \in Seq(Nat)
    OBVIOUS
  <2> QED
    BY <1>1, <1>2, <1>3, <1>4, <2>1, <2>2, <2>3 DEF TextOK
<1>5. CASE cur # <<>>
  <2> DEFINE qs == Append(ps, cur)
  <2>1. \A p : p \in Elems(qs) <=> p \in Elems(ps) \/ p = cur
    BY <1>1, ElemsAppend
  <2>2. /\ qs \in Seq(Seq(Nat)) /\ Len(qs) = Len(ps) + 1 /\ Len(ps) \in Nat
        /\ DOMAIN qs = 1..(Len(ps) + 1) /\ DOMAIN ps = 1..Len(ps)
        /\ \A k \in 1..Len(ps) : qs[k] = ps[k]
        /\ qs[Len(ps) + 1] = cur
    BY <1>1
  <2> HIDE DEF qs
  <2>3. HoldRuns(T, qs, <<>>)
    BY <1>1, <1>5, <2>1, Zenon DEF HoldRuns
  <2>4. Ascending(cur) /\ cur[1] \in 1..m /\ \A k \in DOMAIN ps : ps[k][1] < cur[1]
    BY <1>1, <1>5 DEF LastPiece
  <2>5. \A k \in 1..Len(ps) : Ascending(ps[k]) /\ ps[k] # <<>> /\ ps[k][1] \in 1..m
    BY <1>1, <2>2 DEF InOrder
  <2>6. InOrder(n, qs)
    <3>1. ASSUME NEW k \in DOMAIN qs PROVE Ascending(qs[k]) /\ qs[k] # <<>> /\ qs[k][1] \in 1..n
      <4>1. CASE k = Len(ps) + 1
        BY <1>2, <1>5, <2>2, <2>4, <4>1
      <4>2. CASE k \in 1..Len(ps)
        BY <1>2, <2>2, <2>5, <4>2
      <4> QED
        BY <2>2, <4>1, <4>2
    <3>2. ASSUME NEW k \in 1..(Len(qs) - 1) PROVE qs[k][1] < qs[k + 1][1]
      <4> DEFINE L == Len(ps)
      <4>0. L \in Nat /\ Len(qs) = L + 1 /\ k \in 1..(Len(qs) - 1)
        BY <2>2, <3>2
      <4> HIDE DEF L
      <4>5. k \in 1..L /\ (k = L \/ k \in 1..(L - 1))
        BY <4>0
      <4>1. k \in 1..Len(ps) /\ (k = Len(ps) \/ k \in 1..(Len(ps) - 1))
        BY <4>5 DEF L
      <4>2. CASE k = Len(ps)
        BY <2>2, <2>4, <4>1, <4>2
      <4>3. CASE k \in 1..(Len(ps) - 1)
        <5>1. k + 1 \in 1..Len(ps)
          BY <2>2, <4>3
        <5> QED
          BY <1>1, <2>2, <4>1, <4>3, <5>1 DEF InOrder
      <4> QED
        BY <4>1, <4>2, <4>3
    <3> QED
      BY <3>1, <3>2 DEF InOrder
  <2>7. <<>> \in Seq(Nat)
    OBVIOUS
  <2>8. TextOK(T, n, qs, <<>>)
    BY <1>2, <1>3, <2>2, <2>3, <2>6, <2>7 DEF TextOK, qs
  <2> QED
    BY <1>5, <2>8 DEF qs
<1> QED
  BY <1>4, <1>5

\* The order of a sequence with a greater element at its end.
LEMMA AscendingAppend ==
    ASSUME NEW s \in Seq(Nat), NEW m \in Nat, Ascending(s), \A x \in Elems(s) : x <= m
    PROVE  Ascending(Append(s, m + 1))
<1> DEFINE t == Append(s, m + 1)
<1>1. /\ Len(t) = Len(s) + 1 /\ Len(s) \in Nat /\ DOMAIN s = 1..Len(s)
      /\ \A k \in 1..Len(s) : t[k] = s[k] /\ s[k] \in Nat
      /\ t[Len(s) + 1] = m + 1
  OBVIOUS
<1> HIDE DEF t
<1>2. \A k \in 1..Len(s) : s[k] <= m
  BY <1>1 DEF Elems
<1>3. ASSUME NEW k \in 1..(Len(t) - 1) PROVE t[k] < t[k + 1]
  <2> DEFINE L == Len(s)
  <2>0. L \in Nat /\ Len(t) = L + 1 /\ k \in 1..(Len(t) - 1)
    BY <1>1, <1>3
  <2> HIDE DEF L
  <2>5. k \in 1..L /\ (k = L \/ k \in 1..(L - 1))
    BY <2>0
  <2>1. k \in 1..Len(s) /\ (k = Len(s) \/ k \in 1..(Len(s) - 1))
    BY <2>5 DEF L
  <2>2. CASE k = Len(s)
    <3>1. t[k] <= m /\ t[k] \in Nat /\ t[k + 1] = m + 1
      BY <1>1, <1>2, <2>1, <2>2
    <3> QED
      BY <3>1
  <2>3. CASE k \in 1..(Len(s) - 1)
    <3>1. k + 1 \in 1..Len(s)
      BY <1>1, <2>3
    <3> QED
      BY <1>1, <2>1, <2>3, <3>1 DEF Ascending
  <2> QED
    BY <2>1, <2>2, <2>3
<1> QED
  BY <1>3 DEF Ascending, t

\* A text: it continues the unfinished piece, or begins one.
LEMMA TextMore ==
    ASSUME NEW m \in Nat, NEW n, n = m + 1, NEW T, NEW ps, NEW cur, TextOK(T, m, ps, cur)
    PROVE  TextOK(T \cup {n}, n, ps, Append(cur, n))
<1> DEFINE U == T \cup {n}
           nxt == Append(cur, n)
<1>1. /\ T \subseteq 1..m /\ ps \in Seq(Seq(Nat)) /\ cur \in Seq(Nat)
      /\ HoldRuns(T, ps, cur) /\ InOrder(m, ps) /\ LastPiece(T, m, ps, cur)
  BY DEF TextOK
<1>2. /\ U \subseteq 1..n /\ n \notin T /\ 1..m \subseteq 1..n /\ n \in Nat \ {0} /\ m = n - 1
      /\ n \in 1..n
  BY <1>1
<1>3. nxt \in Seq(Nat) /\ nxt # <<>> /\ (cur = <<>> => nxt[1] = n) /\ (cur # <<>> => nxt[1] = cur[1])
  <2>1. nxt \in Seq(Nat) /\ Len(nxt) = Len(cur) + 1 /\ Len(cur) \in Nat
    BY <1>1, <1>2
  <2>2. Len(nxt) # 0
    BY <2>1
  <2>3. nxt # <<>>
    BY <2>2
  <2>4. cur = <<>> => nxt[1] = n
    BY <1>1
  <2>5. cur # <<>> => nxt[1] = cur[1]
    <3>1. SUFFICES ASSUME cur # <<>> PROVE nxt[1] = cur[1]
      OBVIOUS
    <3>2. 1 \in 1..Len(cur)
      BY <1>1, <2>1, <3>1
    <3> QED
      BY <1>1, <3>2
  <2> QED
    BY <2>1, <2>3, <2>4, <2>5
<1>4. \A x : x \in Elems(nxt) <=> x \in Elems(cur) \/ x = n
  BY <1>1, <1>2, ElemsAppend
<1>5. \A k \in DOMAIN ps : Elems(ps[k]) \in Runs(T) /\ n \notin Elems(ps[k]) /\ ps[k][1] \in 1..m
  <2>1. ASSUME NEW k \in DOMAIN ps PROVE Elems(ps[k]) \in Runs(T)
    <3>1. ps[k] \in Elems(ps)
      BY DEF Elems
    <3> QED
      BY <1>1, <3>1 DEF HoldRuns
  <2>2. \A R \in Runs(T) : n \notin R
    BY <1>2 DEF Runs
  <2> QED
    BY <1>1, <2>1, <2>2 DEF InOrder
<1>6. InOrder(n, ps)
  BY <1>1, <1>2 DEF InOrder
<1> HIDE DEF nxt
<1>7. CASE cur = <<>>
  <2>1. m \notin T
    BY <1>1, <1>7 DEF LastPiece
  <2>2. \A R : R \in Runs(U) <=> R \in Runs(T) \/ R = n..n
    BY <1>1, <1>2, <2>1, RunsBegin
  <2>3. Elems(nxt) = n..n
    <3>1. Elems(cur) = {}
      BY <1>7 DEF Elems
    <3>2. n..n = {n}
      BY <1>2
    <3> QED
      BY <1>4, <3>1, <3>2
  <2> HIDE DEF U
  <2>4. HoldRuns(U, ps, nxt)
    BY <1>1, <1>3, <1>7, <2>2, <2>3, Zenon DEF HoldRuns
  <2>5. Ascending(nxt)
    <3>1. Len(nxt) = 1
      BY <1>7 DEF nxt
    <3>2. 1..(Len(nxt) - 1) = {}
      BY <3>1
    <3> QED
      BY <3>2 DEF Ascending
  <2>6. n..n \in Runs(U)
    BY <2>2
  <2>9. nxt # <<>> /\ nxt[1] = n /\ n \in 1..n
    BY <1>2, <1>3, <1>7
  <2>10. \A k \in DOMAIN ps : ps[k][1] < nxt[1] /\ n \notin Elems(ps[k])
    <3>1. ASSUME NEW k \in DOMAIN ps PROVE ps[k][1] < nxt[1]
      <4>1. ps[k][1] \in 1..m
        BY <1>5
      <4> QED
        BY <1>2, <2>9, <4>1
    <3> QED
      BY <1>5, <3>1
  <2>11. \E b \in 1..n : Elems(nxt) = b..n /\ b..n \in Runs(U)
    BY <2>3, <2>6, <2>9
  <2>7. LastPiece(U, n, ps, nxt)
    BY <2>5, <2>9, <2>10, <2>11 DEF LastPiece
  <2>8. TextOK(U, n, ps, nxt)
    BY <1>1, <1>2, <1>3, <1>6, <2>4, <2>7 DEF TextOK, U
  <2> QED
    BY <2>8 DEF U, nxt
<1>8. CASE cur # <<>>
  <2>1. PICK a \in 1..m : Elems(cur) = a..m /\ a..m \in Runs(T)
    BY <1>1, <1>8 DEF LastPiece
  <2>2. /\ Ascending(cur) /\ cur[1] \in 1..m
        /\ \A k \in DOMAIN ps : ps[k][1] < cur[1] /\ m \notin Elems(ps[k])
    BY <1>1, <1>8 DEF LastPiece
  <2>3. a \in 1..(n - 1) /\ a..(n - 1) \in Runs(T) /\ T \subseteq 1..(n - 1) /\ a \in 1..n
    BY <1>1, <1>2, <2>1
  <2>4. \A R : R \in Runs(U) <=> (R \in Runs(T) /\ R # a..m) \/ R = a..n
    <3>1. \A R : R \in Runs(U) <=> (R \in Runs(T) /\ R # a..(n - 1)) \/ R = a..n
      BY <1>2, <2>3, RunsContinue
    <3> QED
      BY <1>2, <3>1
  <2>5. Elems(nxt) = a..n
    <3>1. a..n = (a..m) \cup {n}
      BY <1>2
    <3> QED
      BY <1>4, <2>1, <3>1
  <2> HIDE DEF U
  <2>6. HoldRuns(U, ps, nxt)
    <3>1. \A p \in Elems(ps) : Elems(p) # a..m
      <4>1. m \in a..m
        BY <2>1
      <4>2. \A p \in Elems(ps) : m \notin Elems(p)
        BY <2>2 DEF Elems
      <4> QED
        BY <4>1, <4>2
    <3> QED
      BY <1>1, <1>3, <1>8, <2>1, <2>4, <2>5, <3>1, Zenon DEF HoldRuns
  <2>7. Ascending(nxt)
    <3>1. \A x \in Elems(cur) : x <= m
      BY <2>1
    <3> QED
      BY <1>1, <2>2, <3>1, AscendingAppend DEF nxt
  <2>8. a..n \in Runs(U)
    BY <2>4
  <2>9. LastPiece(U, n, ps, nxt)
    BY <1>2, <1>3, <1>5, <1>8, <2>2, <2>3, <2>5, <2>7, <2>8 DEF LastPiece
  <2>10. TextOK(U, n, ps, nxt)
    BY <1>1, <1>2, <1>3, <1>6, <2>6, <2>9 DEF TextOK, U
  <2> QED
    BY <2>10 DEF U, nxt
<1> QED
  BY <1>7, <1>8

\* The pieces when none is unfinished.
LEMMA TextIs ==
    ASSUME NEW T, NEW m, NEW ps, TextOK(T, m, ps, <<>>)
    PROVE  {Elems(p) : p \in Elems(ps)} = Runs(T)
BY DEF TextOK, HoldRuns

\* The texts below an element whose position is in A.
TextsOf(d, A) ==
    {i \in 1..Len(d) : d[i].k = "text" /\ \E a \in 1..(i - 1) : a \in A /\ OpenAt(d, a, i)}

\* An element of A is open at the end of the stream.
BelowOne(d, A) == \E a \in 1..Len(d) : a \in A /\ OpenAt(d, a, Len(d) + 1)

\* The texts below those elements after one more event.
LEMMA TextsGrow ==
    ASSUME NEW d, NEW e, NEW f, NEW n, NEW A, NEW B, Longer(d, e, f, n),
           \A a \in 1..Len(d) : a \in B <=> a \in A
    PROVE  /\ TextsOf(d, A) \subseteq 1..Len(d)
           /\ e.k = "text" /\ BelowOne(d, A) => TextsOf(f, B) = TextsOf(d, A) \cup {n}
           /\ ~(e.k = "text" /\ BelowOne(d, A)) => TextsOf(f, B) = TextsOf(d, A)
<1>1. /\ f[n] = e /\ n = Len(d) + 1 /\ n - 1 = Len(d) /\ Len(d) \in Nat /\ Len(f) = n
      /\ 1..n = (1..Len(d)) \cup {n} /\ n \notin 1..Len(d)
      /\ \A i \in 1..Len(d) : f[i] = d[i]
      /\ \A i \in 1..n, a \in 1..n : OpenAt(f, a, i) <=> OpenAt(d, a, i)
  BY DEF Longer
<1>2. TextsOf(d, A) \subseteq 1..Len(d)
  BY DEF TextsOf
<1>3. ASSUME NEW i \in 1..n, NEW a \in 1..(i - 1)
      PROVE  (a \in B <=> a \in A) /\ (OpenAt(f, a, i) <=> OpenAt(d, a, i))
  <2>1. a \in 1..n /\ a \in 1..Len(d)
    BY <1>1, <1>3
  <2> QED
    BY <1>1, <1>3, <2>1
<1>4. ASSUME NEW i \in 1..Len(d) PROVE i \in TextsOf(f, B) <=> i \in TextsOf(d, A)
  <2>1. i \in 1..n /\ f[i] = d[i]
    BY <1>1, <1>4
  <2>2. \A a \in 1..(i - 1) : (a \in B <=> a \in A) /\ (OpenAt(f, a, i) <=> OpenAt(d, a, i))
    BY <1>3, <2>1
  <2> QED
    BY <1>1, <1>4, <2>1, <2>2 DEF TextsOf
<1>5. n \in TextsOf(f, B) <=> e.k = "text" /\ BelowOne(d, A)
  <2>1. n \in 1..n
    BY <1>1
  <2>2. \A a \in 1..Len(d) : (a \in B <=> a \in A) /\ (OpenAt(f, a, n) <=> OpenAt(d, a, n))
    BY <1>1, <1>3, <2>1
  <2> QED
    BY <1>1, <2>1, <2>2 DEF TextsOf, BelowOne
<1>6. TextsOf(f, B) \subseteq 1..n
  BY <1>1 DEF TextsOf
<1>7. ASSUME e.k = "text", BelowOne(d, A) PROVE TextsOf(f, B) = TextsOf(d, A) \cup {n}
  BY <1>1, <1>2, <1>4, <1>5, <1>6, <1>7
<1>8. ASSUME ~(e.k = "text" /\ BelowOne(d, A)) PROVE TextsOf(f, B) = TextsOf(d, A)
  BY <1>1, <1>2, <1>4, <1>5, <1>6, <1>8
<1> QED
  BY <1>2, <1>7, <1>8

-----------------------------------------------------------------------------
(* collect_text_for_elements. *)

Messages == {"msg", "line"}
MessageAt(d) == {a \in 1..Len(d) : d[a].n \in Messages}
MsgRecord == [md : Nat, pieces : Seq(Seq(Nat)), cur : Seq(Nat), res : {"run", "ok", "err"}]

\* The outermost open msg or line is m - 1 elements above the innermost one; 0 without one.
Collecting(s, m) ==
    /\ m \in Nat /\ m <= Len(s)
    /\ \A l \in 1..(Len(s) - m) : s[l] \notin Messages
    /\ m # 0 => s[Len(s) - m + 1] \in Messages

MsgOK(d, s, r) ==
    /\ TextOK(TextsOf(d, MessageAt(d)), Len(d), r.pieces, r.cur)
    /\ r.res = "run" => Collecting(s, r.md) /\ (r.md = 0 => r.cur = <<>>)
    /\ r.res = "ok" => r.cur = <<>>

\* The reader is below a msg or line exactly when one is open.
LEMMA CollectingIs ==
    ASSUME NEW d, NEW s, StackOK(d, s), NEW m, Collecting(s, m)
    PROVE  m # 0 <=> BelowOne(d, MessageAt(d))
<1>1. s \in Seq(Names) /\ Len(s) \in Nat /\ Len(d) \in Nat
  BY DEF StackOK
<1>2. ASSUME m # 0 PROVE BelowOne(d, MessageAt(d))
  <2>1. PICK l : l = Len(s) - m + 1
    OBVIOUS
  <2>2. l \in 1..Len(s) /\ s[l] \in Messages
    BY <1>1, <1>2, <2>1 DEF Collecting
  <2>3. PICK a \in 1..Len(d) : OpenAt(d, a, Len(d) + 1) /\ DepthIn(d, a) = l - 1
    BY <2>2 DEF StackOK
  <2>4. d[a].n = s[DepthIn(d, a) + 1]
    BY <2>3 DEF StackOK
  <2>5. d[a].n = s[l]
    BY <2>2, <2>3, <2>4
  <2> QED
    BY <2>2, <2>3, <2>5 DEF BelowOne, MessageAt
<1>3. ASSUME m = 0, BelowOne(d, MessageAt(d)) PROVE FALSE
  <2>1. PICK a \in 1..Len(d) : d[a].n \in Messages /\ OpenAt(d, a, Len(d) + 1)
    BY <1>3 DEF BelowOne, MessageAt
  <2>2. DepthIn(d, a) \in Nat /\ DepthIn(d, a) < Len(s) /\ d[a].n = s[DepthIn(d, a) + 1]
    BY <2>1 DEF StackOK
  <2>3. DepthIn(d, a) + 1 \in 1..(Len(s) - m)
    BY <1>1, <1>3, <2>2
  <2> QED
    BY <2>1, <2>2, <2>3 DEF Collecting
<1> QED
  BY <1>2, <1>3

\* A start tag.
LEMMA CollectingStart ==
    ASSUME NEW s \in Seq(Names), NEW e, Fits(s, e), e.k = "start", NEW m, Collecting(s, m)
    PROVE  /\ m # 0 => Collecting(Stack(s, e), m + 1)
           /\ m = 0 /\ e.n \in Messages => Collecting(Stack(s, e), 1)
           /\ m = 0 /\ e.n \notin Messages => Collecting(Stack(s, e), 0)
<1>1. Stack(s, e) = Append(s, e.n) /\ e.n \in Names
  BY DEF Stack, Fits
<1>2. PICK t : t = Append(s, e.n)
  OBVIOUS
<1>3. PICK L : L = Len(s)
  OBVIOUS
<1>4. /\ L \in Nat /\ Len(t) = L + 1 /\ t[L + 1] = e.n
      /\ \A l \in 1..L : t[l] = s[l]
  BY <1>1, <1>2, <1>3
<1>5. /\ m \in Nat /\ m <= L
      /\ \A l \in 1..(L - m) : s[l] \notin Messages
      /\ m # 0 => s[L - m + 1] \in Messages
  BY <1>3 DEF Collecting
<1>6. ASSUME m # 0 PROVE Collecting(t, m + 1)
  <2>1. L + 1 - (m + 1) = L - m /\ L - m + 1 \in 1..L /\ m + 1 \in Nat /\ m + 1 <= L + 1
    BY <1>4, <1>5, <1>6
  <2>2. \A l \in 1..(L - m) : t[l] \notin Messages
    BY <1>4, <1>5
  <2>3. t[L - m + 1] \in Messages
    BY <1>4, <1>5, <1>6, <2>1
  <2> QED
    BY <1>4, <2>1, <2>2, <2>3 DEF Collecting
<1>7. ASSUME m = 0, e.n \in Messages PROVE Collecting(t, 1)
  <2>1. L + 1 - 1 = L /\ 1 <= L + 1 /\ L - m = L
    BY <1>4, <1>7
  <2>2. \A l \in 1..L : t[l] \notin Messages
    BY <1>4, <1>5, <2>1
  <2> QED
    BY <1>4, <1>7, <2>1, <2>2 DEF Collecting
<1>8. ASSUME m = 0, e.n \notin Messages PROVE Collecting(t, 0)
  <2>1. L + 1 - 0 = L + 1 /\ 0 <= L + 1 /\ L - m = L /\ 1..(L + 1) = (1..L) \cup {L + 1}
    BY <1>4, <1>8
  <2>2. \A l \in 1..(L + 1) : t[l] \notin Messages
    BY <1>4, <1>5, <1>8, <2>1
  <2> QED
    BY <1>4, <2>1, <2>2 DEF Collecting
<1> QED
  BY <1>1, <1>2, <1>6, <1>7, <1>8

\* An end tag.
LEMMA CollectingEnd ==
    ASSUME NEW s \in Seq(Names), NEW e, Fits(s, e), e.k = "end", NEW m, Collecting(s, m)
    PROVE  Collecting(Stack(s, e), IF m # 0 THEN m - 1 ELSE 0)
<1>1. Stack(s, e) = SubSeq(s, 1, Len(s) - 1) /\ s # <<>>
  BY DEF Stack, Fits
<1>2. PICK t : t = SubSeq(s, 1, Len(s) - 1)
  OBVIOUS
<1>3. PICK L : L = Len(s)
  OBVIOUS
<1>4. L \in Nat \ {0} /\ Len(t) = L - 1 /\ \A l \in 1..(L - 1) : t[l] = s[l]
  <2>1. Len(s) # 0 /\ Len(s) \in Nat
    BY <1>1
  <2> QED
    BY <1>2, <1>3, <2>1, FrontIs
<1>5. /\ m \in Nat /\ m <= L
      /\ \A l \in 1..(L - m) : s[l] \notin Messages
      /\ m # 0 => s[L - m + 1] \in Messages
  BY <1>3 DEF Collecting
<1>6. ASSUME m = 0 PROVE Collecting(t, 0)
  <2>1. 1..(L - 1 - 0) \subseteq 1..(L - m) /\ 1..(L - 1 - 0) \subseteq 1..(L - 1) /\ 0 <= L - 1
    BY <1>4, <1>6
  <2>2. \A l \in 1..(L - 1 - 0) : t[l] \notin Messages
    BY <1>4, <1>5, <2>1
  <2> QED
    BY <1>4, <2>1, <2>2 DEF Collecting
<1>7. ASSUME m # 0 PROVE Collecting(t, m - 1)
  <2>1. L - 1 - (m - 1) = L - m /\ m - 1 \in Nat /\ m - 1 <= L - 1 /\ 1..(L - m) \subseteq 1..(L - 1)
    BY <1>4, <1>5, <1>7
  <2>2. \A l \in 1..(L - m) : t[l] \notin Messages
    BY <1>4, <1>5, <2>1
  <2>3. ASSUME m - 1 # 0 PROVE t[L - m + 1] \in Messages
    <3>1. L - m + 1 \in 1..(L - 1)
      BY <1>4, <1>5, <1>7, <2>3
    <3> QED
      BY <1>4, <1>5, <1>7, <3>1
  <2> QED
    BY <1>4, <2>1, <2>2, <2>3 DEF Collecting
<1> QED
  BY <1>1, <1>2, <1>6, <1>7

\* What is left when the unfinished piece is finished.
Finished(ps, cur) == IF cur = <<>> THEN ps ELSE Append(ps, cur)

\* The record a step of collect_text_for_elements leaves.
LEMMA MsgShape ==
    ASSUME msg \in MsgRecord, msg.res = "run", msg.md = 0 => msg.cur = <<>>, NEW e \in Events, NEW n
    PROVE  LET to(x, z) == [md |-> x, pieces |-> Finished(msg.pieces, msg.cur), cur |-> <<>>, res |-> z]
               r == CollectStep(msg, e, n)
           IN /\ e.k = "start" => r = to(IF msg.md # 0 THEN msg.md + 1
                                         ELSE IF e.n \in Messages THEN 1 ELSE 0, "run")
              /\ e.k = "end" => r = to(IF msg.md # 0 THEN msg.md - 1 ELSE 0, "run")
              /\ e.k = "empty" => r = to(msg.md, "run")
              /\ e.k = "eof" => r = to(msg.md, "ok")
              /\ e.k = "text" /\ msg.md = 0 => r = to(0, "run")
              /\ e.k = "text" /\ msg.md # 0 =>
                     r = [md |-> msg.md, pieces |-> msg.pieces, cur |-> Append(msg.cur, n), res |-> "run"]
              /\ e.k \in {"doctype", "bad"} =>
                     r = [md |-> msg.md, pieces |-> msg.pieces, cur |-> msg.cur, res |-> "err"]
<1> DEFINE F == Finished(msg.pieces, msg.cur)
           to(x, z) == [md |-> x, pieces |-> F, cur |-> <<>>, res |-> z]
<1>1. PICK m, ps, c : msg = [md |-> m, pieces |-> ps, cur |-> c, res |-> "run"] /\ m \in Nat
  BY DEF MsgRecord
<1>2. msg.md = m /\ msg.pieces = ps /\ msg.cur = c
  BY <1>1
<1>3. Flush(msg) = to(m, "run")
  <2>1. CASE c = <<>>
    BY <1>1, <1>2, <2>1 DEF Flush, Finished
  <2>2. CASE c # <<>>
    BY <1>1, <1>2, <2>2 DEF Flush, Finished
  <2> QED
    BY <2>1, <2>2
<1>4. m = 0 => msg = to(0, "run")
  BY <1>1, <1>2 DEF Finished
<1>5. \A x : [Flush(msg) EXCEPT !.md = x] = to(x, "run")
  BY <1>3
<1>6. [Flush(msg) EXCEPT !.res = "ok"] = to(m, "ok") /\ Flush(msg).md = m
  BY <1>3
<1>7. m > 0 <=> m # 0
  BY <1>1
<1> HIDE DEF to, F
<1>8. CASE e.k = "start"
  <2>1. CASE m # 0
    BY <1>2, <1>5, <1>6, <1>7, <1>8, <2>1 DEF CollectStep, to, F
  <2>2. CASE m = 0 /\ e.n \in Messages
    BY <1>2, <1>4, <1>7, <1>8, <2>2 DEF CollectStep, to, F, Messages
  <2>3. CASE m = 0 /\ e.n \notin Messages
    BY <1>2, <1>4, <1>7, <1>8, <2>3 DEF CollectStep, to, F, Messages
  <2> QED
    BY <2>1, <2>2, <2>3
<1>9. CASE e.k = "end"
  <2>1. CASE m # 0
    BY <1>2, <1>5, <1>6, <1>7, <1>9, <2>1 DEF CollectStep, to, F
  <2>2. CASE m = 0
    BY <1>2, <1>4, <1>7, <1>9, <2>2 DEF CollectStep, to, F
  <2> QED
    BY <2>1, <2>2
<1>10. CASE e.k = "empty"
  <2>1. CASE m # 0
    BY <1>2, <1>3, <1>7, <1>10, <2>1 DEF CollectStep, to, F
  <2>2. CASE m = 0
    BY <1>2, <1>4, <1>7, <1>10, <2>2 DEF CollectStep, to, F
  <2> QED
    BY <2>1, <2>2
<1>11. CASE e.k = "eof"
  BY <1>2, <1>6, <1>11 DEF CollectStep, to, F
<1>12. CASE e.k = "text"
  <2>1. CASE m # 0
    BY <1>1, <1>2, <1>7, <1>12, <2>1 DEF CollectStep, to, F
  <2>2. CASE m = 0
    BY <1>2, <1>4, <1>7, <1>12, <2>2 DEF CollectStep, to, F
  <2> QED
    BY <2>1, <2>2
<1>13. CASE e.k \in {"doctype", "bad"}
  BY <1>1, <1>2, <1>13 DEF CollectStep, to, F
<1>14. e.k \in {"start", "empty", "end", "eof", "text", "bad", "doctype"}
  BY DEF Events, Kinds
<1> QED
  BY <1>8, <1>9, <1>10, <1>11, <1>12, <1>13, <1>14

\* One step of collect_text_for_elements.
LEMMA MsgReads ==
    ASSUME NEW e, NEW f, NEW n, Reads(e, f, n), msg \in MsgRecord, msg.res = "run",
           MsgOK(doc, open, msg)
    PROVE  /\ CollectStep(msg, e, n) \in MsgRecord
           /\ CollectStep(msg, e, n).res = "ok" => e.k = "eof"
           /\ CollectStep(msg, e, n).res # "err" =>
                  MsgOK(f, Stack(open, e), CollectStep(msg, e, n))
<1> DEFINE r == CollectStep(msg, e, n)
           F == Finished(msg.pieces, msg.cur)
           T == TextsOf(doc, MessageAt(doc))
           U == TextsOf(f, MessageAt(f))
           t == Stack(open, e)
           to(x, z) == [md |-> x, pieces |-> F, cur |-> <<>>, res |-> z]
<1>1. /\ StackOK(doc, open) /\ Longer(doc, e, f, n) /\ e \in Events /\ Fits(open, e)
      /\ open \in Seq(Names)
  BY DEF Reads, StackOK, Longer
<1>2. /\ n = Len(doc) + 1 /\ Len(doc) \in Nat /\ Len(f) = n /\ n \in Nat
      /\ 1..n = (1..Len(doc)) \cup {n} /\ \A i \in 1..Len(doc) : f[i] = doc[i]
  BY <1>1 DEF Longer
<1>3. /\ TextOK(T, Len(doc), msg.pieces, msg.cur) /\ Collecting(open, msg.md)
      /\ msg.md = 0 => msg.cur = <<>>
  BY DEF MsgOK
<1>4. /\ msg.md \in Nat /\ msg.pieces \in Seq(Seq(Nat)) /\ msg.cur \in Seq(Nat)
  BY DEF MsgRecord
<1>5. F \in Seq(Seq(Nat)) /\ <<>> \in Seq(Nat)
  BY <1>4 DEF Finished
<1>6. TextOK(T, n, F, <<>>)
  BY <1>2, <1>3, TextCut DEF Finished
<1>7. /\ e.k = "text" /\ msg.md # 0 => U = T \cup {n}
      /\ ~(e.k = "text" /\ msg.md # 0) => U = T
  <2>1. \A a \in 1..Len(doc) : a \in MessageAt(f) <=> a \in MessageAt(doc)
    BY <1>2 DEF MessageAt
  <2>2. msg.md # 0 <=> BelowOne(doc, MessageAt(doc))
    BY <1>1, <1>3, CollectingIs
  <2>3. ASSUME NEW A, NEW B, \A a \in 1..Len(doc) : a \in B <=> a \in A,
               e.k = "text", BelowOne(doc, A)
        PROVE  TextsOf(f, B) = TextsOf(doc, A) \cup {n}
    BY <1>1, <2>3, TextsGrow
  <2>4. ASSUME NEW A, NEW B, \A a \in 1..Len(doc) : a \in B <=> a \in A,
               ~(e.k = "text" /\ BelowOne(doc, A))
        PROVE  TextsOf(f, B) = TextsOf(doc, A)
    BY <1>1, <2>4, TextsGrow
  <2>5. ASSUME e.k = "text", msg.md # 0 PROVE U = T \cup {n}
    <3>1. BelowOne(doc, MessageAt(doc))
      BY <2>2, <2>5
    <3> QED
      BY <2>1, <2>3, <2>5, <3>1
  <2>6. ASSUME ~(e.k = "text" /\ msg.md # 0) PROVE U = T
    <3>1. ~(e.k = "text" /\ BelowOne(doc, MessageAt(doc)))
      BY <2>2, <2>6, Zenon
    <3> QED
      BY <2>1, <2>4, <3>1
  <2> QED
    BY <2>5, <2>6
<1> HIDE DEF T, U, F
<1>8. ASSUME NEW x \in Nat, NEW z \in {"run", "ok"}, r = to(x, z), U = T,
             z = "run" => Collecting(t, x), z = "ok" => e.k = "eof"
      PROVE  r \in MsgRecord /\ (r.res = "ok" => e.k = "eof") /\ MsgOK(f, t, r)
  <2>1. r.md = x /\ r.pieces = F /\ r.cur = <<>> /\ r.res = z
    BY <1>8
  <2>2. r \in MsgRecord
    BY <1>5, <1>8 DEF MsgRecord
  <2>3. TextOK(U, Len(f), r.pieces, r.cur)
    BY <1>2, <1>6, <1>8, <2>1
  <2>4. MsgOK(f, t, r)
    BY <1>8, <2>1, <2>3 DEF MsgOK, U
  <2>5. r.res = "ok" => e.k = "eof"
    BY <1>8, <2>1
  <2> QED
    BY <2>2, <2>4, <2>5
<1>9. /\ e.k = "start" => r = to(IF msg.md # 0 THEN msg.md + 1
                                 ELSE IF e.n \in Messages THEN 1 ELSE 0, "run")
      /\ e.k = "end" => r = to(IF msg.md # 0 THEN msg.md - 1 ELSE 0, "run")
      /\ e.k = "empty" => r = to(msg.md, "run")
      /\ e.k = "eof" => r = to(msg.md, "ok")
      /\ e.k = "text" /\ msg.md = 0 => r = to(0, "run")
      /\ e.k = "text" /\ msg.md # 0 =>
             r = [md |-> msg.md, pieces |-> msg.pieces, cur |-> Append(msg.cur, n), res |-> "run"]
      /\ e.k \in {"doctype", "bad"} =>
             r = [md |-> msg.md, pieces |-> msg.pieces, cur |-> msg.cur, res |-> "err"]
  BY <1>1, <1>3, MsgShape DEF F
<1>10. e.k \notin {"start", "end"} => t = open
  BY DEF Stack
<1>11. "run" \in {"run", "ok"} /\ "ok" \in {"run", "ok"} /\ "run" # "ok" /\ "err" # "ok" /\ "text" # "eof"
  OBVIOUS
<1> HIDE DEF r, t, to
<1>12. CASE e.k = "start"
  <2> DEFINE x == IF msg.md # 0 THEN msg.md + 1 ELSE IF e.n \in Messages THEN 1 ELSE 0
  <2>1. x \in Nat
    BY <1>4
  <2>2. Collecting(t, x)
    BY <1>1, <1>3, <1>12, CollectingStart DEF t
  <2>3. r = to(x, "run") /\ U = T
    BY <1>7, <1>9, <1>12
  <2> HIDE DEF x
  <2> QED
    BY <1>8, <1>11, <2>1, <2>2, <2>3 DEF r, t
<1>13. CASE e.k = "end"
  <2> DEFINE x == IF msg.md # 0 THEN msg.md - 1 ELSE 0
  <2>1. x \in Nat
    BY <1>4
  <2>2. Collecting(t, x)
    BY <1>1, <1>3, <1>13, CollectingEnd DEF t
  <2>3. r = to(x, "run") /\ U = T
    BY <1>7, <1>9, <1>13
  <2> HIDE DEF x
  <2> QED
    BY <1>8, <1>11, <2>1, <2>2, <2>3 DEF r, t
<1>14. CASE e.k = "empty"
  <2>1. r = to(msg.md, "run") /\ U = T /\ Collecting(t, msg.md)
    BY <1>3, <1>7, <1>9, <1>10, <1>14
  <2> QED
    BY <1>4, <1>8, <1>11, <2>1 DEF r, t
<1>15. CASE e.k = "eof"
  <2>1. r = to(msg.md, "ok") /\ U = T
    BY <1>7, <1>9, <1>15
  <2> QED
    BY <1>4, <1>8, <1>11, <1>15, <2>1 DEF r, t
<1>16. CASE e.k = "text" /\ msg.md = 0
  <2>1. r = to(0, "run") /\ U = T /\ Collecting(t, 0) /\ 0 \in Nat
    BY <1>3, <1>7, <1>9, <1>10, <1>16
  <2> QED
    BY <1>8, <1>11, <2>1 DEF r, t
<1>17. CASE e.k = "text" /\ msg.md # 0
  <2> DEFINE c == Append(msg.cur, n)
  <2>1. /\ r = [md |-> msg.md, pieces |-> msg.pieces, cur |-> c, res |-> "run"]
        /\ U = T \cup {n} /\ Collecting(t, msg.md)
    BY <1>3, <1>7, <1>9, <1>10, <1>17
  <2>2. TextOK(T \cup {n}, n, msg.pieces, c)
    BY <1>2, <1>3, TextMore
  <2>3. c \in Seq(Nat)
    BY <1>2, <1>4
  <2> HIDE DEF c
  <2>4. r.md = msg.md /\ r.pieces = msg.pieces /\ r.cur = c /\ r.res = "run"
    BY <2>1
  <2>5. r \in MsgRecord
    BY <1>4, <2>1, <2>3 DEF MsgRecord
  <2>6. MsgOK(f, t, r)
    BY <1>2, <1>11, <1>17, <2>1, <2>2, <2>4 DEF MsgOK, U
  <2> QED
    BY <1>11, <2>4, <2>5, <2>6 DEF r, t
<1>18. CASE e.k \in {"doctype", "bad"}
  <2>1. r = [md |-> msg.md, pieces |-> msg.pieces, cur |-> msg.cur, res |-> "err"]
    BY <1>9, <1>18
  <2>2. r \in MsgRecord /\ r.res = "err"
    BY <1>4, <2>1 DEF MsgRecord
  <2> QED
    BY <1>11, <2>2 DEF r
<1>19. e.k \in {"start", "empty", "end", "eof", "text", "bad", "doctype"}
  BY <1>1 DEF Events, Kinds
<1> QED
  BY <1>12, <1>13, <1>14, <1>15, <1>16, <1>17, <1>18, <1>19

-----------------------------------------------------------------------------
(* first_child_text and first_element_text: one element and its texts. *)

\* The first of a set of elements.
Leads(A, o) == o \in A /\ \A a \in A : o <= a

\* It is open at the end of the stream.
Reading(d, A, o) == o \in 1..Len(d) /\ Leads(A, o) /\ OpenAt(d, o, Len(d) + 1)

\* It has been closed.
ReadWhole(d, A, o) == o \in 1..Len(d) /\ Leads(A, o) /\ \E j \in 1..Len(d) : ClosesAt(d, o, j)

\* None of the set's elements leads it and has been closed.
Unread(d, A) == \A o, j \in 1..Len(d) : Leads(A, o) => ~ClosesAt(d, o, j)

\* What leads a set still does when later elements join it.
LEMMA LeadsStays ==
    ASSUME NEW m \in Nat, NEW n, n = m + 1, NEW A, NEW B, NEW o, A \subseteq 1..m, B \subseteq 1..n,
           \A i \in 1..m : i \in B <=> i \in A, Leads(A, o)
    PROVE  Leads(B, o)
<1>1. o \in 1..m /\ o \in B /\ o <= n
  BY DEF Leads
<1>2. ASSUME NEW b \in B PROVE o <= b
  <2>1. b = n \/ b \in 1..m
    BY <1>2
  <2>2. CASE b \in 1..m
    BY <1>2, <2>2 DEF Leads
  <2> QED
    BY <1>1, <2>1, <2>2
<1> QED
  BY <1>1, <1>2 DEF Leads

\* A set whose only element is new.
LEMMA LeadsFirst ==
    ASSUME NEW m \in Nat, NEW n, n = m + 1, NEW B, B \subseteq 1..n, \A i \in 1..m : i \notin B, n \in B
    PROVE  Leads(B, n)
<1>1. \A b \in B : b = n
  OBVIOUS
<1> QED
  BY <1>1 DEF Leads

\* A new element has no text.
LEMMA TextsOfNew ==
    ASSUME NEW d, NEW e, NEW f, NEW n, Longer(d, e, f, n)
    PROVE  TextsOf(f, {n}) = {}
<1>1. Len(f) = n /\ n \in Nat
  BY DEF Longer
<1> QED
  BY <1>1 DEF TextsOf

\* An event that is no text of an element.
LEMMA TextsOfOne ==
    ASSUME NEW d, NEW e, NEW f, NEW n, Longer(d, e, f, n), NEW o \in 1..Len(d)
    PROVE  ~(e.k = "text" /\ OpenAt(d, o, n)) => TextsOf(f, {o}) = TextsOf(d, {o})
<1>1. n = Len(d) + 1
  BY DEF Longer
<1>2. BelowOne(d, {o}) <=> OpenAt(d, o, n)
  BY <1>1 DEF BelowOne
<1>5. ASSUME ~(e.k = "text" /\ OpenAt(d, o, n)) PROVE TextsOf(f, {o}) = TextsOf(d, {o})
  <2>1. ~(e.k = "text" /\ BelowOne(d, {o}))
    BY <1>2, <1>5, Zenon
  <2> QED
    BY <2>1, TextsGrow
<1> QED
  BY <1>5

\* A text of an open element.
LEMMA TextsOfMore ==
    ASSUME NEW d, NEW e, NEW f, NEW n, NEW o \in 1..Len(d), Longer(d, e, f, n), e.k = "text",
           OpenAt(d, o, n)
    PROVE  TextsOf(f, {o}) = TextsOf(d, {o}) \cup {n}
<1>1. n = Len(d) + 1
  BY DEF Longer
<1>2. BelowOne(d, {o})
  BY <1>1 DEF BelowOne
<1> QED
  BY <1>2, TextsGrow

\* A closed element stays as it is.
LEMMA ClosedStays ==
    ASSUME NEW d, NEW e, NEW f, NEW n, NEW o \in 1..Len(d), NEW j \in 1..Len(d), Longer(d, e, f, n),
           ClosesAt(d, o, j)
    PROVE  ClosesAt(f, o, j) /\ ~OpenAt(d, o, n) /\ TextsOf(f, {o}) = TextsOf(d, {o})
<1>1. n = Len(d) + 1 /\ n \in Nat /\ Len(d) \in Nat /\ j \in 1..(n - 1) /\ o \in Nat \ {0}
  BY DEF Longer
<1>2. ClosesAt(f, o, j)
  BY ClosesSame
<1>3. ~OpenAt(d, o, n)
  BY <1>1, OpenNotClosed
<1>4. TextsOf(f, {o}) = TextsOf(d, {o})
  BY <1>3, TextsOfOne
<1> QED
  BY <1>2, <1>3, <1>4

\* An element that is still open has not been closed.
LEMMA OpenIsUnread ==
    ASSUME NEW d, NEW A, NEW o, Reading(d, A, o), Len(d) \in Nat, A \subseteq 1..Len(d)
    PROVE  Unread(d, A)
<1>1. ASSUME NEW p \in 1..Len(d), NEW j \in 1..Len(d), Leads(A, p) PROVE ~ClosesAt(d, p, j)
  <2>1. p <= o /\ o <= p /\ o \in 1..Len(d) /\ OpenAt(d, o, Len(d) + 1)
    BY <1>1 DEF Reading, Leads
  <2>2. p = o
    BY <2>1
  <2>3. j \in 1..(Len(d) + 1 - 1) /\ o \in Nat \ {0} /\ Len(d) + 1 \in Nat
    BY <2>1
  <2> QED
    BY <2>1, <2>2, <2>3, OpenNotClosed
<1> QED
  BY <1>1 DEF Unread

\* An element that the event does not close is still the first of the set, and open.
LEMMA ReadingKept ==
    ASSUME NEW e, NEW f, NEW n, NEW A, NEW B, NEW o, Reads(e, f, n), Reading(doc, A, o),
           A \subseteq 1..Len(doc), B \subseteq 1..n, \A i \in 1..Len(doc) : i \in B <=> i \in A,
           e.k = "end" => Len(open) # DepthIn(doc, o) + 1
    PROVE  Reading(f, B, o)
<1>1. /\ n = Len(doc) + 1 /\ Len(doc) \in Nat /\ Len(f) = n
      /\ \A a \in 1..n :
             OpenAt(f, a, n + 1) <=>
                 \/ a = n /\ e.k = "start"
                 \/ /\ a \in 1..Len(doc) /\ OpenAt(doc, a, n)
                    /\ ~(e.k = "end" /\ Len(open) = DepthIn(doc, a) + 1)
  BY DEF Reads, Longer, Opened
<1>2. o \in 1..Len(doc) /\ Leads(A, o) /\ OpenAt(doc, o, n)
  BY <1>1 DEF Reading
<1>3. Leads(B, o)
  BY <1>1, <1>2, LeadsStays
<1>4. o \in 1..n
  BY <1>1, <1>2
<1>5. OpenAt(f, o, n + 1)
  BY <1>1, <1>2, <1>4
<1> QED
  BY <1>1, <1>3, <1>4, <1>5 DEF Reading

\* A start tag that is the first of the set.
LEMMA ReadingBegins ==
    ASSUME NEW e, NEW f, NEW n, NEW B, Reads(e, f, n), e.k = "start", B \subseteq 1..n, n \in B,
           \A i \in 1..Len(doc) : i \notin B
    PROVE  Reading(f, B, n)
<1>1. /\ n = Len(doc) + 1 /\ Len(doc) \in Nat /\ Len(f) = n /\ n \in 1..n
      /\ \A a \in 1..n :
             OpenAt(f, a, n + 1) <=>
                 \/ a = n /\ e.k = "start"
                 \/ /\ a \in 1..Len(doc) /\ OpenAt(doc, a, n)
                    /\ ~(e.k = "end" /\ Len(open) = DepthIn(doc, a) + 1)
  BY DEF Reads, Longer, Opened
<1>2. OpenAt(f, n, n + 1)
  BY <1>1
<1>3. Leads(B, n)
  BY <1>1, LeadsFirst
<1> QED
  BY <1>1, <1>2, <1>3 DEF Reading

\* The set A of positions up to the stream's end, after one more event.
GrowsTo(A, B, n) ==
    A \subseteq 1..Len(doc) /\ B \subseteq 1..n /\ \A i \in 1..Len(doc) : i \in B <=> i \in A

\* What was closed when it led the set still does.
LEMMA CompleteKept ==
    ASSUME NEW e, NEW f, NEW n, NEW A, NEW B, NEW o, Longer(doc, e, f, n), ReadWhole(doc, A, o),
           GrowsTo(A, B, n)
    PROVE  ReadWhole(f, B, o) /\ TextsOf(f, {o}) = TextsOf(doc, {o})
<1>1. n = Len(doc) + 1 /\ Len(doc) \in Nat /\ Len(f) = n /\ 1..n = (1..Len(doc)) \cup {n}
  BY DEF Longer
<1>2. o \in 1..Len(doc) /\ Leads(A, o)
  BY DEF ReadWhole
<1>5. PICK j \in 1..Len(doc) : ClosesAt(doc, o, j)
  BY DEF ReadWhole
<1>3. ClosesAt(f, o, j) /\ TextsOf(f, {o}) = TextsOf(doc, {o})
  <2>1. ClosesAt(f, o, j)
    BY <1>2, <1>5, ClosedStays
  <2>2. TextsOf(f, {o}) = TextsOf(doc, {o})
    <3>1. ~OpenAt(doc, o, n)
      BY <1>2, <1>5, ClosedStays
    <3> QED
      BY <1>2, <3>1, TextsOfOne
  <2> QED
    BY <2>1, <2>2
<1>4. Leads(B, o)
  <2>1. PICK m \in Nat : m = Len(doc)
    BY <1>1
  <2>2. A \subseteq 1..m /\ B \subseteq 1..n /\ n = m + 1 /\ \A i \in 1..m : i \in B <=> i \in A
    BY <1>1, <2>1 DEF GrowsTo
  <2> QED
    BY <1>2, <2>2, LeadsStays
<1> QED
  BY <1>1, <1>2, <1>3, <1>4, <1>5 DEF ReadWhole

\* The status elements.
Statuses(d) == {i \in 1..Len(d) : IsOpening(d, i) /\ d[i].n = "status"}

\* No status lies in another: at most one is open, and none opens in it.
OpenStatus(a, n) == OpenAt(doc, a, n) /\ doc[a].n = "status"
NoStatusInStatus(e, n) ==
    /\ \A a, b \in 1..Len(doc) : OpenStatus(a, n) /\ OpenStatus(b, n) => a = b
    /\ e.k = "empty" /\ e.n = "status" => \A a \in 1..Len(doc) : ~OpenStatus(a, n)

FirstRecord == [inside : BOOLEAN, found : BOOLEAN, cur : Seq(Nat), res : {"run", "ok", "err"}]

\* The texts of element o, in order.
HoldsTexts(d, o, c) == c \in Seq(Nat) /\ Elems(c) = TextsOf(d, {o}) /\ Ascending(c)

FirstOK(d, r) ==
    /\ r.res = "run" /\ r.inside =>
           r.found /\ \E o : Reading(d, Statuses(d), o) /\ HoldsTexts(d, o, r.cur)
    /\ r.res = "run" /\ ~r.inside => ~r.found /\ Statuses(d) = {} /\ r.cur = <<>>
    /\ r.res = "ok" /\ r.found =>
           \E o : ReadWhole(d, Statuses(d), o) /\ HoldsTexts(d, o, r.cur)
    /\ r.res = "ok" /\ ~r.found => Unread(d, Statuses(d))

\* The status elements after one more event.
LEMMA StatusesGrow ==
    ASSUME NEW d, NEW e, NEW f, NEW n, Longer(d, e, f, n)
    PROVE  /\ Statuses(d) \subseteq 1..Len(d) /\ Statuses(f) \subseteq 1..n
           /\ \A i \in 1..Len(d) : i \in Statuses(f) <=> i \in Statuses(d)
           /\ n \in Statuses(f) <=> e.k \in {"start", "empty"} /\ e.n = "status"
<1>1. /\ f[n] = e /\ Len(f) = n /\ n \in 1..n /\ \A i \in 1..Len(d) : i \in 1..n /\ f[i] = d[i]
  BY DEF Longer
<1> QED
  BY <1>1 DEF Statuses, IsOpening

\* The first texts of an element.
LEMMA HoldsNone == ASSUME NEW d, NEW o, TextsOf(d, {o}) = {} PROVE HoldsTexts(d, o, <<>>)
<1>1. Elems(<<>>) = {} /\ <<>> \in Seq(Nat) /\ Len(<<>>) = 0
  BY DEF Elems
<1>2. Ascending(<<>>)
  BY <1>1 DEF Ascending
<1> QED
  BY <1>1, <1>2 DEF HoldsTexts

\* One more text.
LEMMA HoldsMore ==
    ASSUME NEW m \in Nat, NEW n, n = m + 1, NEW d, NEW f, NEW o, NEW c, HoldsTexts(d, o, c),
           TextsOf(d, {o}) \subseteq 1..m, TextsOf(f, {o}) = TextsOf(d, {o}) \cup {n}
    PROVE  HoldsTexts(f, o, Append(c, n))
<1>1. c \in Seq(Nat) /\ Elems(c) = TextsOf(d, {o}) /\ Ascending(c)
  BY DEF HoldsTexts
<1>2. \A x \in Elems(c) : x <= m
  BY <1>1
<1>3. Ascending(Append(c, n))
  BY <1>1, <1>2, AscendingAppend
<1>4. \A x : x \in Elems(Append(c, n)) <=> x \in Elems(c) \/ x = n
  BY <1>1, ElemsAppend
<1>5. Elems(Append(c, n)) = TextsOf(f, {o})
  BY <1>1, <1>4
<1>6. Append(c, n) \in Seq(Nat)
  BY <1>1
<1> QED
  BY <1>3, <1>5, <1>6 DEF HoldsTexts

\* No more text.
LEMMA HoldsSame ==
    ASSUME NEW d, NEW f, NEW o, NEW c, HoldsTexts(d, o, c), TextsOf(f, {o}) = TextsOf(d, {o})
    PROVE  HoldsTexts(f, o, c)
BY DEF HoldsTexts

\* An end tag closes the open status or leaves it open, by its name.
LEMMA StatusEnds ==
    ASSUME NEW e, NEW f, NEW n, Reads(e, f, n), NoStatusInStatus(e, n), e.k = "end"
    PROVE  /\ e.n = "status" => \E a \in 1..Len(doc) : OpenStatus(a, n) /\ ClosesAt(f, a, n)
           /\ e.n # "status" => \A a \in 1..Len(doc) :
                                    OpenStatus(a, n) => Len(open) # DepthIn(doc, a) + 1
<1>1. PICK a \in 1..Len(doc) :
          /\ OpenAt(doc, a, n) /\ DepthIn(doc, a) + 1 = Len(open) /\ doc[a].n = e.n
          /\ \A i \in 1..n : ClosesAt(f, i, n) <=> i = a
  BY Innermost
<1>2. a \in 1..n /\ StackOK(doc, open) /\ n = Len(doc) + 1 /\ Len(doc) \in Nat /\ Len(open) \in Nat
  BY DEF Reads, Longer, Opened
<1>3. ASSUME e.n = "status" PROVE OpenStatus(a, n) /\ ClosesAt(f, a, n)
  BY <1>1, <1>2, <1>3 DEF OpenStatus
<1>4. ASSUME NEW b \in 1..Len(doc), OpenStatus(b, n), Len(open) = DepthIn(doc, b) + 1 PROVE e.n = "status"
  <2>1. OpenAt(doc, b, n) /\ doc[b].n = "status"
    BY <1>4 DEF OpenStatus
  <2>2. DepthIn(doc, a) \in Nat /\ DepthIn(doc, b) \in Nat
    BY <1>2 DEF StackOK
  <2>3. DepthIn(doc, a) <= DepthIn(doc, b) /\ DepthIn(doc, b) <= DepthIn(doc, a)
    BY <1>1, <1>2, <1>4, <2>2
  <2>4. a <= b /\ b <= a
    BY <1>1, <1>2, <2>1, <2>3 DEF StackOK
  <2>5. a = b
    BY <2>4
  <2> QED
    BY <1>1, <2>1, <2>5
<1> QED
  BY <1>3, <1>4

\* The record a step of first_element_text leaves.
LEMMA FirstShape ==
    ASSUME first \in FirstRecord, first.res = "run", NEW e \in Events, NEW n
    PROVE  LET to(b, g, c, z) == [inside |-> b, found |-> g, cur |-> c, res |-> z]
               r == FirstStep(first, e, n)
               in == first.inside
           IN /\ e.k = "start" /\ e.n = "status" => r = to(TRUE, TRUE, first.cur, "run")
              /\ e.k = "start" /\ e.n # "status" => r = first
              /\ e.k = "empty" /\ e.n = "status" => r = to(in, TRUE, <<>>, "ok")
              /\ e.k = "empty" /\ e.n # "status" => r = first
              /\ e.k = "text" /\ in => r = to(in, first.found, Append(first.cur, n), "run")
              /\ e.k = "text" /\ ~in => r = first
              /\ e.k = "end" /\ e.n = "status" => r = to(in, first.found, first.cur, "ok")
              /\ e.k = "end" /\ e.n # "status" => r = first
              /\ e.k = "eof" => r = to(in, FALSE, first.cur, "ok")
              /\ e.k \in {"doctype", "bad"} => r = to(in, first.found, first.cur, "err")
<1>1. PICK b, g, c : first = [inside |-> b, found |-> g, cur |-> c, res |-> "run"]
  BY DEF FirstRecord
<1>2. first.inside = b /\ first.found = g /\ first.cur = c
  BY <1>1
<1>15. ASSUME NEW i, NEW j, NEW k, NEW z, NEW x, NEW q, q = [inside |-> i, found |-> j, cur |-> k, res |-> z]
       PROVE  /\ [q EXCEPT !.inside = x] = [inside |-> x, found |-> j, cur |-> k, res |-> z]
              /\ [q EXCEPT !.found = x] = [inside |-> i, found |-> x, cur |-> k, res |-> z]
              /\ [q EXCEPT !.cur = x] = [inside |-> i, found |-> j, cur |-> x, res |-> z]
              /\ [q EXCEPT !.res = x] = [inside |-> i, found |-> j, cur |-> k, res |-> x]
  BY <1>15
<1>3. ASSUME NEW x, NEW y
      PROVE  [[first EXCEPT !.inside = x] EXCEPT !.found = y] =
                 [inside |-> x, found |-> y, cur |-> c, res |-> "run"]
  <2>1. PICK p : p = [first EXCEPT !.inside = x]
    OBVIOUS
  <2>2. p = [inside |-> x, found |-> g, cur |-> c, res |-> "run"]
    BY <1>1, <1>15, <2>1
  <2>3. [p EXCEPT !.found = y] = [inside |-> x, found |-> y, cur |-> c, res |-> "run"]
    BY <1>15, <2>2
  <2> QED
    BY <2>1, <2>3
<1>4. ASSUME NEW y
      PROVE  [[first EXCEPT !.found = y] EXCEPT !.res = "ok"] =
                 [inside |-> b, found |-> y, cur |-> c, res |-> "ok"]
  <2>1. PICK p : p = [first EXCEPT !.found = y]
    OBVIOUS
  <2>2. p = [inside |-> b, found |-> y, cur |-> c, res |-> "run"]
    BY <1>1, <1>15, <2>1
  <2>3. [p EXCEPT !.res = "ok"] = [inside |-> b, found |-> y, cur |-> c, res |-> "ok"]
    BY <1>15, <2>2
  <2> QED
    BY <2>1, <2>3
<1>5. ASSUME NEW y, NEW k
      PROVE  [[[first EXCEPT !.found = y] EXCEPT !.cur = k] EXCEPT !.res = "ok"] =
                 [inside |-> b, found |-> y, cur |-> k, res |-> "ok"]
  <2>1. PICK p : p = [first EXCEPT !.found = y]
    OBVIOUS
  <2>2. p = [inside |-> b, found |-> y, cur |-> c, res |-> "run"]
    BY <1>1, <1>15, <2>1
  <2>3. PICK q : q = [p EXCEPT !.cur = k]
    OBVIOUS
  <2>4. q = [inside |-> b, found |-> y, cur |-> k, res |-> "run"]
    BY <1>15, <2>2, <2>3
  <2>5. [q EXCEPT !.res = "ok"] = [inside |-> b, found |-> y, cur |-> k, res |-> "ok"]
    BY <1>15, <2>4
  <2>6. q = [[first EXCEPT !.found = y] EXCEPT !.cur = k]
    BY <2>1, <2>3, Zenon
  <2> QED
    BY <2>5, <2>6, Zenon
<1>6. \A x : [first EXCEPT !.cur = x] = [inside |-> b, found |-> g, cur |-> x, res |-> "run"]
  BY <1>1
<1>7. \A x : [first EXCEPT !.res = x] = [inside |-> b, found |-> g, cur |-> c, res |-> x]
  BY <1>1
<1>8. CASE e.k = "start"
  BY <1>2, <1>3, <1>8 DEF FirstStep
<1>9. CASE e.k = "empty"
  BY <1>2, <1>5, <1>9 DEF FirstStep
<1>10. CASE e.k = "text"
  BY <1>2, <1>6, <1>10 DEF FirstStep
<1>11. CASE e.k = "end"
  BY <1>2, <1>7, <1>11 DEF FirstStep
<1>12. CASE e.k = "eof"
  BY <1>2, <1>4, <1>12 DEF FirstStep
<1>13. CASE e.k \in {"doctype", "bad"}
  BY <1>2, <1>7, <1>13 DEF FirstStep
<1>14. e.k \in {"start", "empty", "end", "eof", "text", "bad", "doctype"}
  BY DEF Events, Kinds
<1> QED
  BY <1>8, <1>9, <1>10, <1>11, <1>12, <1>13, <1>14

\* An event that neither opens nor closes a status, nor is a text of one.
LEMMA FirstStays ==
    ASSUME NEW e, NEW f, NEW n, Reads(e, f, n), first.res = "run", FirstOK(doc, first),
           NoStatusInStatus(e, n), e.n # "status" \/ e.k \notin {"start", "empty", "end"},
           ~(e.k = "text" /\ first.inside)
    PROVE  FirstOK(f, first)
<1> DEFINE A == Statuses(doc)
           B == Statuses(f)
<1>1. Longer(doc, e, f, n)
  BY DEF Reads
<1>2. n = Len(doc) + 1 /\ Len(doc) \in Nat /\ Len(f) = n /\ 1..n = (1..Len(doc)) \cup {n}
  BY <1>1 DEF Longer
<1>3. /\ A \subseteq 1..Len(doc) /\ B \subseteq 1..n
      /\ \A i \in 1..Len(doc) : i \in B <=> i \in A
      /\ n \in B <=> e.k \in {"start", "empty"} /\ e.n = "status"
  BY <1>1, StatusesGrow
<1>4. ASSUME first.inside
      PROVE  first.found /\ \E o : Reading(f, B, o) /\ HoldsTexts(f, o, first.cur)
  <2>1. first.found
    BY <1>4 DEF FirstOK
  <2>2. PICK o : Reading(doc, A, o) /\ HoldsTexts(doc, o, first.cur)
    BY <1>4 DEF FirstOK
  <2>3. o \in 1..Len(doc) /\ o \in A /\ OpenAt(doc, o, n)
    BY <1>2, <2>2 DEF Reading, Leads
  <2>4. OpenStatus(o, n)
    BY <2>3 DEF OpenStatus, Statuses
  <2>5. e.k = "end" => Len(open) # DepthIn(doc, o) + 1
    <3>1. ASSUME e.k = "end" PROVE Len(open) # DepthIn(doc, o) + 1
      <4>1. e.n # "status"
        BY <3>1
      <4> QED
        BY <2>3, <2>4, <3>1, <4>1, StatusEnds
    <3> QED
      BY <3>1
  <2> HIDE DEF A, B
  <2>6. Reading(f, B, o)
    BY <1>3, <2>2, <2>5, ReadingKept
  <2>7. e.k # "text"
    BY <1>4
  <2>8. TextsOf(f, {o}) = TextsOf(doc, {o})
    BY <1>1, <2>3, <2>7, TextsOfOne
  <2>9. HoldsTexts(f, o, first.cur)
    BY <2>2, <2>8, HoldsSame
  <2> QED
    BY <2>1, <2>6, <2>9
<1>5. ASSUME ~first.inside PROVE ~first.found /\ B = {} /\ first.cur = <<>>
  <2>1. ~first.found /\ A = {} /\ first.cur = <<>>
    BY <1>5 DEF FirstOK
  <2>2. n \notin B
    BY <1>3
  <2> HIDE DEF A, B
  <2>3. B = {}
    BY <1>2, <1>3, <2>1, <2>2
  <2> QED
    BY <2>1, <2>3
<1>6. "run" # "ok"
  OBVIOUS
<1> QED
  BY <1>4, <1>5, <1>6 DEF FirstOK

\* A status begins.
LEMMA FirstBegins ==
    ASSUME NEW e, NEW f, NEW n, Reads(e, f, n), first.res = "run", FirstOK(doc, first),
           e.k = "start", e.n = "status", NEW r, r.res = "run", r.inside, r.found, r.cur = first.cur
    PROVE  FirstOK(f, r)
<1> DEFINE A == Statuses(doc)
           B == Statuses(f)
<1>1. Longer(doc, e, f, n) /\ "run" # "ok"
  BY DEF Reads
<1>2. n = Len(doc) + 1 /\ Len(doc) \in Nat /\ Len(f) = n /\ 1..n = (1..Len(doc)) \cup {n}
  BY <1>1 DEF Longer
<1>3. /\ A \subseteq 1..Len(doc) /\ B \subseteq 1..n
      /\ \A i \in 1..Len(doc) : i \in B <=> i \in A
      /\ n \in B <=> e.k \in {"start", "empty"} /\ e.n = "status"
  BY <1>1, StatusesGrow
<1> SUFFICES \E o : Reading(f, B, o) /\ HoldsTexts(f, o, first.cur)
  BY <1>1 DEF FirstOK
<1>4. CASE first.inside
  <2>1. PICK o : Reading(doc, A, o) /\ HoldsTexts(doc, o, first.cur)
    BY <1>4 DEF FirstOK
  <2>2. o \in 1..Len(doc) /\ e.k # "end" /\ e.k # "text"
    BY <2>1 DEF Reading
  <2> HIDE DEF A, B
  <2>3. Reading(f, B, o)
    BY <1>3, <2>1, <2>2, ReadingKept
  <2>4. TextsOf(f, {o}) = TextsOf(doc, {o})
    BY <1>1, <2>2, TextsOfOne
  <2>5. HoldsTexts(f, o, first.cur)
    BY <2>1, <2>4, HoldsSame
  <2> QED
    BY <2>3, <2>5
<1>5. CASE ~first.inside
  <2>1. A = {} /\ first.cur = <<>>
    BY <1>5 DEF FirstOK
  <2>2. n \in B
    BY <1>3
  <2> HIDE DEF A, B
  <2>3. Reading(f, B, n)
    BY <1>3, <2>1, <2>2, ReadingBegins
  <2>4. TextsOf(f, {n}) = {}
    BY <1>1, TextsOfNew
  <2>5. HoldsTexts(f, n, <<>>)
    BY <2>4, HoldsNone
  <2> QED
    BY <2>1, <2>3, <2>5
<1> QED
  BY <1>4, <1>5

\* An element without content, or the end tag of the open one: the text is complete.
LEMMA FirstFinds ==
    ASSUME NEW e, NEW f, NEW n, Reads(e, f, n), first.res = "run", FirstOK(doc, first),
           NoStatusInStatus(e, n), e.k \in {"empty", "end"}, e.n = "status",
           NEW r, r.res = "ok", e.k = "empty" => r.found /\ r.cur = <<>>,
           e.k = "end" => r.found = first.found /\ r.cur = first.cur
    PROVE  FirstOK(f, r)
<1> DEFINE A == Statuses(doc)
           B == Statuses(f)
<1>1. Longer(doc, e, f, n) /\ Opened(doc, e, f, n, open) /\ "run" # "ok"
  BY DEF Reads
<1>2. n = Len(doc) + 1 /\ Len(doc) \in Nat /\ Len(f) = n /\ 1..n = (1..Len(doc)) \cup {n} /\ n \in 1..n
  BY <1>1 DEF Longer
<1>3. /\ A \subseteq 1..Len(doc) /\ B \subseteq 1..n
      /\ \A i \in 1..Len(doc) : i \in B <=> i \in A
      /\ n \in B <=> e.k \in {"start", "empty"} /\ e.n = "status"
  BY <1>1, StatusesGrow
<1> SUFFICES r.found /\ \E o : ReadWhole(f, B, o) /\ HoldsTexts(f, o, r.cur)
  BY <1>1 DEF FirstOK
<1>4. ASSUME first.inside PROVE \E o \in A : OpenStatus(o, n) /\ Reading(doc, A, o) /\ HoldsTexts(doc, o, first.cur)
  <2>1. PICK o : Reading(doc, A, o) /\ HoldsTexts(doc, o, first.cur)
    BY <1>4 DEF FirstOK
  <2>2. o \in 1..Len(doc) /\ o \in A /\ OpenAt(doc, o, n)
    BY <1>2, <2>1 DEF Reading, Leads
  <2>3. OpenStatus(o, n)
    BY <2>2 DEF OpenStatus, Statuses
  <2> QED
    BY <2>1, <2>2, <2>3
<1>5. CASE e.k = "empty"
  <2>1. ~first.inside
    BY <1>3, <1>4, <1>5 DEF NoStatusInStatus
  <2>2. A = {} /\ r.found /\ r.cur = <<>> /\ n \in B
    BY <1>3, <1>5, <2>1 DEF FirstOK
  <2>3. ClosesAt(f, n, n)
    BY <1>1, <1>2, <1>5, ClosesNew
  <2>4. TextsOf(f, {n}) = {}
    BY <1>1, TextsOfNew
  <2>5. HoldsTexts(f, n, <<>>)
    BY <2>4, HoldsNone
  <2> HIDE DEF A, B
  <2>6. Leads(B, n)
    BY <1>2, <1>3, <2>2, LeadsFirst
  <2>7. ReadWhole(f, B, n)
    BY <1>2, <2>3, <2>6 DEF ReadWhole
  <2> QED
    BY <2>2, <2>5, <2>7
<1>6. CASE e.k = "end"
  <2>1. PICK a \in 1..Len(doc) : OpenStatus(a, n) /\ ClosesAt(f, a, n)
    BY <1>6, StatusEnds
  <2>2. a \in A
    BY <2>1 DEF OpenStatus, OpenAt, Statuses, IsOpening
  <2>3. first.inside
    BY <2>2 DEF FirstOK
  <2>4. first.found
    BY <2>3 DEF FirstOK
  <2>5. PICK o \in A : OpenStatus(o, n) /\ Reading(doc, A, o) /\ HoldsTexts(doc, o, first.cur)
    BY <1>4, <2>3
  <2>6. o = a /\ o \in 1..Len(doc)
    BY <1>3, <2>1, <2>5 DEF NoStatusInStatus
  <2>7. TextsOf(f, {o}) = TextsOf(doc, {o})
    BY <1>1, <1>6, <2>6, TextsOfOne
  <2>8. HoldsTexts(f, o, first.cur)
    BY <2>5, <2>7, HoldsSame
  <2>9. Leads(A, o)
    BY <2>5 DEF Reading
  <2> HIDE DEF A, B
  <2>10. Leads(B, o)
    <3>1. PICK m \in Nat : m = Len(doc)
      BY <1>2
    <3>2. A \subseteq 1..m /\ B \subseteq 1..n /\ n = m + 1 /\ \A i \in 1..m : i \in B <=> i \in A
      BY <1>2, <1>3, <3>1
    <3> QED
      BY <2>9, <3>2, LeadsStays
  <2>11. ReadWhole(f, B, o)
    BY <1>2, <2>1, <2>6, <2>10 DEF ReadWhole
  <2> QED
    BY <1>6, <2>4, <2>8, <2>11
<1> QED
  BY <1>5, <1>6

\* A text of the open status.
LEMMA FirstGoesOn ==
    ASSUME NEW e, NEW f, NEW n, Reads(e, f, n), first.res = "run", FirstOK(doc, first),
           e.k = "text", first.inside,
           NEW r, r.res = "run", r.inside, r.found = first.found, r.cur = Append(first.cur, n)
    PROVE  FirstOK(f, r)
<1> DEFINE A == Statuses(doc)
           B == Statuses(f)
<1>1. Longer(doc, e, f, n) /\ "run" # "ok"
  BY DEF Reads
<1>2. n = Len(doc) + 1 /\ Len(doc) \in Nat
  BY <1>1 DEF Longer
<1>3. /\ A \subseteq 1..Len(doc) /\ B \subseteq 1..n
      /\ \A i \in 1..Len(doc) : i \in B <=> i \in A
  BY <1>1, StatusesGrow
<1>4. PICK o : Reading(doc, A, o) /\ HoldsTexts(doc, o, first.cur)
  BY DEF FirstOK
<1>5. o \in 1..Len(doc) /\ OpenAt(doc, o, n) /\ e.k # "end"
  BY <1>2, <1>4 DEF Reading
<1>6. first.found
  BY DEF FirstOK
<1> SUFFICES \E p : Reading(f, B, p) /\ HoldsTexts(f, p, Append(first.cur, n))
  BY <1>1, <1>6 DEF FirstOK
<1> HIDE DEF A, B
<1>7. Reading(f, B, o)
  BY <1>3, <1>4, <1>5, ReadingKept
<1>8. TextsOf(doc, {o}) \subseteq 1..Len(doc)
  BY DEF TextsOf
<1>9. TextsOf(f, {o}) = TextsOf(doc, {o}) \cup {n}
  <2>1. ASSUME NEW p \in 1..Len(doc), OpenAt(doc, p, n) PROVE TextsOf(f, {p}) = TextsOf(doc, {p}) \cup {n}
    BY <1>1, <2>1, TextsOfMore
  <2> QED
    BY <1>5, <2>1
<1>10. HoldsTexts(f, o, Append(first.cur, n))
  BY <1>2, <1>4, <1>8, <1>9, HoldsMore
<1> QED
  BY <1>7, <1>10

\* The end of the stream before the status has been closed.
LEMMA FirstMisses ==
    ASSUME NEW e, NEW f, NEW n, Reads(e, f, n), first.res = "run", FirstOK(doc, first),
           e.k = "eof", NEW r, r.res = "ok", ~r.found
    PROVE  FirstOK(f, r)
<1> DEFINE A == Statuses(doc)
           B == Statuses(f)
<1>1. Longer(doc, e, f, n) /\ "run" # "ok"
  BY DEF Reads
<1>2. n = Len(doc) + 1 /\ Len(doc) \in Nat /\ Len(f) = n /\ 1..n = (1..Len(doc)) \cup {n}
  BY <1>1 DEF Longer
<1>3. /\ A \subseteq 1..Len(doc) /\ B \subseteq 1..n
      /\ \A i \in 1..Len(doc) : i \in B <=> i \in A
      /\ n \in B <=> e.k \in {"start", "empty"} /\ e.n = "status"
  BY <1>1, StatusesGrow
<1> SUFFICES Unread(f, B)
  BY <1>1 DEF FirstOK
<1>4. CASE first.inside
  <2>1. PICK o : Reading(doc, A, o)
    BY <1>4 DEF FirstOK
  <2>2. e.k # "end"
    OBVIOUS
  <2> HIDE DEF A, B
  <2>3. Reading(f, B, o)
    BY <1>3, <2>1, <2>2, ReadingKept
  <2>4. Len(f) \in Nat /\ B \subseteq 1..Len(f)
    BY <1>2, <1>3
  <2> QED
    BY <2>3, <2>4, OpenIsUnread
<1>5. CASE ~first.inside
  <2>1. A = {} /\ n \notin B
    BY <1>3, <1>5 DEF FirstOK
  <2> HIDE DEF A, B
  <2>2. B = {}
    BY <1>2, <1>3, <2>1
  <2> QED
    BY <2>2 DEF Unread, Leads
<1> QED
  BY <1>4, <1>5

\* One step of first_element_text.
LEMMA FirstReads ==
    ASSUME NEW e, NEW f, NEW n, Reads(e, f, n), first \in FirstRecord, first.res = "run",
           FirstOK(doc, first), NoStatusInStatus(e, n)
    PROVE  /\ FirstStep(first, e, n) \in FirstRecord
           /\ FirstStep(first, e, n).res = "ok" /\ ~FirstStep(first, e, n).found => e.k = "eof"
           /\ FirstStep(first, e, n).res # "err" => FirstOK(f, FirstStep(first, e, n))
<1> DEFINE r == FirstStep(first, e, n)
           to(b, g, c, z) == [inside |-> b, found |-> g, cur |-> c, res |-> z]
           in == first.inside
<1>1. e \in Events /\ n \in Nat
  BY DEF Reads, Longer
<1>2. /\ e.k = "start" /\ e.n = "status" => r = to(TRUE, TRUE, first.cur, "run")
      /\ e.k = "start" /\ e.n # "status" => r = first
      /\ e.k = "empty" /\ e.n = "status" => r = to(in, TRUE, <<>>, "ok")
      /\ e.k = "empty" /\ e.n # "status" => r = first
      /\ e.k = "text" /\ in => r = to(in, first.found, Append(first.cur, n), "run")
      /\ e.k = "text" /\ ~in => r = first
      /\ e.k = "end" /\ e.n = "status" => r = to(in, first.found, first.cur, "ok")
      /\ e.k = "end" /\ e.n # "status" => r = first
      /\ e.k = "eof" => r = to(in, FALSE, first.cur, "ok")
      /\ e.k \in {"doctype", "bad"} => r = to(in, first.found, first.cur, "err")
  BY <1>1, FirstShape
<1>3. in \in BOOLEAN /\ first.found \in BOOLEAN /\ first.cur \in Seq(Nat)
  BY DEF FirstRecord
<1>4. Append(first.cur, n) \in Seq(Nat) /\ <<>> \in Seq(Nat)
  BY <1>1, <1>3
<1>5. "run" # "ok" /\ "err" # "ok" /\ "run" # "err"
  OBVIOUS
<1>6. e.k \in {"start", "empty", "end", "eof", "text", "bad", "doctype"}
  BY <1>1 DEF Events, Kinds
<1>7. ASSUME NEW b \in BOOLEAN, NEW g \in BOOLEAN, NEW c \in Seq(Nat), NEW z \in {"run", "ok", "err"},
             r = to(b, g, c, z)
      PROVE  r \in FirstRecord /\ r.inside = b /\ r.found = g /\ r.cur = c /\ r.res = z
  BY <1>7 DEF FirstRecord
<1> HIDE DEF r
<1>8. CASE r = first /\ (e.n # "status" \/ e.k \notin {"start", "empty", "end"}) /\ ~(e.k = "text" /\ in)
  <2>1. FirstOK(f, first)
    BY <1>8, FirstStays
  <2> QED
    BY <1>5, <1>8, <2>1 DEF r
<1>9. CASE e.k = "start" /\ e.n = "status"
  <2>1. r \in FirstRecord /\ r.inside = TRUE /\ r.found = TRUE /\ r.cur = first.cur /\ r.res = "run"
    BY <1>2, <1>3, <1>7, <1>9
  <2>2. r.inside /\ r.found
    BY <2>1
  <2>3. FirstOK(f, r)
    BY <1>9, <2>1, <2>2, FirstBegins
  <2> QED
    BY <1>5, <2>1, <2>3 DEF r
<1>10. CASE e.k = "empty" /\ e.n = "status"
  <2>1. r \in FirstRecord /\ r.found = TRUE /\ r.cur = <<>> /\ r.res = "ok"
    BY <1>2, <1>3, <1>4, <1>7, <1>10
  <2>2. r.found /\ e.k # "end"
    BY <1>10, <2>1
  <2>3. FirstOK(f, r)
    BY <1>10, <2>1, <2>2, FirstFinds
  <2> QED
    BY <2>1, <2>2, <2>3 DEF r
<1>11. CASE e.k = "text" /\ in
  <2>1. /\ r \in FirstRecord /\ r.inside = in /\ r.found = first.found
        /\ r.cur = Append(first.cur, n) /\ r.res = "run"
    BY <1>2, <1>3, <1>4, <1>7, <1>11
  <2>2. FirstOK(f, r)
    BY <1>11, <2>1, FirstGoesOn
  <2> QED
    BY <1>5, <2>1, <2>2 DEF r
<1>12. CASE e.k = "end" /\ e.n = "status"
  <2>1. r \in FirstRecord /\ r.found = first.found /\ r.cur = first.cur /\ r.res = "ok"
    BY <1>2, <1>3, <1>7, <1>12
  <2>2. e.k # "empty" /\ e.k \in {"empty", "end"}
    BY <1>12
  <2>3. FirstOK(f, r)
    BY <1>12, <2>1, <2>2, FirstFinds
  <2>4. r.found
    <3>1. PICK a \in 1..Len(doc) : OpenStatus(a, n)
      BY <1>12, StatusEnds
    <3>2. a \in Statuses(doc)
      BY <3>1 DEF OpenStatus, OpenAt, Statuses, IsOpening
    <3>3. in
      BY <3>2 DEF FirstOK
    <3> QED
      BY <2>1, <3>3 DEF FirstOK
  <2> QED
    BY <2>1, <2>3, <2>4 DEF r
<1>13. CASE e.k = "eof"
  <2>1. r \in FirstRecord /\ r.found = FALSE /\ r.res = "ok"
    BY <1>2, <1>3, <1>7, <1>13
  <2>2. ~r.found
    BY <2>1
  <2>3. FirstOK(f, r)
    BY <1>13, <2>1, <2>2, FirstMisses
  <2> QED
    BY <1>13, <2>1, <2>3 DEF r
<1>14. CASE e.k \in {"doctype", "bad"}
  <2>1. r \in FirstRecord /\ r.res = "err"
    BY <1>2, <1>3, <1>7, <1>14
  <2> QED
    BY <1>5, <2>1 DEF r
<1>15. CASE e.k \in {"start", "empty", "end"} /\ e.n # "status"
  BY <1>2, <1>8, <1>15
<1>16. CASE e.k = "text" /\ ~in
  BY <1>2, <1>8, <1>16
<1> QED
  BY <1>6, <1>9, <1>10, <1>11, <1>12, <1>13, <1>14, <1>15, <1>16

-----------------------------------------------------------------------------
(* first_child_text: the first job and its own status. *)

IsJob(d, j) == d[j].k = "start" /\ d[j].n = "job"
JobAt(d, j) == IsJob(d, j) /\ \A i \in 1..(j - 1) : ~IsJob(d, i)
Own(d) ==
    {i \in Statuses(d) :
        \E j \in 1..(i - 1) : JobAt(d, j) /\ OpenAt(d, j, i) /\ DepthIn(d, i) = DepthIn(d, j) + 1}

\* x is the depth of the content of the open first job; 0 before it begins.
JobOpen(d, j) == JobAt(d, j) /\ OpenAt(d, j, Len(d) + 1)
InJob(d, x) ==
    /\ x = 0 => \A j \in 1..Len(d) : ~IsJob(d, j)
    /\ x # 0 => \E j \in 1..Len(d) : JobOpen(d, j) /\ DepthIn(d, j) + 1 = x

\* The first job has been closed.
JobOver(d) == \E j \in 1..Len(d) : JobAt(d, j) /\ ~OpenAt(d, j, Len(d) + 1)

\* There is one first job.
LEMMA OneJob ==
    ASSUME NEW d, NEW j \in Nat \ {0}, NEW k \in Nat \ {0}, JobAt(d, j), JobAt(d, k)
    PROVE  j = k
<1>1. ~(j < k)
  <2>1. j < k => j \in 1..(k - 1)
    OBVIOUS
  <2> QED
    BY <2>1 DEF JobAt
<1>2. ~(k < j)
  <2>1. k < j => k \in 1..(j - 1)
    OBVIOUS
  <2> QED
    BY <2>1 DEF JobAt
<1> QED
  BY <1>1, <1>2

\* The jobs after one more event.
LEMMA JobsGrow ==
    ASSUME NEW d, NEW e, NEW f, NEW n, Longer(d, e, f, n)
    PROVE  /\ \A j \in 1..Len(d) : (IsJob(f, j) <=> IsJob(d, j)) /\ (JobAt(f, j) <=> JobAt(d, j))
           /\ IsJob(f, n) <=> e.k = "start" /\ e.n = "job"
<1>1. n = Len(d) + 1 /\ Len(d) \in Nat /\ f[n] = e /\ \A i \in 1..Len(d) : f[i] = d[i]
  BY DEF Longer
<1>2. ASSUME NEW j \in 1..Len(d) PROVE IsJob(f, j) <=> IsJob(d, j)
  BY <1>1 DEF IsJob
<1>3. ASSUME NEW j \in 1..Len(d) PROVE JobAt(f, j) <=> JobAt(d, j)
  <2>1. \A i \in 1..(j - 1) : i \in 1..Len(d)
    BY <1>1
  <2>2. \A i \in 1..(j - 1) : IsJob(f, i) <=> IsJob(d, i)
    BY <1>2, <2>1
  <2> QED
    BY <1>2, <2>2, Zenon DEF JobAt
<1> QED
  BY <1>1, <1>2, <1>3 DEF IsJob

\* The job's own statuses after one more event.
LEMMA OwnGrow ==
    ASSUME NEW e, NEW f, NEW n, Reads(e, f, n)
    PROVE  /\ Own(doc) \subseteq 1..Len(doc) /\ Own(f) \subseteq 1..n
           /\ \A i \in 1..Len(doc) : i \in Own(f) <=> i \in Own(doc)
           /\ n \in Own(f) <=>
                  /\ e.k \in {"start", "empty"} /\ e.n = "status"
                  /\ \E j \in 1..Len(doc) : JobOpen(doc, j) /\ Len(open) = DepthIn(doc, j) + 1
<1>1. Longer(doc, e, f, n) /\ Opened(doc, e, f, n, open)
  BY DEF Reads
<1>2. /\ n = Len(doc) + 1 /\ n - 1 = Len(doc) /\ Len(doc) \in Nat /\ n \in 1..n
      /\ \A i \in 1..Len(doc) : i \in 1..n
      /\ \A i \in 1..n : DepthIn(f, i) = DepthIn(doc, i)
      /\ \A i \in 1..n, a \in 1..n : OpenAt(f, a, i) <=> OpenAt(doc, a, i)
      /\ DepthIn(f, n) = Len(open)
  BY <1>1 DEF Longer, Opened
<1>3. /\ Statuses(doc) \subseteq 1..Len(doc) /\ Statuses(f) \subseteq 1..n
      /\ \A i \in 1..Len(doc) : i \in Statuses(f) <=> i \in Statuses(doc)
      /\ n \in Statuses(f) <=> e.k \in {"start", "empty"} /\ e.n = "status"
  BY <1>1, StatusesGrow
<1>4. \A j \in 1..Len(doc) : JobAt(f, j) <=> JobAt(doc, j)
  BY <1>1, JobsGrow
<1>5. ASSUME NEW i \in 1..n, NEW j \in 1..(i - 1)
      PROVE  /\ j \in 1..Len(doc) /\ (JobAt(f, j) <=> JobAt(doc, j))
             /\ (OpenAt(f, j, i) <=> OpenAt(doc, j, i))
             /\ DepthIn(f, i) = DepthIn(doc, i) /\ DepthIn(f, j) = DepthIn(doc, j)
  <2>1. j \in 1..Len(doc) /\ j \in 1..n
    BY <1>2
  <2>2. JobAt(f, j) <=> JobAt(doc, j)
    BY <1>4, <2>1
  <2>3. OpenAt(f, j, i) <=> OpenAt(doc, j, i)
    BY <1>2, <2>1
  <2>4. DepthIn(f, i) = DepthIn(doc, i) /\ DepthIn(f, j) = DepthIn(doc, j)
    BY <1>2, <2>1
  <2> QED
    BY <2>1, <2>2, <2>3, <2>4
<1>6. ASSUME NEW i \in 1..Len(doc) PROVE i \in Own(f) <=> i \in Own(doc)
  <2>1. i \in 1..n /\ (i \in Statuses(f) <=> i \in Statuses(doc))
    BY <1>2, <1>3
  <2>2. \A j \in 1..(i - 1) : /\ (JobAt(f, j) <=> JobAt(doc, j))
                              /\ (OpenAt(f, j, i) <=> OpenAt(doc, j, i))
                              /\ DepthIn(f, i) = DepthIn(doc, i) /\ DepthIn(f, j) = DepthIn(doc, j)
    BY <1>5, <2>1
  <2> QED
    BY <2>1, <2>2, Zenon DEF Own
<1>7. n \in Own(f) <=>
          /\ e.k \in {"start", "empty"} /\ e.n = "status"
          /\ \E j \in 1..Len(doc) : JobOpen(doc, j) /\ Len(open) = DepthIn(doc, j) + 1
  <2>1. \A j \in 1..(n - 1) : /\ (JobAt(f, j) <=> JobAt(doc, j))
                              /\ (OpenAt(f, j, n) <=> OpenAt(doc, j, n))
                              /\ DepthIn(f, j) = DepthIn(doc, j)
    BY <1>2, <1>5
  <2>2. 1..(n - 1) = 1..Len(doc)
    BY <1>2
  <2>3. \A j : JobOpen(doc, j) <=> JobAt(doc, j) /\ OpenAt(doc, j, n)
    BY <1>2 DEF JobOpen
  <2>4. n \in Own(f) <=>
            /\ n \in Statuses(f)
            /\ \E j \in 1..(n - 1) : JobAt(f, j) /\ OpenAt(f, j, n) /\ DepthIn(f, n) = DepthIn(f, j) + 1
    BY Zenon DEF Own
  <2>5. (\E j \in 1..(n - 1) : JobAt(f, j) /\ OpenAt(f, j, n) /\ DepthIn(f, n) = DepthIn(f, j) + 1)
        <=> \E j \in 1..Len(doc) : JobOpen(doc, j) /\ Len(open) = DepthIn(doc, j) + 1
    BY <1>2, <2>1, <2>2, <2>3, Zenon
  <2> QED
    BY <1>3, <2>4, <2>5, Zenon
<1>8. Own(doc) \subseteq 1..Len(doc) /\ Own(f) \subseteq 1..n
  BY <1>3 DEF Own
<1> QED
  BY <1>6, <1>7, <1>8

\* In the reader's words.
LEMMA OwnNew ==
    ASSUME NEW e, NEW f, NEW n, Reads(e, f, n), NEW x, InJob(doc, x)
    PROVE  n \in Own(f) <=>
               e.k \in {"start", "empty"} /\ e.n = "status" /\ x # 0 /\ Len(open) = x
<1>1. n \in Own(f) <=>
          /\ e.k \in {"start", "empty"} /\ e.n = "status"
          /\ \E j \in 1..Len(doc) : JobOpen(doc, j) /\ Len(open) = DepthIn(doc, j) + 1
  BY OwnGrow
<1>2. (\E j \in 1..Len(doc) : JobOpen(doc, j) /\ Len(open) = DepthIn(doc, j) + 1) <=> x # 0 /\ Len(open) = x
  <2>1. CASE x = 0
    BY <2>1 DEF InJob, JobOpen, JobAt
  <2>2. CASE x # 0
    <3>1. PICK j \in 1..Len(doc) : JobOpen(doc, j) /\ DepthIn(doc, j) + 1 = x
      BY <2>2 DEF InJob
    <3>2. \A k \in 1..Len(doc) : JobOpen(doc, k) => k = j
      BY <3>1, OneJob DEF JobOpen
    <3> QED
      BY <2>2, <3>1, <3>2, Zenon
  <2> QED
    BY <2>1, <2>2
<1> QED
  BY <1>1, <1>2, Zenon

\* An event that neither begins the first job nor ends it.
LEMMA InJobKept ==
    ASSUME NEW e, NEW f, NEW n, Reads(e, f, n), NEW x, InJob(doc, x),
           ~(x = 0 /\ e.k = "start" /\ e.n = "job"), ~(x # 0 /\ e.k = "end" /\ x = Len(open))
    PROVE  InJob(f, x)
<1>1. Longer(doc, e, f, n) /\ Opened(doc, e, f, n, open)
  BY DEF Reads
<1>2. /\ n = Len(doc) + 1 /\ Len(f) = n /\ 1..n = (1..Len(doc)) \cup {n}
      /\ \A i \in 1..n : DepthIn(f, i) = DepthIn(doc, i)
      /\ \A a \in 1..n :
             OpenAt(f, a, n + 1) <=>
                 \/ a = n /\ e.k = "start"
                 \/ /\ a \in 1..Len(doc) /\ OpenAt(doc, a, n)
                    /\ ~(e.k = "end" /\ Len(open) = DepthIn(doc, a) + 1)
  BY <1>1 DEF Longer, Opened
<1>3. /\ \A j \in 1..Len(doc) : (IsJob(f, j) <=> IsJob(doc, j)) /\ (JobAt(f, j) <=> JobAt(doc, j))
      /\ IsJob(f, n) <=> e.k = "start" /\ e.n = "job"
  BY <1>1, JobsGrow
<1>4. CASE x = 0
  <2>1. \A j \in 1..Len(doc) : ~IsJob(doc, j)
    BY <1>4 DEF InJob
  <2>2. ~IsJob(f, n)
    BY <1>3, <1>4
  <2>3. \A j \in 1..Len(f) : ~IsJob(f, j)
    BY <1>2, <1>3, <2>1, <2>2
  <2> QED
    BY <1>4, <2>3 DEF InJob
<1>5. CASE x # 0
  <2>1. PICK j \in 1..Len(doc) : JobOpen(doc, j) /\ DepthIn(doc, j) + 1 = x
    BY <1>5 DEF InJob
  <2>2. JobAt(doc, j) /\ OpenAt(doc, j, n) /\ j \in 1..n
    BY <1>2, <2>1 DEF JobOpen
  <2>3. JobAt(f, j) /\ DepthIn(f, j) + 1 = x
    BY <1>2, <1>3, <2>1, <2>2
  <2>4. ~(e.k = "end" /\ Len(open) = DepthIn(doc, j) + 1)
    BY <1>5, <2>1
  <2>5. OpenAt(f, j, n + 1)
    BY <1>2, <2>2, <2>4
  <2>6. j \in 1..Len(f) /\ JobOpen(f, j)
    BY <1>2, <2>2, <2>3, <2>5 DEF JobOpen
  <2> QED
    BY <1>5, <2>3, <2>6 DEF InJob
<1> QED
  BY <1>4, <1>5

\* The first job begins.
LEMMA InJobBegins ==
    ASSUME NEW e, NEW f, NEW n, Reads(e, f, n), InJob(doc, 0), e.k = "start", e.n = "job"
    PROVE  InJob(f, Len(open) + 1)
<1>1. Longer(doc, e, f, n) /\ Opened(doc, e, f, n, open)
  BY DEF Reads
<1>2. /\ n = Len(doc) + 1 /\ Len(doc) \in Nat /\ Len(f) = n /\ n \in 1..n /\ DepthIn(f, n) = Len(open)
      /\ Len(open) \in Nat
      /\ \A a \in 1..n :
             OpenAt(f, a, n + 1) <=>
                 \/ a = n /\ e.k = "start"
                 \/ /\ a \in 1..Len(doc) /\ OpenAt(doc, a, n)
                    /\ ~(e.k = "end" /\ Len(open) = DepthIn(doc, a) + 1)
  BY <1>1 DEF Longer, Opened
<1>3. /\ \A j \in 1..Len(doc) : IsJob(f, j) <=> IsJob(doc, j)
      /\ IsJob(f, n)
  BY <1>1, JobsGrow
<1>4. \A j \in 1..Len(doc) : ~IsJob(doc, j)
  BY DEF InJob
<1>5. \A j \in 1..(n - 1) : ~IsJob(f, j)
  BY <1>2, <1>3, <1>4
<1>6. JobAt(f, n)
  BY <1>3, <1>5 DEF JobAt
<1>7. JobOpen(f, n)
  BY <1>2, <1>6 DEF JobOpen
<1>8. Len(open) + 1 # 0
  BY <1>2
<1> QED
  BY <1>2, <1>7, <1>8 DEF InJob

\* The first job ends: the innermost element at its depth is the job.
LEMMA InJobEnds ==
    ASSUME NEW e, NEW f, NEW n, Reads(e, f, n), NEW x, InJob(doc, x), x # 0, e.k = "end", x = Len(open)
    PROVE  e.n = "job" /\ JobOver(f)
<1>1. Longer(doc, e, f, n) /\ Opened(doc, e, f, n, open) /\ StackOK(doc, open) /\ Fits(open, e)
  BY DEF Reads
<1>2. /\ n = Len(doc) + 1 /\ Len(doc) \in Nat /\ Len(f) = n /\ 1..n = (1..Len(doc)) \cup {n}
      /\ n \notin 1..Len(doc)
      /\ \A a \in 1..n :
             OpenAt(f, a, n + 1) <=>
                 \/ a = n /\ e.k = "start"
                 \/ /\ a \in 1..Len(doc) /\ OpenAt(doc, a, n)
                    /\ ~(e.k = "end" /\ Len(open) = DepthIn(doc, a) + 1)
  BY <1>1 DEF Longer, Opened
<1>3. PICK j \in 1..Len(doc) : JobOpen(doc, j) /\ DepthIn(doc, j) + 1 = x
  BY DEF InJob
<1>4. JobAt(doc, j) /\ IsJob(doc, j) /\ OpenAt(doc, j, Len(doc) + 1)
  BY <1>3 DEF JobOpen, JobAt
<1>5. doc[j].n = open[DepthIn(doc, j) + 1]
  BY <1>1, <1>4 DEF StackOK
<1>6. e.n = "job"
  BY <1>1, <1>3, <1>4, <1>5 DEF Fits, IsJob
<1>7. JobAt(f, j)
  BY <1>1, <1>4, JobsGrow
<1>8. ~OpenAt(f, j, n + 1) /\ j \in 1..Len(f)
  BY <1>2, <1>3
<1> QED
  BY <1>2, <1>6, <1>7, <1>8 DEF JobOver

\* A closed first job has all the statuses it will have.
LEMMA JobStaysOver ==
    ASSUME NEW e, NEW f, NEW n, Reads(e, f, n), JobOver(doc), Own(doc) = {}
    PROVE  JobOver(f) /\ Own(f) = {}
<1>1. Longer(doc, e, f, n) /\ Opened(doc, e, f, n, open)
  BY DEF Reads
<1>2. /\ n = Len(doc) + 1 /\ Len(doc) \in Nat /\ Len(f) = n /\ 1..n = (1..Len(doc)) \cup {n}
      /\ n \notin 1..Len(doc)
      /\ \A a \in 1..n :
             OpenAt(f, a, n + 1) <=>
                 \/ a = n /\ e.k = "start"
                 \/ /\ a \in 1..Len(doc) /\ OpenAt(doc, a, n)
                    /\ ~(e.k = "end" /\ Len(open) = DepthIn(doc, a) + 1)
  BY <1>1 DEF Longer, Opened
<1>3. PICK j \in 1..Len(doc) : JobAt(doc, j) /\ ~OpenAt(doc, j, n)
  BY <1>2 DEF JobOver
<1>4. JobAt(f, j)
  BY <1>1, <1>3, JobsGrow
<1>5. ~OpenAt(f, j, n + 1) /\ j \in 1..Len(f)
  BY <1>2, <1>3
<1>6. JobOver(f)
  BY <1>2, <1>4, <1>5 DEF JobOver
<1>7. \A k \in 1..Len(doc) : ~JobOpen(doc, k)
  <2>1. ASSUME NEW k \in 1..Len(doc), JobAt(doc, k) PROVE k = j
    BY <1>3, <2>1, OneJob
  <2> QED
    BY <1>2, <1>3, <2>1 DEF JobOpen
<1>8. /\ Own(f) \subseteq 1..n
      /\ \A i \in 1..Len(doc) : i \in Own(f) <=> i \in Own(doc)
      /\ n \in Own(f) <=>
             /\ e.k \in {"start", "empty"} /\ e.n = "status"
             /\ \E k \in 1..Len(doc) : JobOpen(doc, k) /\ Len(open) = DepthIn(doc, k) + 1
  BY OwnGrow
<1>9. n \notin Own(f)
  BY <1>7, <1>8, Zenon
<1>10. Own(f) = {}
  BY <1>2, <1>8, <1>9
<1> QED
  BY <1>6, <1>10

ChildRecord == [pd : Nat, inside : BOOLEAN, found : BOOLEAN, pieces : Seq(Seq(Nat)), cur : Seq(Nat),
                res : {"run", "ok", "err"}]

\* The element that is read, and what has been read of it.
ReadsOwn(d, x, ps, c) ==
    \E o : /\ Reading(d, Own(d), o) /\ DepthIn(d, o) = x
           /\ TextOK(TextsOf(d, {o}), Len(d), ps, c)

HasRead(d, ps) ==
    \E o : ReadWhole(d, Own(d), o) /\ {Elems(p) : p \in Elems(ps)} = Runs(TextsOf(d, {o}))

ChildOK(d, r) ==
    /\ r.res = "run" => InJob(d, r.pd)
    /\ r.res = "run" /\ r.inside => r.found /\ r.pd # 0 /\ ReadsOwn(d, r.pd, r.pieces, r.cur)
    /\ r.res = "run" /\ ~r.inside =>
           ~r.found /\ Own(d) = {} /\ r.pieces = <<>> /\ r.cur = <<>>
    /\ r.res = "ok" /\ r.found => HasRead(d, r.pieces)
    /\ r.res = "ok" /\ ~r.found => Unread(d, Own(d))

\* The element that is read is a status below the job's own level.
LEMMA ReadsBelow ==
    ASSUME NEW e, NEW f, NEW n, Reads(e, f, n), NEW x, NEW o, Reading(doc, Own(doc), o),
           DepthIn(doc, o) = x
    PROVE  o \in 1..Len(doc) /\ OpenStatus(o, n) /\ x < Len(open)
<1>1. StackOK(doc, open) /\ n = Len(doc) + 1
  BY DEF Reads, Longer
<1>2. o \in 1..Len(doc) /\ o \in Own(doc) /\ OpenAt(doc, o, n)
  BY <1>1 DEF Reading, Leads
<1>3. doc[o].n = "status"
  BY <1>2 DEF Own, Statuses
<1>4. DepthIn(doc, o) < Len(open)
  BY <1>1, <1>2 DEF StackOK
<1> QED
  BY <1>2, <1>3, <1>4 DEF OpenStatus

\* No status of the job has begun.
LEMMA ChildWaits ==
    ASSUME NEW e, NEW f, NEW n, Reads(e, f, n), child.res = "run", ~child.inside, ChildOK(doc, child),
           NEW r, r.res = "run", ~r.inside, ~r.found, r.pieces = child.pieces, r.cur = child.cur,
           InJob(f, r.pd), n \notin Own(f)
    PROVE  ChildOK(f, r)
<1>1. Own(doc) = {} /\ child.pieces = <<>> /\ child.cur = <<>>
  BY DEF ChildOK
<1>2. /\ Own(f) \subseteq 1..n
      /\ \A i \in 1..Len(doc) : i \in Own(f) <=> i \in Own(doc)
  BY OwnGrow
<1>3. 1..n = (1..Len(doc)) \cup {n}
  BY DEF Reads, Longer
<1>4. Own(f) = {}
  BY <1>1, <1>2, <1>3
<1>5. "run" # "ok"
  OBVIOUS
<1> QED
  BY <1>1, <1>4, <1>5 DEF ChildOK

\* The job's status begins.
LEMMA ChildBegins ==
    ASSUME NEW e, NEW f, NEW n, Reads(e, f, n), child.res = "run", ~child.inside, ChildOK(doc, child),
           e.k = "start", n \in Own(f), Len(open) = child.pd, child.pd # 0,
           NEW r, r.res = "run", r.inside, r.found, r.pd = child.pd,
           r.pieces = child.pieces, r.cur = child.cur, InJob(f, r.pd)
    PROVE  ChildOK(f, r)
<1>1. Own(doc) = {} /\ child.pieces = <<>> /\ child.cur = <<>>
  BY DEF ChildOK
<1>2. /\ Own(f) \subseteq 1..n
      /\ \A i \in 1..Len(doc) : i \in Own(f) <=> i \in Own(doc)
  BY OwnGrow
<1>3. /\ Longer(doc, e, f, n) /\ Len(f) = n /\ n \in Nat /\ DepthIn(f, n) = Len(open)
  BY DEF Reads, Longer, Opened
<1>4. Reading(f, Own(f), n)
  BY <1>1, <1>2, ReadingBegins
<1>5. TextsOf(f, {n}) = {}
  BY <1>3, TextsOfNew
<1>6. TextOK(TextsOf(f, {n}), Len(f), <<>>, <<>>)
  BY <1>3, <1>5, NoText
<1>7. ReadsOwn(f, r.pd, r.pieces, r.cur)
  BY <1>1, <1>3, <1>4, <1>6 DEF ReadsOwn
<1>8. "run" # "ok"
  OBVIOUS
<1> QED
  BY <1>7, <1>8 DEF ChildOK

\* The status stays open: a text continues its piece, anything else ends it.
LEMMA ChildGoesOn ==
    ASSUME NEW e, NEW f, NEW n, Reads(e, f, n), child.res = "run", child.inside, ChildOK(doc, child),
           NoStatusInStatus(e, n), ~(e.k = "end" /\ e.n = "status"),
           NEW r, r.res = "run", r.inside, r.found, r.pd = child.pd, InJob(f, r.pd),
           e.k = "text" => r.pieces = child.pieces /\ r.cur = Append(child.cur, n),
           e.k # "text" => r.pieces = Finished(child.pieces, child.cur) /\ r.cur = <<>>
    PROVE  ChildOK(f, r)
<1> DEFINE A == Own(doc)
           B == Own(f)
<1>1. child.pd # 0 /\ ReadsOwn(doc, child.pd, child.pieces, child.cur)
  BY DEF ChildOK
<1>2. PICK o : /\ Reading(doc, A, o) /\ DepthIn(doc, o) = child.pd
               /\ TextOK(TextsOf(doc, {o}), Len(doc), child.pieces, child.cur)
  BY <1>1 DEF ReadsOwn
<1>3. o \in 1..Len(doc) /\ OpenStatus(o, n)
  BY <1>2, ReadsBelow
<1>4. OpenAt(doc, o, n)
  BY <1>3 DEF OpenStatus
<1>5. e.k = "end" => Len(open) # DepthIn(doc, o) + 1
  <2>1. ASSUME e.k = "end" PROVE Len(open) # DepthIn(doc, o) + 1
    <3>1. e.n # "status"
      BY <2>1
    <3> QED
      BY <1>3, <2>1, <3>1, StatusEnds
  <2> QED
    BY <2>1
<1>6. A \subseteq 1..Len(doc) /\ B \subseteq 1..n /\ \A i \in 1..Len(doc) : i \in B <=> i \in A
  BY OwnGrow
<1>7. Longer(doc, e, f, n) /\ n = Len(doc) + 1 /\ Len(doc) \in Nat /\ Len(f) = n
  BY DEF Reads, Longer
<1>8. DepthIn(f, o) = child.pd
  BY <1>2, <1>3, <1>7 DEF Longer
<1> HIDE DEF A, B
<1>9. Reading(f, B, o)
  BY <1>2, <1>5, <1>6, ReadingKept
<1>10. TextOK(TextsOf(f, {o}), n, r.pieces, r.cur)
  <2>1. CASE e.k = "text"
    <3>1. TextsOf(f, {o}) = TextsOf(doc, {o}) \cup {n}
      BY <1>3, <1>4, <1>7, <2>1, TextsOfMore
    <3>2. TextOK(TextsOf(doc, {o}) \cup {n}, n, child.pieces, Append(child.cur, n))
      BY <1>2, <1>7, TextMore
    <3> QED
      BY <2>1, <3>1, <3>2
  <2>2. CASE e.k # "text"
    <3>1. TextsOf(f, {o}) = TextsOf(doc, {o})
      BY <1>3, <1>7, <2>2, TextsOfOne
    <3>2. TextOK(TextsOf(doc, {o}), n, Finished(child.pieces, child.cur), <<>>)
      BY <1>2, <1>7, TextCut DEF Finished
    <3> QED
      BY <2>2, <3>1, <3>2
  <2> QED
    BY <2>1, <2>2
<1>11. ReadsOwn(f, r.pd, r.pieces, r.cur)
  BY <1>7, <1>8, <1>9, <1>10 DEF ReadsOwn, B
<1>12. "run" # "ok"
  OBVIOUS
<1> QED
  BY <1>1, <1>11, <1>12 DEF ChildOK

\* The job's status is an element without content.
LEMMA ChildEmpty ==
    ASSUME NEW e, NEW f, NEW n, Reads(e, f, n), child.res = "run", ~child.inside, ChildOK(doc, child),
           e.k = "empty", n \in Own(f), NEW r, r.res = "ok", r.found, r.pieces = child.pieces
    PROVE  ChildOK(f, r)
<1>1. Own(doc) = {} /\ child.pieces = <<>>
  BY DEF ChildOK
<1>2. /\ Own(f) \subseteq 1..n
      /\ \A i \in 1..Len(doc) : i \in Own(f) <=> i \in Own(doc)
  BY OwnGrow
<1>3. /\ Longer(doc, e, f, n) /\ Opened(doc, e, f, n, open) /\ Len(f) = n /\ n = Len(doc) + 1
      /\ Len(doc) \in Nat /\ n \in 1..n
  BY DEF Reads, Longer
<1>4. Leads(Own(f), n)
  BY <1>1, <1>2, <1>3, LeadsFirst
<1>5. ClosesAt(f, n, n)
  BY <1>3, ClosesNew
<1>6. ReadWhole(f, Own(f), n)
  BY <1>3, <1>4, <1>5 DEF ReadWhole
<1>7. TextsOf(f, {n}) = {}
  BY <1>3, TextsOfNew
<1>8. Runs({}) = {Elems(p) : p \in Elems(<<>>)}
  BY DEF Runs, Elems
<1>9. HasRead(f, r.pieces)
  BY <1>1, <1>6, <1>7, <1>8 DEF HasRead
<1>10. "run" # "ok"
  OBVIOUS
<1> QED
  BY <1>9, <1>10 DEF ChildOK

\* The end tag of the job's status.
LEMMA ChildFinds ==
    ASSUME NEW e, NEW f, NEW n, Reads(e, f, n), child.res = "run", child.inside, ChildOK(doc, child),
           NoStatusInStatus(e, n), e.k = "end", e.n = "status",
           NEW r, r.res = "ok", r.found, r.pieces = Finished(child.pieces, child.cur)
    PROVE  ChildOK(f, r)
<1> DEFINE A == Own(doc)
           B == Own(f)
<1>1. ReadsOwn(doc, child.pd, child.pieces, child.cur)
  BY DEF ChildOK
<1>2. PICK o : /\ Reading(doc, A, o) /\ DepthIn(doc, o) = child.pd
               /\ TextOK(TextsOf(doc, {o}), Len(doc), child.pieces, child.cur)
  BY <1>1 DEF ReadsOwn
<1>3. o \in 1..Len(doc) /\ OpenStatus(o, n)
  BY <1>2, ReadsBelow
<1>4. PICK a \in 1..Len(doc) : OpenStatus(a, n) /\ ClosesAt(f, a, n)
  BY StatusEnds
<1>5. a = o
  BY <1>3, <1>4 DEF NoStatusInStatus
<1>6. A \subseteq 1..Len(doc) /\ B \subseteq 1..n /\ \A i \in 1..Len(doc) : i \in B <=> i \in A
  BY OwnGrow
<1>7. Longer(doc, e, f, n) /\ n = Len(doc) + 1 /\ Len(doc) \in Nat /\ Len(f) = n
  BY DEF Reads, Longer
<1> HIDE DEF A, B
<1>8. Leads(B, o)
  <2>1. PICK m \in Nat : m = Len(doc)
    BY <1>7
  <2>2. A \subseteq 1..m /\ B \subseteq 1..n /\ n = m + 1 /\ \A i \in 1..m : i \in B <=> i \in A
    BY <1>6, <1>7, <2>1
  <2>3. Leads(A, o)
    BY <1>2 DEF Reading
  <2> QED
    BY <2>2, <2>3, LeadsStays
<1>9. o \in 1..n /\ n \in 1..n
  BY <1>3, <1>7
<1>10. ReadWhole(f, B, o)
  BY <1>4, <1>5, <1>7, <1>8, <1>9 DEF ReadWhole
<1>11. TextsOf(f, {o}) = TextsOf(doc, {o})
  BY <1>3, <1>7, TextsOfOne
<1>12. TextOK(TextsOf(doc, {o}), n, Finished(child.pieces, child.cur), <<>>)
  BY <1>2, <1>7, TextCut DEF Finished
<1>13. {Elems(p) : p \in Elems(r.pieces)} = Runs(TextsOf(f, {o}))
  BY <1>11, <1>12, TextIs
<1>14. HasRead(f, r.pieces)
  BY <1>10, <1>13 DEF HasRead, B
<1>15. "run" # "ok"
  OBVIOUS
<1> QED
  BY <1>14, <1>15 DEF ChildOK

\* The end of the stream, or of a job without a status.
LEMMA ChildMisses ==
    ASSUME NEW e, NEW f, NEW n, Reads(e, f, n), child.res = "run", ChildOK(doc, child),
           e.k = "eof" \/ (e.k = "end" /\ ~child.inside), NEW r, r.res = "ok", ~r.found
    PROVE  ChildOK(f, r) /\ (~child.inside => Own(f) = {})
<1> DEFINE A == Own(doc)
           B == Own(f)
<1>1. /\ A \subseteq 1..Len(doc) /\ B \subseteq 1..n /\ \A i \in 1..Len(doc) : i \in B <=> i \in A
      /\ n \in B => e.k \in {"start", "empty"}
  BY OwnGrow
<1>2. Longer(doc, e, f, n) /\ 1..n = (1..Len(doc)) \cup {n} /\ n = Len(doc) + 1 /\ Len(doc) \in Nat /\ Len(f) = n
  BY DEF Reads, Longer
<1>3. ASSUME ~child.inside PROVE B = {}
  <2>1. A = {} /\ n \notin B
    BY <1>1, <1>3 DEF ChildOK
  <2> HIDE DEF A, B
  <2> QED
    BY <1>1, <1>2, <2>1
<1>4. Unread(f, B)
  <2>1. CASE ~child.inside
    BY <1>3, <2>1 DEF Unread, Leads
  <2>2. CASE child.inside
    <3>1. PICK o : Reading(doc, A, o)
      BY <2>2 DEF ChildOK, ReadsOwn
    <3>2. e.k # "end"
      BY <2>2
    <3> HIDE DEF A, B
    <3>3. Reading(f, B, o)
      BY <1>1, <3>1, <3>2, ReadingKept
    <3>4. Len(f) \in Nat /\ B \subseteq 1..Len(f)
      BY <1>1, <1>2
    <3> QED
      BY <3>3, <3>4, OpenIsUnread
  <2> QED
    BY <2>1, <2>2
<1>5. "run" # "ok"
  OBVIOUS
<1> QED
  BY <1>3, <1>4, <1>5 DEF ChildOK

ChildTo(p, b, g, ps, c, z) ==
    [pd |-> p, inside |-> b, found |-> g, pieces |-> ps, cur |-> c, res |-> z]

\* Finishing the piece.
LEMMA ChildFlush ==
    ASSUME NEW p, NEW b, NEW g, NEW ps, NEW c, NEW z, NEW q, q = ChildTo(p, b, g, ps, c, z)
    PROVE  Flush(q) = ChildTo(p, b, g, Finished(ps, c), <<>>, z)
<1>1. q.cur = c /\ q.pieces = ps
  BY DEF ChildTo
<1>2. CASE c = <<>>
  BY <1>1, <1>2 DEF Flush, Finished
<1>3. CASE c # <<>>
  <2>1. Flush(q) = [[q EXCEPT !.pieces = Append(ps, c)] EXCEPT !.cur = <<>>]
    BY <1>1, <1>3 DEF Flush
  <2> DEFINE w == Append(ps, c)
  <2> HIDE DEF w
  <2>2. PICK t : t = [q EXCEPT !.pieces = w]
    OBVIOUS
  <2>3. t = ChildTo(p, b, g, w, c, z)
    BY <2>2 DEF ChildTo
  <2>4. ASSUME NEW x PROVE [t EXCEPT !.cur = x] = ChildTo(p, b, g, w, x, z)
    BY <2>3 DEF ChildTo
  <2> USE DEF w
  <2>5. Flush(q) = ChildTo(p, b, g, Append(ps, c), <<>>, z)
    BY <2>1, <2>2, <2>4, Zenon
  <2> QED
    BY <1>3, <2>5 DEF Finished
<1> QED
  BY <1>2, <1>3

\* What a step of first_child_text leaves: r, for the event e at n.
ChildLeaves(r, p, b, g, ps, c, e, n) ==
    LET begins == p = 0 /\ e.n = "job"
        own == p # 0 /\ Len(open) = p /\ e.n = "status"
        more == ChildTo(p, b, g, Finished(ps, c), <<>>, "run")
    IN /\ e.k = "start" /\ begins => r = ChildTo(Len(open) + 1, b, g, ps, c, "run")
       /\ e.k = "start" /\ own => r = ChildTo(p, TRUE, TRUE, ps, c, "run")
       /\ e.k \in {"start", "empty"} /\ b => r = more
       /\ e.k = "start" /\ ~begins /\ ~own /\ ~b => r = child
       /\ e.k = "empty" /\ own => r = ChildTo(p, b, TRUE, ps, c, "ok")
       /\ e.k = "empty" /\ ~own /\ ~b => r = child
       /\ e.k = "text" /\ b => r = ChildTo(p, b, g, ps, Append(c, n), "run")
       /\ e.k = "text" /\ ~b => r = child
       /\ e.k = "end" /\ b /\ e.n = "status" =>
              r = ChildTo(p, b, g, Finished(ps, c), <<>>, "ok")
       /\ e.k = "end" /\ b /\ e.n # "status" => r = more
       /\ e.k = "end" /\ ~b /\ p = Len(open) /\ e.n = "job" =>
              r = ChildTo(p, b, FALSE, ps, c, "ok")
       /\ e.k = "end" /\ ~b /\ ~(p = Len(open) /\ e.n = "job") => r = child
       /\ e.k = "eof" => r = ChildTo(p, b, FALSE, ps, c, "ok")
       /\ e.k \in {"doctype", "bad"} => r = ChildTo(p, b, g, ps, c, "err")

\* The record a step of first_child_text leaves.
LEMMA ChildShape ==
    ASSUME NEW p \in Nat, NEW b \in BOOLEAN, NEW g, NEW ps, NEW c, NEW e \in Events, NEW n,
           child = ChildTo(p, b, g, ps, c, "run"), b => p # 0 /\ p < Len(open), Len(open) \in Nat
    PROVE  ChildLeaves(ChildStep(child, e, n), p, b, g, ps, c, e, n)
<1> DEFINE r == ChildStep(child, e, n)
           begins == p = 0 /\ e.n = "job"
           own == p # 0 /\ Len(open) = p /\ e.n = "status"
           more == ChildTo(p, b, g, Finished(ps, c), <<>>, "run")
<1>1. child.pd = p /\ child.inside = b /\ child.found = g /\ child.pieces = ps /\ child.cur = c
  BY DEF ChildTo
<1>2. Flush(child) = more
  BY ChildFlush
<1>3. DirectlyBelow(child) <=> p # 0 /\ Len(open) = p
  BY <1>1 DEF DirectlyBelow
<1>4. "job" # "status"
  OBVIOUS
<1>5. [child EXCEPT !.pd = Len(open) + 1] = ChildTo(Len(open) + 1, b, g, ps, c, "run")
  BY DEF ChildTo
<1>6. [[child EXCEPT !.inside = TRUE] EXCEPT !.found = TRUE] = ChildTo(p, TRUE, TRUE, ps, c, "run")
  <2>1. ASSUME NEW x, NEW y
        PROVE  [[child EXCEPT !.inside = x] EXCEPT !.found = y] = ChildTo(p, x, y, ps, c, "run")
    <3>1. PICK t : t = [child EXCEPT !.inside = x]
      OBVIOUS
    <3>2. t = ChildTo(p, x, g, ps, c, "run")
      BY <3>1 DEF ChildTo
    <3>3. [t EXCEPT !.found = y] = ChildTo(p, x, y, ps, c, "run")
      BY <3>2 DEF ChildTo
    <3> QED
      BY <3>1, <3>3
  <2> QED
    BY <2>1, Zenon
<1>7. ASSUME NEW y
      PROVE  [[child EXCEPT !.found = y] EXCEPT !.res = "ok"] = ChildTo(p, b, y, ps, c, "ok")
  <2>1. PICK t : t = [child EXCEPT !.found = y]
    OBVIOUS
  <2>2. t = ChildTo(p, b, y, ps, c, "run")
    BY <2>1 DEF ChildTo
  <2>3. [t EXCEPT !.res = "ok"] = ChildTo(p, b, y, ps, c, "ok")
    BY <2>2 DEF ChildTo
  <2> QED
    BY <2>1, <2>3
<1>8. [child EXCEPT !.cur = Append(c, n)] = ChildTo(p, b, g, ps, Append(c, n), "run")
  BY DEF ChildTo
<1>9. [Flush(child) EXCEPT !.res = "ok"] = ChildTo(p, b, g, Finished(ps, c), <<>>, "ok")
  BY <1>2 DEF ChildTo
<1>10. [child EXCEPT !.res = "err"] = ChildTo(p, b, g, ps, c, "err")
  BY DEF ChildTo
<1> HIDE DEF more, begins, own
<1>11. ASSUME e.k = "start"
       PROVE  /\ begins => r = ChildTo(Len(open) + 1, b, g, ps, c, "run")
              /\ own => r = ChildTo(p, TRUE, TRUE, ps, c, "run")
              /\ b => r = more
              /\ ~begins /\ ~own /\ ~b => r = child
  <2>1. begins => r = ChildTo(Len(open) + 1, b, g, ps, c, "run")
    BY <1>1, <1>5, <1>11 DEF ChildStep, begins
  <2>2. own => r = ChildTo(p, TRUE, TRUE, ps, c, "run")
    BY <1>1, <1>3, <1>4, <1>6, <1>11 DEF ChildStep, own
  <2>3. b => r = more
    <3>1. b => ~begins /\ ~own
      BY DEF begins, own
    <3>2. b => r = Flush(child)
      BY <1>1, <1>3, <1>11, <3>1 DEF ChildStep, begins, own
    <3> QED
      BY <1>2, <3>2, Zenon
  <2>4. ~begins /\ ~own /\ ~b => r = child
    BY <1>1, <1>3, <1>11 DEF ChildStep, begins, own
  <2> QED
    BY <2>1, <2>2, <2>3, <2>4
<1>12. ASSUME e.k = "empty"
       PROVE  /\ b => r = more
              /\ own => r = ChildTo(p, b, TRUE, ps, c, "ok")
              /\ ~own /\ ~b => r = child
  <2>1. b => r = more
    BY <1>1, <1>2, <1>12 DEF ChildStep
  <2>2. own => r = ChildTo(p, b, TRUE, ps, c, "ok")
    <3>1. own => ~b
      BY DEF own
    <3>2. own => r = [[child EXCEPT !.found = TRUE] EXCEPT !.res = "ok"]
      BY <1>1, <1>3, <1>12, <3>1 DEF ChildStep, own
    <3> QED
      BY <1>7, <3>2, Zenon
  <2>3. ~own /\ ~b => r = child
    BY <1>1, <1>3, <1>12 DEF ChildStep, own
  <2> QED
    BY <2>1, <2>2, <2>3
<1>13. ASSUME e.k = "text"
       PROVE  /\ b => r = ChildTo(p, b, g, ps, Append(c, n), "run")
              /\ ~b => r = child
  BY <1>1, <1>8, <1>13 DEF ChildStep
<1>14. ASSUME e.k = "end"
       PROVE  /\ b /\ e.n = "status" => r = ChildTo(p, b, g, Finished(ps, c), <<>>, "ok")
              /\ b /\ e.n # "status" => r = more
              /\ ~b /\ p = Len(open) /\ e.n = "job" => r = ChildTo(p, b, FALSE, ps, c, "ok")
              /\ ~b /\ ~(p = Len(open) /\ e.n = "job") => r = child
  <2>1. b /\ e.n = "status" => r = ChildTo(p, b, g, Finished(ps, c), <<>>, "ok")
    BY <1>1, <1>9, <1>14 DEF ChildStep
  <2>2. b /\ e.n # "status" => r = more
    <3>1. b => p # Len(open)
      OBVIOUS
    <3>2. b /\ e.n # "status" => r = Flush(child)
      BY <1>1, <1>14, <3>1 DEF ChildStep
    <3> QED
      BY <1>2, <3>2, Zenon
  <2>3. ~b /\ p = Len(open) /\ e.n = "job" => r = ChildTo(p, b, FALSE, ps, c, "ok")
    <3>1. ~b /\ p = Len(open) /\ e.n = "job" => r = [[child EXCEPT !.found = FALSE] EXCEPT !.res = "ok"]
      BY <1>1, <1>14 DEF ChildStep
    <3> QED
      BY <1>7, <3>1, Zenon
  <2>4. ~b /\ ~(p = Len(open) /\ e.n = "job") => r = child
    BY <1>1, <1>14 DEF ChildStep
  <2> QED
    BY <2>1, <2>2, <2>3, <2>4
<1>15. ASSUME e.k = "eof" PROVE r = ChildTo(p, b, FALSE, ps, c, "ok")
  <2>1. r = [[child EXCEPT !.found = FALSE] EXCEPT !.res = "ok"]
    BY <1>15 DEF ChildStep
  <2> QED
    BY <1>7, <2>1, Zenon
<1>16. ASSUME e.k \in {"doctype", "bad"} PROVE r = ChildTo(p, b, g, ps, c, "err")
  BY <1>10, <1>16 DEF ChildStep
<1> HIDE DEF r
<1> QED
  BY <1>11, <1>12, <1>13, <1>14, <1>15, <1>16 DEF ChildLeaves, r, begins, own, more

\* One step of first_child_text.
LEMMA ChildReads ==
    ASSUME NEW e, NEW f, NEW n, Reads(e, f, n), child \in ChildRecord, child.res = "run",
           ChildOK(doc, child), NoStatusInStatus(e, n)
    PROVE  /\ ChildStep(child, e, n) \in ChildRecord
           /\ ChildStep(child, e, n).res = "ok" /\ ~ChildStep(child, e, n).found =>
                  e.k = "eof" \/ (JobOver(f) /\ Own(f) = {})
           /\ ChildStep(child, e, n).res # "err" => ChildOK(f, ChildStep(child, e, n))
<1>1. PICK p, b, g, ps, c : child = ChildTo(p, b, g, ps, c, "run")
  BY DEF ChildRecord, ChildTo
<1>2. child.pd = p /\ child.inside = b /\ child.found = g /\ child.pieces = ps /\ child.cur = c
  BY <1>1 DEF ChildTo
<1>3. p \in Nat /\ b \in BOOLEAN /\ g \in BOOLEAN /\ ps \in Seq(Seq(Nat)) /\ c \in Seq(Nat)
  BY <1>2 DEF ChildRecord
<1>4. e \in Events /\ n \in Nat /\ Len(open) \in Nat
  BY DEF Reads, Longer, Opened
<1>5. ASSUME b PROVE p # 0 /\ p < Len(open) /\ g
  <2>1. ReadsOwn(doc, p, ps, c) /\ p # 0 /\ g
    BY <1>2, <1>5 DEF ChildOK
  <2>2. PICK o : Reading(doc, Own(doc), o) /\ DepthIn(doc, o) = p
    BY <2>1 DEF ReadsOwn
  <2> QED
    BY <2>1, <2>2, ReadsBelow
<1> DEFINE r == ChildStep(child, e, n)
           begins == p = 0 /\ e.n = "job"
           own == p # 0 /\ Len(open) = p /\ e.n = "status"
           w == Finished(ps, c)
           more == ChildTo(p, b, g, w, <<>>, "run")
<1>6. b => p # 0 /\ p < Len(open)
  BY <1>5
<1>7. /\ e.k = "start" /\ begins => r = ChildTo(Len(open) + 1, b, g, ps, c, "run")
      /\ e.k = "start" /\ own => r = ChildTo(p, TRUE, TRUE, ps, c, "run")
      /\ e.k \in {"start", "empty"} /\ b => r = more
      /\ e.k = "start" /\ ~begins /\ ~own /\ ~b => r = child
      /\ e.k = "empty" /\ own => r = ChildTo(p, b, TRUE, ps, c, "ok")
      /\ e.k = "empty" /\ ~own /\ ~b => r = child
      /\ e.k = "text" /\ b => r = ChildTo(p, b, g, ps, Append(c, n), "run")
      /\ e.k = "text" /\ ~b => r = child
      /\ e.k = "end" /\ b /\ e.n = "status" => r = ChildTo(p, b, g, w, <<>>, "ok")
      /\ e.k = "end" /\ b /\ e.n # "status" => r = more
      /\ e.k = "end" /\ ~b /\ p = Len(open) /\ e.n = "job" => r = ChildTo(p, b, FALSE, ps, c, "ok")
      /\ e.k = "end" /\ ~b /\ ~(p = Len(open) /\ e.n = "job") => r = child
      /\ e.k = "eof" => r = ChildTo(p, b, FALSE, ps, c, "ok")
      /\ e.k \in {"doctype", "bad"} => r = ChildTo(p, b, g, ps, c, "err")
  <2>1. ChildLeaves(r, p, b, g, ps, c, e, n)
    BY <1>1, <1>3, <1>4, <1>6, ChildShape
  <2> QED
    BY <2>1, Zenon DEF ChildLeaves
<1>8. w \in Seq(Seq(Nat)) /\ <<>> \in Seq(Nat) /\ Append(c, n) \in Seq(Nat)
  BY <1>3, <1>4 DEF Finished
<1>9. "run" # "ok" /\ "err" # "ok" /\ "run" # "err" /\ "job" # "status"
  OBVIOUS
<1>10. e.k \in {"start", "empty", "end", "eof", "text", "bad", "doctype"}
  BY <1>4 DEF Events, Kinds
<1> HIDE DEF r, w
<1>11. ASSUME NEW x \in Nat, NEW i \in BOOLEAN, NEW h \in BOOLEAN, NEW qs \in Seq(Seq(Nat)),
              NEW k \in Seq(Nat), NEW z \in {"run", "ok", "err"}, r = ChildTo(x, i, h, qs, k, z)
       PROVE  /\ r \in ChildRecord /\ r.pd = x /\ r.inside = i /\ r.found = h
              /\ r.pieces = qs /\ r.cur = k /\ r.res = z
  <2>1. PICK q : q = [pd |-> x, inside |-> i, found |-> h, pieces |-> qs, cur |-> k, res |-> z]
    OBVIOUS
  <2>2. q \in ChildRecord
    BY <2>1 DEF ChildRecord
  <2>3. /\ q.pd = x /\ q.inside = i /\ q.found = h
        /\ q.pieces = qs /\ q.cur = k /\ q.res = z
    BY <2>1
  <2>4. r = q
    BY <1>11, <2>1 DEF ChildTo
  <2> QED
    BY <2>2, <2>3, <2>4
<1>24. FALSE \in BOOLEAN /\ TRUE \in BOOLEAN /\ "run" \in {"run", "ok", "err"} /\ "ok" \in {"run", "ok", "err"}
  OBVIOUS
<1>12. InJob(doc, p)
  BY <1>2 DEF ChildOK
<1>13. ASSUME ~(p = 0 /\ e.k = "start" /\ e.n = "job"), ~(p # 0 /\ e.k = "end" /\ p = Len(open))
       PROVE  InJob(f, p)
  BY <1>12, <1>13, InJobKept
<1>14. n \in Own(f) <=> e.k \in {"start", "empty"} /\ own
  BY <1>12, OwnNew
<1> DEFINE Goal == /\ r \in ChildRecord
                   /\ r.res = "ok" /\ ~r.found => e.k = "eof" \/ (JobOver(f) /\ Own(f) = {})
                   /\ r.res # "err" => ChildOK(f, r)
<1> HIDE DEF begins, own
<1>15. ASSUME r = child, ~b, ~(e.k = "start" /\ begins), ~(e.k \in {"start", "empty"} /\ own),
              ~(e.k = "end" /\ p = Len(open) /\ e.n = "job")
       PROVE  Goal
  <2>1. ~(p # 0 /\ e.k = "end" /\ p = Len(open))
    BY <1>12, <1>15, InJobEnds
  <2>2. InJob(f, r.pd)
    BY <1>2, <1>13, <1>15, <2>1 DEF begins
  <2>3. n \notin Own(f)
    BY <1>14, <1>15
  <2>4. r.res = "run" /\ ~r.inside /\ ~r.found /\ r.pieces = child.pieces /\ r.cur = child.cur
    BY <1>2, <1>15 DEF ChildOK
  <2>5. ChildOK(f, r)
    BY <1>2, <1>15, <2>2, <2>3, <2>4, ChildWaits
  <2> QED
    BY <1>9, <1>15, <2>4, <2>5
<1>16. ASSUME r = more, b, e.k # "text", ~(e.k = "end" /\ e.n = "status") PROVE Goal
  <2>1. r \in ChildRecord /\ r.pd = p /\ r.inside = b /\ r.found = g /\ r.pieces = w /\ r.cur = <<>> /\ r.res = "run"
    <3>1. r = ChildTo(p, b, g, w, <<>>, "run")
      BY <1>16
    <3> QED
      BY <1>3, <1>4, <1>8, <1>11, <1>24, <3>1
  <2>2. InJob(f, r.pd)
    <3>1. p # 0 /\ p # Len(open)
      BY <1>3, <1>4, <1>5, <1>16
    <3>2. InJob(f, p)
      BY <1>13, <3>1
    <3> QED
      BY <2>1, <3>2
  <2>3. r.pieces = Finished(child.pieces, child.cur)
    BY <1>2, <2>1 DEF w
  <2>4. r.inside /\ r.found /\ child.inside /\ r.pd = child.pd
    BY <1>2, <1>5, <1>16, <2>1
  <2>5. ChildOK(f, r)
    BY <1>16, <2>1, <2>2, <2>3, <2>4, ChildGoesOn
  <2> QED
    BY <1>9, <2>1, <2>5
<1>17. ASSUME r.res = "ok", r.found, r \in ChildRecord, ChildOK(f, r) PROVE Goal
  BY <1>17
<1>18. CASE e.k = "start"
  <2>1. CASE begins
    <3>1. ~b
      BY <1>5, <2>1 DEF begins
    <3>2. /\ r \in ChildRecord /\ r.pd = Len(open) + 1 /\ r.inside = b /\ r.found = g
          /\ r.pieces = ps /\ r.cur = c /\ r.res = "run"
      <4>1. Len(open) + 1 \in Nat
        BY <1>4
      <4> QED
        BY <1>3, <1>7, <1>11, <1>18, <2>1, <4>1
    <3>3. InJob(f, r.pd)
      <4>1. InJob(f, Len(open) + 1)
        BY <1>12, <1>18, <2>1, InJobBegins DEF begins
      <4> QED
        BY <3>2, <4>1
    <3>4. n \notin Own(f)
      BY <1>9, <1>14, <2>1 DEF begins, own
    <3>5. ~g
      BY <1>2, <3>1 DEF ChildOK
    <3>6. ~r.inside /\ ~r.found /\ r.pieces = child.pieces /\ r.cur = child.cur /\ ~child.inside
      BY <1>2, <3>1, <3>2, <3>5
    <3>7. ChildOK(f, r)
      BY <3>2, <3>3, <3>4, <3>6, ChildWaits
    <3> QED
      BY <1>9, <3>2, <3>7 DEF r
  <2>2. CASE own
    <3>1. ~b
      BY <1>5, <2>2 DEF own
    <3>2. /\ r \in ChildRecord /\ r.pd = p /\ r.inside = TRUE /\ r.found = TRUE
          /\ r.pieces = ps /\ r.cur = c /\ r.res = "run"
      BY <1>3, <1>7, <1>11, <1>18, <2>2
    <3>3. InJob(f, r.pd)
      <4>1. p # 0
        BY <2>2 DEF own
      <4>2. e.k # "end"
        BY <1>18
      <4> QED
        BY <1>13, <3>2, <4>1, <4>2
    <3>4. n \in Own(f)
      BY <1>14, <1>18, <2>2
    <3>5. Len(open) = child.pd /\ child.pd # 0
      BY <1>2, <2>2 DEF own
    <3>6. r.inside /\ r.found /\ r.pd = child.pd /\ r.pieces = child.pieces /\ r.cur = child.cur /\ ~child.inside
      BY <1>2, <3>1, <3>2
    <3>7. ChildOK(f, r)
      BY <1>18, <3>2, <3>3, <3>4, <3>5, <3>6, ChildBegins
    <3> QED
      BY <1>9, <3>2, <3>7 DEF r
  <2>3. CASE ~begins /\ ~own /\ ~b
    <3>1. r = child /\ e.k # "end"
      BY <1>7, <1>18, <2>3
    <3>2. Goal
      BY <1>15, <1>18, <2>3, <3>1
    <3> QED
      BY <3>2 DEF r
  <2>4. CASE b
    <3>1. r = more /\ e.k # "text" /\ e.k # "end"
      BY <1>7, <1>18, <2>4
    <3>2. Goal
      BY <1>16, <2>4, <3>1
    <3> QED
      BY <3>2 DEF r
  <2> QED
    BY <2>1, <2>2, <2>3, <2>4
<1>19. CASE e.k = "empty"
  <2>1. CASE own
    <3>1. ~b
      BY <1>5, <2>1 DEF own
    <3>2. r \in ChildRecord /\ r.found = TRUE /\ r.pieces = ps /\ r.res = "ok"
      <4>1. r = ChildTo(p, b, TRUE, ps, c, "ok")
        BY <1>7, <1>19, <2>1
      <4> QED
        BY <1>3, <1>4, <1>8, <1>11, <1>24, <4>1
    <3>3. n \in Own(f)
      BY <1>14, <1>19, <2>1
    <3>4. r.found /\ r.pieces = child.pieces /\ ~child.inside
      BY <1>2, <3>1, <3>2
    <3>5. ChildOK(f, r)
      BY <1>19, <3>2, <3>3, <3>4, ChildEmpty
    <3>6. Goal
      BY <1>17, <3>2, <3>4, <3>5
    <3> QED
      BY <3>6 DEF r
  <2>2. CASE ~own /\ ~b
    <3>1. r = child /\ e.k # "end" /\ e.k # "start"
      BY <1>7, <1>19, <2>2
    <3>2. Goal
      BY <1>15, <2>2, <3>1
    <3> QED
      BY <3>2 DEF r
  <2>3. CASE b
    <3>1. r = more /\ e.k # "text" /\ e.k # "end"
      BY <1>7, <1>19, <2>3
    <3>2. Goal
      BY <1>16, <2>3, <3>1
    <3> QED
      BY <3>2 DEF r
  <2> QED
    BY <2>1, <2>2, <2>3
<1>20. CASE e.k = "text"
  <2>1. CASE b
    <3>1. /\ r \in ChildRecord /\ r.pd = p /\ r.inside = b /\ r.found = g
          /\ r.pieces = ps /\ r.cur = Append(c, n) /\ r.res = "run"
      <4>1. r = ChildTo(p, b, g, ps, Append(c, n), "run")
        BY <1>7, <1>20, <2>1
      <4> QED
        BY <1>3, <1>4, <1>8, <1>11, <1>24, <4>1
    <3>2. e.k # "end" /\ e.k # "start"
      BY <1>20
    <3>3. InJob(f, r.pd)
      BY <1>13, <3>1, <3>2
    <3>4. r.inside /\ r.found /\ r.pd = child.pd /\ r.pieces = child.pieces /\ r.cur = Append(child.cur, n) /\ child.inside
      BY <1>2, <1>5, <2>1, <3>1
    <3>5. ChildOK(f, r)
      BY <1>20, <3>1, <3>2, <3>3, <3>4, ChildGoesOn
    <3> QED
      BY <1>9, <3>1, <3>5 DEF r
  <2>2. CASE ~b
    <3>1. r = child /\ e.k # "end" /\ e.k # "start" /\ e.k # "empty"
      BY <1>7, <1>20, <2>2
    <3>2. Goal
      BY <1>15, <2>2, <3>1
    <3> QED
      BY <3>2 DEF r
  <2> QED
    BY <2>1, <2>2
<1>21. CASE e.k = "end"
  <2>1. CASE b /\ e.n = "status"
    <3>1. r \in ChildRecord /\ r.found = g /\ r.pieces = w /\ r.res = "ok"
      <4>1. r = ChildTo(p, b, g, w, <<>>, "ok")
        BY <1>7, <1>21, <2>1
      <4> QED
        BY <1>3, <1>4, <1>8, <1>11, <1>24, <4>1
    <3>2. r.pieces = Finished(child.pieces, child.cur)
      BY <1>2, <3>1 DEF w
    <3>3. r.found /\ child.inside
      BY <1>2, <1>5, <2>1, <3>1
    <3>4. ChildOK(f, r)
      BY <1>21, <2>1, <3>1, <3>2, <3>3, ChildFinds
    <3>5. Goal
      BY <1>17, <3>1, <3>3, <3>4
    <3> QED
      BY <3>5 DEF r
  <2>2. CASE b /\ e.n # "status"
    <3>1. r = more /\ e.k # "text"
      BY <1>7, <1>21, <2>2
    <3>2. Goal
      BY <1>16, <2>2, <3>1
    <3> QED
      BY <3>2 DEF r
  <2>3. CASE ~b /\ p = Len(open) /\ e.n = "job"
    <3>1. r \in ChildRecord /\ r.found = FALSE /\ r.res = "ok"
      <4>1. r = ChildTo(p, b, FALSE, ps, c, "ok")
        BY <1>7, <1>21, <2>3
      <4> QED
        BY <1>3, <1>4, <1>8, <1>11, <1>24, <4>1
    <3>2. ~r.found /\ ~child.inside
      BY <1>2, <2>3, <3>1
    <3>3. ChildOK(f, r) /\ Own(f) = {}
      BY <1>21, <3>1, <3>2, ChildMisses
    <3>4. p # 0
      <4>1. open # <<>> /\ open \in Seq(Names)
        BY <1>21 DEF Reads, Fits, StackOK
      <4>2. Len(open) # 0
        BY <4>1
      <4> QED
        BY <2>3, <4>2
    <3>5. JobOver(f)
      BY <1>12, <1>21, <2>3, <3>4, InJobEnds
    <3> QED
      BY <3>1, <3>3, <3>5 DEF r
  <2>4. CASE ~b /\ ~(p = Len(open) /\ e.n = "job")
    <3>1. r = child /\ e.k # "start" /\ e.k # "empty"
      BY <1>7, <1>21, <2>4
    <3>2. Goal
      BY <1>15, <2>4, <3>1
    <3> QED
      BY <3>2 DEF r
  <2> QED
    BY <2>1, <2>2, <2>3, <2>4
<1>22. CASE e.k = "eof"
  <2>1. r \in ChildRecord /\ r.found = FALSE /\ r.res = "ok"
    <3>1. r = ChildTo(p, b, FALSE, ps, c, "ok")
      BY <1>7, <1>22
    <3> QED
      BY <1>3, <1>4, <1>8, <1>11, <1>24, <3>1
  <2>2. ~r.found
    BY <2>1
  <2>3. ChildOK(f, r)
    BY <1>22, <2>1, <2>2, ChildMisses
  <2> QED
    BY <1>22, <2>1, <2>3 DEF r
<1>23. CASE e.k \in {"doctype", "bad"}
  <2>1. r \in ChildRecord /\ r.res = "err"
    BY <1>3, <1>7, <1>11, <1>23
  <2> QED
    BY <1>9, <2>1 DEF r
<1> QED
  BY <1>10, <1>18, <1>19, <1>20, <1>21, <1>22, <1>23

\* An element without content is one that the innermost open element may hold.
LEMMA EmptyMayStand ==
    ASSUME doc \in Seq(Events), Next, NEW e, Read(e), e.k = "empty"
    PROVE  e.n \in Child[Here]
<1>1. doc' = Append(doc, e)
  BY DEF Read
<1>2. Len(doc) \in Nat
  OBVIOUS
<1>3. ASSUME NEW x, doc' = Append(doc, x) PROVE x = e
  <2>1. Append(doc, x)[Len(doc) + 1] = x /\ Append(doc, e)[Len(doc) + 1] = e
    OBVIOUS
  <2> QED
    BY <1>1, <1>3, <2>1
<1>4. ASSUME NEW k, NEW m, Read(Event(k, m)) PROVE e.k = k /\ e.n = m
  <2>1. doc' = Append(doc, Event(k, m))
    BY <1>4 DEF Read
  <2>2. e = Event(k, m)
    BY <1>3, <2>1
  <2> QED
    BY <2>2 DEF Event
<1>5. /\ "start" # "empty" /\ "text" # "empty" /\ "end" # "empty"
      /\ "doctype" # "empty" /\ "eof" # "empty" /\ "bad" # "empty"
  OBVIOUS
<1>6. ~Chars /\ ~Close /\ ~Doctype /\ ~End /\ ~CutBody /\ ~Garble
  BY <1>4, <1>5 DEF Chars, Close, Doctype, End, CutBody, Garble
<1>7. \A m : ~Open(m)
  BY <1>4, <1>5 DEF Open
<1>8. PICK m \in Names : Leaf(m)
  BY <1>6, <1>7 DEF Next
<1>9. e.n = m
  BY <1>4, <1>8 DEF Leaf
<1> QED
  BY <1>8, <1>9 DEF Leaf, MayHold

\* What may lie below a status is no status: no status lies in another one.
LEMMA NoneInside ==
    ASSUME StackOK(doc, open), NEW S, Within(S, "status"), NestOK(open, S, "status"),
           Next, NEW e, Read(e), NEW n, n = Len(doc) + 1
    PROVE  NoStatusInStatus(e, n)
<1>1. ASSUME NEW a \in 1..Len(doc), OpenStatus(a, n)
      PROVE  /\ DepthIn(doc, a) \in Nat /\ DepthIn(doc, a) + 1 \in 1..Len(open)
             /\ open[DepthIn(doc, a) + 1] = "status"
  <2>1. OpenAt(doc, a, Len(doc) + 1) /\ doc[a].n = "status"
    BY <1>1 DEF OpenStatus
  <2>2. DepthIn(doc, a) < Len(open) /\ doc[a].n = open[DepthIn(doc, a) + 1] /\ DepthIn(doc, a) \in Nat
    BY <2>1 DEF StackOK
  <2>3. Len(open) \in Nat
    BY DEF StackOK
  <2> QED
    BY <2>1, <2>2, <2>3
<1>2. ASSUME NEW a \in 1..Len(doc), NEW b \in 1..Len(doc), OpenStatus(a, n), OpenStatus(b, n)
      PROVE  a = b
  <2>1. DepthIn(doc, a) + 1 = DepthIn(doc, b) + 1
    <3>1. /\ DepthIn(doc, a) + 1 \in 1..Len(open) /\ open[DepthIn(doc, a) + 1] = "status"
          /\ DepthIn(doc, b) + 1 \in 1..Len(open) /\ open[DepthIn(doc, b) + 1] = "status"
      BY <1>1, <1>2
    <3> QED
      BY <3>1, NotNested
  <2>2. DepthIn(doc, a) \in Nat /\ DepthIn(doc, b) \in Nat
    BY <1>1, <1>2
  <2>3. DepthIn(doc, a) <= DepthIn(doc, b) /\ DepthIn(doc, b) <= DepthIn(doc, a)
    BY <2>1, <2>2
  <2>4. OpenAt(doc, a, Len(doc) + 1) /\ OpenAt(doc, b, Len(doc) + 1)
    BY <1>2 DEF OpenStatus
  <2>5. a <= b /\ b <= a
    BY <2>3, <2>4 DEF StackOK
  <2> QED
    BY <2>5
<1>3. ASSUME e.k = "empty", e.n = "status", NEW a \in 1..Len(doc), OpenStatus(a, n) PROVE FALSE
  <2>1. "status" \in Child[Here]
    <3>1. doc \in Seq(Events)
      BY DEF StackOK
    <3> QED
      BY <1>3, <3>1, EmptyMayStand
  <2>2. PICK l \in 1..Len(open) : open[l] = "status"
    BY <1>1, <1>3
  <2>3. Len(open) \in 1..Len(open) /\ Here = open[Len(open)]
    <3>1. open \in Seq(Names) /\ Len(open) # 0
      BY <2>2 DEF StackOK
    <3>2. open # <<>>
      BY <3>1
    <3> QED
      BY <3>1, <3>2 DEF Here
  <2>4. Here \in S \cup {"status"}
    <3>1. CASE l = Len(open)
      BY <2>2, <2>3, <3>1
    <3>2. CASE l # Len(open)
      <4>1. l < Len(open)
        BY <2>3, <3>2
      <4>2. open[Len(open)] \in S
        BY <2>2, <2>3, <4>1 DEF NestOK
      <4> QED
        BY <2>3, <4>2
    <3> QED
      BY <3>1, <3>2
  <2>5. "status" \in S
    BY <2>1, <2>4 DEF Within
  <2> QED
    BY <2>5 DEF Within
<1> QED
  BY <1>2, <1>3 DEF NoStatusInStatus

\* The three readers; they give up without an error only when nothing else can come.
MsgReader ==
    /\ msg \in MsgRecord
    /\ msg.res # "err" => MsgOK(doc, open, msg)
    /\ msg.res = "ok" => redact.res = "ok"
FirstReader ==
    /\ first \in FirstRecord
    /\ first.res # "err" => FirstOK(doc, first)
    /\ first.res = "ok" /\ ~first.found => redact.res = "ok"
ChildReader ==
    /\ child \in ChildRecord
    /\ child.res # "err" => ChildOK(doc, child)
    /\ child.res = "ok" /\ ~child.found => redact.res = "ok" \/ (JobOver(doc) /\ Own(doc) = {})
FieldInv(S) == ScanInv /\ NestOK(open, S, "status") /\ MsgReader /\ FirstReader /\ ChildReader

\* They hold before the first event.
LEMMA FieldStarts == ASSUME NEW S PROVE Init => FieldInv(S)
<1> SUFFICES ASSUME Init PROVE FieldInv(S)
  OBVIOUS
<1>1. Len(doc) = 0 /\ 1..Len(doc) = {} /\ open = <<>>
  BY EmptyStream DEF Init
<1>2. ScanInv
  BY ScanStarts
<1>3. NestOK(open, S, "status")
  <2>1. 1..Len(open) = {}
    BY <1>1
  <2> QED
    BY <2>1 DEF NestOK
<1>4. /\ child = [pd |-> 0, inside |-> FALSE, found |-> FALSE, pieces |-> <<>>, cur |-> <<>>, res |-> "run"]
      /\ first = [inside |-> FALSE, found |-> FALSE, cur |-> <<>>, res |-> "run"]
      /\ msg = [md |-> 0, pieces |-> <<>>, cur |-> <<>>, res |-> "run"]
  BY DEF Init
<1>5. "run" # "ok" /\ "run" # "err" /\ <<>> \in Seq(Nat) /\ <<>> \in Seq(Seq(Nat))
  OBVIOUS
<1>6. Statuses(doc) = {} /\ Own(doc) = {} /\ TextsOf(doc, MessageAt(doc)) = {}
  BY <1>1 DEF Statuses, Own, TextsOf
<1>7. MsgReader
  <2>1. msg \in MsgRecord /\ msg.res = "run" /\ msg.md = 0 /\ msg.cur = <<>> /\ msg.pieces = <<>>
    BY <1>4 DEF MsgRecord
  <2>2. Collecting(open, 0)
    <3>1. Len(open) = 0 /\ 1..(Len(open) - 0) = {}
      BY <1>1
    <3> QED
      BY <3>1 DEF Collecting
  <2>3. TextOK(TextsOf(doc, MessageAt(doc)), Len(doc), <<>>, <<>>)
    BY <1>1, <1>6, NoText
  <2>4. MsgOK(doc, open, msg)
    BY <1>5, <2>1, <2>2, <2>3 DEF MsgOK
  <2> QED
    BY <1>5, <2>1, <2>4 DEF MsgReader
<1>8. FirstReader
  <2>1. first \in FirstRecord /\ first.res = "run" /\ first.inside = FALSE /\ first.found = FALSE /\ first.cur = <<>>
    BY <1>4 DEF FirstRecord
  <2>2. FirstOK(doc, first)
    BY <1>5, <1>6, <2>1 DEF FirstOK
  <2> QED
    BY <1>5, <2>1, <2>2 DEF FirstReader
<1>9. ChildReader
  <2>1. /\ child \in ChildRecord /\ child.res = "run" /\ child.inside = FALSE /\ child.found = FALSE
        /\ child.pieces = <<>> /\ child.cur = <<>> /\ child.pd = 0
    BY <1>4 DEF ChildRecord
  <2>2. InJob(doc, 0)
    BY <1>1 DEF InJob
  <2>3. ChildOK(doc, child)
    BY <1>5, <1>6, <2>1, <2>2 DEF ChildOK
  <2> QED
    BY <1>5, <2>1, <2>3 DEF ChildReader
<1> QED
  BY <1>2, <1>3, <1>7, <1>8, <1>9 DEF FieldInv

\* What first_element_text has returned stays right.
LEMMA FirstStaysRead ==
    ASSUME NEW e, NEW f, NEW n, Reads(e, f, n), first.res = "ok", first.found, FirstOK(doc, first)
    PROVE  FirstOK(f, first)
<1> DEFINE A == Statuses(doc)
           B == Statuses(f)
<1>1. Longer(doc, e, f, n) /\ "run" # "ok"
  BY DEF Reads
<1>2. A \subseteq 1..Len(doc) /\ B \subseteq 1..n /\ \A i \in 1..Len(doc) : i \in B <=> i \in A
  BY <1>1, StatusesGrow
<1>3. PICK o : ReadWhole(doc, A, o) /\ HoldsTexts(doc, o, first.cur)
  BY DEF FirstOK
<1>4. ReadWhole(f, B, o) /\ TextsOf(f, {o}) = TextsOf(doc, {o})
  <2>1. GrowsTo(A, B, n)
    BY <1>2 DEF GrowsTo
  <2> HIDE DEF A, B
  <2> QED
    BY <1>1, <1>3, <2>1, CompleteKept
<1>5. HoldsTexts(f, o, first.cur)
  BY <1>3, <1>4 DEF HoldsTexts
<1> QED
  BY <1>1, <1>4, <1>5 DEF FirstOK

\* What first_child_text has returned stays right, and so does that the job has no status.
LEMMA ChildStaysRead ==
    ASSUME NEW e, NEW f, NEW n, Reads(e, f, n), child.res = "ok", ChildOK(doc, child),
           child.found \/ (JobOver(doc) /\ Own(doc) = {})
    PROVE  ChildOK(f, child) /\ (~child.found => JobOver(f) /\ Own(f) = {})
<1> DEFINE A == Own(doc)
           B == Own(f)
<1>1. Longer(doc, e, f, n) /\ "run" # "ok"
  BY DEF Reads
<1>2. A \subseteq 1..Len(doc) /\ B \subseteq 1..n /\ \A i \in 1..Len(doc) : i \in B <=> i \in A
  BY OwnGrow
<1>3. CASE child.found
  <2>1. PICK o : ReadWhole(doc, A, o) /\ {Elems(p) : p \in Elems(child.pieces)} = Runs(TextsOf(doc, {o}))
    BY <1>3 DEF ChildOK, HasRead
  <2>2. ReadWhole(f, B, o) /\ TextsOf(f, {o}) = TextsOf(doc, {o})
    <3>1. GrowsTo(A, B, n)
      BY <1>2 DEF GrowsTo
    <3> HIDE DEF A, B
    <3> QED
      BY <1>1, <2>1, <3>1, CompleteKept
  <2>3. HasRead(f, child.pieces)
    BY <2>1, <2>2 DEF HasRead
  <2> QED
    BY <1>1, <1>3, <2>3 DEF ChildOK
<1>4. CASE ~child.found
  <2>1. JobOver(f) /\ Own(f) = {}
    BY <1>4, JobStaysOver
  <2>2. Unread(f, Own(f))
    BY <2>1 DEF Unread, Leads
  <2> QED
    BY <1>1, <1>4, <2>1, <2>2 DEF ChildOK
<1> QED
  BY <1>3, <1>4

\* Every event keeps them.
LEMMA FieldKept ==
    ASSUME NEW S, Within(S, "status")
    PROVE  FieldInv(S) /\ [Next]_vars => FieldInv(S)'
<1> SUFFICES ASSUME FieldInv(S), [Next]_vars PROVE FieldInv(S)'
  OBVIOUS
<1>0. ScanInv' /\ StackOK(doc, open) /\ ask \in Windows /\ StreamEnds /\ NestOK(open, S, "status")
  BY ScanKept DEF FieldInv, ScanInv, StreamInv
<1>1. NestOK(open', S, "status")
  <2>1. open \in Seq(Names)
    BY <1>0 DEF StackOK
  <2> QED
    BY <1>0, <2>1, NestKept
<1>2. CASE UNCHANGED vars
  <2>1. doc' = doc /\ open' = open /\ redact' = redact /\ msg' = msg /\ first' = first /\ child' = child
    BY <1>2 DEF vars
  <2>2. MsgReader' /\ FirstReader' /\ ChildReader'
    BY <2>1 DEF FieldInv, MsgReader, FirstReader, ChildReader
  <2> QED
    BY <1>0, <1>1, <2>2 DEF FieldInv
<1>3. CASE Next
  <2>1. PICK e \in Events : ReadsOne(e)
    BY <1>0, <1>3, NextReads
  <2>2. PICK n : n = Len(doc) + 1
    OBVIOUS
  <2>3. Reads(e, doc', n) /\ open' = Stack(open, e) /\ StackOK(doc', Stack(open, e))
    BY <1>0, <2>1, <2>2, ReadGrows
  <2>4. /\ Read(e) /\ redact.res = "run" /\ redact' = RedactStep(redact, e, n)
        /\ child' = IF Running(child) THEN ChildStep(child, e, n) ELSE child
        /\ first' = IF Running(first) THEN FirstStep(first, e, n) ELSE first
        /\ msg' = IF Running(msg) THEN CollectStep(msg, e, n) ELSE msg
    BY <2>1, <2>2 DEF ReadsOne, Read
  <2>5. redact'.res = "ok" <=> e.k \in {"bad", "eof"}
    <3>1. n \in Nat /\ Len(open) \in Nat
      BY <2>3 DEF Reads, Longer, Opened
    <3> QED
      BY <1>0, <2>4, <3>1, RedactEnds DEF StreamEnds
  <2>6. "run" # "ok" /\ "err" # "ok" /\ "err" # "run"
    OBVIOUS
  <2>7. NoStatusInStatus(e, n)
    BY <1>0, <1>3, <2>2, <2>4, NoneInside
  <2>8. MsgReader'
    <3>1. MsgReader
      BY DEF FieldInv
    <3>2. CASE msg.res = "run"
      <4>1. msg' = CollectStep(msg, e, n)
        BY <2>4, <3>2 DEF Running
      <4>2. msg \in MsgRecord /\ MsgOK(doc, open, msg)
        BY <2>6, <3>1, <3>2 DEF MsgReader
      <4>3. /\ msg' \in MsgRecord
            /\ msg'.res = "ok" => e.k = "eof"
            /\ msg'.res # "err" => MsgOK(doc', open', msg')
        BY <2>3, <3>2, <4>1, <4>2, MsgReads
      <4> QED
        BY <2>5, <4>3 DEF MsgReader
    <3>3. CASE msg.res # "run"
      <4>1. msg' = msg /\ msg.res = "err"
        BY <2>4, <2>6, <3>1, <3>3 DEF Running, MsgReader, MsgRecord
      <4> QED
        BY <2>6, <3>1, <4>1 DEF MsgReader
    <3> QED
      BY <3>2, <3>3
  <2>9. FirstReader'
    <3>1. FirstReader
      BY DEF FieldInv
    <3>2. CASE first.res = "run"
      <4>1. first' = FirstStep(first, e, n)
        BY <2>4, <3>2 DEF Running
      <4>2. first \in FirstRecord /\ FirstOK(doc, first)
        BY <2>6, <3>1, <3>2 DEF FirstReader
      <4>3. /\ first' \in FirstRecord
            /\ first'.res = "ok" /\ ~first'.found => e.k = "eof"
            /\ first'.res # "err" => FirstOK(doc', first')
        BY <2>3, <2>7, <3>2, <4>1, <4>2, FirstReads
      <4> QED
        BY <2>5, <4>3 DEF FirstReader
    <3>3. CASE first.res = "err"
      <4>1. first' = first
        BY <2>4, <2>6, <3>3 DEF Running
      <4> QED
        BY <2>6, <3>1, <3>3, <4>1 DEF FirstReader
    <3>4. CASE first.res = "ok"
      <4>1. first' = first
        BY <2>4, <2>6, <3>4 DEF Running
      <4>2. first.found /\ FirstOK(doc, first) /\ first \in FirstRecord
        BY <2>4, <2>6, <3>1, <3>4 DEF FirstReader
      <4>3. FirstOK(doc', first)
        BY <2>3, <3>4, <4>2, FirstStaysRead
      <4> QED
        BY <4>1, <4>2, <4>3 DEF FirstReader
    <3>5. first.res \in {"run", "ok", "err"}
      BY <3>1 DEF FirstReader, FirstRecord
    <3> QED
      BY <3>2, <3>3, <3>4, <3>5
  <2>10. ChildReader'
    <3>1. ChildReader
      BY DEF FieldInv
    <3>2. CASE child.res = "run"
      <4>1. child' = ChildStep(child, e, n)
        BY <2>4, <3>2 DEF Running
      <4>2. child \in ChildRecord /\ ChildOK(doc, child)
        BY <2>6, <3>1, <3>2 DEF ChildReader
      <4>3. /\ child' \in ChildRecord
            /\ child'.res = "ok" /\ ~child'.found => e.k = "eof" \/ (JobOver(doc') /\ Own(doc') = {})
            /\ child'.res # "err" => ChildOK(doc', child')
        BY <2>3, <2>7, <3>2, <4>1, <4>2, ChildReads
      <4> QED
        BY <2>5, <4>3 DEF ChildReader
    <3>3. CASE child.res = "err"
      <4>1. child' = child
        BY <2>4, <2>6, <3>3 DEF Running
      <4> QED
        BY <2>6, <3>1, <3>3, <4>1 DEF ChildReader
    <3>4. CASE child.res = "ok"
      <4>1. child' = child
        BY <2>4, <2>6, <3>4 DEF Running
      <4>2. /\ child.found \/ (JobOver(doc) /\ Own(doc) = {})
            /\ ChildOK(doc, child) /\ child \in ChildRecord
        BY <2>4, <2>6, <3>1, <3>4 DEF ChildReader
      <4>3. ChildOK(doc', child) /\ (~child.found => JobOver(doc') /\ Own(doc') = {})
        BY <2>3, <3>4, <4>2, ChildStaysRead
      <4> QED
        BY <4>1, <4>2, <4>3 DEF ChildReader
    <3>5. child.res \in {"run", "ok", "err"}
      BY <3>1 DEF ChildReader, ChildRecord
    <3> QED
      BY <3>2, <3>3, <3>4, <3>5
  <2> QED
    BY <1>0, <1>1, <2>8, <2>9, <2>10 DEF FieldInv
<1> QED
  BY <1>2, <1>3

\* The first of a set of positions, as a set.
Leader(A) == {i \in A : \A j \in A : i <= j}

\* In the words of the model: an element that leads a set and has been closed.
LEMMA LeaderIs ==
    ASSUME Len(doc) \in Nat, NEW A, A \subseteq Seen
    PROVE  /\ (\E i \in Leader(A), j \in Seen : Closes(i, j)) <=> ~Unread(doc, A)
           /\ \A o : ReadWhole(doc, A, o) => Leader(A) = {o} /\ ~Unread(doc, A)
<1>1. Seen = 1..Len(doc) /\ \A i \in Seen : i \in Nat \ {0}
  BY DEF Seen
<1>2. \A i \in Leader(A) : i \in Seen /\ i \in A /\ Leads(A, i)
  BY DEF Leader, Leads
<1>3. \A i : Leads(A, i) => i \in Leader(A)
  BY DEF Leader, Leads
<1>4. \A i, j \in Seen : Closes(i, j) <=> ClosesAt(doc, i, j)
  BY <1>1, ClosesIs
<1>5. (\E i \in Leader(A), j \in Seen : Closes(i, j)) <=> ~Unread(doc, A)
  <2>1. ASSUME NEW i \in Leader(A), NEW j \in Seen, Closes(i, j) PROVE ~Unread(doc, A)
    <3>1. i \in Seen /\ Leads(A, i) /\ ClosesAt(doc, i, j)
      BY <1>2, <1>4, <2>1
    <3> QED
      BY <1>1, <3>1 DEF Unread
  <2>2. ASSUME ~Unread(doc, A) PROVE \E i \in Leader(A), j \in Seen : Closes(i, j)
    <3>1. PICK i \in 1..Len(doc), j \in 1..Len(doc) : Leads(A, i) /\ ClosesAt(doc, i, j)
      BY <2>2 DEF Unread
    <3>2. i \in Leader(A) /\ i \in Seen /\ j \in Seen
      BY <1>1, <1>3, <3>1
    <3>3. Closes(i, j)
      BY <1>4, <3>1, <3>2
    <3> QED
      BY <3>2, <3>3
  <2> QED
    BY <2>1, <2>2
<1>6. ASSUME NEW o, ReadWhole(doc, A, o) PROVE Leader(A) = {o} /\ ~Unread(doc, A)
  <2>1. o \in 1..Len(doc) /\ Leads(A, o) /\ \E j \in 1..Len(doc) : ClosesAt(doc, o, j)
    BY <1>6 DEF ReadWhole
  <2>2. ~Unread(doc, A)
    BY <2>1 DEF Unread
  <2>3. ASSUME NEW i \in Leader(A) PROVE i = o
    <3>1. i \in Nat /\ o \in Nat /\ i \in A /\ o \in A
      BY <1>1, <1>2, <2>1 DEF Leads
    <3>2. i <= o /\ o <= i
      BY <1>2, <2>1, <3>1 DEF Leads
    <3> QED
      BY <3>1, <3>2
  <2> QED
    BY <1>3, <2>1, <2>2, <2>3
<1> QED
  BY <1>5, <1>6

\* The texts below the elements of a set.
LEMMA TextsAre ==
    ASSUME Len(doc) \in Nat, NEW A, A \subseteq Seen
    PROVE  {i \in Seen : IsText(i) /\ \E a \in A : Around(a, i)} = TextsOf(doc, A)
<1>1. Seen = 1..Len(doc) /\ \A i \in Seen : i \in Nat \ {0}
  BY DEF Seen
<1>2. ASSUME NEW i \in Seen
      PROVE  (\E a \in A : Around(a, i)) <=> \E a \in 1..(i - 1) : a \in A /\ OpenAt(doc, a, i)
  <2>1. \A a \in A : Around(a, i) <=> OpenAt(doc, a, i)
    BY <1>1, AroundIs
  <2>2. ASSUME NEW a \in A, Around(a, i) PROVE a \in 1..(i - 1)
    <3>1. a < i /\ a \in Nat \ {0} /\ i \in Nat
      BY <1>1, <2>2 DEF Around
    <3> QED
      BY <3>1
  <2> QED
    BY <2>1, <2>2
<1> QED
  BY <1>1, <1>2 DEF TextsOf, IsText

\* The elements that the two readers look for.
LEMMA StatusIs ==
    ASSUME Len(doc) \in Nat
    PROVE  /\ {i \in Seen : Opens(i) /\ doc[i].n = "status"} = Statuses(doc)
           /\ {i \in {k \in Seen : Opens(k) /\ doc[k].n = "status"} :
                   \E a \in {k \in Seen : Starts(k) /\ doc[k].n = "job"
                                           /\ \A j \in 1..(k - 1) : ~(Starts(j) /\ doc[j].n = "job")} :
                       Around(a, i) /\ Depth(i) = Depth(a) + 1} = Own(doc)
<1> DEFINE status == {k \in Seen : Opens(k) /\ doc[k].n = "status"}
           job == {k \in Seen : Starts(k) /\ doc[k].n = "job"
                                 /\ \A j \in 1..(k - 1) : ~(Starts(j) /\ doc[j].n = "job")}
<1>1. Seen = 1..Len(doc) /\ \A i \in Seen : i \in Nat \ {0}
  BY DEF Seen
<1>2. status = Statuses(doc)
  BY <1>1 DEF Statuses, Opens, IsOpening
<1>3. \A k : k \in job <=> k \in Seen /\ JobAt(doc, k)
  BY <1>1 DEF JobAt, IsJob, Starts
<1> HIDE DEF status, job
<1>4. \A i : Depth(i) = DepthIn(doc, i)
  BY DepthIs
<1>5. ASSUME NEW i \in Statuses(doc)
      PROVE  (\E a \in job : Around(a, i) /\ Depth(i) = Depth(a) + 1) <=>
                 \E j \in 1..(i - 1) : /\ JobAt(doc, j) /\ OpenAt(doc, j, i)
                                       /\ DepthIn(doc, i) = DepthIn(doc, j) + 1
  <2>1. i \in Seen /\ i \in Nat \ {0} /\ i <= Len(doc)
    BY <1>1 DEF Statuses
  <2>2. ASSUME NEW a \in job, Around(a, i) PROVE a \in 1..(i - 1)
    <3>1. a < i /\ a \in Nat \ {0}
      BY <1>1, <1>3, <2>2 DEF Around
    <3> QED
      BY <2>1, <3>1
  <2>3. \A a \in 1..(i - 1) : a \in Seen /\ (Around(a, i) <=> OpenAt(doc, a, i))
    BY <1>1, <2>1, AroundIs
  <2>4. ASSUME NEW a \in 1..(i - 1)
        PROVE  a \in job /\ Around(a, i) /\ Depth(i) = Depth(a) + 1 <=>
                   JobAt(doc, a) /\ OpenAt(doc, a, i) /\ DepthIn(doc, i) = DepthIn(doc, a) + 1
    <3>1. (a \in job <=> JobAt(doc, a)) /\ (Around(a, i) <=> OpenAt(doc, a, i))
      BY <1>3, <2>3
    <3>2. Depth(i) = Depth(a) + 1 <=> DepthIn(doc, i) = DepthIn(doc, a) + 1
      BY <1>4
    <3> QED
      BY <3>1, <3>2, Zenon
  <2> QED
    BY <2>2, <2>4
<1>6. {i \in status : \E a \in job : Around(a, i) /\ Depth(i) = Depth(a) + 1} = Own(doc)
  BY <1>2, <1>5 DEF Own
<1> QED
  BY <1>2, <1>6 DEF status, job

\* What collect_text_for_elements has joined.
LEMMA MessageAnswers ==
    ASSUME StackOK(doc, open), MsgOK(doc, open, msg), msg.res = "ok"
    PROVE  /\ {Elems(p) : p \in Elems(msg.pieces)} =
                  Runs({i \in Seen : IsText(i) /\ Under({"msg", "line"}, i)})
           /\ \A k \in DOMAIN msg.pieces : Ascending(msg.pieces[k])
           /\ Ascending([k \in DOMAIN msg.pieces |-> msg.pieces[k][1]])
<1> DEFINE T == TextsOf(doc, MessageAt(doc))
           ps == msg.pieces
<1>1. TextOK(T, Len(doc), ps, <<>>)
  BY DEF MsgOK
<1>2. Len(doc) \in Nat /\ Seen = 1..Len(doc) /\ \A i \in Seen : i \in Nat \ {0}
  BY DEF StackOK, Seen
<1>3. {i \in Seen : IsText(i) /\ Under({"msg", "line"}, i)} = T
  <2>1. ASSUME NEW i \in Seen
        PROVE  Under({"msg", "line"}, i) <=>
                   \E a \in 1..(i - 1) : a \in MessageAt(doc) /\ OpenAt(doc, a, i)
    <3>1. \A a \in 1..(i - 1) : a \in 1..Len(doc) /\ (Around(a, i) <=> OpenAt(doc, a, i))
      BY <1>2, AroundIs
    <3>2. \A a \in 1..(i - 1) : doc[a].n \in {"msg", "line"} <=> a \in MessageAt(doc)
      BY <3>1 DEF MessageAt, Messages
    <3> QED
      BY <3>1, <3>2 DEF Under
  <2> QED
    BY <1>2, <2>1 DEF TextsOf, IsText
<1>4. {Elems(p) : p \in Elems(ps)} = Runs(T)
  BY <1>1, TextIs
<1>5. ps \in Seq(Seq(Nat)) /\ InOrder(Len(doc), ps)
  BY <1>1 DEF TextOK
<1>6. \A k \in DOMAIN ps : Ascending(ps[k])
  BY <1>5 DEF InOrder
<1>7. Ascending([k \in DOMAIN ps |-> ps[k][1]])
  <2>1. PICK m \in Nat : m = Len(ps) /\ DOMAIN ps = 1..m
    BY <1>5
  <2> DEFINE fs == [k \in 1..m |-> ps[k][1]]
  <2>2. \A k \in 1..(m - 1) : ps[k][1] < ps[k + 1][1]
    BY <1>5, <2>1 DEF InOrder
  <2>3. Len(fs) = m
    BY <2>1
  <2>4. \A k \in 1..(m - 1) : k \in 1..m /\ k + 1 \in 1..m
    BY <2>1
  <2>5. \A k \in 1..(m - 1) : fs[k] < fs[k + 1]
    BY <2>2, <2>4
  <2> HIDE DEF fs
  <2>6. Ascending(fs)
    BY <2>3, <2>5 DEF Ascending
  <2> QED
    BY <2>1, <2>6 DEF fs
<1> QED
  BY <1>3, <1>4, <1>6, <1>7

\* What the readers rest on says what FieldsComeFromTheirElement does.
LEMMA FieldAnswers == ASSUME NEW S PROVE FieldInv(S) => FieldsComeFromTheirElement
<1> SUFFICES ASSUME FieldInv(S) PROVE FieldsComeFromTheirElement
  OBVIOUS
<1>1. StackOK(doc, open) /\ MsgReader /\ FirstReader /\ ChildReader /\ "ok" # "err" /\ Len(doc) \in Nat
  BY DEF FieldInv, ScanInv, StreamInv, StackOK
<1> DEFINE job == {i \in Seen : Starts(i) /\ doc[i].n = "job"
                              /\ \A j \in 1..(i - 1) : ~(Starts(j) /\ doc[j].n = "job")}
           status == {i \in Seen : Opens(i) /\ doc[i].n = "status"}
           own == {i \in status : \E a \in job : Around(a, i) /\ Depth(i) = Depth(a) + 1}
           d == {i \in own : \A j \in own : i <= j}
           s == {i \in status : \A j \in status : i <= j}
           texts(U) == {i \in Seen : IsText(i) /\ \E a \in U : Around(a, i)}
           closed(U) == \E i \in U, j \in Seen : Closes(i, j)
<1>2. status = Statuses(doc) /\ own = Own(doc)
  BY <1>1, StatusIs
<1>3. status \subseteq Seen /\ own \subseteq Seen
  OBVIOUS
<1>4. d = Leader(own) /\ s = Leader(status)
  BY DEF Leader
<1>5. \A A : A \subseteq Seen => texts(A) = TextsOf(doc, A)
  BY <1>1, TextsAre
<1> HIDE DEF status, own, job
<1>6. /\ closed(d) <=> ~Unread(doc, own)
      /\ \A o : ReadWhole(doc, own, o) => Leader(own) = {o} /\ ~Unread(doc, own)
  BY <1>1, <1>3, <1>4, LeaderIs
<1>7. /\ closed(s) <=> ~Unread(doc, status)
      /\ \A o : ReadWhole(doc, status, o) => Leader(status) = {o} /\ ~Unread(doc, status)
  BY <1>1, <1>3, <1>4, LeaderIs
<1>8. d \subseteq Seen /\ s \subseteq Seen
  BY <1>3
<1> HIDE DEF d, s, closed, texts
<1>9. ASSUME child.res = "ok"
      PROVE  /\ child.found <=> closed(d)
             /\ child.found => {Elems(p) : p \in Elems(child.pieces)} = Runs(texts(d))
  <2>1. ChildOK(doc, child)
    BY <1>1, <1>9 DEF ChildReader
  <2>2. CASE child.found
    <3>1. PICK o : ReadWhole(doc, own, o) /\ {Elems(p) : p \in Elems(child.pieces)} = Runs(TextsOf(doc, {o}))
      BY <1>2, <1>9, <2>1, <2>2 DEF ChildOK, HasRead
    <3>2. d = {o} /\ closed(d)
      BY <1>4, <1>6, <3>1
    <3>3. texts(d) = TextsOf(doc, {o})
      BY <1>5, <1>8, <3>2
    <3> QED
      BY <2>2, <3>1, <3>2, <3>3
  <2>3. CASE ~child.found
    <3>1. Unread(doc, own)
      BY <1>2, <1>9, <2>1, <2>3 DEF ChildOK
    <3> QED
      BY <1>6, <2>3, <3>1
  <2> QED
    BY <2>2, <2>3
<1>10. ASSUME first.res = "ok"
       PROVE  /\ first.found <=> closed(s)
              /\ first.found => Elems(first.cur) = texts(s) /\ Ascending(first.cur)
  <2>1. FirstOK(doc, first)
    BY <1>1, <1>10 DEF FirstReader
  <2>2. CASE first.found
    <3>1. PICK o : ReadWhole(doc, status, o) /\ HoldsTexts(doc, o, first.cur)
      BY <1>2, <1>10, <2>1, <2>2 DEF FirstOK
    <3>2. s = {o} /\ closed(s)
      BY <1>4, <1>7, <3>1
    <3>3. texts(s) = TextsOf(doc, {o})
      BY <1>5, <1>8, <3>2
    <3>4. Elems(first.cur) = TextsOf(doc, {o}) /\ Ascending(first.cur)
      BY <3>1 DEF HoldsTexts
    <3> QED
      BY <2>2, <3>2, <3>3, <3>4
  <2>3. CASE ~first.found
    <3>1. Unread(doc, status)
      BY <1>2, <1>10, <2>1, <2>3 DEF FirstOK
    <3> QED
      BY <1>7, <2>3, <3>1
  <2> QED
    BY <2>2, <2>3
<1>11. ASSUME msg.res = "ok"
       PROVE  /\ {Elems(p) : p \in Elems(msg.pieces)} =
                     Runs({i \in Seen : IsText(i) /\ Under({"msg", "line"}, i)})
              /\ \A k \in DOMAIN msg.pieces : Ascending(msg.pieces[k])
              /\ Ascending([k \in DOMAIN msg.pieces |-> msg.pieces[k][1]])
  <2>1. MsgOK(doc, open, msg)
    BY <1>1, <1>11 DEF MsgReader
  <2> QED
    BY <1>1, <1>11, <2>1, MessageAnswers
<1> USE DEF d, s, closed, texts, status, own, job
<1> QED
  BY <1>9, <1>10, <1>11, Zenon DEF FieldsComeFromTheirElement

\* first_child_text, first_element_text and collect_text_for_elements: for every answer in which
\* no status holds another, a job's status is read from its own element, the status of a commit
\* from the first one anywhere, each only once it is complete, and an error's message is made of
\* every run of text below msg or line, in order.
THEOREM FieldsAlwaysComeFromTheirElement ==
    ASSUME NeverNested("status") PROVE Spec => []FieldsComeFromTheirElement
<1> PICK S \in SUBSET Names : Within(S, "status")
  BY DEF NeverNested
<1>1. Init => FieldInv(S)
  BY FieldStarts
<1>2. FieldInv(S) /\ [Next]_vars => FieldInv(S)'
  BY FieldKept
<1>3. FieldInv(S) => FieldsComeFromTheirElement
  BY FieldAnswers
<1> QED
  BY <1>1, <1>2, <1>3, PTL DEF Spec
=============================================================================
