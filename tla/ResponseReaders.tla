---------------------------- MODULE ResponseReaders ----------------------------
(***************************************************************************)
(* How the server reads a PAN-OS answer (xml.rs) and what the read tools    *)
(* (tools.rs) make of it.  The answer is a stream of the events quick-xml   *)
(* reports; every reader of xml.rs is a state machine over the stream, and   *)
(* the readers run side by side on the same one.  An event is               *)
(*   start, end or empty of an element n, text (text, CDATA or an entity    *)
(*   reference: quick-xml reports them as separate runs), a DOCTYPE, bad    *)
(*   (quick-xml reports an error) or eof.                                   *)
(* The client may cut the body at its byte cap, so the stream may end        *)
(* anywhere.  quick-xml checks end names, so an end closes the innermost    *)
(* element: `open' is the stack that each reader keeps for itself.          *)
(* Content is abstracted to positions: an entry is the pair of positions    *)
(* of its tags, a text is the sequence of the positions of its runs.        *)
(***************************************************************************)
EXTENDS Integers, Sequences, FiniteSets

CONSTANTS
    Child,       \* Child[n]: the elements an element n may hold; "doc" is the top
    TextIn,      \* the elements that may hold text
    Secret,      \* SECRET_ELEMENT_NAMES
    Asks,        \* requests: what they are about (the elements of the answer) and
                 \* the offset, limit and entry depth of the scan
    MaxEvents,   \* bound on the length of the stream
    MaxDepth,    \* MAX_SCAN_DEPTH and XmlLimits::max_depth
    MaxList      \* MAX_LIST_ENTRIES and MAX_MEMBERS_PER_ENTRY

Names == DOMAIN Child \ {"doc"}
Kinds == {"start", "end", "empty", "text", "doctype", "bad", "eof"}

ASSUME ReaderAssumption ==
    /\ MaxEvents \in Nat /\ MaxDepth \in Nat /\ MaxList \in Nat
    /\ \A n \in DOMAIN Child : Child[n] \subseteq Names
    /\ TextIn \subseteq DOMAIN Child
    /\ Secret \subseteq Names
    /\ Asks \subseteq [about : SUBSET Names, offset : Nat, limit : Nat, depth : Nat]

\* An element named x holds none of that name, however deep: S is what it may hold.
Within(S, x) == x \notin S /\ \A m \in S \cup {x} : Child[m] \subseteq S
NeverNested(x) == \E S \in SUBSET Names : Within(S, x)

VARIABLES
    doc,      \* the events read so far
    open,     \* the names of the open elements, outermost first
    cut,      \* the client cut the body at its byte cap
    ask,      \* the window and the entry depth of the scan
    root,     \* validate_xml_root
    scan,     \* scan_config_entries
    redact,   \* redact_structural_secret_elements
    child,    \* first_child_text(job, status)
    first,    \* first_element_text(status)
    msg,      \* collect_text_for_elements(msg, line)
    group,    \* parse_grouped_entries(dg, devices)
    list      \* list_child_entries(devices)

vars == <<doc, open, cut, ask, root, scan, redact, child, first, msg, group, list>>

Running(r) == r.res = "run"
EndsWith(tail) ==
    /\ Len(open) >= Len(tail)
    /\ SubSeq(open, Len(open) - Len(tail) + 1, Len(open)) = tail

-----------------------------------------------------------------------------
BesideRoot(s) == s.saw /\ open = <<>>

(* validate_xml_root: one closed `response', nothing but blanks around it.    *)
(* (An entity reference outside the root, which it lets pass, is left out.)   *)
RootStep(s, e) ==
    LET depth == Len(open)
        fail == [s EXCEPT !.res = "err"]
        wrong == ~s.saw /\ e.n # "response"
    IN CASE e.k = "start" ->
                IF s.closed \/ depth + 1 > MaxDepth \/ wrong THEN fail
                ELSE [s EXCEPT !.saw = TRUE]
         [] e.k = "empty" ->
                IF depth + 1 > MaxDepth \/ wrong \/ BesideRoot(s) THEN fail
                ELSE [s EXCEPT !.saw = TRUE, !.closed = @ \/ depth = 0]
         [] e.k = "end" -> [s EXCEPT !.closed = @ \/ depth = 1]
         [] e.k = "text" -> IF depth = 0 THEN fail ELSE s
         [] e.k = "eof" -> IF s.saw /\ s.closed /\ depth = 0 THEN [s EXCEPT !.res = "ok"] ELSE fail
         [] OTHER -> fail

(* scan_config_entries: `pend' is the start of the entry being read (0: none), *)
(* `at' the depth it was met at.                                               *)
CountEntry(s, a, b) ==
    [s EXCEPT !.total = @ + 1,
              !.entries = IF s.total >= ask.offset /\ s.total < ask.offset + ask.limit
                          THEN Append(@, <<a, b>>) ELSE @]

\* Faulty: entries nested in an entry are listed too.
NestedListed(s, e) == e.n = "entry" /\ Len(open) >= ask.depth

IsListed(s, e) == s.pend = 0 /\ e.n = "entry" /\ Len(open) >= ask.depth

ScanStep(s, e, i) ==
    LET depth == Len(open)
        fail == [s EXCEPT !.res = "err"]
        refuse == depth >= MaxDepth \/ (~s.saw /\ e.n # "response")
    IN CASE e.k = "start" ->
                IF refuse THEN fail
                ELSE IF s.saw /\ IsListed(s, e) THEN [s EXCEPT !.pend = i, !.at = depth]
                ELSE [s EXCEPT !.saw = TRUE]
         [] e.k = "empty" ->
                IF refuse THEN fail
                ELSE IF ~s.saw THEN [s EXCEPT !.saw = TRUE, !.closed = TRUE]
                ELSE IF IsListed(s, e) THEN CountEntry(s, i, i)
                ELSE s
         [] e.k = "end" ->
                LET t == IF s.pend # 0 /\ depth - 1 = s.at /\ e.n = "entry"
                         THEN [CountEntry(s, s.pend, i) EXCEPT !.pend = 0] ELSE s
                IN [t EXCEPT !.closed = @ \/ depth = 1]
         [] e.k = "eof" -> [s EXCEPT !.res = "ok", !.part = ~s.closed \/ s.pend # 0]
         [] e.k = "bad" -> IF s.saw THEN [s EXCEPT !.res = "ok", !.part = TRUE] ELSE fail
         [] e.k = "text" -> s
         [] OTHER -> fail

\* Faulty: any end tag leaves the secret element.
AnyEnd(s) == TRUE

LeavesSecret(s) == s.secret = Len(open)

(* redact_structural_secret_elements: `out' holds the positions copied to the *)
(* output, 0 for a marker, -1 for the unread remainder.                       *)
RedactStep(s, e, i) ==
    LET depth == Len(open)
        hide == s.secret # 0 /\ e.k = "text"
        copy == [s EXCEPT !.out = Append(@, i), !.marked = FALSE]
    IN CASE hide -> [s EXCEPT !.out = IF s.marked THEN @ ELSE Append(@, 0), !.marked = TRUE]
         [] e.k = "bad" -> [s EXCEPT !.out = Append(@, -1), !.res = "ok"]
         [] e.k = "eof" -> [s EXCEPT !.res = "ok"]
         [] e.k = "start" ->
                [copy EXCEPT !.secret = IF @ = 0 /\ e.n \in Secret THEN depth + 1 ELSE @]
         [] e.k = "end" -> [copy EXCEPT !.secret = IF LeavesSecret(s) THEN 0 ELSE @]
         [] OTHER -> copy

(* first_child_text(job, status): the runs of the first direct child, one   *)
(* piece per stretch between element boundaries.  `pd' is the depth of the   *)
(* parent (0: not met).                                                      *)
Flush(s) ==
    IF s.cur = <<>> THEN s ELSE [s EXCEPT !.pieces = Append(@, s.cur), !.cur = <<>>]

\* Faulty: a status nested in the details is taken for the job's own.
AnywhereBelow(s) == s.pd # 0

DirectlyBelow(s) == s.pd # 0 /\ Len(open) = s.pd

ChildStep(s, e, i) ==
    LET depth == Len(open)
        wanted == e.n = "status"
        stop(t) == [t EXCEPT !.res = "ok"]
    IN CASE e.k = "start" ->
                IF s.pd = 0 /\ e.n = "job" THEN [s EXCEPT !.pd = depth + 1]
                ELSE IF DirectlyBelow(s) /\ wanted THEN [s EXCEPT !.inside = TRUE, !.found = TRUE]
                ELSE IF s.inside THEN Flush(s) ELSE s
         [] e.k = "empty" ->
                IF ~s.inside /\ DirectlyBelow(s) /\ wanted THEN stop([s EXCEPT !.found = TRUE])
                ELSE IF s.inside THEN Flush(s) ELSE s
         [] e.k = "text" -> IF s.inside THEN [s EXCEPT !.cur = Append(@, i)] ELSE s
         [] e.k = "end" ->
                LET t == IF s.inside THEN Flush(s) ELSE s
                IN IF s.inside /\ wanted THEN stop(t)
                   ELSE IF s.pd = depth /\ e.n = "job" THEN stop([t EXCEPT !.found = FALSE])
                   ELSE t
         [] e.k = "eof" -> stop([s EXCEPT !.found = FALSE])
         [] OTHER -> [s EXCEPT !.res = "err"]

(* first_element_text(status): every run between the first opening and the   *)
(* first closing tag of that name.                                           *)
FirstStep(s, e, i) ==
    LET stop(t) == [t EXCEPT !.res = "ok"]
        wanted == e.n = "status"
    IN CASE e.k = "start" -> IF wanted THEN [s EXCEPT !.inside = TRUE, !.found = TRUE] ELSE s
         [] e.k = "empty" -> IF wanted THEN stop([s EXCEPT !.found = TRUE, !.cur = <<>>]) ELSE s
         [] e.k = "text" -> IF s.inside THEN [s EXCEPT !.cur = Append(@, i)] ELSE s
         [] e.k = "end" -> IF wanted THEN stop(s) ELSE s
         [] e.k = "eof" -> stop([s EXCEPT !.found = FALSE])
         [] OTHER -> [s EXCEPT !.res = "err"]

(* collect_text_for_elements(msg, line): `md' counts the open elements from  *)
(* the matched one down.                                                      *)
CollectStep(s, e, i) ==
    CASE e.k = "start" ->
             IF s.md > 0 THEN [Flush(s) EXCEPT !.md = @ + 1]
             ELSE IF e.n \in {"msg", "line"} THEN [s EXCEPT !.md = 1] ELSE s
      [] e.k = "end" -> IF s.md > 0 THEN [Flush(s) EXCEPT !.md = @ - 1] ELSE s
      [] e.k = "empty" -> IF s.md > 0 THEN Flush(s) ELSE s
      [] e.k = "text" -> IF s.md > 0 THEN [s EXCEPT !.cur = Append(@, i)] ELSE s
      [] e.k = "eof" -> [Flush(s) EXCEPT !.res = "ok"]
      [] OTHER -> [s EXCEPT !.res = "err"]

(* parse_grouped_entries(dg, devices) with record_entry_open. *)
\* Faulty: a nested entry is taken for a member at any depth.
RecordAny(s, i) ==
    LET last == Len(s.groups) IN
    IF EndsWith(<<"dg">>) THEN [s EXCEPT !.groups = Append(@, [at |-> i, members |-> <<>>])]
    ELSE IF last > 0 THEN [s EXCEPT !.groups[last].members = Append(@, i)]
    ELSE s

RecordOpen(s, i) ==
    LET last == Len(s.groups)
        fail == [s EXCEPT !.res = "err"]
    IN IF EndsWith(<<"dg">>)
       THEN IF last >= MaxList THEN fail
            ELSE [s EXCEPT !.groups = Append(@, [at |-> i, members |-> <<>>])]
       ELSE IF EndsWith(<<"dg", "entry", "devices">>) /\ last > 0
       THEN IF Len(s.groups[last].members) >= MaxList THEN fail
            ELSE [s EXCEPT !.groups[last].members = Append(@, i)]
       ELSE s

GroupStep(s, e, i) ==
    CASE e.k \in {"start", "empty"} -> IF e.n = "entry" THEN RecordOpen(s, i) ELSE s
      [] e.k \in {"end", "text"} -> s
      [] e.k = "eof" -> [s EXCEPT !.res = "ok"]
      [] OTHER -> [s EXCEPT !.res = "err"]

(* list_child_entries(devices): the entries that are direct children. *)
ListStep(s, e, i) ==
    LET depth == Len(open)
        listed == s.at = 0 /\ e.n = "entry" /\ EndsWith(<<"devices">>)
        fail == [s EXCEPT !.res = "err"]
        full == Len(s.entries) >= MaxList
    IN CASE e.k = "start" ->
                IF ~listed THEN s ELSE IF full THEN fail
                ELSE [s EXCEPT !.pend = i, !.at = depth + 1]
         [] e.k = "empty" ->
                IF ~listed THEN s ELSE IF full THEN fail
                ELSE [s EXCEPT !.entries = Append(@, <<i, i>>)]
         [] e.k = "end" ->
                IF s.at # depth THEN s
                ELSE [s EXCEPT !.entries = Append(@, <<s.pend, i>>), !.at = 0]
         [] e.k = "text" -> s
         [] e.k = "eof" -> [s EXCEPT !.res = "ok"]
         [] OTHER -> fail

-----------------------------------------------------------------------------
Init ==
    /\ doc = <<>> /\ open = <<>> /\ cut = FALSE
    /\ ask \in Asks
    /\ root = [saw |-> FALSE, closed |-> FALSE, res |-> "run"]
    /\ scan = [saw |-> FALSE, closed |-> FALSE, pend |-> 0, at |-> 0, total |-> 0,
               entries |-> <<>>, part |-> FALSE, res |-> "run"]
    /\ redact = [secret |-> 0, marked |-> FALSE, out |-> <<>>, res |-> "run"]
    /\ child = [pd |-> 0, inside |-> FALSE, found |-> FALSE, pieces |-> <<>>, cur |-> <<>>,
                res |-> "run"]
    /\ first = [inside |-> FALSE, found |-> FALSE, cur |-> <<>>, res |-> "run"]
    /\ msg = [md |-> 0, pieces |-> <<>>, cur |-> <<>>, res |-> "run"]
    /\ group = [groups |-> <<>>, res |-> "run"]
    /\ list = [pend |-> 0, at |-> 0, entries |-> <<>>, res |-> "run"]

(* Every reader takes the event; one that has returned stays as it is. *)
Read(e) ==
    LET i == Len(doc) + 1 IN
    /\ redact.res = "run"     \* no event follows eof or an error
    /\ doc' = Append(doc, e)
    /\ open' = CASE e.k = "start" -> Append(open, e.n)
                 [] e.k = "end" -> SubSeq(open, 1, Len(open) - 1)
                 [] OTHER -> open
    /\ root' = IF Running(root) THEN RootStep(root, e) ELSE root
    /\ scan' = IF Running(scan) THEN ScanStep(scan, e, i) ELSE scan
    /\ redact' = RedactStep(redact, e, i)
    /\ child' = IF Running(child) THEN ChildStep(child, e, i) ELSE child
    /\ first' = IF Running(first) THEN FirstStep(first, e, i) ELSE first
    /\ msg' = IF Running(msg) THEN CollectStep(msg, e, i) ELSE msg
    /\ group' = IF Running(group) THEN GroupStep(group, e, i) ELSE group
    /\ list' = IF Running(list) THEN ListStep(list, e, i) ELSE list
    /\ UNCHANGED ask

Here == IF open = <<>> THEN "doc" ELSE open[Len(open)]
Event(k, n) == [k |-> k, n |-> n]
More == Len(doc) < MaxEvents

(* What the device may send next. *)
MayHold(n) == n \in Child[Here] \cap ask.about
Open(n) == More /\ MayHold(n) /\ Read(Event("start", n)) /\ UNCHANGED cut
Leaf(n) == More /\ MayHold(n) /\ Read(Event("empty", n)) /\ UNCHANGED cut
Chars == More /\ Here \in TextIn /\ Read(Event("text", Here)) /\ UNCHANGED cut
Close == open # <<>> /\ Read(Event("end", Here)) /\ UNCHANGED cut
Doctype == doc = <<>> /\ Read(Event("doctype", Here)) /\ UNCHANGED cut

(* The stream ends: the device has sent everything it meant to, the client  *)
(* has cut the body at its byte cap, or a tag is broken.                     *)
End == open = <<>> /\ Read(Event("eof", Here)) /\ UNCHANGED cut
CutBody == Read(Event("eof", Here)) /\ cut' = TRUE
Garble == Read(Event("bad", Here)) /\ UNCHANGED cut

Next ==
    \/ \E n \in Names : Open(n) \/ Leaf(n)
    \/ Chars \/ Close \/ Doctype \/ End \/ CutBody \/ Garble

Spec == Init /\ [][Next]_vars

-----------------------------------------------------------------------------
(* What the tools answer from these readers. *)

\* Faulty: only the page's own end is looked at.
PageIgnoresCut ==
    [entries |-> scan.entries, total |-> scan.total,
     truncated |-> ask.offset + Len(scan.entries) < scan.total]

(* list_panos_entries *)
Page ==
    [entries |-> scan.entries, total |-> scan.total,
     truncated |-> cut \/ scan.part \/ ask.offset + Len(scan.entries) < scan.total]

(* get_panos_config, execute_panos_op: only a response that passed          *)
(* parse_panos_response is redacted and returned.                           *)
ReturnedXml == IF root.res = "ok" THEN redact.out ELSE <<>>

-----------------------------------------------------------------------------
(* The document itself, read off the events. *)
Starts(i) == doc[i].k = "start"
Opens(i) == doc[i].k \in {"start", "empty"}
Depth(i) == Cardinality({j \in 1..(i - 1) : Starts(j)})
            - Cardinality({j \in 1..(i - 1) : doc[j].k = "end"})
Closes(i, j) ==
    \/ i = j /\ doc[i].k = "empty"
    \/ /\ i < j /\ Starts(i) /\ doc[j].k = "end" /\ Depth(j) = Depth(i) + 1
       /\ \A m \in (i + 1)..(j - 1) : ~(doc[m].k = "end" /\ Depth(m) = Depth(i) + 1)
Around(a, i) == a < i /\ Starts(a) /\ ~ \E j \in (a + 1)..(i - 1) : Closes(a, j)
ParentIs(i, n) == \E a \in 1..(i - 1) : Around(a, i) /\ Depth(a) = Depth(i) - 1 /\ doc[a].n = n
Under(S, i) == \E a \in 1..(i - 1) : Around(a, i) /\ doc[a].n \in S
Seen == 1..Len(doc)
Elems(s) == {s[k] : k \in DOMAIN s}
Ascending(s) == \A k \in 1..(Len(s) - 1) : s[k] < s[k + 1]
IsText(i) == doc[i].k = "text"

(* Entries at or below the asked depth that no other such entry encloses. *)
Listed(i) ==
    /\ Opens(i) /\ doc[i].n = "entry" /\ Depth(i) >= ask.depth
    /\ ~ \E a \in 1..(i - 1) : Around(a, i) /\ doc[a].n = "entry" /\ Depth(a) >= ask.depth
Complete == {p \in Seen \X Seen : Listed(p[1]) /\ Closes(p[1], p[2])}
Index(p) == Cardinality({q \in Complete : q[1] < p[1]})
RootClosed == \E i, j \in Seen : Opens(i) /\ Depth(i) = 0 /\ Closes(i, j)

(* One response element, closed, nothing beside it, no element too deep. *)
OneResponse ==
    /\ doc[Len(doc)].k = "eof" /\ open = <<>>
    /\ \E i \in Seen : /\ Opens(i) /\ doc[i].n = "response" /\ Depth(i) = 0
                       /\ \A j \in Seen : Opens(j) /\ Depth(j) = 0 => j = i
    /\ \A i \in Seen : /\ doc[i].k # "doctype"
                       /\ IsText(i) => Depth(i) > 0
                       /\ Opens(i) => Depth(i) < MaxDepth

(* The text runs directly after one another among the texts of T. *)
Runs(T) ==
    {R \in SUBSET T : \E i, j \in R : R = i..j /\ (i - 1) \notin T /\ (j + 1) \notin T}

(* scan_config_entries counts exactly the complete outermost entries at the  *)
(* asked depth, returns those of the window in document order and never a    *)
(* half-read one, and says that the answer was cut exactly when it was.      *)
ScanIsExact ==
    scan.res # "err" =>
        /\ scan.total = Cardinality(Complete)
        /\ Elems(scan.entries) =
               {p \in Complete : Index(p) \in ask.offset..(ask.offset + ask.limit - 1)}
        /\ Ascending([k \in DOMAIN scan.entries |-> scan.entries[k][1]])
        /\ scan.res = "ok" =>
               (scan.part <=> \/ ~RootClosed \/ doc[Len(doc)].k = "bad"
                              \/ \E i \in Seen : Listed(i) /\ ~ \E j \in Seen : Closes(i, j))

(* A page of list_panos_entries that is not marked truncated holds every     *)
(* entry of the device's list from the offset on: a caller that stops paging *)
(* there has missed nothing, wherever the body was cut.                      *)
PageIsHonest ==
    scan.res = "ok" /\ ~Page.truncated =>
        /\ open = <<>> /\ ~cut
        /\ \A i \in Seen : Listed(i) => \E j \in Seen : Closes(i, j)
        /\ Elems(Page.entries) = {p \in Complete : Index(p) >= ask.offset}

(* No run of text below a secret element, at any depth and however it is     *)
(* split, reaches the output; everything else is copied; each stretch of     *)
(* secret text leaves one marker.  What get_panos_config returns holds no     *)
(* unread remainder and is a whole response: validate_xml_root accepts        *)
(* exactly one closed response element with nothing beside it.                *)
SecretsHidden ==
    LET hidden == {i \in Seen : IsText(i) /\ Under(Secret, i)} IN
    /\ \A i \in Seen : i \in Elems(redact.out) <=>
                            doc[i].k \notin {"eof", "bad"} /\ i \notin hidden
    /\ Cardinality({k \in DOMAIN redact.out : redact.out[k] = 0}) = Cardinality(Runs(hidden))
    /\ -1 \notin Elems(ReturnedXml)
    /\ redact.res = "ok" => (root.res = "ok" <=> OneResponse)

(* parse_job_status: a job's status is the text of the first status element  *)
(* directly under the first job, not of one nested in its details, in as     *)
(* many pieces as element boundaries divide it into.  log_job_is_finished:   *)
(* the first status anywhere, read from that one element.  The message of an *)
(* error answer keeps every run below msg or line, in order, and separates   *)
(* two runs only where an element begins or ends.                            *)
FieldsComeFromTheirElement ==
    LET job == {i \in Seen : Starts(i) /\ doc[i].n = "job"
                              /\ \A j \in 1..(i - 1) : ~(Starts(j) /\ doc[j].n = "job")}
        status == {i \in Seen : Opens(i) /\ doc[i].n = "status"}
        own == {i \in status : \E a \in job : Around(a, i) /\ Depth(i) = Depth(a) + 1}
        d == {i \in own : \A j \in own : i <= j}
        s == {i \in status : \A j \in status : i <= j}
        texts(S) == {i \in Seen : IsText(i) /\ \E a \in S : Around(a, i)}
        closed(S) == \E i \in S, j \in Seen : Closes(i, j)
    IN /\ child.res = "ok" =>
              /\ child.found <=> closed(d)
              /\ child.found => {Elems(p) : p \in Elems(child.pieces)} = Runs(texts(d))
       /\ first.res = "ok" =>
              /\ first.found <=> closed(s)
              /\ first.found => Elems(first.cur) = texts(s) /\ Ascending(first.cur)
       /\ msg.res = "ok" =>
              /\ {Elems(p) : p \in Elems(msg.pieces)} =
                     Runs({i \in Seen : IsText(i) /\ Under({"msg", "line"}, i)})
              /\ \A k \in DOMAIN msg.pieces : Ascending(msg.pieces[k])
              /\ Ascending([k \in DOMAIN msg.pieces |-> msg.pieces[k][1]])

(* Every member of a device group is reported under the group that encloses  *)
(* it, and a device's entry is listed once, whole, and not with those        *)
(* nested in it.                                                             *)
MembersHaveTheirGroup ==
    /\ group.res = "ok" =>
           /\ Elems([k \in DOMAIN group.groups |-> group.groups[k].at]) =
                  {i \in Seen : Opens(i) /\ doc[i].n = "entry" /\ ParentIs(i, "dg")}
           /\ \A g \in Elems(group.groups) :
                  Elems(g.members) =
                      {i \in Seen : /\ Opens(i) /\ doc[i].n = "entry" /\ ParentIs(i, "devices")
                                    /\ Around(g.at, i) /\ Depth(i) = Depth(g.at) + 2}
    /\ list.res = "ok" =>
           LET listed(i) == Opens(i) /\ doc[i].n = "entry" /\ ParentIs(i, "devices")
           IN Elems(list.entries) =
                  {p \in Seen \X Seen :
                      /\ listed(p[1]) /\ Closes(p[1], p[2])
                      /\ ~ \E a \in 1..(p[1] - 1) : listed(a) /\ Around(a, p[1])}
=============================================================================
