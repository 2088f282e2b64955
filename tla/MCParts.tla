------------------------------ MODULE MCParts ------------------------------
(***************************************************************************)
(* The parts that stand alone, each over its own set of small inputs: they *)
(* share no state, so one of them runs in a behaviour and the others stay  *)
(* as they are.                                                            *)
(***************************************************************************)
EXTENDS AgreementProcesses, AgreementIdentities, AgreementPages, Buckets,
        GrantAccess, TLC

CONSTANTS pay  \* the registered handler

VARIABLE part  \* the part that runs

----------------------------------------------------------------------------
(* Definitions with two endpoints and a handler. One family varies what    *)
(* creation and the page run, the other what accepting the offer runs and  *)
(* when its values are read.                                               *)
Endpoint(reads, gives) == [type |-> "endpoint", reads |-> reads, gives |-> gives]

ProcessSet(gives, reads) ==
    "e1" :> Endpoint({}, gives) @@ "e2" :> Endpoint(reads, {"items"})
      @@ pay :> [type |-> "handler", reads |-> {}, gives |-> {}]

ReadSets == {{}} \cup {{Access(a[1], "e1", a[2])} :
                         a \in {"static", "bare", "dynamic", "invalid"} \X {"actions"}
                               \cup {<<"static", "items">>, <<"static", Absent>>}}

Accepting(target, processes, v) ==
    [target |-> target, page |-> "view", processes |-> processes, values |-> v]

Creating(processes, v) == [processes |-> processes, values |-> v, target |-> "offered"]

DefinitionOf(processes, create, page, sequence, accept) ==
    [processes |-> processes, create |-> create,
     states |-> [offered |-> [page |-> page, processes |-> sequence,
                              on |-> [accept |-> accept]],
                 accepted |-> [page |-> "view", processes |-> <<>>, on |-> <<>>]],
     pages |-> {"view", "document"}]

MCDefinitions ==
    {DefinitionOf(ProcessSet(gives, reads), Creating(creates, v), page, shows,
                  Accepting("accepted", <<pay>>, Absent)) :
        gives \in {{"actions"}, {"actions", "items"}}, reads \in ReadSets,
        creates \in {<<>>, <<"e1">>, <<"e2">>, <<"e1", "e2">>, <<"e2", "e1">>,
                     <<"e1", "e1">>, <<"e1", pay>>},
        v \in {{}, {"items"}, {"actions", "items"}},
        page \in {"view", "lost"}, shows \in {<<>>, <<pay>>, <<"e2">>}}
    \cup
    {DefinitionOf(ProcessSet({"actions"}, reads), Creating(<<>>, {"actions", "items"}),
                  "view", <<>>, Accepting(target, runs, v)) :
        reads \in ReadSets, target \in {"accepted", "gone"},
        runs \in {<<>>, <<pay>>, <<"e1", pay>>, <<pay, "e1">>, <<"e1", pay, "e2">>,
                  <<"e1", "e2", pay>>, <<"e3", pay>>},
        v \in {Absent, {}, {Access("static", "e1", "actions")},
               {Access("static", "e2", "items")}, {Access("bare", "e2", "items")}}}

----------------------------------------------------------------------------
(* Candidates with up to two actions, an item and an instalment of a line. *)
New(ref) == [id |-> Missing, ref |-> ref]
Keep(id) == [id |-> id, ref |-> Missing]

ActionEntries == {New(Missing), New("r"), Keep(1), Keep(2)}

ScheduleLines == {[by |-> l[1], of |-> l[2], value |-> l[3], amount |-> 1] :
                    l \in {<<"ref", "action", "r">>, <<"id", "action", 1>>,
                           <<"id", "action", 2>>, <<"id", "item", 1>>}}

Schedules ==
    {[entries |-> <<>>, lines |-> <<>>, totals |-> <<>>],
     [entries |-> <<New(Missing)>>, lines |-> <<(<<>>)>>, totals |-> <<1>>]}
    \cup {[entries |-> <<e>>, lines |-> <<l>>, totals |-> <<Len(l)>>] :
            e \in {New(Missing), Keep(1)},
            l \in {<<>>} \cup {<<line>> : line \in ScheduleLines}}

MCCandidates ==
    {[entries |-> [action |-> a, item |-> i, instalment |-> s.entries],
      lines |-> s.lines, totals |-> s.totals] :
        a \in {<<>>} \cup {<<e>> : e \in ActionEntries} \cup (ActionEntries \X ActionEntries),
        i \in {<<>>, <<New(Missing)>>, <<Keep(1)>>}, s \in Schedules}

----------------------------------------------------------------------------
(* Pages of every component, alone and inside every component that holds   *)
(* others; the page of an offer is also the page once it is accepted.      *)
Ref(of, name) == [of |-> of, name |-> name]

String(form, ref) == [form |-> form, ref |-> ref, words |-> "words"]

Text(form, ref, condition) ==
    [kind |-> "text", string |-> String(form, ref), condition |-> condition]

Plain == Text("plain", Undefined, Undefined)

Leaf(kind, v) == [kind |-> kind, value |-> v, condition |-> Undefined]

Leaves ==
    {Plain, Text("value", Ref("context", "flag"), Undefined),
     Text("prose", Ref("context", "rows"), Undefined),
     Text("value", Ref("row", "name"), Ref("context", "flag")),
     Leaf("button", "accept"), Leaf("button", Undefined), Leaf("field", "agree")}

Tree(kind, v, components) ==
    [kind |-> kind, value |-> v, condition |-> Undefined, components |-> components]

Around(c) ==
    {Tree("form", "accept", <<c, Leaf("button", Undefined)>>),
     Tree("grid-row", Undefined, <<c, Leaf("button", "withdraw")>>),
     Tree("grid-row", Undefined, <<c>>), Tree("form", Undefined, <<c>>),
     Tree("grid-row", "empty", <<>>), Tree("component-container", Undefined, <<c, c>>),
     [kind |-> "conditional", condition |-> Ref("context", "flag"), whenTrue |-> <<c>>,
      whenFalse |-> <<>>],
     [kind |-> "repeat", condition |-> Undefined, itemsRef |-> Ref("context", "rows"),
      items |-> <<c>>, beforeContent |-> <<Plain>>,
      emptyContent |-> <<Leaf("button", "withdraw")>>],
     [kind |-> "template", condition |-> Ref("context", "rows"), templateKey |-> "t",
      dataRef |-> IF c.kind = "text" THEN Ref("context", "one") ELSE Undefined]}

Branches ==
    UNION {Around(c) : c \in Leaves}
    \cup {[kind |-> "table", condition |-> Undefined, rowsRef |-> Ref("context", "rows"),
           cell |-> String("value", Ref("context", "name"))]}
    \cup {[kind |-> "details", condition |-> Undefined, items |-> <<c, Plain>>] :
            c \in {Plain, Leaf("button", "accept"), Leaf("field", "agree")}}

On(target, page, required) == [target |-> target, page |-> page, required |-> required]

SiteStates ==
    [offered |-> [page |-> "offer", on |-> [accept |-> On("accepted", "confirm", {"agree"}),
                                            withdraw |-> On("gone", Undefined, {})]],
     accepted |-> [page |-> "offer", on |-> [terminate |-> On("gone", Undefined, {})]],
     gone |-> [page |-> "lost", on |-> <<>>]]

Confirm == <<Plain, Tree("form", "accept", <<Leaf("field", "agree")>>)>>

SiteOf(tree, others) ==
    [states |-> SiteStates,
     pages |-> "offer" :> [components |-> <<tree>>] @@ "confirm" :> [components |-> Confirm]
               @@ others,
     templates |-> [t |-> <<Text("value", Ref("row", "name"), Undefined)>>]]

MCSites ==
    {SiteOf(tree, <<>>) : tree \in Branches \cup UNION {Around(c) : c \in Branches}}
    \cup {SiteOf(tree, "document" :> [components |-> <<Plain>>, sections |->
                         <<[condition |-> Ref("context", "flag"), components |-> <<tree>>]>>]) :
            tree \in Branches}

RowOf(name) == [name |-> [is |-> "text", text |-> name]]

MCContexts ==
    {[flag |-> [is |-> "text", text |-> flag], rows |-> [is |-> "rows", rows |-> rows],
      one |-> [is |-> "object", fields |-> RowOf("one")]] :
        flag \in {"", "yes"}, rows \in {<<>>, <<RowOf("first"), RowOf("second")>>}}

----------------------------------------------------------------------------
(* Buckets with a closed and a stored fact, with and without a lead, with  *)
(* hidden values and with summaries of which one steps two facts; three    *)
(* documents whose times tie, one collection with values that are not      *)
(* listed and two with more codes than an answer holds.                    *)
Closed(shown, hidden, toggle) ==
    [kind |-> "closed", toggle |-> toggle,
     values |-> {[value |-> v, hidden |-> FALSE] : v \in shown}
                  \cup {[value |-> v, hidden |-> TRUE] : v \in hidden}]

BucketOf(status, lead, indexes, groupings, by, among) ==
    [facts |-> [status |-> status,
                code |-> [kind |-> "stored", values |-> {}, toggle |-> FALSE]],
     lead |-> lead, indexes |-> indexes, groupings |-> groupings, by |-> by, among |-> among,
     top |-> 1]

Nothing == [f \in {} |-> Null]

Statuses == {Closed({"a", "b"}, {}, FALSE), Closed({"a"}, {"b"}, TRUE)}

MCBucketDefinitions ==
    {BucketOf(s, <<>>, lines, {"status", "code"}, <<>>, Nothing) :
        s \in Statuses \cup {Closed({}, {"b"}, FALSE)},
        lines \in {<<(<<"code">>)>>, <<(<<"code">>), (<<"status">>)>>,
                   <<(<<"code", "status">>), (<<"status">>)>>}}
    \cup {BucketOf(s, <<"status">>, <<(<<"code">>)>>, {"status"}, by, Nothing) :
            s \in Statuses, by \in {<<"code">>, <<"status", "code">>}}
    \cup {BucketOf(Closed({"a", "b"}, {}, FALSE), <<>>, <<(<<"status", "code">>), (<<"code">>)>>,
                   {"status", "code"}, <<"code">>, [status |-> "a"]),
          [BucketOf(Closed({"a", "b"}, {}, FALSE), <<>>, <<(<<"code", "status">>)>>,
                    {"status"}, <<"code", "status">>, Nothing) EXCEPT !.top = 2]}

Doc(id, t, s, c) ==
    [id |-> id, t |-> t, facts |-> [status |-> s, code |-> c],
     refs |-> IF id = 2 THEN {} ELSE {"r"}]

MCCollections ==
    {[i \in 1 .. 3 |-> Doc(i, times[i], s[i], IF i = 3 THEN Null ELSE "x")] :
        times \in {<<1, 1, 1>>, <<1, 2, 2>>, <<2, 1, 1>>}, s \in [1 .. 3 -> {"a", "b", Null}]}
    \cup {[i \in 1 .. 3 |-> Doc(i, i, "z", "x")],
          [i \in 1 .. 3 |-> Doc(i, 1, "a", <<"x", "y", Null>>[i])],
          [i \in 1 .. 4 |-> Doc(i, 1, "a", <<"x", "y", "z", Null>>[i])]}

MCDocuments == {Doc(4, 1, "a", "x"), Doc(2, 1, "a", "x"), Doc(2, 2, "b", "y")}

MCQueries ==
    {[where |-> where, show |-> show, ref |-> Null, from |-> 1, to |-> 2] :
        where \in {Nothing, [status |-> "a"], [status |-> "b"], [code |-> "x"],
                   [code |-> "x", status |-> "a"]},
        show \in {{}, {"status"}}}
    \cup {[where |-> where, show |-> {}, ref |-> "r", from |-> 1, to |-> 2] :
            where \in {Nothing, [code |-> "x"]}}
    \cup {[where |-> [other |-> "a"], show |-> {}, ref |-> Null, from |-> 1, to |-> 2]}

----------------------------------------------------------------------------
(* A list, its settings and two requests of any kind. *)
ListOf(sbi, crn) == [sbi |-> sbi, crn |-> crn]

MCAsks ==
    [replace |-> {ListOf(sbi, <<"1", "", "2">>) :
                    sbi \in {<<>>, <<"1">>, <<"", "1", "x", "1">>, <<"x", "x">>}},
     save |-> {[open |-> TRUE], [open |-> FALSE]},
     view |-> {NoDocument}, settings |-> {NoDocument},
     check |-> {ListOf("1", "2"), ListOf("", "1")}]

MCFirstStored ==
    {[list |-> l, settings |-> s] :
        l \in {NoDocument, Malformed, ListOf(<<"2">>, <<>>)},
        s \in {NoDocument, Malformed, [open |-> TRUE]}}

----------------------------------------------------------------------------
ProcessesIdle ==
    /\ definition = Absent /\ phase = "idle" /\ run = NoRun
    /\ agreement = Absent /\ outcomes = <<>>

PagesIdle ==
    /\ site = [states |-> SiteStates, pages |-> <<>>, templates |-> <<>>]
    /\ context = <<>> /\ state = "gone" /\ screen = Failed(0) /\ requests = 0

BucketsIdle ==
    bucket = Null /\ docs = <<>> /\ walk = NoWalk /\ summary = NoSummary /\ changes = 0

AccessIdle ==
    stored = <<>> /\ writes = <<>> /\ audits = <<>> /\ calls = [r \in Calls |-> NoCall]

Init ==
    \/ /\ part = "processes" /\ ProcessesInit
       /\ IdentitiesInit /\ PagesIdle /\ BucketsIdle /\ AccessIdle
    \/ /\ part = "identities" /\ IdentitiesInit
       /\ ProcessesIdle /\ PagesIdle /\ BucketsIdle /\ AccessIdle
    \/ /\ part = "pages" /\ PagesInit
       /\ ProcessesIdle /\ IdentitiesInit /\ BucketsIdle /\ AccessIdle
    \/ /\ part = "buckets" /\ BucketsInit
       /\ ProcessesIdle /\ IdentitiesInit /\ PagesIdle /\ AccessIdle
    \/ /\ part = "access" /\ AccessInit
       /\ ProcessesIdle /\ IdentitiesInit /\ PagesIdle /\ BucketsIdle

Next ==
    /\ UNCHANGED part
    /\ \/ /\ part = "processes" /\ ProcessesNext
          /\ UNCHANGED <<identityVars, pageVars, bucketVars, accessVars>>
       \/ /\ part = "identities" /\ IdentitiesNext
          /\ UNCHANGED <<processVars, pageVars, bucketVars, accessVars>>
       \/ /\ part = "pages" /\ PagesNext
          /\ UNCHANGED <<processVars, identityVars, bucketVars, accessVars>>
       \/ /\ part = "buckets" /\ BucketsNext
          /\ UNCHANGED <<processVars, identityVars, pageVars, accessVars>>
       \/ /\ part = "access" /\ AccessNext
          /\ UNCHANGED <<processVars, identityVars, pageVars, bucketVars>>

Spec == Init /\ [][Next]_<<part, processVars, identityVars, pageVars, bucketVars, accessVars>>
=============================================================================
