--------------------------- MODULE AgreementPages ---------------------------
(***************************************************************************)
(* The pages of an agreement are built from its definition on every        *)
(* request: components are resolved against the agreement, forms and       *)
(* buttons are bound to the actions of its state, and a printed page has   *)
(* them taken out again. Refused submissions come back as the page of the  *)
(* action, marked with what is missing.                                    *)
(*                                                                         *)
(* A component is a record of its kind; a string is a plain text, a lone   *)
(* reference or prose with a reference in it. Wording, styling, formats,   *)
(* links, titles and watermarks are left out, and so are the processes of  *)
(* a page, which AgreementProcesses runs.                                  *)
(***************************************************************************)
EXTENDS Naturals, Sequences

LOCAL INSTANCE SequencesExt

CONSTANTS Sites,       \* definitions: states, pages and templates
          Contexts,    \* the data of agreements
          Undefined,   \* undefined
          MaxRequests  \* bound on requests

ASSUME PagesAssumption == MaxRequests \in Nat

VARIABLES site,     \* the definition of the agreement
          context,  \* its data
          state,    \* its state
          screen,   \* the answer a user has in front of him
          requests  \* requests made

pageVars == <<site, context, state, screen, requests>>

----------------------------------------------------------------------------
(* Values: a text, an object or a list of rows. Names are looked up in the *)
(* context ("$.") or in the row that is repeated over ("@.").              *)
Scope(c, row) == [context |-> c, row |-> row]

Evaluate(ref, scope) ==
    LET base == IF ref.of = "row" THEN scope.row ELSE scope.context IN
    IF base # Undefined /\ ref.name \in DOMAIN base THEN base[ref.name] ELSE Undefined

(* isTruthy: a list is true when its first row is. *)
IsTruthy(value) ==
    /\ value # Undefined
    /\ value.is = "text" => value.text # ""
    /\ value.is = "rows" => value.rows # <<>>

Holds(condition, scope) ==
    condition = Undefined \/ IsTruthy(Evaluate(condition, scope))

(* toText: an object cannot be put in a text, nor can a list of objects. *)
IsText(value) == value.is = "text" \/ (value.is = "rows" /\ value.rows = <<>>)

Node(kind, value, components, items) ==
    [kind |-> kind, value |-> value, text |-> Undefined, components |-> components,
     items |-> items, requires |-> {}, marked |-> FALSE]

TextNode(text) == [Node("text", Undefined, Undefined, <<>>) EXCEPT !.text = text]

(* A reference that is not answered rejects the whole page. *)
Broken == Node("broken", Undefined, Undefined, <<>>)

(* resolveString *)
ResolveText(string, scope) ==
    IF string.form = "plain" THEN TextNode(string)
    ELSE LET value == Evaluate(string.ref, scope) IN
         IF value = Undefined \/ (string.form = "prose" /\ ~IsText(value)) THEN Broken
         ELSE TextNode([form |-> string.form, value |-> value])

(* resolveDisplayValue: what is nested in the items of a display component *)
(* has its references resolved, and is not resolved as a component.        *)
ResolveItem(item, scope) ==
    IF item.kind = "text" THEN ResolveText(item.string, scope)
    ELSE Node(item.kind, item.value, Undefined, <<>>)

----------------------------------------------------------------------------
(* The schema of a component: what holds components holds one at least; of *)
(* a display component it asks nothing, and does not look into its items.  *)
RECURSIVE IsComponent(_)
IsComponent(c) ==
    LET nested == CASE c.kind = "conditional" -> <<c.whenTrue \o c.whenFalse>>
                    [] c.kind = "repeat" -> <<c.items, c.items \o c.beforeContent \o c.emptyContent>>
                    [] c.kind \in {"form", "grid-row", "component-container"} -> <<c.components>>
                    [] OTHER -> <<>>
    IN  /\ \A i \in DOMAIN nested :
             nested[i] # <<>> /\ \A j \in DOMAIN nested[i] : IsComponent(nested[i][j])
        /\ c.kind = "conditional" => c.condition # Undefined
        /\ c.kind = "form" => c.value # Undefined

AreComponents(components) ==
    components # <<>> /\ \A i \in DOMAIN components : IsComponent(components[i])

(* The schema of the pages and of the templates. *)
ValidPages(s) ==
    /\ \A p \in DOMAIN s.pages :
         /\ AreComponents(s.pages[p].components)
         /\ "sections" \in DOMAIN s.pages[p] =>
              \A i \in DOMAIN s.pages[p].sections :
                AreComponents(s.pages[p].sections[i].components)
    /\ \A t \in DOMAIN s.templates : AreComponents(s.templates[t])

----------------------------------------------------------------------------
RECURSIVE ResolveList(_, _)

(* resolveTable: a cell is resolved against its row alone. *)
ResolveTable(c, scope) ==
    LET rows == Evaluate(c.rowsRef, scope) IN
    IF rows = Undefined \/ rows.is # "rows" THEN <<Broken>>
    ELSE <<Node("table", Undefined, Undefined,
                [i \in DOMAIN rows.rows |->
                   ResolveText(c.cell, Scope(rows.rows[i], rows.rows[i]))])>>

ResolveRepeat(c, scope) ==
    LET rows == Evaluate(c.itemsRef, scope) IN
    IF rows = Undefined \/ rows.is # "rows" THEN <<Broken>>
    ELSE IF rows.rows = <<>> THEN ResolveList(c.emptyContent, scope)
    ELSE ResolveList(c.beforeContent, scope) \o
         FlattenSeq([i \in DOMAIN rows.rows |->
                       ResolveList(c.items, Scope(scope.context, rows.rows[i]))])

(* A template without data of its own keeps the row it is used in. *)
ResolveTemplate(c, scope) ==
    IF c.templateKey \notin DOMAIN site.templates THEN <<Broken>>
    ELSE IF c.dataRef = Undefined THEN ResolveList(site.templates[c.templateKey], scope)
    ELSE LET row == Evaluate(c.dataRef, scope) IN
         IF row = Undefined \/ row.is # "object" THEN <<Broken>>
         ELSE ResolveList(site.templates[c.templateKey], Scope(scope.context, row.fields))

ResolveConditional(c, scope) ==
    ResolveList(IF IsTruthy(Evaluate(c.condition, scope)) THEN c.whenTrue ELSE c.whenFalse,
                scope)

(* resolveComponentTree *)
ResolveTree(c, scope) ==
    <<Node(c.kind, c.value, ResolveList(c.components, scope), <<>>)>>

(* resolveComponent, with a hidden component left out. *)
ResolveComponent(c, scope) ==
    IF c.kind = "conditional" THEN ResolveConditional(c, scope)
    ELSE IF ~Holds(c.condition, scope) THEN <<>>
    ELSE CASE c.kind = "repeat" -> ResolveRepeat(c, scope)
           [] c.kind = "template" -> ResolveTemplate(c, scope)
           [] c.kind = "table" -> ResolveTable(c, scope)
           [] c.kind = "component-container" -> ResolveList(c.components, scope)
           [] c.kind \in {"form", "grid-row"} -> ResolveTree(c, scope)
           [] c.kind = "details" ->
                <<Node(c.kind, Undefined, Undefined,
                       [i \in DOMAIN c.items |-> ResolveItem(c.items[i], scope)])>>
           [] OTHER -> <<ResolveItem(c, scope)>>

ResolveList(components, scope) ==
    FlattenSeq([i \in DOMAIN components |-> ResolveComponent(components[i], scope)])

(* resolveSections *)
ResolveSections(sections) ==
    FlattenSeq([i \in DOMAIN sections |->
        IF Holds(sections[i].condition, Scope(context, Undefined))
        THEN <<Node("section", Undefined,
                    ResolveList(sections[i].components, Scope(context, Undefined)), <<>>)>>
        ELSE <<>>])

----------------------------------------------------------------------------
Offered == site.states[state].on

\* Mutant: a form is not held against the actions of the state.
BindAnyForm(n) ==
    IF n.value \in DOMAIN Offered THEN [n EXCEPT !.requires = Offered[n.value].required]
    ELSE n

(* resolveForm: the action of a form is one the state offers, and the form *)
(* tells what that action requires.                                        *)
BindForm(n) ==
    IF n.value \in DOMAIN Offered THEN [n EXCEPT !.requires = Offered[n.value].required]
    ELSE [n EXCEPT !.kind = "broken"]

(* resolveButton: a button in a form submits it, any other is a link to an *)
(* action, which is not held against the state.                            *)
BindButton(n, withinForm) ==
    IF withinForm THEN [n EXCEPT !.value = "submit"]
    ELSE [n EXCEPT !.kind = IF n.value = Undefined THEN "broken" ELSE "button"]

RECURSIVE BindActions(_, _)

Bind(n, withinForm) ==
    CASE n.kind = "form" ->
           [BindForm(n) EXCEPT !.components = BindActions(n.components, TRUE)]
      [] n.kind = "button" -> BindButton(n, withinForm)
      [] OTHER -> [n EXCEPT !.components = IF @ = Undefined THEN @ ELSE BindActions(@, withinForm),
                            !.items = BindActions(@, withinForm)]

BindActions(nodes, withinForm) == [i \in DOMAIN nodes |-> Bind(nodes[i], withinForm)]

----------------------------------------------------------------------------
RECURSIVE RemoveActionNodes(_)

\* Mutant: a form is taken out with what is in it.
RemoveWithForm(n, children) ==
    IF n.kind = "form" \/ children = <<>> THEN <<>>
    ELSE <<[n EXCEPT !.components = children]>>

(* removeNestedActionNodes: a form leaves its content, a container that    *)
(* is left with nothing goes.                                              *)
RemoveNested(n, children) ==
    IF n.kind = "form" THEN children
    ELSE IF children = <<>> THEN <<>> ELSE <<[n EXCEPT !.components = children]>>

(* removeActionNode does not look into the items of a display component. *)
RemoveActionNode(n) ==
    CASE n.kind = "button" -> <<>>
      [] n.kind # "button" /\ n.components = Undefined -> <<n>>
      [] OTHER -> RemoveNested(n, RemoveActionNodes(n.components))

RemoveActionNodes(nodes) ==
    FlattenSeq([i \in DOMAIN nodes |-> RemoveActionNode(nodes[i])])

----------------------------------------------------------------------------
RECURSIVE Inside(_)
(* The nodes of a tree, in reading order. *)
Inside(nodes) ==
    FlattenSeq([i \in DOMAIN nodes |->
        <<nodes[i]>> \o (IF nodes[i].components = Undefined THEN <<>>
                         ELSE Inside(nodes[i].components)) \o Inside(nodes[i].items)])

NodesOf(nodes) == {Inside(nodes)[i] : i \in DOMAIN Inside(nodes)}

Failed(status) == [status |-> status, nodes |-> <<>>, errors |-> {}, at |-> state]

Shows(nodes) ==
    IF \E n \in NodesOf(nodes) : n.kind = "broken" THEN Failed(500)
    ELSE [status |-> 200, nodes |-> nodes, errors |-> {}, at |-> state]

(* buildPageModel: actions are bound before they are removed, so a form    *)
(* the state does not offer breaks the printed page too.                   *)
BuildPageModel(page, mode) ==
    LET bound == BindActions(ResolveList(site.pages[page].components,
                                         Scope(context, Undefined)), FALSE)
        model == Shows(bound)
    IN  IF model.status = 200 /\ mode = "print"
        THEN [model EXCEPT !.nodes = RemoveActionNodes(bound)] ELSE model

BuildDocument ==
    Shows(BindActions(ResolveList(site.pages["document"].components, Scope(context, Undefined))
                      \o ResolveSections(site.pages["document"].sections), FALSE))

AllowedPage(page) ==
    page # Undefined /\ (page = site.states[state].page
                         \/ \E a \in DOMAIN Offered : Offered[a].page = page)

(* buildAgreementPageModel *)
BuildAgreementPageModel(page, mode) ==
    IF ~AllowedPage(page) THEN Failed(403) ELSE BuildPageModel(page, mode)

----------------------------------------------------------------------------
(* AgreementAction.validate and its requirements: the fields that must be  *)
(* given as configured.                                                    *)
Lacking(action, given) == Offered[action].required \ given

RECURSIVE MarkNodes(_, _)
(* applyComponentTree *)
MarkNodes(nodes, missing) ==
    [i \in DOMAIN nodes |->
        [nodes[i] EXCEPT
           !.marked = nodes[i].kind = "field" /\ nodes[i].value \in missing,
           !.components = IF @ = Undefined THEN @ ELSE MarkNodes(@, missing),
           !.items = MarkNodes(@, missing)]]

ApplyActionValidation(model, missing) ==
    IF model.status # 200 THEN model
    ELSE [model EXCEPT !.status = 422, !.nodes = MarkNodes(@, missing), !.errors = missing]

----------------------------------------------------------------------------
PagesInit ==
    /\ site \in {s \in Sites : ValidPages(s)} /\ context \in Contexts
    /\ state = "offered" /\ screen = Failed(0) /\ requests = 0

Answers(model) ==
    /\ requests < MaxRequests
    /\ screen' = model
    /\ requests' = requests + 1
    /\ UNCHANGED <<site, context>>

(* getCurrentAgreementPageModel *)
ShowCurrent(mode) ==
    /\ Answers(IF site.states[state].page \in DOMAIN site.pages
               THEN BuildAgreementPageModel(site.states[state].page, mode) ELSE Failed(500))
    /\ UNCHANGED state

(* getAgreementDocumentPageModel; there may be no such page. *)
ShowDocument ==
    /\ Answers(IF "document" \in DOMAIN site.pages THEN BuildDocument ELSE Failed(404))
    /\ UNCHANGED state

(* prepareAgreementAction *)
PrepareAction(action) ==
    /\ Answers(IF action \notin DOMAIN Offered THEN Failed(409)
               ELSE IF Offered[action].page = Undefined THEN Failed(500)
               ELSE BuildAgreementPageModel(Offered[action].page, "view"))
    /\ UNCHANGED state

(* invokeAgreementAction, whose commit AgreementActions models. *)
InvokeAction(action, given) ==
    IF action \notin DOMAIN Offered THEN Answers(Failed(409)) /\ UNCHANGED state
    ELSE IF Lacking(action, given) # {}
    THEN /\ Answers(ApplyActionValidation(
                      BuildAgreementPageModel(Offered[action].page, "view"),
                      Lacking(action, given)))
         /\ UNCHANGED state
    ELSE /\ Answers(Failed(303))
         /\ state' = Offered[action].target

(* Somebody else acts on the agreement. *)
MovesElsewhere(action) ==
    /\ requests < MaxRequests /\ action \in DOMAIN Offered
    /\ state' = Offered[action].target /\ requests' = requests + 1
    /\ UNCHANGED <<site, context, screen>>

ActionNames == UNION {DOMAIN site.states[s].on : s \in DOMAIN site.states}

Fields == UNION {UNION {site.states[s].on[a].required : a \in DOMAIN site.states[s].on} :
                   s \in DOMAIN site.states}

PagesNext ==
    \/ \E mode \in {"view", "print"} : ShowCurrent(mode)
    \/ ShowDocument
    \/ \E a \in ActionNames : PrepareAction(a) \/ MovesElsewhere(a)
    \/ \E a \in ActionNames, given \in SUBSET Fields : InvokeAction(a, given)

----------------------------------------------------------------------------
Read(nodes) == SelectSeq(Inside(nodes), LAMBDA n : n.kind \in {"text", "table", "field"})

(* The page of a state prints when it can be viewed, with everything that  *)
(* can be read on it in the same order, and with nothing left to press but *)
(* what is nested in the items of a display component.                     *)
PrintedAsShown ==
    LET page == site.states[state].page
        view == BuildPageModel(page, "view")
        print == BuildPageModel(page, "print")
    IN  page \in DOMAIN site.pages =>
          /\ view.status = print.status
          /\ Read(print.nodes) = Read(view.nodes)
          /\ \A n \in NodesOf(print.nodes) :
               /\ n.kind # "form"
               /\ n.components # Undefined => n.components # <<>>
               /\ n.components # Undefined =>
                    \A i \in DOMAIN n.components : n.components[i].kind # "button"
          /\ \A i \in DOMAIN print.nodes : print.nodes[i].kind # "button"

(* What the page in front of the user offers is accepted: unless the       *)
(* agreement moved on since, a form on it that is given what it asks for   *)
(* is not refused. A page that comes back marks, of its fields, those the  *)
(* answer lists as errors and no other.                                    *)
OfferedIsAccepted ==
    \A n \in NodesOf(screen.nodes) :
        /\ n.kind = "form" /\ screen.at = state =>
             n.value \in DOMAIN Offered /\ Lacking(n.value, n.requires) = {}
        /\ n.kind = "field" => (n.marked <=> n.value \in screen.errors)
=============================================================================
