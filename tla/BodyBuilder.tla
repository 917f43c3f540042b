---------------------------- MODULE BodyBuilder ----------------------------
(* How a page is built: the tree of components of class body_builder, its    *)
(* cache and the rounds of its root, the events components send each other   *)
(* while they are evaluated, and the fields a request may set                *)
(* (html_form_input, html_form_radio, html_form, html_button).               *)
(*                                                                           *)
(* What the handlers of the events do is a parameter: each one shows, hides, *)
(* sets, enables or disables another component.                              *)
EXTENDS Naturals, Sequences, FiniteSets

CONSTANTS
    Nodes, Root,
    Children,      \* body_builder::order
    Kind,          \* "box", "form", "button", "input", "check" or "radio"
    Hidden,        \* the components that may be hidden at the beginning
    Reactions,     \* the handlers that may be recorded on the events of each
    Requests,      \* what a browser may ask
    MaxLoop        \* maxloop in body_builder::get_body_part

Fields == {n \in Nodes : Kind[n] \in {"input", "check", "radio"}}

(* The components that send events.                                          *)
Emitters == Fields \cup {n \in Nodes : Kind[n] \in {"button", "form"}}

(* A field is empty (or unchecked) or not; a component is hidden or shown.   *)
Values == {0, 1}

(* The components form a tree: one adopts what has no parent (adopt).        *)
IsTree ==
    /\ Root \in Nodes /\ Children \in [Nodes -> Seq(Nodes)]
    /\ \A p, q \in Nodes : \A i \in DOMAIN Children[p], j \in DOMAIN Children[q] :
          Children[p][i] = Children[q][j] => p = q /\ i = j
    /\ \A p \in Nodes : \A i \in DOMAIN Children[p] : Children[p][i] # Root
    /\ \A S \in SUBSET Nodes :
          /\ Root \in S
          /\ \A p \in S : \A i \in DOMAIN Children[p] : Children[p][i] \in S
          => S = Nodes

(* What a handler may do: show or hide a component, set or enable a field.   *)
Handlers ==
    [do : {"visible"}, node : Nodes, same : BOOLEAN]
      \cup [do : {"value", "enabled"}, node : Fields, same : BOOLEAN]

Forms == UNION {[S -> Values] : S \in SUBSET Fields}

ASSUME PageAssumption ==
    /\ IsTree
    /\ Kind \in [Nodes -> {"box", "form", "button", "input", "check", "radio"}]
    /\ Reactions \subseteq [Nodes -> Seq(Handlers)]
    /\ Requests \subseteq [method : {"GET", "POST"}, target : Nodes, posted : Forms]
    /\ Requests # {}
    /\ \A r \in Requests : DOMAIN r.posted # {} => r.method = "POST"
    /\ MaxLoop \in Nat \ {0}

Parent(n) == CHOOSE p \in Nodes : \E i \in DOMAIN Children[p] : Children[p][i] = n

(* The component and those that adopted it, directly or not.                 *)
Lineage[n \in Nodes] == IF n = Root THEN {Root} ELSE {n} \cup Lineage[Parent(n)]

(* The content of a button is left out, as it never changes. A form that is  *)
(* in another is not submitted on its own: browsers ignore its tag (see what *)
(* guichet::set_child puts around the selection of a subconfig).             *)
ASSUME AskedAssumption ==
    /\ \A n \in Nodes : Kind[n] = "button" => Children[n] = <<>>
    /\ \A r \in Requests :
          Kind[r.target] = "form" /\ r.method = "POST" =>
              \A n \in Lineage[r.target] : Kind[n] = "form" => n = r.target

VARIABLES
    reactions,     \* the handlers, fixed once for all
    visible,       \* body_builder::visible
    body_changed,  \* body_builder::body_changed
    last_body,     \* body_builder::last_body_req_*, last_body_part
    value,         \* html_form_input::x_init, html_form_radio::selected
    enabled,       \* html_form_input::enabled, html_form_radio::enabled
    value_set,     \* html_form_input::value_set, html_form_radio::value_set
    stage,         \* what the server thread is doing
    request,       \* localreq in body_builder::get_body_part
    stack,         \* the calls to get_body_part in progress, innermost last
    todo,          \* what is left to do of the events being acted
    loop,          \* loop in body_builder::get_body_part
    page,          \* what the root returned
    seen,          \* history: what the user could act on with his request
    decided,       \* history: what events did to components since
    acted          \* history: times its target acted upon the request

fields == <<value, enabled, value_set>>
tree == <<visible, body_changed, last_body>>
build == <<stage, request, loop, page>>
history == <<seen, decided, acted>>
vars == <<reactions, tree, fields, build, stack, todo, history>>

-----------------------------------------------------------------------------
(* get_visible_recursively.                                                  *)
Shown(n) == \A m \in Lineage[n] : visible[m]

(* What a component adds to the page.                                        *)
Part(n) == IF n \in Fields
           THEN [node |-> n, value |-> value[n], enabled |-> enabled[n]]
           ELSE [node |-> n]

NoText == [key |-> <<>>, text |-> {}]

(* What a cached text is valid for: the URL and the body, not the method.    *)
Key == <<request.target, request.posted>>

Top == stack[Len(stack)]

Callers == SubSeq(stack, 1, Len(stack) - 1)

Call(n, post) == [node |-> n, next |-> 0, post |-> post, text |-> {}]

Init ==
    /\ reactions \in Reactions
    /\ \E H \in Hidden : visible = [n \in Nodes |-> n \notin H]
    /\ body_changed = [n \in Nodes |-> TRUE]
    /\ last_body = [n \in Nodes |-> NoText]
    /\ value = [n \in Fields |-> 0]
    /\ enabled = [n \in Fields |-> TRUE]
    /\ value_set = [n \in Fields |-> FALSE]
    /\ stage = "idle" /\ loop = 0 /\ page = {}
    /\ request = CHOOSE r \in Requests : TRUE
    /\ stack = <<>> /\ todo = <<>>
    /\ seen = {} /\ decided = {} /\ acted = 0

-----------------------------------------------------------------------------
(* my_body_part_has_changed: a component that is hidden tells nobody, its    *)
(* parent included.                                                          *)
Notified(n, isVisible) ==
    {m \in Lineage[n] :
        \A k \in Lineage[n] : m \in Lineage[k] => isVisible[k]}

Mark(n, isVisible) ==
    body_changed' = [m \in Nodes |->
                        body_changed[m] \/ m \in Notified(n, isVisible)]

(* events::act: each handler, in the order of the list.                      *)
Act(n, v) ==
    [i \in DOMAIN reactions[n] |->
        LET r == reactions[n][i]
        IN [do |-> r.do, node |-> r.node,
            to |-> IF r.same THEN v ELSE 1 - v]]

Then(do, n) == <<[do |-> do, node |-> n, to |-> 0]>>

Decide(how, nodes) == decided' = decided \cup {<<how, n>> : n \in nodes}

Below(n) == {m \in Nodes : n \in Lineage[m]}

(* Mutant: the component is hidden before it tells that it changed.          *)
SetVisibleFirst(op) ==
    /\ op.do = "visible"
    /\ visible' = [visible EXCEPT ![op.node] = op.to = 1]
    /\ IF visible' # visible THEN Mark(op.node, visible')
       ELSE UNCHANGED body_changed
    /\ Decide("visible", Below(op.node))
    /\ todo' = Tail(todo)
    /\ UNCHANGED <<last_body, fields>>

SetVisible(op) ==
    /\ op.do = "visible"
    /\ visible' = [visible EXCEPT ![op.node] = op.to = 1]
    /\ IF visible' = visible THEN UNCHANGED body_changed
       ELSE IF op.to = 1 THEN Mark(op.node, visible')
       ELSE Mark(op.node, visible)
    /\ Decide("visible", Below(op.node))
    /\ todo' = Tail(todo)
    /\ UNCHANGED <<last_body, fields>>

(* set_value, and set_selected_num, which locks the field in any case.       *)
SetValue(op) ==
    /\ op.do = "value"
    /\ value' = [value EXCEPT ![op.node] = op.to]
    /\ todo' = IF value' # value
               THEN Act(op.node, op.to) \o Then("changed", op.node)
                      \o Then("lock", op.node) \o Tail(todo)
               ELSE IF Kind[op.node] = "radio"
               THEN Then("lock", op.node) \o Tail(todo)
               ELSE Tail(todo)
    /\ Decide("set", {op.node})
    /\ UNCHANGED <<tree, enabled, value_set>>

(* set_enabled, which locks an input and not a radio.                        *)
SetEnabled(op) ==
    /\ op.do = "enabled"
    /\ enabled' = [enabled EXCEPT ![op.node] = op.to = 1]
    /\ todo' = IF enabled' = enabled THEN Tail(todo)
               ELSE Act(op.node, value[op.node]) \o Then("changed", op.node)
                      \o (IF Kind[op.node] = "radio" THEN <<>>
                          ELSE Then("lock", op.node))
                      \o Tail(todo)
    /\ Decide("set", {op.node})
    /\ UNCHANGED <<tree, value, value_set>>

HasChanged(op) ==
    /\ op.do = "changed"
    /\ Mark(op.node, visible)
    /\ todo' = Tail(todo)
    /\ UNCHANGED <<visible, last_body, fields, decided>>

(* value_set, which keeps a late POST from undoing what was just done.       *)
Lock(op) ==
    /\ op.do = "lock"
    /\ value_set' = [value_set EXCEPT ![op.node] = TRUE]
    /\ Decide("lock", {op.node})
    /\ todo' = Tail(todo)
    /\ UNCHANGED <<tree, value, enabled>>

React ==
    /\ todo # <<>>
    /\ LET op == Head(todo)
       IN \/ SetVisible(op) \/ SetValue(op) \/ SetEnabled(op)
          \/ HasChanged(op) \/ Lock(op)
    /\ UNCHANGED <<reactions, build, stack, seen, acted>>

-----------------------------------------------------------------------------
(* A request comes for the page. The caches are flushed.                     *)
GetBodyPart(r) ==
    /\ stage = "idle"
    /\ stage' = "building" /\ request' = r /\ loop' = 0
    /\ body_changed' = [n \in Nodes |-> TRUE]
    /\ stack' = <<Call(Root, r.method = "POST")>>
    /\ seen' = {n \in Emitters :
                   /\ Shown(n)
                   /\ n \in Fields => Kind[n] = "radio" \/ enabled[n]
                   /\ Kind[n] = "form" => r.method = "POST"}
    /\ decided' = {<<"lock", n>> :
                      n \in {m \in Fields : Kind[m] = "radio" /\ value_set[m]}}
    /\ acted' = 0
    /\ UNCHANGED <<reactions, visible, last_body, fields, page, todo>>

(* The call on top returns this.                                             *)
Return(text) ==
    IF Len(stack) = 1 THEN stack' = <<>> /\ page' = text
    ELSE /\ stack' = [Callers EXCEPT ![Len(Callers)].text = @ \cup text]
         /\ UNCHANGED page

(* A component is about to be evaluated.                                     *)
Begins == stage = "building" /\ todo = <<>> /\ stack # <<>> /\ Top.next = 0

(* Mutant: a change of the component does not make its text obsolete.        *)
IsCachedAnyway(n) == last_body[n].key = Key

IsCached(n) == last_body[n].key = Key /\ ~body_changed[n]

FromCache ==
    /\ Begins /\ IsCached(Top.node)
    /\ Return(IF visible[Top.node] THEN last_body[Top.node].text ELSE {})
    /\ UNCHANGED <<reactions, tree, fields, stage, request, loop, todo,
                   history>>

Skip ==
    /\ Begins /\ ~IsCached(Top.node) /\ ~visible[Top.node]
    /\ body_changed' = [body_changed EXCEPT ![Top.node] = FALSE]
    /\ Return({})
    /\ UNCHANGED <<reactions, visible, last_body, fields, stage, request, loop,
                   todo, history>>

(* Mutant: a box that is absent from the request keeps its value.            *)
PostedAsSent(n) ==
    IF n \in DOMAIN request.posted THEN request.posted[n] ELSE value[n]

(* The value a field takes from the request. A box that is not checked is    *)
(* absent from it.                                                           *)
Posted(n) ==
    IF n \in DOMAIN request.posted THEN request.posted[n]
    ELSE IF Kind[n] = "check" THEN 0 ELSE value[n]

(* path.empty(): one name of the URL is dropped at each level, whatever the  *)
(* components that are entered are called.                                   *)
PathIsEmpty(n) == Cardinality(Lineage[request.target]) <= Cardinality(Lineage[n])

MayTake(n) == Top.post /\ (Kind[n] = "radio" \/ (enabled[n] /\ PathIsEmpty(n)))

(* Mutant: what an event has just set is overwritten.                        *)
TakesAnyPost(n) == MayTake(n)

TakesPost(n) == MayTake(n) /\ ~value_set[n]

(* A form that is not the target of a POST is only displayed.                *)
PostIsFor(n) == Kind[n] = "form" => request.target \in Lineage[n]

(* inherited_get_body_part, up to the children.                              *)
Enter ==
    /\ Begins /\ ~IsCached(Top.node) /\ visible[Top.node]
    /\ LET n == Top.node
       IN /\ body_changed' = [body_changed EXCEPT ![n] = FALSE]
          /\ stack' = [stack EXCEPT ![Len(stack)].next = 1,
                                    ![Len(stack)].post = @ /\ PostIsFor(n)]
          /\ IF n \in Fields /\ TakesPost(n) /\ Posted(n) # value[n]
             THEN /\ value' = [value EXCEPT ![n] = Posted(n)]
                  /\ todo' = Act(n, Posted(n)) \o Then("changed", n)
                  /\ UNCHANGED acted
             ELSE IF Kind[n] = "button" /\ request.target = n
             THEN /\ todo' = Act(n, 1)
                  /\ acted' = acted + 1
                  /\ UNCHANGED value
             ELSE UNCHANGED <<value, todo, acted>>
    /\ UNCHANGED <<reactions, visible, last_body, enabled, value_set, build, seen, decided>>

(* get_body_part_from_all_children.                                          *)
Descend ==
    /\ stage = "building" /\ todo = <<>> /\ stack # <<>>
    /\ Top.next \in DOMAIN Children[Top.node]
    /\ stack' = Append([stack EXCEPT ![Len(stack)].next = @ + 1],
                       Call(Children[Top.node][Top.next], Top.post))
    /\ UNCHANGED <<reactions, tree, fields, build, todo, history>>

(* html_form: the event comes after those of the fields.                     *)
IsSubmitted == Top.post /\ Kind[Top.node] = "form"

ActChanged ==
    /\ stage = "building" /\ todo = <<>> /\ stack # <<>>
    /\ IsSubmitted /\ Top.next = Len(Children[Top.node]) + 1
    /\ stack' = [stack EXCEPT ![Len(stack)].next = @ + 1]
    /\ todo' = Act(Top.node, 1)
    /\ acted' = IF Top.node = request.target THEN acted + 1 ELSE acted
    /\ UNCHANGED <<reactions, tree, fields, build, seen, decided>>

(* Mutant: a field stays locked.                                             *)
UnlockNever(n) == UNCHANGED value_set

(* A field is unlocked when it has been displayed as it is.                  *)
Unlock(n) ==
    value_set' = IF n \in Fields /\ ~body_changed[n]
                 THEN [value_set EXCEPT ![n] = FALSE] ELSE value_set

(* inherited_get_body_part returns, without the children if it was hidden    *)
(* meanwhile. Its text is kept unless it is obsolete already.                *)
Leave ==
    /\ stage = "building" /\ todo = <<>> /\ stack # <<>>
    /\ Top.next = Len(Children[Top.node]) + (IF IsSubmitted THEN 2 ELSE 1)
    /\ LET n == Top.node
           text == {Part(n)} \cup (IF visible[n] THEN Top.text ELSE {})
       IN /\ last_body' = IF body_changed[n] THEN last_body
                          ELSE [last_body EXCEPT
                                   ![n] = [key |-> Key, text |-> text]]
          /\ Unlock(n)
          /\ Return(text)
    /\ UNCHANGED <<reactions, visible, body_changed, value, enabled, stage,
                   request, loop, todo, history>>

(* Mutant: the next round is for the same request.                           *)
NextRequestPosts == request

(* post_to_get, if there is to be another round.                             *)
NextRequest == IF body_changed[Root] THEN [request EXCEPT !.method = "GET"]
               ELSE request

(* The root was evaluated. Another round starts if something changed.        *)
EndRound ==
    /\ stage = "building" /\ todo = <<>> /\ stack = <<>>
    /\ request' = NextRequest
    /\ loop' = loop + 1
    /\ IF loop' >= MaxLoop THEN stage' = "bug" /\ UNCHANGED stack
       ELSE IF body_changed[Root]
       THEN /\ stack' = <<Call(Root, request'.method = "POST")>>
            /\ UNCHANGED stage
       ELSE stage' = "idle" /\ UNCHANGED stack
    /\ UNCHANGED <<reactions, tree, fields, page, todo, history>>

Evaluate == FromCache \/ Skip \/ Enter \/ Descend \/ ActChanged \/ Leave \/ EndRound

Next == React \/ Evaluate \/ \E r \in Requests : GetBodyPart(r)

Spec == Init /\ [][Next]_vars

-----------------------------------------------------------------------------
(* What a page is made of, what is recorded of a call and of an event.       *)
Parts == [node : Nodes] \cup [node : Fields, value : Values, enabled : BOOLEAN]

Frames == [node : Nodes, next : Nat, post : BOOLEAN, text : SUBSET Parts]

Ops ==
    [do : {"visible"}, node : Nodes, to : Values]
      \cup [do : {"value", "enabled", "changed", "lock"}, node : Fields, to : Values]

(* Every variable has its type.                                              *)
TypeOK ==
    /\ reactions \in [Nodes -> Seq(Handlers)]
    /\ visible \in [Nodes -> BOOLEAN] /\ body_changed \in [Nodes -> BOOLEAN]
    /\ last_body \in [Nodes -> [key : {<<>>} \cup (Nodes \X Forms), text : SUBSET Parts]]
    /\ value \in [Fields -> Values] /\ enabled \in [Fields -> BOOLEAN]
    /\ value_set \in [Fields -> BOOLEAN]
    /\ stage \in {"idle", "building", "bug"}
    /\ loop \in 0..MaxLoop /\ (stage = "building" => loop < MaxLoop)
    /\ request \in [method : {"GET", "POST"}, target : Nodes, posted : Forms]
    /\ stack \in Seq(Frames) /\ todo \in Seq(Ops)
    /\ page \subseteq Parts
    /\ seen \subseteq Emitters /\ acted \in Nat
    /\ decided \subseteq {"visible", "set", "lock"} \X Nodes

(* The page that is sent shows each component that is visible as it is then, *)
(* and nothing else, whatever the events have changed and in whichever round *)
(* each text was evaluated (body_builder::get_body_part_or_cache). It is     *)
(* built before the round that is taken for a bug.                           *)
PageIsStable ==
    /\ stage # "bug"
    /\ stage = "idle" /\ loop > 0 =>
           page = {Part(n) : n \in {m \in Nodes : Shown(m)}}

Untouched(n) == \A how \in {"visible", "set", "lock"} : <<how, n>> \notin decided

(* The forms that the component is in are the target, or in it.              *)
IsPostedTo(n) == \A m \in Lineage[n] : PostIsFor(m)

(* A field the user saw in the form he submits has the value he posted once  *)
(* the page is built, an unchecked box being absent from what he posted,     *)
(* unless an event set it, showed it or hid it meanwhile. No input is left   *)
(* locked by an earlier page (html_form_input::value_set); a radio may be,   *)
(* as set_selected_num locks it even when it changes nothing and nothing     *)
(* evaluates it before the post.                                             *)
PostIsTaken ==
    stage = "idle" /\ DOMAIN request.posted # {} =>
        \A n \in seen \cap Fields :
            /\ Untouched(n) /\ IsPostedTo(n) /\ request.target \in Lineage[n]
            /\ n \in DOMAIN request.posted \/ Kind[n] = "check"
            => value[n] = IF n \in DOMAIN request.posted THEN request.posted[n]
                          ELSE 0

(* A field that is evaluated changes for a reason: the request says so and   *)
(* no event has set it meanwhile (value_set), in this round or another. Its  *)
(* absence from the request, when the user did not see it, changes it in one *)
(* case only: a box that an event has just shown is taken for unchecked      *)
(* (html_form_input::inherited_get_body_part).                               *)
ChangesForAReason ==
    [][\A n \in Fields :
          Enter /\ value'[n] # value[n] =>
              /\ <<"lock", n>> \notin decided
              /\ \/ n \in seen \cup DOMAIN request.posted
                 \/ Kind[n] = "check" /\ <<"visible", n>> \in decided]_vars

(* The button that a request presses, or the form that it submits, acts upon *)
(* it once if the user saw it, in however many rounds the page is built, and *)
(* never otherwise (the cache, request::post_to_get), unless an event shows  *)
(* or hides it meanwhile.                                                    *)
ActsOnce ==
    LET n == request.target
    IN stage = "idle" /\ loop > 0 /\ n \in Emitters \ Fields /\ Untouched(n) =>
           acted = IF n \in seen THEN 1 ELSE 0

(* What the user posts is taken as it was posted, and nothing else changes a *)
(* field behind his back.                                                    *)
PostIsKept == []PostIsTaken /\ ChangesForAReason

=============================================================================
