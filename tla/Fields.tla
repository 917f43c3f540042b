------------------------------- MODULE Fields -------------------------------
(* One of the components that a user fills in, and what happens to it: a     *)
(* request that posts it, a page that shows it, the guichet or the boutique  *)
(* that saves, loads or clears it, the operation that reads it. Its kind is  *)
(* chosen at the start.                                                      *)
EXTENDS PolicyForms, AmountForms, TLC

CONSTANTS
    Kinds,     \* the kinds of component, of those below
    MaxSteps,  \* bound: the operations on a component of each kind
    MaxRows,   \* bound: the rows of a table
    MaxNumber  \* bound: the number entered in the field of a size

VARIABLES
    kind,      \* the kind of the component
    form,      \* its state
    file,      \* what the last save_json wrote, and the component it wrote
    op,        \* the last operation and what it was about
    loaded,    \* a load happened, or the program set a size
    torn,      \* the last evaluation, or load, ended with an exception
    missed,    \* the last change of the root did not reach every path
    steps

vars == <<kind, form, file, op, loaded, torn, missed, steps>>

NameKind == "names"
PathKinds == {"paths", "relative paths"}
MaskKinds == PathKinds \cup {NameKind}
ListKinds == {"mounts", "links", "persons"}

Types(k) ==
    CASE k = "names" -> NameTypes [] k \in PathKinds -> PathTypes
      [] k = "mounts" -> {"included", "excluded"} [] k = "links" -> {"link"}
      [] k = "persons" -> {"recipient", "signatory"} [] k = "action" -> {"cell"}

-----------------------------------------------------------------------------
(* What a page may post of a component: one field changed, rows deleted, one *)
(* added. A page that is out of date deletes rows that are no longer there.  *)

Live(t) == {n \in Numbers(t) : n \notin t.doomed}

Object(t, n) == t.rows[CHOOSE i \in DOMAIN t.rows : t.rows[i].num = n].object

LeafPosts(o) ==
    CASE o.kind = "expression" -> [negate : BOOLEAN, text : {"", "x"}]
      [] o.kind = "file" -> [exclude : BOOLEAN, name : {"/", "/list"}]
      [] o.kind = "subdir" -> [exclude : BOOLEAN, regex : BOOLEAN, path : {"", "a", "/a"}]
      [] o.kind = "recorded" -> [select : {"none", "lib"}]
      [] o.kind = "base" -> [negate : BOOLEAN, base : {"inode", "dir"}]
      [] o.kind = "constant" -> [value : {"preserve", "overwrite"}]

(* What the page says of a combination that the user leaves alone            *)
Echo(o) ==
    [drops |-> {}, add |-> "none", mode |-> o.mode,
     edits |-> [n \in Live(o.table) |-> WriteLeaf(Object(o.table, n))]]

EchoRows(t) ==
    [n \in Live(t) |-> IF IsCombination(Object(t, n)) THEN Echo(Object(t, n)) ELSE WriteLeaf(Object(t, n))]

(* An inner combination, whose rows are the simplest ones                    *)
InnerPosts(o) ==
    LET leaf == IF o.kind = "criterium" THEN {"base"} ELSE {"subdir", "expression"}
        e == Echo(o)
    IN  {[e EXCEPT !.mode = m, !.drops = d, !.add = t] :
            m \in {"and", "or"}, d \in SUBSET Live(o.table),
            t \in {"none"} \cup (IF Len(o.table.rows) < MaxRows THEN leaf ELSE {})}

Edits(t) ==
    {EchoRows(t)} \cup
    UNION {{(n :> e) @@ EchoRows(t) :
                e \in IF IsCombination(Object(t, n)) THEN InnerPosts(Object(t, n)) ELSE LeafPosts(Object(t, n))}
           : n \in Live(t)}

Drops(t) == {{}, 0..(t.next - 1)} \cup {{n} : n \in 0..(t.next - 1)}

TablePosts(t, types) ==
    LET adds == {"none"} \cup (IF Len(t.rows) < MaxRows THEN types ELSE {})
    IN  {p \in [drops : Drops(t), add : adds, edits : Edits(t)] :
            p.add = "none" \/ p.edits = EchoRows(t)}

CombinationPosts(c, types) ==
    {p @@ [mode |-> c.mode] : p \in TablePosts(c.table, types)}
        \cup {[drops |-> d, add |-> "none", edits |-> EchoRows(c.table), mode |-> Invert(c.mode)]
                : d \in Drops(c.table)}

EchoCombination(c) == [drops |-> {}, add |-> "none", edits |-> EchoRows(c.table), mode |-> c.mode]

EchoConditional(k) == [crit |-> EchoCombination(k.crit), yes |-> k.yes, no |-> k.no]

EchoAction(a) ==
    [type |-> a.type, constant |-> a.constant, chain |-> NoPost,
     cond |-> IF a.cond = <<>> THEN "none" ELSE EchoConditional(a.cond[1])]

ActionPosts(a) ==
    LET e == EchoAction(a)
    IN  {[e EXCEPT !.type = t] : t \in {"const", "cond", "chain"}}
        \cup (CASE a.type = "const" -> {[e EXCEPT !.constant = x] : x \in LeafPosts(a.constant)}
                [] a.type = "chain" -> {[e EXCEPT !.chain = p] : p \in TablePosts(a.chain.table, {"cell"})}
                [] a.type = "cond" ->
                    {[e EXCEPT !.cond.crit = p] :
                        p \in CombinationPosts(a.cond[1].crit, {"base", "criterium"})}
                    \cup {[e EXCEPT !.cond.yes = x] : x \in LeafPosts(a.cond[1].yes)})

ListPosts(k, l) ==
    LET t == l.table
        edits == {<<>>} \cup {n :> [name |-> x] : n \in Live(t), x \in {"", "x"}}
        adds == {"none"} \cup (IF Len(t.rows) < MaxRows THEN Types(k) ELSE {})
    IN  [drops : Drops(t), add : adds, edits : edits]

AmountPosts(s) ==
    [field : {s.field}, power : 0..MaxPower, base : {0, 1}]
        \cup [field : 0..MaxNumber, power : {s.power}, base : {s.base}]

DateFields == {"year", "month", "day", "hour", "minute"}

DatePosts(d) ==
    LET values == [year |-> {NoYear} \cup 0..1, month |-> DOMAIN Months, hour |-> 0..(Hours - 1),
                   day |-> 1..Months[1], minute |-> 0..(Minutes - 1)]
    IN  UNION {{[d EXCEPT ![f] = x] : x \in values[f]} : f \in DateFields}

Posts(k, f) ==
    CASE k \in MaskKinds ->
            CombinationPosts(f.mask, Types(k))
      [] k = "action" -> ActionPosts(f)
      [] k \in ListKinds -> ListPosts(k, f)
      [] k = "size" -> AmountPosts(f)
      [] k = "date" -> DatePosts(f)

-----------------------------------------------------------------------------

NewComponent(k) ==
    CASE k \in MaskKinds -> NewMaskForm(k # "relative paths") [] k = "action" -> NewAction
      [] k \in ListKinds -> NewList [] k = "size" -> NewAmount(0) [] k = "date" -> NewDate

Post(k, f, p) ==
    CASE k \in MaskKinds -> PostMaskForm(f, p) [] k = "action" -> PostAction(f, p)
      [] k \in ListKinds -> PostList(k = "persons", f, p) [] k = "size" -> PostAmount(f, p)
      [] k = "date" -> PostDate(f, p)

SaveOf(k, f) ==
    CASE k \in MaskKinds -> SaveMaskForm(f) [] k = "action" -> SaveAction(f)
      [] k \in ListKinds -> SaveList(f) [] k = "size" -> f.val [] k = "date" -> DateValue(f)

LoadOf(k, f, x) ==
    CASE k \in MaskKinds -> LoadMaskForm(f, x) [] k = "action" -> LoadAction(f, x)
      [] k \in ListKinds -> LoadList(f, x) [] k = "size" -> SetAmount(f, x)
      [] k = "date" -> SetDate(f, x)

ClearOf(k, f) ==
    CASE k \in MaskKinds -> ClearMaskForm(f) [] k = "action" -> ClearAction(f)
      [] k \in ListKinds -> ClearList(f) [] k = "size" -> SetAmount(f, 0) [] k = "date" -> SetDate(f, 0)

(* What the component means to libdar                                        *)
Means(k, f) ==
    CASE k \in MaskKinds -> MaskFormMeans(f) [] k = "action" -> ActionMeans(f)
      [] k \in ListKinds -> [t \in Types(k) |-> Gather(f, t)] [] k = "size" -> f.val
      [] k = "date" -> DateValue(f)

-----------------------------------------------------------------------------

Do(name, about) ==
    /\ steps < MaxSteps[kind]
    /\ steps' = steps + 1
    /\ op' = [name |-> name, about |-> about]
    /\ UNCHANGED kind

AtRest == Quiet(form)

(* A component already filled in, as it is after some requests               *)
Filled(k) ==
    LET f == NewComponent(k)
        leaf == IF k = NameKind THEN "expression" ELSE "subdir"
        said == IF k = NameKind THEN [negate |-> FALSE, text |-> "x"]
                ELSE [exclude |-> FALSE, regex |-> FALSE, path |-> "a"]
        post(mode, edits, add) == [drops |-> {}, add |-> add, edits |-> edits, mode |-> mode]
        new(mode) == post(mode, <<>>, leaf)
        in(p) == post("and", (0 :> said) @@ (1 :> p), "none")
        choice == [EchoAction(f) EXCEPT !.type = "cond"]
        crit(t) == [choice EXCEPT !.cond = EchoConditional(NewConditional), !.cond.crit.add = t]
        row == post("and", <<>>, CHOOSE t \in Types(k) : TRUE)
        posts == CASE k \in MaskKinds ->
                        <<new("and"), post("and", 0 :> said, "mask"), in(new("or")),
                          in(post("or", 0 :> said, "none"))>>
                   [] k = "action" -> <<choice, crit("base"), crit("criterium")>>
                   [] k \in ListKinds -> <<row, row>>
                   [] OTHER -> <<>>
    IN  FoldLeft(LAMBDA h, p : Quiet(Post(k, h, p)), f, posts)

Init ==
    /\ kind \in Kinds
    /\ \E full \in {Filled(kind)} :
        /\ form \in {NewComponent(kind), full}
        /\ file = [data |-> SaveOf(kind, full), of |-> full]
    /\ op = [name |-> "start", about |-> {}]
    /\ loaded = FALSE
    /\ torn = FALSE
    /\ missed = FALSE
    /\ steps = 0

About(k, f, p) ==
    CASE k \in MaskKinds \cup ListKinds -> p.drops
      [] k = "action" -> p.chain.drops
      [] k = "date" -> {x \in DateFields : p[x] # f[x]}
      [] k = "size" -> {x \in DOMAIN p : p[x] # f[x]}

Edit ==
    \E p \in Posts(kind, form) :
        /\ Do("edit", About(kind, form, p))
        /\ form' = Post(kind, AtRest, p)
        /\ torn' = form'.stop
        /\ UNCHANGED <<file, loaded, missed>>

Save ==
    /\ Do("save", {})
    /\ file' = [data |-> SaveOf(kind, form), of |-> AtRest]
    /\ form' = AtRest
    /\ UNCHANGED <<loaded, torn, missed>>

Load ==
    /\ Do("load", {})
    /\ form' = LoadOf(kind, AtRest, file.data)
    /\ loaded' = TRUE
    /\ torn' = form'.stop
    /\ missed' = FALSE
    /\ UNCHANGED file

Clear ==
    /\ Do("clear", {})
    /\ form' = ClearOf(kind, AtRest)
    /\ torn' = form'.stop
    /\ missed' = FALSE
    /\ loaded' = (loaded \/ kind = "size")
    /\ UNCHANGED file

(* The page that holds the paths has another root; the form that holds the   *)
(* size another range.                                                       *)
SetRoot ==
    /\ kind \in PathKinds
    /\ \E root \in {"/", "/root"} \ {form.root} :
        /\ Do("root", {})
        /\ form' = SetFsRoot(AtRest, root)
    /\ torn' = form'.stop
    /\ missed' = torn'
    /\ UNCHANGED <<file, loaded>>

Range2 ==
    /\ kind = "size"
    /\ \E bounds \in {<<0, 0>>, <<4, 0>>, <<2, 7>>} :
        /\ Do("range", {})
        /\ form' = SetRange(AtRest, bounds[1], bounds[2])
    /\ torn' = form'.stop
    /\ UNCHANGED <<file, loaded, missed>>

(* An operation reads the component, or ends with WEBDAR_BUG.                *)
Reads ==
    /\ kind \in ListKinds \cup {"action"}
    /\ LET fails == IF kind = "action" THEN ~ActionSaves(form)
                    ELSE \E t \in Types(kind) : GatherFails(kind, form, t)
       IN  Do(IF fails THEN "bug" ELSE "read", {})
    /\ form' = AtRest
    /\ UNCHANGED <<file, loaded, torn, missed>>

Next == Edit \/ Save \/ Load \/ Clear \/ SetRoot \/ Range2 \/ Reads

Spec == Init /\ [][Next]_vars

-----------------------------------------------------------------------------

(* Nothing waits to be purged                                                *)
Purged(k, f) ==
    CASE k \in MaskKinds -> \A c \in Combinations(f) : c.table.doomed = {}
      [] k \in ListKinds -> f.table.doomed = {}
      [] OTHER -> TRUE

(* What a component displays beside its fields tells what the fields say:    *)
(* the titles of the masks, which hold the root of the page, the operator    *)
(* before each row; a new combination starts with the other operator than    *)
(* the one it is in, though not after a load; a size is the number times the *)
(* unit and is in its range, unless it is in red; an action that is a choice *)
(* has its two branches; and no row that left the page counts.               *)
ShownIsMeant ==
    ~torn =>
        /\ kind \in MaskKinds => RowsAreLabelled(form) /\ (TitlesFollow(form) \/ missed)
        /\ kind \in MaskKinds /\ ~loaded =>
            \A c \in Combinations(form) : c.table.context = c.mode
        /\ kind = "action" => ActionSaves(form) /\ LabelsOfAction(form)
        /\ kind = "size" =>
            /\ form.field = form.val \div UnitOf(form)
            /\ ~form.red => form.val = form.field * UnitOf(form)
            /\ ~form.red /\ ~loaded => ~OutOfRange(form)
        /\ Purged(kind, form)
        /\ op.name = "bug" => kind = "mounts"

RowsOf(k, f) ==
    LET t == CASE k \in MaskKinds -> f.mask.table [] k = "action" -> f.chain.table
               [] k \in ListKinds -> f.table
    IN  [i \in DOMAIN t.rows |-> t.rows[i].num]

(* A request changes what it says and nothing else: the rows that it does    *)
(* not delete stay in their order, though the page it comes from be out of   *)
(* date or posted twice; the fields of a date stay, but the minute whose     *)
(* name two entries have.                                                    *)
EditsOnlyThat ==
    [][ op'.name = "edit" =>
            /\ kind \in MaskKinds \cup ListKinds \cup {"action"} =>
                IsPrefix(SelectSeq(RowsOf(kind, form), LAMBDA n : n \notin op'.about),
                         SelectSeq(RowsOf(kind, form'), LAMBDA n : n \notin op'.about))
            /\ kind = "date" =>
                \A f \in DateFields \ op'.about :
                    form'[f] = form[f] \/ (f = "minute" /\ form[f] = TypoMinute + 2) ]_vars

(* A load gives back the meaning that was saved, whatever the component held *)
(* before.                                                                   *)
LoadRestoresMeaning ==
    [][ op'.name = "load" /\ ~torn' =>
            Means(kind, form') =
                Means(kind, IF kind \in MaskKinds THEN [file.of EXCEPT !.root = form.root] ELSE file.of)
      ]_vars

(* The names of the lists whose provider gives no event                      *)
Deaf == {"mounts", "links"}

(* A request that changes what a component means makes it act, so that the   *)
(* page knows that its options are no longer those that were saved. Two      *)
(* lists do not hear of the names entered in their rows, and a size refused  *)
(* is taken all the same.                                                    *)
ChangeOfMeaningIsTold ==
    [][ op'.name = "edit" /\ Means(kind, form') # Means(kind, form) =>
            \/ form'.told
            \/ kind \in Deaf /\ RowsOf(kind, form') = RowsOf(kind, form)
            \/ kind = "size" /\ form'.stop ]_vars

(* An edit changes what it says, a load brings back what was saved: nothing  *)
(* of what the user did not touch is lost on the way.                        *)
NothingElseChanges == EditsOnlyThat /\ LoadRestoresMeaning

=============================================================================
