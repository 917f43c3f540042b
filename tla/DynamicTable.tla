---------------------------- MODULE DynamicTable ----------------------------
(* html_form_dynamic_table, the rows that a user adds and deletes, and the   *)
(* combination of rows by an operator, html_form_mask_bool for masks and     *)
(* html_form_overwrite_combining_criterium for criteria. A row of a          *)
(* combination may be a combination itself. At the end, the forms of masks.  *)
EXTENDS RowForms

(* event_del_count names the event of the box "delete" of a row. It starts   *)
(* with no value of its own in the code, and is only compared.               *)
NewTable(context) == [rows |-> <<>>, doomed |-> {}, next |-> 0, context |-> context]

AddLine(t, type, object) ==
    [t EXCEPT !.rows = Append(@, [num |-> t.next, type |-> type, label |-> "", object |-> object]),
              !.next = @ + 1]

Numbers(t) == {t.rows[i].num : i \in DOMAIN t.rows}

(* Mutant: the boxes tell a position, the one of their row when all came.    *)
DelPosition(t, num) ==
    IF num < Len(t.rows) THEN [t EXCEPT !.doomed = @ \cup {t.rows[num + 1].num}] ELSE t

(* The row leaves the page, and the table at the end of the evaluation.      *)
DelLine(t, num) == IF num \in Numbers(t) THEN [t EXCEPT !.doomed = @ \cup {num}] ELSE t

PurgeToDelete(t) ==
    [t EXCEPT !.rows = SelectSeq(@, LAMBDA r : r.num \notin t.doomed), !.doomed = {}]

(* Mutant: the rows of a file come after those of the table.                 *)
KeepTable(t) == t

ClearTable(t) == [t EXCEPT !.rows = <<>>, !.doomed = {}]

-----------------------------------------------------------------------------
(* A holder has a table and hears of its changes. A list tells them; in a    *)
(* combination, mode is what the list "Combining with" says, logic what the  *)
(* rows were last labelled with, title the label of the frame of a mask.     *)

NewList == Still @@ [kind |-> "list", table |-> NewTable("")]

Invert(op) == IF op = "and" THEN "or" ELSE "and"

(* html_form_mask_bool::tell_action                                          *)
Title(t) == IF t.rows = <<>> THEN "match everything" ELSE "involved if"

NewCombination(kind, op) ==
    [kind |-> kind, mode |-> op, logic |-> op, table |-> NewTable(op), title |-> Title(NewTable(op)),
     told |-> FALSE, stop |-> FALSE]

IsCombination(o) == o.kind \in {"mask", "criterium"}

(* provide_object_of_type of the forms of masks and of the criteria          *)
Provide(type, context) ==
    IF type \in {"mask", "criterium"} THEN NewCombination(type, Invert(context)) ELSE ProvideLeaf(type)

(* update_table_content_logic: the first row has no operator.                *)
UpdateLogic(c) ==
    [c EXCEPT !.logic = c.mode,
              !.table.context = c.mode,
              !.table.rows = [i \in DOMAIN @ |-> [@[i] EXCEPT !.label = IF i = 1 THEN "" ELSE c.mode]]]

(* Mutant: what is not first in a table is not labelled again.               *)
OnTableChangedAlone(h) ==
    IF h.kind = "list" THEN [h EXCEPT !.told = TRUE]
    ELSE [h EXCEPT !.title = Title(h.table), !.told = TRUE]

OnTableChanged(h) ==
    IF h.kind = "list" THEN [h EXCEPT !.told = TRUE]
    ELSE [UpdateLogic(h) EXCEPT !.title = Title(h.table), !.told = TRUE]

(* The frame of a mask is titled, and its change told, even if the operator  *)
(* is the one of logic.                                                      *)
TellMode(c, d) ==
    IF c.kind = "mask" \/ c.mode # c.logic THEN [d EXCEPT !.title = Title(d.table), !.told = TRUE]
    ELSE d

OnModeChanged(c) == TellMode(c, IF c.mode = c.logic THEN c ELSE UpdateLogic(c))

SetMode(c, op) == IF c.mode = op THEN c ELSE OnModeChanged([c EXCEPT !.mode = op])

-----------------------------------------------------------------------------
(* What a request says of a table: the rows it deletes, the type of the row  *)
(* it adds, or "none", and what it says of the components of the rows. x     *)
(* tells also why the components are reached: cause is "post", "update" or   *)
(* "show", for one that is displayed again.                                  *)
NoPost == [drops |-> {}, add |-> "none", edits |-> <<>>]

RECURSIVE EditObject(_, _, _)

(* A row is evaluated, its component then its box; the box of a row that the *)
(* page no longer has is not looked at.                                      *)
HearRow(h, i, object) ==
    LET with == [h EXCEPT !.table.rows[i].object = Quiet(object), !.stop = object.stop]
    IN  IF object.told THEN OnTableChanged(with) ELSE with

PostBox(h, i, post) ==
    LET num == h.table.rows[i].num
    IN  IF num \in post.drops /\ ~h.stop THEN [h EXCEPT !.table = DelLine(@, num)] ELSE h

PostRow(h, i, post, x) ==
    LET row == h.table.rows[i]
    IN  PostBox(IF row.num \notin DOMAIN post.edits THEN h
                ELSE HearRow(h, i, EditObject(row.object, post.edits[row.num], x)),
                i, post)

(* The rows one after the other, until a component refuses what it is given  *)
PostRows(h, post, x) ==
    FoldLeft(LAMBDA s, i : IF s.stop THEN s ELSE PostRow(s, i, post, x),
             h, [i \in DOMAIN h.table.rows |-> i])

PostAdder(h, post) ==
    IF post.add = "none" THEN h
    ELSE OnTableChanged([h EXCEPT !.table = AddLine(@, post.add, Provide(post.add, @.context))])

(* Mutant: the rows leave the table and nobody is told.                      *)
PostPurgeMute(h) == [h EXCEPT !.table = PurgeToDelete(@)]

PostPurge(h) ==
    IF h.table.doomed = {} THEN h ELSE OnTableChanged([h EXCEPT !.table = PurgeToDelete(@)])

PostBelow(h, post) == IF h.stop THEN h ELSE PostPurge(PostAdder(h, post))

(* inherited_get_body_part: the rows, then the list that adds one, which is  *)
(* below the rows in every form, then the rows deleted are purged.           *)
PostTable(h, post, x) == PostBelow(PostRows(h, post, x), post)

PostCombination(c, post, x) == PostTable(SetMode(c, post.mode), post, x)

(* An event goes down to the components of all the rows.                     *)
ToAll(h) == [NoPost EXCEPT !.edits = [n \in Numbers(h.table) |-> "event"]]

TellRows(h, x) == PostRows(h, ToAll(h), x)

EditObject(o, e, x) ==
    CASE x.cause = "post" -> IF IsCombination(o) THEN PostCombination(o, e, x) ELSE EditLeaf(o, e, x)
      [] IsCombination(o) -> TellRows(o, x)
      [] x.cause = "update" -> UpdateLeaf(o, x)
      [] x.cause = "show" -> UncheckLeaf(o)

-----------------------------------------------------------------------------
(* The files, and what is meant                                              *)

RECURSIVE ReadObject(_, _, _), WriteObject(_), ObjectMeans(_, _)

LoadRow(t, line, object) ==
    [AddLine(t, line.type, Quiet(object)) EXCEPT !.rows[Len(t.rows) + 1].label = line.label]

LoadTable(t, listing, x) ==
    FoldLeft(LAMBDA s, line : LoadRow(s, line, ReadObject(Provide(line.type, s.context), line.object, x)),
             ClearTable(t), listing)

SaveTable(t) ==
    [i \in DOMAIN t.rows |->
        [type |-> t.rows[i].type, label |-> t.rows[i].label, object |-> WriteObject(t.rows[i].object)]]

(* html_form_mask_bool::load_json sets current_bool_mode before the list:    *)
(* the event of the list then finds nothing to update, and the table goes on *)
(* with the operator it had to provide combinations. The criteria leave it   *)
(* to the event.                                                             *)
LoadMode(c, mode) ==
    IF c.kind = "mask" THEN [c EXCEPT !.mode = mode, !.logic = mode] ELSE SetMode(c, mode)

TellMask(c) == IF c.kind = "mask" THEN [c EXCEPT !.title = Title(c.table), !.told = TRUE] ELSE c

LoadCombination(c, file, x) ==
    TellMask([LoadMode(c, file.mode) EXCEPT !.table = LoadTable(@, file.rows, x)])

ReadObject(o, file, x) == IF IsCombination(o) THEN LoadCombination(o, file, x) ELSE ReadLeaf(o, file, x)

SaveCombination(c) ==
    [kind |-> c.kind, mode |-> IF c.kind = "mask" THEN c.logic ELSE c.mode, rows |-> SaveTable(c.table)]

WriteObject(o) == IF IsCombination(o) THEN SaveCombination(o) ELSE WriteLeaf(o)

(* The mode of a mask stays, nobody is told                                  *)
ClearCombination(c) ==
    IF c.kind = "mask" THEN [c EXCEPT !.table = ClearTable(@), !.title = "match everything"]
    ELSE [SetMode(c, "and") EXCEPT !.table = ClearTable(@)]

(* get_mask, get_overwriting_criterium: rows that are to be purged count.    *)
CombinationMeans(c, root) ==
    [op |-> IF c.kind = "mask" THEN c.mode ELSE c.logic,
     of |-> [i \in DOMAIN c.table.rows |-> ObjectMeans(c.table.rows[i].object, root)]]

ObjectMeans(o, root) == IF IsCombination(o) THEN CombinationMeans(o, root) ELSE LeafMeans(o, root)

Objects(c) == {c.table.rows[i].object : i \in DOMAIN c.table.rows}

Inner(c) == {o \in Objects(c) : IsCombination(o)}

(* The rows are labelled by the operator of the list, the first by none.     *)
LabelsFollow(c) ==
    /\ c.logic = c.mode
    /\ \A i \in DOMAIN c.table.rows : c.table.rows[i].label = IF i = 1 THEN "" ELSE c.mode

-----------------------------------------------------------------------------
(* The masks a user builds, html_mask_form_filename and html_mask_form_path: *)
(* a combination, the prefix of the relative paths, and whether absolute     *)
(* paths are allowed.                                                        *)

NewMaskForm(anywhere) ==
    Still @@ [root |-> "/", anywhere |-> anywhere, mask |-> NewCombination("mask", "and")]

(* What the rows share of the form                                           *)
Around(f, cause) == [root |-> f.root, anywhere |-> f.anywhere, heard |-> TRUE, cause |-> cause]

(* The form hears of its combination and tells it.                           *)
WithMask(f, mask) ==
    [f EXCEPT !.mask = Quiet(mask), !.told = @ \/ mask.told, !.stop = mask.stop]

PostMaskForm(f, post) == WithMask(f, PostCombination(f.mask, post, Around(f, "post")))

(* The event "update" reaches the paths of all the rows, in the order of     *)
(* their creation, here of the page; a path refused is titled and hides the  *)
(* event from those behind it.                                               *)
UpdateMasks(f) == WithMask(f, TellRows(f.mask, Around(f, "update")))

SetFsRoot(f, root) == UpdateMasks([f EXCEPT !.root = root])

(* changed is told at last, if "update" was not refused.                     *)
TellIfDone(f) == IF f.stop THEN f ELSE [f EXCEPT !.told = TRUE]

Updated(f) == TellIfDone(UpdateMasks(f))

LoadMaskForm(f, file) == Updated(WithMask(f, LoadCombination(f.mask, file, Around(f, "load"))))

SaveMaskForm(f) == SaveCombination(f.mask)

ClearMaskForm(f) == Updated(WithMask(f, ClearCombination(f.mask)))

MaskFormMeans(f) == CombinationMeans(f.mask, f.root)

(* The combinations of the form, and the masks combined                      *)
Combinations(f) == {f.mask} \cup Inner(f.mask)

AllLeaves(f) == UNION {Objects(c) : c \in Combinations(f)} \ Inner(f.mask)

RowsAreLabelled(f) ==
    \A c \in Combinations(f) : LabelsFollow(c) /\ c.title = Title(c.table)

TitlesFollow(f) ==
    \A o \in AllLeaves(f) : "title" \in DOMAIN o => o.title = LeafTitle(o, f.root)
=============================================================================
