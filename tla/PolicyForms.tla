----------------------------- MODULE PolicyForms ----------------------------
(* The policies of overwriting, html_form_overwrite_action: a constant, a    *)
(* choice between two actions by a combination of criteria, or a chain of    *)
(* actions. The actions inside an action are constants here; the code is the *)
(* same at each level. Below, the lists whose rows are names: the mount      *)
(* points of html_form_same_fs, the links of html_form_ignore_as_symlink and *)
(* the persons of html_form_gnupg_list.                                      *)
EXTENDS DynamicTable

Beside(cause) == [heard |-> TRUE, cause |-> cause]

(* html_form_overwrite_conditional_action                                    *)
NewConditional ==
    Still @@ [crit |-> NewCombination("criterium", "and"), yes |-> NewConstant, no |-> NewConstant]

WithParts(k, crit, yes, no) ==
    [k EXCEPT !.crit = Quiet(crit), !.yes = Quiet(yes), !.no = Quiet(no),
              !.told = @ \/ crit.told \/ yes.told \/ no.told]

PostConditional(k, post) ==
    WithParts(k, PostCombination(k.crit, post.crit, Beside("post")),
              EditConstant(k.yes, post.yes), EditConstant(k.no, post.no))

LoadConditional(k, file) ==
    WithParts(k, LoadCombination(k.crit, file.crit, Beside("load")),
              EditConstant(k.yes, file.yes), EditConstant(k.no, file.no))

ClearConditional(k) ==
    WithParts(k, ClearCombination(k.crit), EditConstant(k.yes, NewConstant),
              EditConstant(k.no, NewConstant))

(* The condition is displayed again.                                         *)
Uncheck(k) == WithParts(k, TellRows(k.crit, Beside("show")), k.yes, k.no)

-----------------------------------------------------------------------------
(* html_form_overwrite_action. cond holds its conditional action once there  *)
(* is one; need is need_conditional_action.                                  *)

NewAction ==
    Still @@ [type |-> "const", constant |-> NewConstant, cond |-> <<>>, chain |-> NewList,
              need |-> FALSE]

WithConditional(a, k) == [a EXCEPT !.cond = <<Quiet(k)>>, !.told = @ \/ k.told]

WithChain(a, chain) == [a EXCEPT !.chain = Quiet(chain), !.told = @ \/ chain.told]

WithConstant(a, c) == [a EXCEPT !.constant = Quiet(c), !.told = @ \/ c.told]

SetType(a, type) ==
    IF a.type = type THEN a
    ELSE [a EXCEPT !.type = type, !.need = @ \/ (type = "cond" /\ a.cond = <<>>), !.told = TRUE]

MakeConditional(a) ==
    IF a.cond # <<>> THEN a ELSE [a EXCEPT !.cond = <<NewConditional>>, !.need = FALSE]

(* What is displayed is evaluated: with its fields, if it was displayed when *)
(* the request was sent.                                                     *)
PostParts(a, post, same) ==
    CASE a.type = "const" /\ same -> WithConstant(a, EditConstant(a.constant, post.constant))
      [] a.type = "chain" /\ same ->
            WithChain(a, PostTable(a.chain, post.chain, Beside("post")))
      [] a.type = "cond" /\ a.cond # <<>> ->
            WithConditional(a, IF same THEN PostConditional(a.cond[1], post.cond)
                               ELSE Uncheck(a.cond[1]))
      [] OTHER -> a

MakeIfNeeded(a) == IF a.need THEN MakeConditional(a) ELSE a

PostAction(a, post) ==
    MakeIfNeeded(PostParts(SetType(a, post.type), post, a.type = post.type))

ClearConditionalOf(a) ==
    IF a.cond = <<>> THEN a ELSE WithConditional(a, ClearConditional(a.cond[1]))

ClearAction(a) ==
    [ClearConditionalOf(WithConstant(SetType(a, "const"), EditConstant(a.constant, NewConstant)))
        EXCEPT !.chain.table = ClearTable(@)]

LoadParts(a, file) ==
    CASE file.type = "const" -> WithConstant(a, EditConstant(a.constant, file.value))
      [] file.type = "cond" ->
            WithConditional(MakeConditional(a), LoadConditional(MakeConditional(a).cond[1], file.value))
      [] file.type = "chain" ->
            [a EXCEPT !.chain.table = LoadTable(@, file.value, Beside("load"))]

LoadAction(a, file) == LoadParts(SetType(ClearAction(a), file.type), file)

(* save_json and get_overwriting_action take what the type says; WEBDAR_BUG  *)
(* if there is no conditional action.                                        *)
ActionSaves(a) == a.type = "cond" => a.cond # <<>>

SaveAction(a) ==
    [type |-> a.type,
     value |->
        CASE a.type = "const" -> WriteLeaf(a.constant)
          [] a.type = "cond" ->
                LET k == a.cond[1]
                IN  [crit |-> SaveCombination(k.crit), yes |-> WriteLeaf(k.yes), no |-> WriteLeaf(k.no)]
          [] a.type = "chain" -> SaveTable(a.chain.table)]

(* get_overwriting_action                                                    *)
ActionMeans(a) ==
    CASE a.type = "const" -> <<"const", a.constant.value>>
      [] a.type = "cond" ->
            LET k == a.cond[1] IN <<"cond", CombinationMeans(k.crit, "/"), k.yes.value, k.no.value>>
      [] a.type = "chain" ->
            <<"chain", [i \in DOMAIN a.chain.table.rows |-> a.chain.table.rows[i].object.value]>>

LabelsOfAction(a) ==
    \A i \in DOMAIN a.cond : \A c \in {a.cond[i].crit} \cup Inner(a.cond[i].crit) :
        LabelsFollow(c) /\ c.table.context = c.mode

-----------------------------------------------------------------------------
(* The lists of names. The form hears of a name that changes if its provider *)
(* says by which event: html_form_gnupg_list does.                           *)

PostList(heard, l, post) == PostTable(l, post, [heard |-> heard, cause |-> "post"])

LoadList(l, file) == [l EXCEPT !.table = LoadTable(@, file, Beside("load"))]

SaveList(l) == SaveTable(l.table)

ClearList(l) == [l EXCEPT !.table = ClearTable(@)]

(* gather_content_of_type, get_symlink_list                                  *)
Gather(l, type) ==
    LET rows == SelectSeq(l.table.rows, LAMBDA r : r.type = type)
    IN  [i \in DOMAIN rows |-> rows[i].object.name]

(* html_form_same_fs casts each row of the type to html_form_input, which it *)
(* is not, and ends with WEBDAR_BUG at the first one.                        *)
GatherFails(kind, l, type) == kind = "mounts" /\ Gather(l, type) # <<>>
=============================================================================
