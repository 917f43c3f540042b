------------------------------ MODULE RowForms ------------------------------
(* The components of the rows of a table: the simple masks, the criteria and *)
(* actions of an overwriting policy, the entries of a list of names. The     *)
(* fields of a component that the code treats alike are one. told is set     *)
(* when the component acted on "changed", stop when its evaluation ended     *)
(* with an exception. x says of the form around: root, the prefix of the     *)
(* relative paths; anywhere, whether absolute paths are allowed; heard,      *)
(* whether its provider says by which event a row changes.                   *)
EXTENDS Naturals, SequencesExt

Still == [told |-> FALSE, stop |-> FALSE]

Quiet(object) == [object EXCEPT !.told = FALSE, !.stop = FALSE]

(* html_form_mask_expression: title is the label of the frame, tell_action.  *)
ExpressionTitle(o) == <<o.negate, o.text>>

NewExpression ==
    Still @@ [kind |-> "expression", negate |-> FALSE, text |-> "", title |-> <<FALSE, "">>]

OnExpressionEvent(o) == [o EXCEPT !.title = ExpressionTitle(o), !.told = TRUE]

EditExpression(o, e) ==
    LET with == [o EXCEPT !.negate = e.negate, !.text = e.text]
    IN  IF with = o THEN o ELSE OnExpressionEvent(with)

ReadExpression(o, file) == OnExpressionEvent([o EXCEPT !.negate = file.negate, !.text = file.text])

-----------------------------------------------------------------------------
(* html_form_mask_file; excluding what is listed reverses the mask twice.    *)
FileTitle(o) == <<o.exclude, o.name>>

NewFile == Still @@ [kind |-> "file", exclude |-> FALSE, name |-> "/", title |-> <<FALSE, "/">>]

OnFileEvent(o) == [o EXCEPT !.title = FileTitle(o), !.told = TRUE]

EditFile(o, e) ==
    LET with == [o EXCEPT !.exclude = e.exclude, !.name = e.name]
    IN  IF with = o THEN o ELSE OnFileEvent(with)

ReadFile(o, file) == OnFileEvent([o EXCEPT !.exclude = file.exclude, !.name = file.name])

-----------------------------------------------------------------------------
(* html_form_mask_subdir. A path is empty, relative or absolute; root is the *)
(* prefix a relative one is put under.                                       *)
IsAbsolute(path) == path \in {"/a", "/b"}

SubdirTitle(o, root) ==
    <<o.exclude, o.exclude /\ o.regex, IF o.path = "" \/ IsAbsolute(o.path) THEN "/" ELSE root, o.path>>

(* check_absolute_path_requirement throws: the path is absolute where it may *)
(* not be, or is empty, which libdar refuses.                                *)
Refused(o, anywhere) == o.path = "" \/ (IsAbsolute(o.path) /\ ~anywhere)

NewSubdir ==
    Still @@ [kind |-> "subdir", exclude |-> FALSE, regex |-> FALSE, path |-> "", red |-> FALSE,
             title |-> <<FALSE, FALSE, "/", "">>]

OnSubdirEvent(o, root) == [o EXCEPT !.title = SubdirTitle(o, root), !.told = TRUE]

(* The end of the evaluation: the path is refused the first time.            *)
CheckAbsolute(o, anywhere) ==
    LET refused == IsAbsolute(o.path) /\ ~anywhere
    IN  [o EXCEPT !.red = refused, !.stop = refused /\ ~o.red]

(* The box of the regular expression is displayed when paths are excluded.   *)
(* Absent from a request that makes it visible, it is unchecked.             *)
EditSubdir(o, e, root, anywhere) ==
    LET regex == CASE ~e.exclude -> o.regex [] o.exclude -> e.regex [] OTHER -> FALSE
        with == [o EXCEPT !.exclude = e.exclude, !.regex = regex, !.path = e.path]
    IN  CheckAbsolute(IF with = o THEN o ELSE OnSubdirEvent(with, root), anywhere)

(* The setters fire an event for each value that changes.                    *)
ReadSubdir(o, file, root) ==
    LET with == [o EXCEPT !.exclude = file.exclude, !.regex = file.regex, !.path = file.path]
    IN  IF with = o THEN o ELSE OnSubdirEvent(with, root)

-----------------------------------------------------------------------------
(* html_over_guichet: a configuration of the library, or none yet            *)
NewRecorded == Still @@ [kind |-> "recorded", select |-> "none"]

EditRecorded(o, e) == IF o.select = e.select THEN o ELSE [o EXCEPT !.select = e.select, !.told = TRUE]

ReadRecorded(o, file) == [o EXCEPT !.select = file.select, !.told = TRUE]

-----------------------------------------------------------------------------
(* html_form_overwrite_base_criterium, where negate stands for both boxes.   *)
(* The date and the shift of hours are never displayed: on_event compares    *)
(* what is chosen to the names of the constants.                             *)
NewBase == Still @@ [kind |-> "base", negate |-> FALSE, base |-> "inode"]

SetBase(o, negate, base) ==
    IF o.negate = negate /\ o.base = base THEN o
    ELSE [o EXCEPT !.negate = negate, !.base = base, !.told = TRUE]

EditBase(o, e) == SetBase(o, e.negate, e.base)

-----------------------------------------------------------------------------
(* html_form_overwrite_constant_action, and html_form_overwrite_chain_cell   *)
(* around one                                                                *)
NewConstant == Still @@ [kind |-> "constant", value |-> "preserve"]

EditConstant(o, e) == IF o.value = e.value THEN o ELSE [o EXCEPT !.value = e.value, !.told = TRUE]

-----------------------------------------------------------------------------
(* The rows of html_form_same_fs, html_form_ignore_as_symlink and            *)
(* html_form_gnupg_list                                                      *)
NewEntry == Still @@ [kind |-> "entry", name |-> ""]

EditEntry(heard, o, e) ==
    IF o.name = e.name THEN o ELSE [o EXCEPT !.name = e.name, !.told = heard]

-----------------------------------------------------------------------------
(* The component that a provider makes for a type of row                     *)

PathTypes == {"subdir", "file", "mask", "recorded"}

NameTypes == {"expression", "mask", "recorded"}

ProvideLeaf(type) ==
    CASE type = "expression" -> NewExpression
      [] type = "subdir" -> NewSubdir
      [] type = "file" -> NewFile
      [] type = "recorded" -> NewRecorded
      [] type = "base" -> NewBase
      [] type = "cell" -> NewConstant
      [] OTHER -> NewEntry

EditLeaf(o, e, x) ==
    CASE o.kind = "expression" -> EditExpression(o, e)
      [] o.kind = "subdir" -> EditSubdir(o, e, x.root, x.anywhere)
      [] o.kind = "file" -> EditFile(o, e)
      [] o.kind = "recorded" -> EditRecorded(o, e)
      [] o.kind = "base" -> EditBase(o, e)
      [] o.kind = "constant" -> EditConstant(o, e)
      [] o.kind = "entry" -> EditEntry(x.heard, o, e)

(* load_json of a component                                                  *)
ReadLeaf(o, file, x) ==
    CASE o.kind = "expression" -> ReadExpression(o, file)
      [] o.kind = "subdir" -> ReadSubdir(o, file, x.root)
      [] o.kind = "file" -> ReadFile(o, file)
      [] o.kind = "recorded" -> ReadRecorded(o, file)
      [] OTHER -> EditLeaf(o, file, x)

(* save_json of a component, and what a page says of one left alone          *)
WriteLeaf(o) == [f \in DOMAIN o \ {"kind", "told", "stop", "title", "red"} |-> o[f]]

(* The event "update" of a form of paths: the prefix changed.                *)
UpdateLeaf(o, x) ==
    CASE o.kind # "subdir" -> o
      [] Refused(o, x.anywhere) -> [o EXCEPT !.title = SubdirTitle(o, x.root), !.stop = TRUE]
      [] OTHER -> OnSubdirEvent(o, x.root)

(* A component displayed again finds none of its fields in the request: its  *)
(* boxes are unchecked.                                                      *)
UncheckLeaf(o) == IF o.kind = "base" THEN SetBase(o, FALSE, o.base) ELSE o

(* get_mask of a component, whose title says the same                        *)
LeafTitle(o, root) ==
    CASE o.kind = "expression" -> ExpressionTitle(o)
      [] o.kind = "subdir" -> SubdirTitle(o, root)
      [] o.kind = "file" -> FileTitle(o)

LeafMeans(o, root) ==
    IF o.kind \in {"expression", "subdir", "file"} THEN [f \in {o.kind} |-> LeafTitle(o, root)]
    ELSE WriteLeaf(o)
=============================================================================
