----------------------------- MODULE FormTable -----------------------------
(* What the forms of options have in common. A form has named fields; fields *)
(* that the code treats alike are one field here. A field is a check box, a  *)
(* choice, or a guichet, whose component is empty, filled by the user, or    *)
(* taken from the library. Whatever changes a field (the user, load_json,    *)
(* clear_json, the default values) calls its setter, which tells the form,   *)
(* and the form may react: an operation is a sequence of assignments.        *)
EXTENDS Naturals, SequencesExt

CONSTANT Missing   \* what config.at() finds when the file has not the label

(* The state of a form: the values, the fields it shows and those it locks,  *)
(* ignore_events, update_from_load_json, and whether its owner was told.     *)
NewForm(values) ==
    [v |-> values, shown |-> {}, locked |-> {}, mute |-> FALSE,
     skip |-> FALSE, told |-> FALSE]

(* act(changed), unless the form ignores its events                          *)
Tell(s) == IF s.mute THEN s ELSE [s EXCEPT !.told = TRUE]

(* on_event of a form that shows, after some events, what its values ask for *)
Refresh(s, shown) == Tell([s EXCEPT !.shown = shown])

(* The labels of a file, in the order they are read                          *)
From(file, labels) ==
    [i \in 1..Len(labels) |->
        <<labels[i], IF labels[i] \in DOMAIN file THEN file[labels[i]] ELSE Missing>>]

Toggle == {FALSE, TRUE}

Store == {"none", "own", "lib"}

(* The fields that are guichets on the library, in all the forms             *)
GuichetFields ==
    {"masks", "ea_mask", "policy", "entrep", "params", "reference", "auxiliary",
     "sig_block", "delta_mask", "compr", "recompr", "compr_mask", "ref_entrep"}

(* What the user may enter in a field                                        *)
Entries(f) ==
    CASE f = "recompr" -> Store \cup {"keep"}
      [] f \in GuichetFields \ {"recompr"} -> Store
      [] f = "archtype" -> {"full", "diff", "snapshot", "date"}
      [] f = "delta" -> {"drop", "transfer", "compute"}
      [] f = "algo" -> {"none", "lzo1x", "zip"}
      [] f = "cipher" -> {"none", "aes"}
      [] f = "type" -> {"sym", "asym"}
      [] f = "kdf" -> {"argon2", "sha1"}
      [] f = "iterations" -> 1..4
      [] f = "function" -> {"fixed", "root3"}
      [] OTHER -> Toggle
=============================================================================
