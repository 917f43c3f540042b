----------------------------- MODULE ParamForms -----------------------------
(* The forms that the library keeps by name and that the guichets of the     *)
(* options use: html_slicing, html_ciphering, html_compression_params (with  *)
(* and without the choice to keep what is compressed) and                    *)
(* html_form_sig_block_size. Named as in OptionForms; what a form shows      *)
(* includes the bounds and the warnings it displays.                         *)
EXTENDS FormTable

(* html_slicing does not mute anything: it refreshes at each event.          *)
SlicingStart == [plain |-> FALSE, slicing |-> FALSE, diff_first |-> FALSE, size |-> FALSE,
                 first_size |-> FALSE]

SlicingShown(v) ==
    {"plain", "slicing"} \cup (IF v.slicing THEN {"size", "diff_first"} ELSE {})
        \cup (IF v.slicing /\ v.diff_first THEN {"first_size"} ELSE {})

SlicingWatches == DOMAIN SlicingStart

SlicingEvent(s, f) == Tell([s EXCEPT !.shown = SlicingShown(s.v)])

SlicingLabels == <<"slicing", "diff_first", "size", "first_size", "plain">>

SlicingSaved == {"slicing", "diff_first", "size", "first_size", "plain"}

SlicingClear == <<<<"slicing", FALSE>>, <<"size", FALSE>>, <<"diff_first", FALSE>>,
                  <<"first_size", FALSE>>, <<"plain", FALSE>>>>

SlicingDefaults == <<>>

SlicingReads(v) ==
    {"plain", "slicing"} \cup (IF v.slicing THEN {"size", "diff_first"} ELSE {})
        \cup (IF v.slicing /\ v.diff_first THEN {"first_size"} ELSE {})

-----------------------------------------------------------------------------
(* html_ciphering. The iterations are counted in steps: 2 is the default and *)
(* the minimum of libdar for argon2, 4 those for the other functions, 3 the  *)
(* default of webdar. "pass2" is the confirmation of the pass phrase.        *)

CipheringStart == [cipher |-> "none", type |-> "sym", pass1 |-> FALSE, pass2 |-> FALSE,
                   size |-> FALSE, threads |-> FALSE, gnupg |-> FALSE,
                   kdf |-> "argon2", iterations |-> 2]

Symmetric(v) == v.cipher # "none" /\ v.type = "sym"

Asymmetric(v) == v.cipher # "none" /\ v.type = "asym"

FewestIterations(kdf) == IF kdf = "argon2" THEN 2 ELSE 4

CipheringShown(v) ==
    {"cipher"} \cup (IF v.cipher # "none" THEN {"type", "size", "threads"} ELSE {})
        \cup (IF Symmetric(v) THEN {"pass1", "pass2", "kdf", "iterations"} ELSE {})
        \cup (IF Asymmetric(v) THEN {"gnupg"} ELSE {})

(* The minimum the field of the iterations displays; only the event of the   *)
(* function sets it, with a count that reaches it.                           *)
CipheringBound(kdf) == IF kdf = "argon2" THEN {} ELSE {"high minimum"}

(* With argon2, the default count of the others is replaced by its own.      *)
EnoughIterations(v) ==
    IF v.kdf = "argon2" /\ v.iterations = 4 THEN 2
    ELSE IF v.iterations < FewestIterations(v.kdf) THEN FewestIterations(v.kdf)
    ELSE v.iterations

CipheringWatches == DOMAIN CipheringStart \ {"threads"}

CipheringEvent(s, f) ==
    IF s.mute THEN s
    ELSE CASE f \in {"cipher", "type"} ->
                Tell([s EXCEPT !.shown = CipheringShown(s.v) \cup (@ \cap {"high minimum"})])
           [] f = "kdf" ->
                Tell([s EXCEPT !.v.iterations = EnoughIterations(s.v),
                               !.shown = (@ \ {"high minimum"}) \cup CipheringBound(s.v.kdf)])
           [] OTHER -> Tell(s)

(* The confirmation is not saved: it is loaded from the pass phrase.         *)
CipheringLoad(file) ==
    From(file, <<"type", "cipher", "pass1">>)
        \o <<<<"pass2", IF "pass1" \in DOMAIN file THEN file.pass1 ELSE Missing>>>>
        \o From(file, <<"size", "threads", "gnupg", "kdf", "iterations">>)

CipheringSaved == {"type", "cipher", "pass1", "size", "threads", "gnupg", "kdf", "iterations"}

CipheringClear ==
    <<<<"type", "sym">>, <<"cipher", "none">>, <<"pass1", FALSE>>, <<"pass2", FALSE>>,
      <<"size", FALSE>>, <<"threads", FALSE>>, <<"gnupg", FALSE>>, <<"kdf", "argon2">>,
      <<"iterations", 2>>>>

CipheringDefaults == <<<<"cipher", "aes">>, <<"type", "sym">>, <<"iterations", 3>>>>

(* What get_options of the operations asks of it; two pass phrases that      *)
(* differ are an error.                                                      *)
CipheringReads(v) ==
    {"cipher"} \cup (IF v.cipher # "none" THEN {"type", "size", "threads"} ELSE {})
        \cup (IF Symmetric(v) THEN {"pass1", "pass2", "kdf", "iterations"} ELSE {})
        \cup (IF Asymmetric(v) THEN {"gnupg"} ELSE {})

-----------------------------------------------------------------------------
(* html_compression_params. "block" is TRUE when compression is by blocks,   *)
(* "threads" TRUE for more than one; the class "recompr" shows keep.         *)

ComprStart == [algo |-> "zip", level |-> FALSE, block |-> TRUE, resave |-> FALSE,
               threads |-> TRUE, keep |-> FALSE]

ComprShown(c, v) ==
    (IF c = "recompr" THEN {"keep"} ELSE {})
        \cup (IF v.keep THEN {} ELSE {"algo"})
        \cup (IF ~v.keep /\ v.algo # "none" THEN {"block", "resave", "threads"} ELSE {})
        \cup (IF ~v.keep /\ v.algo = "zip" THEN {"level"} ELSE {})

ComprLocked(v) == IF v.block THEN {} ELSE {"threads"}

ComprWatches == {"algo", "block", "keep"}

(* The threads are revised when the other fields are shown only.             *)
ComprEvent(c, s, f) ==
    IF s.mute THEN s
    ELSE IF s.v.keep THEN Refresh(s, ComprShown(c, s.v))
    ELSE Refresh([s EXCEPT !.locked = ComprLocked(s.v),
                           !.v.threads = s.v.block /\ @],
                 ComprShown(c, s.v))

ComprLabels == <<"algo", "level", "block", "resave", "threads", "keep">>

ComprSaved == {"algo", "level", "block", "resave", "threads", "keep"}

ComprClear == <<<<"algo", "zip">>, <<"level", FALSE>>, <<"block", TRUE>>,
                <<"resave", FALSE>>, <<"threads", TRUE>>, <<"keep", FALSE>>>>

ComprDefaults == <<<<"keep", FALSE>>, <<"algo", "zip">>, <<"level", TRUE>>, <<"resave", FALSE>>>>

ComprReads(c, v) ==
    (IF c = "recompr" THEN {"keep"} ELSE {})
        \cup (IF v.keep THEN {} ELSE {"algo", "level", "block", "resave", "threads"})

-----------------------------------------------------------------------------
(* html_form_sig_block_size. "reversed" is a minimum above the maximum: the  *)
(* values stay, with a red border, and the event ends with an exception.     *)

SigStart == [plain |-> FALSE, function |-> "root3", factors |-> FALSE, reversed |-> FALSE]

SigShown(v) ==
    {"plain", "function", "factors", "reversed"}
        \cup (IF v.reversed THEN {"red border"} ELSE {})
        \cup (IF v.function # "fixed" THEN {"summary"} ELSE {})

SigWatches == DOMAIN SigStart

SigEvent(s, f) ==
    IF s.mute THEN s
    ELSE IF s.v.reversed THEN [s EXCEPT !.shown = @ \cup {"red border"}]
    ELSE Refresh(s, SigShown(s.v))

SigLabels == <<"plain", "function", "factors", "reversed">>

SigSaved == {"plain", "function", "factors", "reversed"}

(* The factors are left as they were.                                        *)
SigClear == <<<<"plain", FALSE>>, <<"function", "root3">>, <<"reversed", FALSE>>>>

SigReads(v) == {"plain", "function", "factors", "reversed"}
=============================================================================
