------------------------------ MODULE Options ------------------------------
(* One form of options and what happens to it: the user changes a field, the *)
(* boutique or the guichet that holds it saves it, loads what was saved,     *)
(* clears it, gives it the default values. The class of the form is chosen   *)
(* at the start. An operation is run to its end by the server thread of the  *)
(* session, so a step is a whole operation.                                  *)
EXTENDS ArchiveForms, ParamForms

CONSTANTS
    Classes,   \* the classes of the forms
    MaxSteps   \* bound: the operations on a form

ASSUME ClassesAssumption ==
    Classes \subseteq {"test", "compare", "extract", "repair", "isolate", "create", "merge",
                       "read", "slicing", "ciphering", "compr", "recompr", "sig_block"}

VARIABLES
    class,     \* the class of the form
    form,      \* its state, as NewForm
    stored,    \* what the last save_json wrote
    used,      \* the guichets of get_using_set just after it
    op,        \* the last operation, and the field it is about
    torn,      \* a load failed and the form was not refreshed since
    steps

options == <<class, form, stored, used, op, torn, steps>>

(* Nothing was saved: no label has a value.                                  *)
NoFile == <<>>

-----------------------------------------------------------------------------

Start(c) ==
    CASE c = "test" -> TestStart [] c = "compare" -> CompareStart
      [] c = "extract" -> ExtractStart [] c = "repair" -> RepairStart
      [] c = "isolate" -> IsolateStart [] c = "create" -> CreateStart
      [] c = "merge" -> MergeStart [] c = "read" -> ReadStart
      [] c = "slicing" -> SlicingStart [] c = "ciphering" -> CipheringStart
      [] c \in {"compr", "recompr"} -> ComprStart [] c = "sig_block" -> SigStart

Shown(c, v) ==
    CASE c = "test" -> TestShown(v) [] c = "compare" -> CompareShown(v)
      [] c = "extract" -> ExtractShown(v) [] c = "repair" -> RepairShown(v)
      [] c = "isolate" -> IsolateShown(v) [] c = "create" -> CreateShown(v)
      [] c = "merge" -> MergeShown(v) [] c = "read" -> ReadShown(v)
      [] c = "slicing" -> SlicingShown(v)
      [] c = "ciphering" -> CipheringShown(v) \cup CipheringBound(v.kdf)
      [] c \in {"compr", "recompr"} -> ComprShown(c, v) [] c = "sig_block" -> SigShown(v)

Locked(c, v) ==
    CASE c = "create" -> CreateLocked(v) [] c = "read" -> ReadLocked(v)
      [] c \in {"compr", "recompr"} -> ComprLocked(v) [] OTHER -> {}

WatchedBy(c) ==
    CASE c = "test" -> TestWatches [] c = "compare" -> CompareWatches
      [] c = "extract" -> ExtractWatches [] c = "repair" -> RepairWatches
      [] c = "isolate" -> IsolateWatches [] c = "create" -> CreateWatches
      [] c = "merge" -> MergeWatches [] c = "read" -> ReadWatches
      [] c = "slicing" -> SlicingWatches [] c = "ciphering" -> CipheringWatches
      [] c \in {"compr", "recompr"} -> ComprWatches [] c = "sig_block" -> SigWatches

Guichets(c) ==
    CASE c = "test" -> TestGuichets [] c = "compare" -> CompareGuichets
      [] c = "extract" -> ExtractGuichets [] c = "repair" -> RepairGuichets
      [] c = "isolate" -> IsolateGuichets [] c = "create" -> CreateGuichets
      [] c = "merge" -> MergeGuichets [] c = "read" -> ReadGuichets
      [] OTHER -> [f \in {} |-> {}]

(* The categories of the library that a form of a class may select in: with  *)
(* the forms of reading for those that hold another archive, and no form of  *)
(* options otherwise. Library assumes as much.                               *)
ReliesOn(c) == UNION {Guichets(c)[f] : f \in DOMAIN Guichets(c)}

ASSUME LayersAssumption ==
    /\ ReliesOn("read") = {"repo"}
    /\ \A c \in Classes :
        ReliesOn(c) \subseteq {"repo", "filefilter", "pathfilter", "over_policy", "compress",
                             "slicing", "ciphering", "delta_sig", "confread"}

OnEvent(c, s, f) ==
    CASE c = "test" -> TestEvent(s, f) [] c = "compare" -> CompareEvent(s, f)
      [] c = "extract" -> ExtractEvent(s, f) [] c = "repair" -> RepairEvent(s, f)
      [] c = "isolate" -> IsolateEvent(s, f) [] c = "create" -> CreateEvent(s, f)
      [] c = "merge" -> MergeEvent(s, f) [] c = "read" -> ReadEvent(s, f)
      [] c = "slicing" -> SlicingEvent(s, f) [] c = "ciphering" -> CipheringEvent(s, f)
      [] c \in {"compr", "recompr"} -> ComprEvent(c, s, f) [] c = "sig_block" -> SigEvent(s, f)

LoadOf(c, k) ==
    CASE c = "test" -> From(k, TestLabels) [] c = "compare" -> From(k, CompareLabels)
      [] c = "extract" -> From(k, ExtractLabels) [] c = "repair" -> From(k, RepairLabels)
      [] c = "isolate" -> IsolateLoad(k) [] c = "create" -> CreateLoad(k)
      [] c = "merge" -> MergeLoad(k) [] c = "read" -> ReadLoad(k)
      [] c = "slicing" -> From(k, SlicingLabels) [] c = "ciphering" -> CipheringLoad(k)
      [] c \in {"compr", "recompr"} -> From(k, ComprLabels)
      [] c = "sig_block" -> From(k, SigLabels)

Saved(c, v) ==
    CASE c = "test" -> TestSaved [] c = "compare" -> CompareSaved
      [] c = "extract" -> ExtractSaved [] c = "repair" -> RepairSaved
      [] c = "isolate" -> IsolateSaved(v) [] c = "create" -> CreateSaved(v)
      [] c = "merge" -> MergeSaved(v) [] c = "read" -> ReadSaved(v)
      [] c = "slicing" -> SlicingSaved [] c = "ciphering" -> CipheringSaved
      [] c \in {"compr", "recompr"} -> ComprSaved [] c = "sig_block" -> SigSaved

Forgets(c, v) ==
    CASE c = "isolate" -> IsolateForgets(v) [] c = "create" -> CreateForgets(v)
      [] c = "merge" -> MergeForgets(v) [] OTHER -> <<>>

ClearOf(c, v) ==
    CASE c = "test" -> TestClear [] c = "compare" -> CompareClear
      [] c = "extract" -> ExtractClear [] c = "repair" -> RepairClear
      [] c = "isolate" -> IsolateClear [] c = "create" -> CreateClear(v)
      [] c = "merge" -> MergeClear [] c = "read" -> ReadClear
      [] c = "slicing" -> SlicingClear [] c = "ciphering" -> CipheringClear
      [] c \in {"compr", "recompr"} -> ComprClear [] c = "sig_block" -> SigClear

DefaultsOf(c) ==
    CASE c = "test" -> TestDefaults [] c = "compare" -> CompareDefaults
      [] c = "extract" -> ExtractDefaults [] c = "repair" -> RepairDefaults
      [] c = "isolate" -> IsolateDefaults [] c = "create" -> CreateDefaults
      [] c = "merge" -> MergeDefaults [] c = "read" -> ReadDefaults
      [] c = "ciphering" -> CipheringDefaults
      [] c \in {"compr", "recompr"} -> ComprDefaults [] OTHER -> <<>>

Uses(c) ==
    CASE c = "test" -> TestUses [] c = "compare" -> CompareUses
      [] c = "extract" -> ExtractUses [] c = "repair" -> RepairUses
      [] c = "isolate" -> IsolateUses [] c = "create" -> CreateUses
      [] c = "merge" -> MergeUses [] c = "read" -> ReadUses [] OTHER -> {}

Reads(c, v) ==
    CASE c = "test" -> TestReads(v) [] c = "compare" -> CompareReads(v)
      [] c = "extract" -> ExtractReads(v) [] c = "repair" -> RepairReads(v)
      [] c = "isolate" -> IsolateReads(v) [] c = "create" -> CreateReads(v)
      [] c = "merge" -> MergeReads(v) [] c = "read" -> ReadReads(v)
      [] c = "slicing" -> SlicingReads(v) [] c = "ciphering" -> CipheringReads(v)
      [] c \in {"compr", "recompr"} -> ComprReads(c, v) [] c = "sig_block" -> SigReads(v)

-----------------------------------------------------------------------------

(* The setter of a field: nothing happens when the value does not change     *)
Assign(c, s, pair) ==
    LET f == pair[1]
        x == pair[2]
        t == [s EXCEPT !.v[f] = x]
    IN  IF s.v[f] # x /\ f \in WatchedBy(c) THEN OnEvent(c, t, f) ELSE t

AssignAll(c, s, pairs) == FoldLeft(LAMBDA t, p : Assign(c, t, p), s, pairs)

(* What a form does once its events are heard again                          *)
Finish(c, s) ==
    CASE c \in {"ciphering"} -> OnEvent(c, s, "type")
      [] c \in {"slicing", "compr", "recompr"} -> OnEvent(c, s, "algo")
      [] c = "sig_block" -> OnEvent(c, s, "plain")
      [] OTHER -> Tell(s)

(* The forms that ignore their events while they are cleared; merge goes on. *)
MutedByClear(c) == c \notin {"compare", "slicing", "ciphering", "compr", "recompr"}

Cleared(c, s) ==
    LET t == AssignAll(c, [s EXCEPT !.mute = MutedByClear(c) \/ @], ClearOf(c, s.v))
    IN  CASE c = "ciphering" -> t
          [] c = "merge" -> t
          [] OTHER -> Finish(c, [t EXCEPT !.mute = FALSE])

(* html_slicing hears its events while it is loaded                          *)
Loading(c, s, pairs) == AssignAll(c, [s EXCEPT !.mute = c # "slicing"], pairs)

(* Mutant: the form goes on ignoring its events after a load.                *)
LoadedMute(c, s, k) ==
    LET t == Finish(c, Loading(c, s, LoadOf(c, k))) IN [t EXCEPT !.skip = c = "read" \/ @]

(* html_options_read awaits the first change after a load                    *)
Loaded(c, s, k) ==
    LET t == Finish(c, [Loading(c, s, LoadOf(c, k)) EXCEPT !.mute = FALSE])
    IN  [t EXCEPT !.skip = c = "read" \/ @]

Defaulted(c, s) ==
    AssignAll(c, IF c = "read" THEN s ELSE Cleared(c, s), DefaultsOf(c))

(* A load ends with an exception at the first label that is missing; the     *)
(* minimum of a block above its maximum, or keeping what is compressed where *)
(* this has no meaning, is met when everything is loaded.                    *)
Unfit(c, k) ==
    \/ c = "sig_block" /\ k.reversed
    \/ c = "compr" /\ k.keep

-----------------------------------------------------------------------------

Do(name, field) ==
    /\ steps < MaxSteps
    /\ steps' = steps + 1
    /\ op' = [name |-> name, field |-> field]
    /\ UNCHANGED class

AtRest == [form EXCEPT !.told = FALSE]

(* The set_biblio and the constructor end with an event, told to nobody.     *)
FirstEvent(c) ==
    CASE c = "ciphering" -> "cipher" [] c \in {"compr", "recompr"} -> "algo" [] OTHER -> "plain"

(* A boutique of compressions may give a form what another form saved.       *)
OptionsInit ==
    /\ class \in Classes
    /\ form = [OnEvent(class, NewForm(Start(class)), FirstEvent(class)) EXCEPT !.told = FALSE]
    /\ stored \in {NoFile} \cup
                (IF class = "compr" THEN {[ComprStart EXCEPT !.keep = TRUE]} ELSE {})
    /\ used = {}
    /\ op = [name |-> "start", field |-> "none"]
    /\ torn = FALSE
    /\ steps = 0

(* The user posts a field that is displayed; the browser applies the minimum *)
(* it was given.                                                             *)
EditOption ==
    \E f \in (form.shown \ form.locked) \cap DOMAIN form.v : \E x \in Entries(f) \ {form.v[f]} :
        /\ f = "iterations" => x >= IF "high minimum" \in form.shown THEN 4 ELSE 2
        /\ Do("edit", f)
        /\ form' = Assign(class, AtRest, <<f, x>>)
        /\ UNCHANGED <<stored, used, torn>>

(* save_json, which may clear what it does not save, then get_using_set      *)
SaveOptions ==
    LET s == AssignAll(class, AtRest, Forgets(class, form.v)) IN
    /\ Do("save", "none")
    /\ form' = s
    /\ stored' = [f \in Saved(class, form.v) |-> s.v[f]]
    /\ used' = {f \in Uses(class) : s.v[f] = "lib"}
    /\ UNCHANGED torn

LoadOptions ==
    /\ stored # NoFile
    /\ ~Unfit(class, stored)
    /\ Do("load", "none")
    /\ form' = Loaded(class, AtRest, stored)
    /\ torn' = FALSE
    /\ UNCHANGED <<stored, used>>

(* The file lacks a label: what came before it is loaded.                    *)
LoadStops ==
    /\ stored # NoFile
    /\ LET pairs == LoadOf(class, stored) IN
       \E i \in {j \in 1..Len(pairs) : pairs[j][1] \in DOMAIN stored} :
            /\ Do("failed", pairs[i][1])
            /\ form' = [Loading(class, AtRest, SubSeq(pairs, 1, i - 1)) EXCEPT !.mute = FALSE]
    /\ torn' = TRUE
    /\ UNCHANGED <<stored, used>>

LoadRefused ==
    /\ stored # NoFile
    /\ Unfit(class, stored)
    /\ Do("failed", "none")
    /\ LET s == [Loading(class, AtRest, LoadOf(class, stored)) EXCEPT !.mute = FALSE] IN
       form' = IF class = "compr"
               THEN [AssignAll(class, [s EXCEPT !.mute = TRUE], ClearOf(class, s.v))
                        EXCEPT !.mute = FALSE]
               ELSE Finish(class, s)
    /\ torn' = TRUE
    /\ UNCHANGED <<stored, used>>

ClearOptions ==
    /\ Do("clear", "none")
    /\ form' = Cleared(class, AtRest)
    /\ torn' = (torn /\ class = "ciphering")
    /\ UNCHANGED <<stored, used>>

SetToWebdarDefaults ==
    /\ Do("defaults", "none")
    /\ form' = Defaulted(class, AtRest)
    /\ torn' = FALSE
    /\ UNCHANGED <<stored, used>>

OptionsNext ==
    \/ EditOption \/ SaveOptions \/ LoadOptions \/ LoadStops \/ LoadRefused
    \/ ClearOptions \/ SetToWebdarDefaults

OptionsSpec == OptionsInit /\ [][OptionsNext]_options

-----------------------------------------------------------------------------

OptionsTypeOK ==
    /\ class \in Classes
    /\ DOMAIN form.v = DOMAIN Start(class)
    /\ \A f \in DOMAIN form.v : form.v[f] \in Entries(f)
    /\ \A a \in {"mute", "skip", "told"} : form[a] \in BOOLEAN
    /\ form.locked \subseteq DOMAIN form.v
    /\ stored # NoFile => \A f \in DOMAIN stored : stored[f] \in Entries(f)
    /\ used \subseteq Uses(class)
    /\ torn \in BOOLEAN
    /\ steps \in 0..MaxSteps

(* The minimum of the iterations follows the edits of the function and not   *)
(* its load: a count below the minimum can so be entered, and saved.         *)
TooFew(f) == f # NoFile /\ f.iterations < FewestIterations(f.kdf)

(* The values that other fields impose: the name that excludes files, the    *)
(* slice read first, the threads of a compression that is not by blocks, the *)
(* count of iterations while the minimum of its function is displayed.       *)
Imposed(c, v, shown) ==
    /\ c = "create" => (v.by_ea /\ v.default_ea => ~v.ea_name)
    /\ c = "read" => v.force = ForcedSlice(v)
    /\ c \in {"compr", "recompr"} => (~v.keep /\ ~v.block => ~v.threads)
    /\ c = "ciphering" /\ "high minimum" \in shown /\ ~TooFew(stored) =>
            v.iterations >= FewestIterations(v.kdf)

(* A form displays and locks exactly what its values ask for, and its values *)
(* agree with one another, whatever was edited, loaded, cleared or reset.    *)
(* Not so after a load that failed, with a minimum above the maximum, and    *)
(* for the minimum of the iterations, which a load does not revise.          *)
FormIsCoherent ==
    LET hints == {"high minimum"}
        shown == Shown(class, form.v)
    IN  (~torn /\ ~(class = "sig_block" /\ form.v.reversed)) =>
            /\ form.shown \ hints = shown \ hints
            /\ form.locked \cap shown = Locked(class, form.v) \cap shown
            /\ Imposed(class, form.v, form.shown)

(* The fields whose change nobody is told of                                 *)
Silent(c) ==
    CASE c = "create" -> {"skipped"} [] c = "ciphering" -> {"threads"}
      [] c = "read" -> {"ref_entrep", "ref_path"}
      [] c \in {"compr", "recompr"} -> {"level", "resave", "threads"} [] OTHER -> {}

(* Whoever holds a form hears of each change of the user, and of each load   *)
(* and clear, so that it asks to save again or drops the name of what it had *)
(* loaded. Known to be deaf: the merge form once cleared and until a load,   *)
(* the read form at the first change after a load, and the fields above.     *)
ChangeIsTold ==
    [][ \/ op'.name \notin {"edit", "load", "clear"}
        \/ form'.told
        \/ op'.name = "edit" /\ op'.field \in Silent(class)
        \/ op'.name = "edit" /\ class = "sig_block" /\ form'.v.reversed
        \/ op'.name = "edit" /\ class = "read" /\ form.skip
        \/ op'.name = "edit" /\ class = "merge" /\ form.mute
        \/ op'.name = "clear" /\ class \in {"merge", "ciphering"} ]_options

(* What load_json or clear_json leaves as it was: the fields that are saved  *)
(* as what they are not, or are not saved, or not cleared                    *)
Survivors(c, name) ==
    CASE c = "compare" -> {"fsa"}
      [] c \in {"repair", "isolate", "merge"} /\ name = "load" -> {"pause"}
      [] c = "read" /\ name = "load" -> {"digits", "threads", "force"}
      [] c = "read" /\ name = "clear" -> {"leftover", "threads"}
      [] c = "create" /\ name = "clear" -> {"sig_block", "ea_mask", "ea_name"}
      [] c = "sig_block" /\ name = "clear" -> {"factors"}
      [] OTHER -> {}

(* What is loaded: what was saved, and what a new form has otherwise. The    *)
(* pass phrase is confirmed, and a compression that is not by blocks has one *)
(* thread, which only a form whose load failed saves otherwise.              *)
Restored(c, k, f) ==
    IF f = "pass2" THEN k.pass1
    ELSE IF c \in {"compr", "recompr"} /\ f = "threads" /\ ~k.keep /\ ~k.block THEN FALSE
    ELSE IF f \in DOMAIN k THEN k[f] ELSE Start(c)[f]

(* After a load the form is the one that was saved, and after a clear a new  *)
(* one: nothing of what it held before survives, but in the fields above.    *)
OldValuesAreReplaced ==
    [][ op'.name \in {"load", "clear"} =>
            \A f \in DOMAIN form.v \ Survivors(class, op'.name) :
                form'.v[f] = IF op'.name = "clear" THEN Start(class)[f]
                             ELSE Restored(class, stored, f) ]_options

(* The configurations of the library that a saved form names are those that  *)
(* are recorded as used by it, and kept for it; but the compression of a     *)
(* merge is not recorded, and the hidden repository of a catalogue is,       *)
(* though it is not named.                                                   *)
DependenciesAreExact ==
    op.name = "save" =>
        \A f \in DOMAIN Guichets(class) \ {"recompr", "ref_entrep"} :
            f \in used <=> f \in DOMAIN stored /\ stored[f] = "lib"

(* What get_options reads though it is hidden, without effect: directories   *)
(* of what is not displayed, what a full backup does not compare, the        *)
(* parameters of no compression                                              *)
Unseen(c) ==
    CASE c = "create" -> {"only_dir", "checked", "hourshift"}
      [] c = "merge" -> {"only_dir", "compr_mask"}
      [] c \in {"compr", "recompr"} -> {"level", "block", "resave", "threads"}
      [] OTHER -> {"only_dir"}

(* What is displayed and not passed to libdar                                *)
Unpassed(c) ==
    CASE c = "extract" -> {"empty_dir"} [] c = "create" -> {"default_ea"}
      [] c = "read" -> {"force"} [] OTHER -> {}

(* libdar is given what the user sees and nothing else: get_options reads a  *)
(* field if and only if on_event displays it, but for the fields above.      *)
WhatIsShownIsUsed ==
    LET reads == Reads(class, form.v)
        shown == Shown(class, form.v) \cap DOMAIN form.v
    IN  /\ reads \ shown \subseteq Unseen(class)
        /\ shown \ reads \subseteq Unpassed(class)

(* Both halves of what a form owes to the one who stores it: what it held is *)
(* replaced, and each change that must be saved is told.                     *)
FormIsStored == ChangeIsTold /\ OldValuesAreReplaced

=============================================================================
