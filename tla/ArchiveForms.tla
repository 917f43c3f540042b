---------------------------- MODULE ArchiveForms ----------------------------
(* The forms that read or write whole archives, which hold one another:      *)
(* html_options_create (the archive of reference), html_options_merge (the   *)
(* auxiliary one) and html_options_read (the catalogue). Each definition is  *)
(* named as in OptionForms.                                                  *)
EXTENDS OptionForms

(* The fields of html_options_create. "ea_mask" is the mask of the extended  *)
(* attributes, "masks" are the other ones; "checked" is what_to_check,       *)
(* "skipped" display_skipped, the one input that the form does not watch;    *)
(* "by_ea", "default_ea" and "ea_name" are exclude_by_ea, default_ea and     *)
(* exclude_by_ea_name, TRUE for a name that is not the usual one.            *)
CreateStart ==
    [entrep |-> "none", masks |-> "none", ea_mask |-> "none", archtype |-> "full",
     reference |-> "none", date |-> FALSE, checked |-> FALSE, hourshift |-> FALSE,
     delta_sig |-> FALSE, sig_block |-> "none", delta_mask |-> "none", plain |-> FALSE,
     skipped |-> FALSE, treated |-> FALSE, only_dir |-> FALSE, by_ea |-> FALSE,
     default_ea |-> TRUE, ea_name |-> FALSE, compr |-> "none", compr_mask |-> "none", params |-> "none"]

OnDiff(v) == v.archtype = "diff"

OnDate(v) == v.archtype = "date"

CreateShown(v) ==
    {"entrep", "masks", "ea_mask", "archtype", "delta_sig", "plain", "skipped", "by_ea",
     "compr", "params"}
        \cup (IF OnDiff(v) THEN {"reference", "checked"} ELSE {})
        \cup (IF OnDiff(v) \/ OnDate(v) THEN {"hourshift"} ELSE {})
        \cup (IF OnDate(v) THEN {"date"} ELSE {})
        \cup (IF v.delta_sig THEN {"sig_block", "delta_mask"} ELSE {})
        \cup TreatedShown(v)
        \cup (IF v.by_ea THEN {"default_ea", "ea_name"} ELSE {})
        \cup (IF v.compr # "none" THEN {"compr_mask"} ELSE {})

CreateGuichets ==
    [entrep |-> {"repo"}, masks |-> {"filefilter", "pathfilter"},
     ea_mask |-> {"filefilter"}, reference |-> {"confread"}, sig_block |-> {"delta_sig"},
     delta_mask |-> {"pathfilter"}, compr |-> {"compress"}, compr_mask |-> {"filefilter"},
     params |-> {"slicing", "ciphering"}]

CreateWatches == DOMAIN CreateStart \ {"skipped"}

CreateLocked(v) == IF v.by_ea /\ v.default_ea THEN {"ea_name"} ELSE {}

(* Mutant: the compression is not listened to.                               *)
CreateEventButCompression(s, f) ==
    CASE f \in DOMAIN CreateGuichets \cup {"date", "checked"} -> Tell(s)
      [] OTHER -> Refresh([s EXCEPT !.v.ea_name = IF s.v.by_ea /\ s.v.default_ea THEN FALSE ELSE @,
                                    !.locked = IF s.v.by_ea THEN CreateLocked(s.v) ELSE @],
                          CreateShown(s.v))

(* The radio buttons, the inputs and the compression refresh the form, which *)
(* imposes the usual name when asked; the name stays locked while hidden.    *)
CreateEvent(s, f) ==
    CASE f \in (DOMAIN CreateGuichets \ {"compr"}) \cup {"date", "checked"} -> Tell(s)
      [] OTHER ->
            LET usual == s.v.by_ea /\ s.v.default_ea IN
            Refresh([s EXCEPT
                        !.v.ea_name = IF usual THEN FALSE ELSE @,
                        !.locked = IF s.v.by_ea THEN CreateLocked(s.v) ELSE @],
                    CreateShown(s.v))

CreateLoad(file) ==
    From(file, <<"entrep", "masks", "ea_mask", "archtype", "date">>)
        \o (IF OnDiff(file) THEN From(file, <<"reference">>) ELSE <<<<"reference", "none">>>>)
        \o From(file, <<"delta_sig">>)
        \o (IF file.delta_sig THEN From(file, <<"sig_block", "delta_mask">>) ELSE NoSignature)
        \o From(file, <<"checked", "hourshift", "plain", "treated", "only_dir", "skipped",
                        "by_ea", "default_ea", "ea_name", "compr", "compr_mask", "params">>)

(* Mutant: the reference of a full backup is not saved and stays.            *)
CreateForgetsSignature(v) == IF v.delta_sig THEN <<>> ELSE NoSignature

CreateForgets(v) ==
    (IF OnDiff(v) THEN <<>> ELSE <<<<"reference", "none">>>>)
        \o (IF v.delta_sig THEN <<>> ELSE NoSignature)

CreateSaved(v) ==
    DOMAIN CreateStart
        \ ((IF OnDiff(v) THEN {} ELSE {"reference"})
            \cup (IF v.delta_sig THEN {} ELSE {"sig_block", "delta_mask"}))

(* init() gives the block size of the signatures without its guichet, which  *)
(* goes on selecting what it selected, and leaves the mask of the extended   *)
(* attributes and the name that excludes files as they are.                  *)
CreateClear(v) ==
    <<<<"entrep", "none">>, <<"masks", "none">>, <<"archtype", "full">>, <<"date", FALSE>>,
      <<"reference", "none">>, <<"delta_sig", FALSE>>,
      <<"sig_block", IF v.sig_block = "own" THEN "none" ELSE v.sig_block>>,
      <<"delta_mask", "none">>, <<"plain", FALSE>>, <<"checked", FALSE>>, <<"hourshift", FALSE>>,
      <<"treated", FALSE>>, <<"only_dir", FALSE>>, <<"skipped", FALSE>>,
      <<"by_ea", FALSE>>, <<"default_ea", TRUE>>, <<"compr", "none">>,
      <<"compr_mask", "none">>, <<"params", "none">>>>

CreateDefaults ==
    <<<<"entrep", "lib">>, <<"masks", "none">>, <<"ea_mask", "none">>,
      <<"archtype", "full">>, <<"delta_sig", FALSE>>, <<"plain", TRUE>>, <<"treated", TRUE>>,
      <<"only_dir", FALSE>>, <<"skipped", TRUE>>, <<"by_ea", TRUE>>,
      <<"default_ea", TRUE>>, <<"compr", "lib">>, <<"compr_mask", "lib">>,
      <<"params", "lib">>>>

CreateUses == {"entrep", "masks", "ea_mask", "reference", "sig_block", "delta_mask", "compr",
               "compr_mask", "params"}

CreateReads(v) ==
    {"entrep", "masks", "ea_mask", "archtype", "delta_sig", "plain", "skipped", "by_ea",
     "compr", "params", "treated", "only_dir", "checked", "hourshift"}
        \cup (IF OnDiff(v) THEN {"reference"} ELSE {})
        \cup (IF OnDate(v) THEN {"date"} ELSE {})
        \cup (IF v.delta_sig THEN {"sig_block", "delta_mask"} ELSE {})
        \cup (IF v.by_ea THEN {"ea_name"} ELSE {})
        \cup (IF v.compr # "none" THEN {"compr_mask"} ELSE {})

-----------------------------------------------------------------------------
(* html_options_merge. "recompr" is the compression, where one may also keep *)
(* what is compressed; get_using_set() leaves it out. pause is saved as a    *)
(* Boolean.                                                                  *)

MergeStart ==
    [entrep |-> "none", plain |-> FALSE, pause |-> FALSE, choice |-> FALSE,
     has_aux |-> FALSE, auxiliary |-> "none", decremental |-> FALSE,
     delta |-> "transfer", sig_block |-> "none", delta_mask |-> "none",
     treated |-> FALSE, only_dir |-> FALSE, masks |-> "none", policy |-> "none",
     recompr |-> "none", compr_mask |-> "none", params |-> "none"]

OnCompute(v) == v.delta = "compute"

MergeShown(v) ==
    {"entrep", "plain", "pause", "choice", "has_aux", "delta", "masks", "policy",
     "recompr", "params"}
        \cup (IF v.has_aux THEN {"auxiliary", "decremental"} ELSE {})
        \cup (IF OnCompute(v) THEN {"sig_block", "delta_mask"} ELSE {})
        \cup TreatedShown(v)
        \cup (IF v.recompr \in {"own", "lib"} THEN {"compr_mask"} ELSE {})

MergeGuichets ==
    [entrep |-> {"repo"}, masks |-> {"filefilter", "pathfilter"}, auxiliary |-> {"confread"},
     policy |-> {"over_policy"}, sig_block |-> {"delta_sig"}, delta_mask |-> {"pathfilter"},
     recompr |-> {"compress"}, compr_mask |-> {"filefilter"},
     params |-> {"slicing", "ciphering"}]

MergeWatches == DOMAIN MergeStart

MergeEvent(s, f) ==
    Refresh(s, IF f \in (DOMAIN MergeGuichets \ {"recompr"}) \cup {"choice"}
               THEN s.shown
               ELSE MergeShown(s.v))

(* Mutant: the auxiliary archive that was selected is not cleared.           *)
MergeLoadKeepsAuxiliary(file) ==
    From(file, <<"entrep", "plain", "choice", "has_aux">>)
        \o (IF file.has_aux THEN From(file, <<"auxiliary">>) ELSE <<>>)
        \o From(file, <<"decremental", "delta">>)
        \o (IF OnCompute(file) THEN From(file, <<"sig_block", "delta_mask">>) ELSE NoSignature)
        \o From(file, <<"treated", "only_dir", "masks", "policy", "recompr", "compr_mask", "params">>)

MergeLoad(file) ==
    From(file, <<"entrep", "plain", "choice", "has_aux">>)
        \o (IF file.has_aux THEN From(file, <<"auxiliary">>) ELSE <<<<"auxiliary", "none">>>>)
        \o From(file, <<"decremental", "delta">>)
        \o (IF OnCompute(file) THEN From(file, <<"sig_block", "delta_mask">>) ELSE NoSignature)
        \o From(file, <<"treated", "only_dir", "masks", "policy", "recompr",
                        "compr_mask", "params">>)

MergeForgets(v) ==
    (IF v.has_aux THEN <<>> ELSE <<<<"auxiliary", "none">>>>)
        \o (IF OnCompute(v) THEN <<>> ELSE NoSignature)

MergeSaved(v) ==
    DOMAIN MergeStart
        \ ({"pause"}
            \cup (IF v.has_aux THEN {} ELSE {"auxiliary"})
            \cup (IF OnCompute(v) THEN {} ELSE {"sig_block", "delta_mask"}))

MergeClear ==
    LET fields == <<"entrep", "plain", "pause", "choice", "has_aux", "decremental",
                    "auxiliary", "delta", "sig_block", "delta_mask", "treated",
                    "only_dir", "masks", "policy", "recompr", "compr_mask", "params">>
    IN [i \in 1..Len(fields) |-> <<fields[i], MergeStart[fields[i]]>>]

MergeDefaults ==
    <<<<"entrep", "lib">>, <<"plain", TRUE>>, <<"choice", TRUE>>, <<"delta", "transfer">>,
      <<"treated", TRUE>>, <<"only_dir", FALSE>>, <<"policy", "lib">>, <<"recompr", "none">>,
      <<"recompr", "keep">>, <<"params", "lib">>>>

MergeUses == {"entrep", "auxiliary", "sig_block", "delta_mask", "masks", "policy",
              "compr_mask", "params"}

(* Mutant: the auxiliary archive is opened, and the decremental mode set,    *)
(* though no auxiliary archive is asked for.                                 *)
MergeReadsAuxiliary(v) ==
    DOMAIN MergeStart
        \ ((IF OnCompute(v) THEN {} ELSE {"sig_block", "delta_mask"})
            \cup (IF v.recompr = "keep" THEN {"compr_mask"} ELSE {}))

MergeReads(v) ==
    {"entrep", "plain", "pause", "choice", "has_aux", "delta", "treated", "only_dir",
     "masks", "policy", "recompr", "params"}
        \cup (IF v.has_aux THEN {"auxiliary", "decremental"} ELSE {})
        \cup (IF OnCompute(v) THEN {"sig_block", "delta_mask"} ELSE {})
        \cup (IF v.recompr = "keep" THEN {} ELSE {"compr_mask"})

-----------------------------------------------------------------------------
(* html_options_read. "seq" is sequential_read, "force" force_first_slice,   *)
(* "ext" ref_use_external_catalogue, "ref_plain" the other fields of the     *)
(* catalogue; "digits" is src_slice_min_digits and "threads"                 *)
(* multi_thread_compress, both saved as Booleans; clear_json leaves alone    *)
(* "threads" and the fields "leftover".                                      *)

ReadStart ==
    [entrep |-> "none", plain |-> FALSE, digits |-> FALSE, threads |-> FALSE,
     leftover |-> FALSE, seq |-> FALSE, force |-> FALSE, ext |-> FALSE,
     ref_entrep |-> "none", ref_path |-> FALSE, ref_plain |-> FALSE]

ReadShown(v) ==
    {"entrep", "plain", "digits", "threads", "leftover", "seq", "force", "ext"}
        \cup (IF v.ext THEN {"ref_entrep", "ref_path", "ref_plain"} ELSE {})

ReadGuichets == [entrep |-> {"repo"}, ref_entrep |-> {"repo"}]

(* The events of the two last ones are heard and change nothing here.        *)
ReadWatches == DOMAIN ReadStart \ {"ref_entrep", "ref_path"}

ReadLocked(v) == IF v.ext /\ ~v.seq THEN {} ELSE {"force"}

ForcedSlice(v) == IF v.ext THEN v.seq \/ v.force ELSE v.seq

(* What follows the change of force_first_slice: without a catalogue, its    *)
(* guichet is cleared, between an ignore_events set and one reset, be it in  *)
(* the middle of a load. The first change after a load is not told.          *)
ReadFollow(s) ==
    LET t == [s EXCEPT !.shown = ReadShown(s.v),
                       !.v.ref_entrep = IF s.v.ext THEN @ ELSE "none",
                       !.mute = s.v.ext /\ @]
    IN  IF t.skip THEN [t EXCEPT !.skip = FALSE] ELSE Tell(t)

(* To change or lock force_first_slice is an event of its own, met within.   *)
ReadEvent(s, f) ==
    CASE f = "entrep" -> Tell(s)
      [] OTHER ->
            LET t == [s EXCEPT !.v.force = ForcedSlice(s.v), !.locked = ReadLocked(s.v)]
            IN  IF t = s THEN ReadFollow(t) ELSE ReadFollow(ReadFollow(t))

NoCatalogue == <<<<"ref_entrep", "none">>, <<"ext", FALSE>>, <<"ref_path", FALSE>>,
                 <<"ref_plain", FALSE>>>>

ReadLoad(file) ==
    From(file, <<"entrep", "plain", "leftover", "seq", "force", "ext">>)
        \o (IF file.ext
            THEN From(file, <<"ref_entrep", "ref_path", "ref_plain">>)
            ELSE NoCatalogue)

ReadSaved(v) ==
    {"entrep", "plain", "leftover", "seq", "force", "ext"}
        \cup (IF v.ext THEN {"ref_entrep", "ref_path", "ref_plain"} ELSE {})

ReadClear ==
    <<<<"entrep", "none">>, <<"plain", FALSE>>, <<"digits", FALSE>>, <<"seq", FALSE>>,
      <<"force", FALSE>>>> \o NoCatalogue

(* set_to_webdar_defaults goes through set_defaults, not through clear_json. *)
ReadDefaults ==
    ReadClear \o <<<<"entrep", "lib">>, <<"leftover", TRUE>>, <<"threads", TRUE>>,
                   <<"ref_entrep", "lib">>>>

ReadUses == {"entrep", "ref_entrep"}

ReadReads(v) ==
    {"entrep", "plain", "digits", "threads", "leftover", "seq", "ext"}
        \cup (IF v.ext THEN {"ref_entrep", "ref_path", "ref_plain", "force"} ELSE {})
=============================================================================
