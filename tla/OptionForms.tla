---------------------------- MODULE OptionForms ----------------------------
(* The forms of the options of the operations: html_options_test, _compare,  *)
(* _extract, _repair, _isolate, _create, _merge and _read. For each of them: *)
(*   Start     the values after the constructor and set_biblio;              *)
(*   Labels    what load_json reads, in order; Load, what it assigns;        *)
(*   Saved     the labels of save_json, and Forgets, what it clears          *)
(*   Clear     what clear_json assigns; Defaults, what                       *)
(*             set_to_webdar_defaults assigns after it                       *)
(*   Shown     the fields that are visible, Event what on_event does         *)
(*   Watches   the fields whose events on_event hears                        *)
(*   Guichets  the guichets, with the categories that set_biblio gives them  *)
(*   Uses      the guichets of get_using_set; Reads, what get_options passes *)
(* "plain" stands for the fields that are watched, saved, cleared and always *)
(* shown; "choice" for those whose event tells the owner and nothing more;   *)
(* "params" for the guichets of slicing and ciphering.                       *)
EXTENDS FormTable

TreatedShown(v) == IF v.treated THEN {"treated", "only_dir"} ELSE {"treated"}

-----------------------------------------------------------------------------
(* html_options_test                                                         *)

TestStart == [plain |-> FALSE, treated |-> TRUE, only_dir |-> FALSE, masks |-> "none"]

TestShown(v) == {"plain", "masks"} \cup TreatedShown(v)

TestGuichets == [masks |-> {"filefilter", "pathfilter"}]

TestWatches == DOMAIN TestStart

TestEvent(s, f) == Refresh(s, IF f \in DOMAIN TestGuichets THEN s.shown ELSE TestShown(s.v))

TestLabels == <<"plain", "treated", "only_dir", "masks">>

TestSaved == {"plain", "treated", "only_dir", "masks"}

TestClear == <<<<"plain", FALSE>>, <<"treated", TRUE>>, <<"only_dir", FALSE>>,
               <<"masks", "none">>>>

TestDefaults == <<<<"treated", TRUE>>, <<"only_dir", FALSE>>>>

TestUses == {"masks"}

TestReads(v) == {"plain", "treated", "only_dir", "masks"}

-----------------------------------------------------------------------------
(* html_options_compare. The mask of the extended attributes is stored under *)
(* the label of the FSA scope, which is not stored.                          *)

CompareStart == [plain |-> FALSE, choice |-> FALSE, treated |-> TRUE,
                 only_dir |-> FALSE, masks |-> "none", fsa |-> FALSE]

CompareShown(v) == {"plain", "choice", "masks", "fsa"} \cup TreatedShown(v)

CompareGuichets == [masks |-> {"filefilter", "pathfilter"}]

CompareWatches == DOMAIN CompareStart

CompareEvent(s, f) ==
    Refresh(s, IF f \in {"choice", "fsa"} \cup DOMAIN CompareGuichets THEN s.shown ELSE CompareShown(s.v))

CompareLabels == <<"choice", "plain", "treated", "only_dir", "masks">>

CompareSaved == {"choice", "plain", "treated", "only_dir", "masks"}

CompareClear == <<<<"choice", FALSE>>, <<"plain", FALSE>>, <<"treated", TRUE>>,
                  <<"only_dir", FALSE>>, <<"masks", "none">>>>

CompareDefaults == <<<<"treated", TRUE>>, <<"only_dir", FALSE>>>>

CompareUses == {"masks"}

CompareReads(v) == {"plain", "treated", "only_dir", "choice", "masks", "fsa"}

-----------------------------------------------------------------------------
(* html_options_extract. empty_dir is shown, saved and never passed on.      *)

ExtractStart == [plain |-> FALSE, choice |-> FALSE, empty_dir |-> FALSE,
                 treated |-> FALSE, only_dir |-> FALSE, policy |-> "none",
                 masks |-> "none", fsa |-> FALSE]

ExtractShown(v) ==
    {"plain", "choice", "empty_dir", "policy", "masks", "fsa"} \cup TreatedShown(v)

ExtractGuichets == [masks |-> {"filefilter", "pathfilter"}, policy |-> {"over_policy"}]

ExtractWatches == DOMAIN ExtractStart

ExtractEvent(s, f) ==
    Refresh(s, IF f \in {"choice", "fsa"} \cup DOMAIN ExtractGuichets
               THEN s.shown
               ELSE ExtractShown(s.v))

ExtractLabels == <<"plain", "choice", "empty_dir", "treated", "only_dir",
                   "policy", "masks", "fsa">>

ExtractSaved == {"plain", "choice", "empty_dir", "treated", "only_dir",
                 "policy", "masks", "fsa"}

ExtractClear == [i \in 1..Len(ExtractLabels) |->
                    <<ExtractLabels[i], ExtractStart[ExtractLabels[i]]>>]

ExtractDefaults == <<<<"empty_dir", TRUE>>, <<"choice", TRUE>>, <<"plain", TRUE>>,
                     <<"treated", TRUE>>, <<"only_dir", FALSE>>, <<"policy", "lib">>>>

ExtractUses == {"masks", "policy"}

ExtractReads(v) == {"plain", "choice", "treated", "only_dir", "masks", "fsa", "policy"}

-----------------------------------------------------------------------------
(* html_options_repair. pause is saved as a Boolean: the number is lost.     *)

RepairStart == [entrep |-> "none", plain |-> FALSE, treated |-> FALSE,
                only_dir |-> FALSE, pause |-> FALSE, choice |-> FALSE, params |-> "none"]

RepairShown(v) == {"entrep", "plain", "pause", "choice", "params"} \cup TreatedShown(v)

RepairGuichets == [entrep |-> {"repo"}, params |-> {"slicing", "ciphering"}]

RepairWatches == DOMAIN RepairStart

RepairEvent(s, f) ==
    Refresh(s, IF f \in {"choice"} \cup DOMAIN RepairGuichets THEN s.shown ELSE RepairShown(s.v))

RepairLabels == <<"entrep", "plain", "treated", "only_dir", "choice", "params">>

RepairSaved == {"entrep", "plain", "treated", "only_dir", "choice", "params"}

RepairClear == <<<<"entrep", "none">>, <<"plain", FALSE>>, <<"treated", FALSE>>,
                 <<"only_dir", FALSE>>, <<"pause", FALSE>>, <<"choice", FALSE>>,
                 <<"params", "none">>>>

RepairDefaults == <<<<"entrep", "lib">>, <<"plain", TRUE>>, <<"treated", TRUE>>,
                    <<"only_dir", FALSE>>, <<"choice", TRUE>>, <<"params", "lib">>>>

RepairUses == {"entrep", "params"}

RepairReads(v) == {"plain", "treated", "only_dir", "pause", "params", "choice", "entrep"}

-----------------------------------------------------------------------------
(* html_options_isolate. pause is not saved. What the signatures are computed*)
(* from is saved when they are both kept and transferred; otherwise save_json*)
(* and load_json clear it.                                                   *)

IsolateStart == [delta_sig |-> FALSE, transfer |-> FALSE, sig_block |-> "none",
                 delta_mask |-> "none", entrep |-> "none", plain |-> FALSE,
                 pause |-> FALSE, choice |-> FALSE, compr |-> "none", params |-> "none"]

IsolateShown(v) ==
    {"delta_sig", "entrep", "plain", "pause", "choice", "compr", "params"}
        \cup (IF v.delta_sig THEN {"transfer"} ELSE {})
        \cup (IF v.delta_sig /\ v.transfer THEN {"sig_block", "delta_mask"} ELSE {})

IsolateGuichets ==
    [entrep |-> {"repo"}, delta_mask |-> {"pathfilter"}, sig_block |-> {"delta_sig"},
     compr |-> {"compress"}, params |-> {"slicing", "ciphering"}]

IsolateWatches == DOMAIN IsolateStart

IsolateEvent(s, f) ==
    Refresh(s, IF f \in {"choice"} \cup DOMAIN IsolateGuichets
               THEN s.shown
               ELSE IsolateShown(s.v))

NoSignature == <<<<"sig_block", "none">>, <<"delta_mask", "none">>>>

IsolateLoad(file) ==
    From(file, <<"delta_sig", "transfer">>)
        \o (IF file.delta_sig /\ file.transfer
            THEN From(file, <<"sig_block", "delta_mask">>)
            ELSE NoSignature)
        \o From(file, <<"entrep", "plain", "choice", "compr", "params">>)

IsolateForgets(v) == IF v.delta_sig /\ v.transfer THEN <<>> ELSE NoSignature

IsolateSaved(v) ==
    {"delta_sig", "transfer", "entrep", "plain", "choice", "compr", "params"}
        \cup (IF v.delta_sig /\ v.transfer THEN {"sig_block", "delta_mask"} ELSE {})

IsolateClear ==
    <<<<"delta_sig", FALSE>>, <<"transfer", FALSE>>>> \o NoSignature
        \o <<<<"entrep", "none">>, <<"plain", FALSE>>, <<"pause", FALSE>>,
             <<"choice", FALSE>>, <<"compr", "none">>, <<"params", "none">>>>

IsolateDefaults == <<<<"delta_sig", TRUE>>, <<"transfer", FALSE>>, <<"entrep", "lib">>,
                     <<"plain", TRUE>>, <<"choice", TRUE>>, <<"compr", "lib">>,
                     <<"params", "lib">>>>

IsolateUses == {"sig_block", "delta_mask", "entrep", "compr", "params"}

IsolateReads(v) ==
    {"entrep", "plain", "pause", "params", "choice", "compr", "delta_sig"}
        \cup (IF v.delta_sig THEN {"transfer"} ELSE {})
        \cup (IF v.delta_sig /\ v.transfer THEN {"sig_block", "delta_mask"} ELSE {})
=============================================================================
