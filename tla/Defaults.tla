------------------------------ MODULE Defaults ------------------------------
(* The configurations that webdar proposes (html_bibliotheque): each is      *)
(* built and added to the library unless the user keeps one of that name, in *)
(* an order that has those it selects stored before it, when there is no     *)
(* file of configurations and each time the user asks for them.              *)
(*                                                                           *)
(* The library is here the function from its configurations to those they    *)
(* use; Library tells how it is kept. One that an older version wrote may be *)
(* refused by the component that has to load it.                             *)
EXTENDS Naturals, SequencesExt

CONSTANTS
    Files,      \* bound: what the file of configurations may hold
    MaxChanges  \* bound: what the user does to the configurations

VARIABLES
    stored,   \* the configurations and what each uses
    broken,   \* those that components refuse to load
    refused,  \* whether the last request ended with an exception
    changes

defaults == <<stored, broken, refused, changes>>

Proposed == <<"repo", "compress", "slicing", "ciphering", "over_policy",
              "confread", "confsave", "conftest", "confdiff", "confisolate",
              "confmerge", "confrepair", "confrest">>

Names == {"no_compression", "full_from_diff"} \cup Range(Proposed)

(* What set_to_webdar_defaults loads from the library for those that use     *)
(* others.                                                                   *)
ReadUses == {"repo"}
CreateUses == {"repo", "compress", "no_compression", "slicing", "ciphering"}
IsolateUses == {"repo", "slicing", "compress", "ciphering"}
MergeUses == {"repo", "over_policy", "slicing", "ciphering"}
RepairUses == {"repo", "slicing", "ciphering"}
ExtractUses == {"over_policy"}

UsesOf(n) ==
    CASE n = "confread" -> ReadUses [] n = "confsave" -> CreateUses
      [] n = "confisolate" -> IsolateUses [] n = "confmerge" -> MergeUses
      [] n = "confrepair" -> RepairUses [] n = "confrest" -> ExtractUses
      [] OTHER -> {}

ASSUME DefaultsAssumption ==
    /\ MaxChanges \in Nat
    /\ \A f \in Files :
          /\ DOMAIN f.stored \subseteq Names
          /\ f.stored \in [DOMAIN f.stored -> SUBSET DOMAIN f.stored]
          /\ f.broken \subseteq DOMAIN f.stored

(* A configuration put in the library, or in place of the one of this name.  *)
Put(s, n, uses) ==
    [m \in DOMAIN s \cup {n} |-> IF m = n THEN uses ELSE s[m]]

(* What is read of the library in its turn: a guichet throws when it is told *)
(* to load what is not stored or is refused.                                 *)
CanMake(lib, n) == UsesOf(n) \subseteq DOMAIN lib.stored \ broken

(* An exception leaves out the defaults that follow.                         *)
AddDefault(lib, n) ==
    IF lib.refused \/ n \in DOMAIN lib.stored THEN lib
    ELSE IF CanMake(lib, n)
    THEN [lib EXCEPT !.stored = Put(@, n, UsesOf(n))]
    ELSE [lib EXCEPT !.refused = TRUE]

(* The two that do not rely on a form of the page.                           *)
SetNoCompression(lib) == AddDefault(lib, "no_compression")

SetFullFromDiff(lib) == AddDefault(lib, "full_from_diff")

(* Mutant: the filter on what to compress is made last.                      *)
SetDefaultConfigsFilterLast(s) ==
    SetFullFromDiff(SetNoCompression(
        FoldLeft(AddDefault, [stored |-> s, refused |-> FALSE], Proposed)))

(* set_default_configs.                                                      *)
SetDefaultConfigs(s) ==
    LET lib == [stored |-> s, refused |-> FALSE]
    IN  FoldLeft(AddDefault, SetFullFromDiff(SetNoCompression(lib)), Proposed)

(* The constructor loads the file, or generates when there is none.          *)
DefaultsInit ==
    /\ changes = 0 /\ refused = FALSE
    /\ \/ /\ broken = {}
          /\ stored = SetDefaultConfigs(<<>>).stored
       \/ \E f \in Files : stored = f.stored /\ broken = f.broken

Changed ==
    /\ changes < MaxChanges
    /\ changes' = changes + 1
    /\ refused' = FALSE

(* The button "generate default configurations".                             *)
GenerateDefaults ==
    /\ LET lib == SetDefaultConfigs(stored)
       IN  stored' = lib.stored /\ refused' = lib.refused
    /\ UNCHANGED <<broken, changes>>

(* arriere_boutique: the user saves a configuration under the name of a      *)
(* default, that uses what the default does or nothing, and deletes one that *)
(* no other uses. The pages that use it too may refuse that it is deleted    *)
(* (Library): it is deleted here when they do not.                           *)
SaveConfig(n, uses) ==
    /\ uses \in {{}, UsesOf(n)} /\ uses \subseteq DOMAIN stored
    /\ stored' = Put(stored, n, uses)
    /\ broken' = broken \ {n}
    /\ Changed

DeleteConfig(n) ==
    /\ n \in DOMAIN stored
    /\ \A m \in DOMAIN stored : n \notin stored[m]
    /\ stored' = Restrict(stored, DOMAIN stored \ {n})
    /\ broken' = broken \ {n}
    /\ Changed

(* html_bibliotheque: all is cleared, or a file is loaded.                   *)
ClearConfigs ==
    /\ stored' = <<>> /\ broken' = {}
    /\ Changed

LoadConfigs(f) ==
    /\ stored' = f.stored /\ broken' = f.broken
    /\ Changed

DefaultsNext ==
    \/ \E n \in Names :
          \/ SaveConfig(n, {}) \/ SaveConfig(n, UsesOf(n)) \/ DeleteConfig(n)
    \/ \E f \in Files : LoadConfigs(f)
    \/ ClearConfigs \/ GenerateDefaults

-----------------------------------------------------------------------------
(* Asking for the defaults leaves what the user keeps as it is and makes up  *)
(* all that is missing with what it relies on, whatever was deleted, edited  *)
(* or loaded before, unless a stored configuration that a missing one needs  *)
(* cannot be loaded: the user is told (html_bibliotheque::set_default_configs*)
(* and the guichets of each component).                                      *)
DefaultsComplete ==
    [][GenerateDefaults =>
          /\ \A n \in DOMAIN stored : stored'[n] = stored[n]
          /\ \A n \in DOMAIN stored' : stored'[n] \subseteq DOMAIN stored'
          /\ refused' <=> \E n \in Names \ DOMAIN stored :
                              UsesOf(n) \cap broken # {}
          /\ refused' \/ DOMAIN stored' = Names]_defaults
=============================================================================
