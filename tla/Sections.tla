------------------------------ MODULE Sections ------------------------------
(* The tabs of the Configure page (html_tabs of html_bibliotheque) and, in   *)
(* the tab of the reading options, the sections that open and close          *)
(* (html_derouleur of html_options_read). Both show one part at most of what *)
(* they hold through an html_aiguille. The section of the repository of the  *)
(* external catalogue exists for the user as long as the box that asks for   *)
(* this catalogue is checked.                                                *)
(*                                                                           *)
(* An aiguille is a record: its sections in order, the number of the active  *)
(* one, and those whose contents are visible.                                *)
EXTENDS Naturals, SequencesExt

CONSTANTS
    Tabs,    \* the tags of the tabs, in order
    ReadTab  \* the tag of the one that holds html_options_read

ASSUME SectionsAssumption ==
    Tabs \in Seq(Range(Tabs)) /\ IsInjective(Tabs) /\ ReadTab \in Range(Tabs)

VARIABLES
    tabs,    \* html_bibliotheque::tabs: content, current_mode and the buttons
             \* that have the style of the current one
    unroll,  \* html_options_read::deroule: switcher and the visible sections
    external \* html_options_read::ref_use_external_catalogue

configure == <<tabs, unroll, external>>

NoActive == 0

NoSections == [order |-> <<>>, active |-> NoActive, shown |-> {}]

AddSection(g, name) == [g EXCEPT !.order = Append(@, name)]

SectionNum(g, name) == CHOOSE i \in DOMAIN g.order : g.order[i] = name

SetVisibility(g, n, visible) ==
    IF n = NoActive THEN g
    ELSE [g EXCEPT !.shown = IF visible THEN @ \cup {g.order[n]}
                             ELSE @ \ {g.order[n]}]

(* set_active_section.                                                       *)
SetActive(g, n) ==
    IF g.active = n THEN g
    ELSE [SetVisibility(SetVisibility(g, g.active, FALSE), n, TRUE)
              EXCEPT !.active = n]

-----------------------------------------------------------------------------
(* html_tabs.                                                                *)

SetMode(t, n) ==
    IF n = t.mode THEN t
    ELSE [content |-> SetActive(t.content, n), mode |-> n,
          lit |-> (t.lit \ {t.mode}) \cup {n}]

(* The first tab that is added is the one shown. A new tab is selected, then *)
(* the one that was is again.                                                *)
AddTab(t, tag) ==
    LET added == AddSection(t.content, tag)
        last == Len(added.order)
        content == IF last = 1 THEN SetActive(added, 1) ELSE added
    IN  SetMode(SetMode([t EXCEPT !.content = content], last), content.active)

(* A mode that no tab has yet, the second one.                               *)
NoTabs == [content |-> NoSections, mode |-> 2, lit |-> {}]

(* html_bibliotheque.                                                        *)
AllTabs == FoldLeft(AddTab, NoTabs, Tabs)

ClickTab(n) ==
    /\ tabs' = SetMode(tabs, n)
    /\ UNCHANGED <<unroll, external>>

-----------------------------------------------------------------------------
(* html_derouleur.                                                           *)

AddPart(u, name) ==
    [switcher |-> AddSection(u.switcher, name), visible |-> u.visible \cup {name}]

(* Mutant: a section that is hidden stays the active one.                    *)
SectionSetVisibleOnly(u, name, visible) ==
    [u EXCEPT !.visible = IF visible THEN @ \cup {name} ELSE @ \ {name}]

(* section_set_visible.                                                      *)
SectionSetVisible(u, name, visible) ==
    LET g == u.switcher
    IN  [visible |-> IF visible THEN u.visible \cup {name} ELSE u.visible \ {name},
         switcher |-> IF ~visible /\ g.active = SectionNum(g, name)
                      THEN SetActive(g, NoActive) ELSE g]

(* html_options_read: the sections are made, then on_event is called once.   *)
ReadSections == <<"entrep", "opt", "extcat", "ref_entrep">>

Unrolled ==
    FoldLeft(AddPart, [switcher |-> NoSections, visible |-> {}], ReadSections)

SectionsInit ==
    /\ tabs = AllTabs
    /\ external = FALSE
    /\ unroll = SectionSetVisible(Unrolled, "ref_entrep", external)

(* The form is part of the page when its tab is the one shown.               *)
Reading == ReadTab \in tabs.content.shown

(* generate_html: the button of a section on the page, the title to expand   *)
(* it or the shrinker. A button of a former page that is not on this one any *)
(* more is not looked at.                                                    *)
Button(u, name) ==
    IF name \notin u.visible THEN "none"
    ELSE IF u.switcher.active = SectionNum(u.switcher, name) THEN "shrinker"
    ELSE "title"

(* on_event.                                                                 *)
ClickTitle(name) ==
    /\ Reading /\ Button(unroll, name) = "title"
    /\ unroll' = [unroll EXCEPT !.switcher = SetActive(@, SectionNum(@, name))]
    /\ UNCHANGED <<tabs, external>>

ClickShrink(name) ==
    /\ Reading /\ Button(unroll, name) = "shrinker"
    /\ unroll' = [unroll EXCEPT !.switcher = SetActive(@, NoActive)]
    /\ UNCHANGED <<tabs, external>>

(* on_event, when the box takes a value.                                     *)
SetExternal(b) ==
    /\ external' = b
    /\ unroll' = SectionSetVisible(unroll, "ref_entrep", b)
    /\ UNCHANGED tabs

(* The user checks or unchecks the box, which section extcat holds.          *)
PostExternal(b) ==
    /\ Reading /\ "extcat" \in unroll.switcher.shown
    /\ SetExternal(b)

(* Another configuration is loaded or the form is cleared: the buttons are   *)
(* those of arriere_boutique, whatever section is expanded.                  *)
LoadRead(b) == Reading /\ SetExternal(b)

SectionsNext ==
    \/ \E n \in DOMAIN Tabs : ClickTab(n)
    \/ \E name \in Range(ReadSections) : ClickTitle(name) \/ ClickShrink(name)
    \/ \E b \in BOOLEAN : PostExternal(b) \/ LoadRead(b)

-----------------------------------------------------------------------------
(* What an aiguille shows is its active section and nothing else.            *)
Agrees(g) ==
    g.shown = IF g.active = NoActive THEN {} ELSE {g.order[g.active]}

(* The tab that looks selected is the one whose contents are shown; a        *)
(* section is shown when it is the active one; the section of the repository *)
(* of the catalogue can be reached when the box is checked, and is never the *)
(* active one when it is not, even if it was when another configuration was  *)
(* loaded: generate_html would end with WEBDAR_BUG (html_derouleur.cpp:289). *)
SectionsAgree ==
    /\ Agrees(tabs.content) /\ tabs.content.active = tabs.mode
    /\ tabs.lit = {tabs.mode}
    /\ Agrees(unroll.switcher)
    /\ unroll.switcher.shown \subseteq unroll.visible
    /\ "ref_entrep" \in unroll.visible <=> external
=============================================================================
