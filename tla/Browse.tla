------------------------------- MODULE Browse -------------------------------
(* A user browses a repository to select a path: the browser, the server     *)
(* thread that builds his page in rounds, the thread that reaches the        *)
(* repository and the one that reads a directory.                            *)
EXTENDS Landing

(* What a URL may name: a button, a form, or an entry of a directory.        *)
Names ==
    {"get", "ack", "plus", "type", "host", "xask", "xforce", "one", "two", "ask", "force",
     "new", "hide", "mkdir", "select", "cancel"}

ASSUME NamesAssumption == Paths \cap (Names \cup {""}) = {}

Init ==
    /\ InitSelect /\ InitLanding
    /\ pc = "idle" /\ req = "get" /\ posted = FALSE /\ acted = FALSE
    /\ changed = {} /\ redirect = FALSE /\ presses = 0 /\ status = "up"
    /\ page = Page("form", Buttons, FALSE, "", FALSE)

vars == <<server, select, landing>>

Posts == {"mkdir", "type", "host"}

(* A request: the texts kept from the last page are flushed.                 *)
Receive(r, isPost) ==
    /\ Up /\ pc = "idle"
    /\ req' = r /\ posted' = isPost /\ acted' = FALSE
    /\ pc' = "repo" /\ changed' = {}

(* The user presses a button of the page, or posts a form.                   *)
Press(b) ==
    /\ presses < MaxPresses /\ presses' = presses + 1
    /\ page.kind = "form" /\ b \in page.buttons
    /\ Receive(b, b \in Posts)
    /\ hit' = (b \in listed /\ fresh) /\ moved' = FALSE
    /\ UNCHANGED <<redirect, page, status, listed, fresh, spoilt, visible,
                   is_loading_mode, dir, which_thread, flags, warning, new_warning,
                   owed, create, parent, web, thread, mutex, disk, mode, landing>>

(* The page reloads itself, or the user does it.                             *)
Refresh ==
    /\ page.kind = "form"
    /\ Receive(req, FALSE)
    /\ UNCHANGED <<redirect, page, presses, status, select, landing>>

(* The user leaves the page of errors.                                       *)
Acknowledge ==
    /\ page.kind = "error"
    /\ Receive("ack", FALSE)
    /\ UNCHANGED <<redirect, page, presses, status, select, landing>>

(* The end of a round: another one if something changed, without the POST.   *)
NextRound ==
    /\ Up /\ pc = "end" /\ changed # {}
    /\ pc' = "repo" /\ changed' = {} /\ posted' = FALSE
    /\ UNCHANGED <<req, acted, redirect, page, presses, status, select, landing>>

Send ==
    /\ Up /\ pc = "end" /\ changed = {}
    /\ pc' = "idle" /\ posted' = FALSE
    /\ page' = Page("form", Buttons, redirect, IF visible THEN label ELSE "",
                    visible /\ warning)
    /\ owed' = (owed /\ ~(visible /\ warning))
    /\ fresh' = (visible /\ ~is_loading_mode)
    /\ UNCHANGED <<req, acted, changed, redirect, presses, status, listed, hit, spoilt,
                   warning, new_warning, moved, visible, is_loading_mode, dir, which_thread,
                   flags, create, parent, web, thread, mutex, disk, mode, landing>>

Over == (~Up \/ presses = MaxPresses) /\ UNCHANGED vars

Build ==
    \/ PopupRound /\ UNCHANGED landing
    \/ LandingRound
    \/ NextRound \/ Send

Work == (PopupThread /\ UNCHANGED landing) \/ LandingThread

Next ==
    \/ \E b \in page.buttons : Press(b)
    \/ Refresh \/ Acknowledge
    \/ Build \/ Work \/ Over

Spec == Init /\ [][Next]_vars

(* The threads are scheduled, those of libdar come back; the browser reloads *)
(* the page when it was told to, and its user leaves the page of errors.     *)
Fairness ==
    /\ WF_vars(Build) /\ WF_vars(LandingThread)
    /\ SF_vars(Begin /\ UNCHANGED landing)
    /\ WF_vars(PopupThread /\ UNCHANGED landing)
    /\ WF_vars(page.refresh /\ Refresh) /\ WF_vars(Acknowledge)

FairSpec == Spec /\ Fairness

-----------------------------------------------------------------------------
(* Type correctness; the status names the check that was met.                *)
TypeOK ==
    /\ pc \in {"idle", "repo", "plus", "open", "fieldset", "webui", "buttons", "reload",
               "xfer", "end"}
    /\ status \in {"up", "bug", "filled_file", "unwatched", "managed", "null"}
    /\ posted \in BOOLEAN /\ acted \in BOOLEAN /\ redirect \in BOOLEAN
    /\ visible \in BOOLEAN /\ is_loading_mode \in BOOLEAN /\ managed \in BOOLEAN
    /\ need_reload \in BOOLEAN /\ should_refresh \in BOOLEAN
    /\ warning \in BOOLEAN /\ new_warning \in BOOLEAN
    /\ owed \in BOOLEAN /\ moved \in BOOLEAN /\ spoilt \in BOOLEAN
    /\ form \in BOOLEAN /\ hit \in BOOLEAN /\ fresh \in BOOLEAN
    /\ need_update \in BOOLEAN /\ entrepot_changed \in BOOLEAN /\ refused \in BOOLEAN
    /\ xvisible \in BOOLEAN /\ xmanaged \in BOOLEAN /\ xrefresh \in BOOLEAN
    /\ label \in Paths \cup {""} /\ path_loaded \in Paths \cup {""}
    /\ location \in Paths \cup {""} /\ value \in Paths \cup {""}
    /\ listed \subseteq Paths /\ exists \subseteq Paths
    /\ changed \subseteq {"popup", "other"}
    /\ target_type \in {"isdir", "nondir", "symlink", "unknown"}
    /\ thread \in {"off", "start", "init", "retry", "fill", "list", "create",
                   "ended", "failed", "bug"}
    /\ which_thread \in {"nothing", "init_fill", "fill_only", "create_dir"}
    /\ mutex \in {"none", "server", "thread"}
    /\ parent \in {"one", "two"} /\ showing \in {"new", "hide"}
    /\ page.kind \in {"form", "error"}
    /\ host \in {"landing", "plain"} /\ mode \in {"sel_dir", "sel_file", "sel_symlinks"}
    /\ repo \in Repos /\ entrep \in Repos \cup {null}
    /\ libdar_entrep \in Repos \cup {null} /\ read \in Repos \cup {null}
    /\ xthread \in {"off", "start", "connect", "built", "ended", "failed"}
    /\ {hmode, xmode} \subseteq {"normal", "end_asked", "end_forced", "closed"}
    /\ stop \in {"none", "soft", "hard"}

(* The server thread meets none of the checks of the popup: no thread is     *)
(* launched when one works or is watched, and the mutex is free when the     *)
(* content is shown (html_select_file.cpp, run_thread and                    *)
(* inherited_get_body_part). The checks that the code can meet have a status *)
(* of their own: see the README.                                             *)
ServerMeetsNoBug == status # "bug"

(* The directory the path that is shown is in, or is.                        *)
Directory == IF target_type = "isdir" THEN label ELSE ParentOf[label]

AtRest == Up /\ pc = "idle" /\ page.kind = "form" /\ visible /\ ~is_loading_mode

(* What a page at rest lists is what the directory has at that time, after   *)
(* any sequence of moves, selections and creations, though path_loaded lets  *)
(* the popup skip the reading (html_select_file.cpp, run_thread). It fails,  *)
(* by what spoilt says, when the reading itself did.                         *)
ListingIsCurrent ==
    AtRest /\ ~spoilt => listed = Listing(Directory)

(* A request for the parent directory moves once, though it is evaluated in  *)
(* several rounds, with the thread at work or not (html_double_button.cpp).  *)
MovesOnce == [][PressParent => ~moved]_vars

(* What is selected is the path that the page displayed when the button was  *)
(* pressed, and it is of the kind asked for (html_select_file.cpp, on_event).*)
SelectsWhatIsShown ==
    [][Select => /\ label = page.label
                 /\ ~spoilt /\ mode = "sel_dir" => TargetType[label] = "isdir"
                 /\ ~spoilt /\ mode = "sel_file" => TargetType[label] # "isdir"]_vars

(* A warning, of the thread or of a selection that is refused, is on the     *)
(* next page that is sent, whatever the rounds that page took: new_warning   *)
(* keeps it from being cleared (html_select_file.cpp,                        *)
(* inherited_get_body_part).                                                 *)
WarningIsShown == [][Send /\ visible /\ owed => page'.warning]_vars

(* The popup opens on the repository that the form describes, unless it      *)
(* could not be reached, or its type was just changed (html_entrepot.cpp,    *)
(* entrep_need_update and html_entrepot_landing.cpp, entrepot_changed).      *)
RepositoryIsTheOneShown ==
    [][~visible /\ visible' /\ host = "landing" =>
           browsed' = repo \/ refused \/ need_update]_vars

(* The page that waits for a thread ends waiting: it reloads itself until    *)
(* the thread is seen to have ended (html_select_file.cpp, should_refresh;   *)
(* html_web_user_interaction.cpp, can_refresh and dont_refresh).             *)
LoadingEnds ==
    (is_loading_mode \/ xmanaged) ~> (~(is_loading_mode \/ xmanaged) \/ ~Up)

(* What a user can count on while browsing, click after click.               *)
BrowsesAsTold ==
    MovesOnce /\ SelectsWhatIsShown /\ WarningIsShown /\ RepositoryIsTheOneShown

=============================================================================
