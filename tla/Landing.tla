------------------------------- MODULE Landing -------------------------------
(* The repository a user describes and the path he selects in it: the form   *)
(* of a repository (html_entrepot), the path beside it, whose + button opens *)
(* the popup (html_form_input_file), what connects the two                   *)
(* (html_entrepot_landing) and the popup that watches the thread which       *)
(* reaches the repository (html_libdar_running_popup).                       *)
(*                                                                           *)
(* A description of a repository is a number. A field without the rest (the  *)
(* host "plain") browses the file system of the server.                      *)
EXTENDS SelectFile

CONSTANTS
    Uses,          \* a host, a mode of selection and a path in the field
    Repos          \* descriptions of repositories, which are numbers

ASSUME ReposAssumption ==
    /\ Repos \subseteq Nat \ {0} /\ 1 \in Repos
    /\ Uses \subseteq {"landing", "plain"}
                   \X {"sel_dir", "sel_file", "sel_symlinks"} \X Paths

(* No entrepot.                                                              *)
null == 0

VARIABLES
    host,
    repo,             \* what the form of html_entrepot shows
    need_update, entrep,       \* html_entrepot: entrep_need_update, entrep
    entrepot_changed, libdar_entrep,   \* html_entrepot_landing
    given,            \* html_form_input_file::entrep
    value,            \* the path, in the field
    browsed,          \* the repository the popup browses (entr)
    xvisible, xrefresh, xmode, xmanaged,   \* html_libdar_running_popup
    xthread, read,    \* the thread, and the description it has read
    refused           \* history: the last thread failed

form_of_repo == <<repo, need_update>>
reached == <<entrep, entrepot_changed, libdar_entrep, given>>
xpopup == <<xvisible, xrefresh, xmode, xmanaged>>
xjob == <<xthread, read, refused>>

landing == <<host, form_of_repo, reached, value, browsed, xpopup, xjob>>

InitLanding ==
    /\ \E u \in Uses : host = u[1] /\ mode = u[2] /\ value = u[3]
    /\ repo = 1 /\ need_update = FALSE
    /\ entrep \in IF host = "landing" THEN {null, 1} ELSE {null}
    /\ libdar_entrep = entrep /\ entrepot_changed = (entrep = null)
    /\ given = entrep
    /\ browsed = null
    /\ xvisible = FALSE /\ xrefresh = FALSE /\ xmode = "normal" /\ xmanaged = FALSE
    /\ xthread = "off" /\ read = null /\ refused = FALSE

XRunning == xthread \in {"start", "connect", "built"}

-----------------------------------------------------------------------------
(* Mutant: a change of its fields does not make the object obsolete.         *)
DescribeOnly(r, told) ==
    /\ repo' = r
    /\ need_update' = (need_update \/ ~told)
    /\ entrepot_changed' = (told \/ entrepot_changed)

(* The form of the repository is posted. A change of type towards a remote   *)
(* one is not told, as its parameters are still missing.                     *)
Describe(r, told) ==
    /\ repo' = r
    /\ need_update' = TRUE
    /\ entrepot_changed' = (told \/ entrepot_changed)

PostRepository(how) ==
    /\ Up /\ pc = "repo" /\ host = "landing"
    /\ req = how /\ how \in {"type", "host"} /\ posted
    /\ \E r \in Repos \ {repo} : Describe(r, how = "host")
    /\ To("plus") /\ Tell({"other"}) /\ posted' = FALSE
    /\ UNCHANGED <<select, host, entrep, libdar_entrep, given, value, browsed, xpopup,
                   xthread, read, refused, req, acted, redirect, page, presses>>

RepositoryQuiet ==
    /\ Up /\ pc = "repo"
    /\ ~(host = "landing" /\ req \in {"type", "host"} /\ posted)
    /\ To("plus") /\ Untold
    /\ UNCHANGED <<select, landing, req, posted, acted, redirect, page, presses>>

(* html_form_input_file, asked to browse (set_entrepot, then go_select).     *)
Browse(r) ==
    /\ given' = r
    /\ browsed' = IF visible THEN browsed ELSE r
    /\ GoSelect(value)

PlusQuiet ==
    /\ Up /\ pc = "plus" /\ ~Pressed("plus")
    /\ To("open") /\ Untold
    /\ UNCHANGED <<select, landing, req, posted, acted, redirect, page, presses>>

PressPlus ==
    /\ Up /\ pc = "plus" /\ Pressed("plus")
    /\ host = "plain" \/ ~entrepot_changed
    /\ IF host = "landing" /\ libdar_entrep = null
       THEN /\ Bug("bug") /\ UNCHANGED <<select, given, browsed>>
       ELSE /\ Browse(IF host = "landing" THEN libdar_entrep ELSE null)
            /\ To("open")
    /\ acted' = TRUE
    /\ IF visible THEN Untold ELSE Tell({"popup"})
    /\ UNCHANGED <<host, form_of_repo, entrep, entrepot_changed, libdar_entrep, value,
                   xpopup, xjob, req, posted, redirect, page, presses>>

(* start_updating_landing: it expects that no thread is managed, and that    *)
(* the mode is normal or closed.                                             *)
PressPlusUpdates ==
    /\ Up /\ pc = "plus" /\ Pressed("plus")
    /\ host = "landing" /\ entrepot_changed
    /\ IF xmanaged
       THEN Bug("managed") /\ UNCHANGED <<xpopup, xjob>>
       ELSE /\ xmanaged' = TRUE /\ xmode' = "normal"
            /\ xvisible' = TRUE /\ xrefresh' = TRUE
            /\ xthread' = "start" /\ read' = null
            /\ refused' = FALSE
            /\ To("open")
    /\ acted' = TRUE
    /\ Tell({"other"})
    /\ UNCHANGED <<select, host, form_of_repo, reached, value, browsed, req, posted,
                   redirect, page, presses>>

(* html_form_input_file takes the path that was selected.                    *)
TakeSelection == value' = label

Select ==
    /\ Close("select")
    /\ TakeSelection
    /\ browsed' = null
    /\ UNCHANGED <<host, form_of_repo, reached, xpopup, xjob>>

Cancel ==
    /\ Close("cancel")
    /\ browsed' = null
    /\ UNCHANGED <<host, form_of_repo, reached, value, xpopup, xjob>>

-----------------------------------------------------------------------------
(* html_libdar_running_popup, evaluated last.                                *)
XferQuiet ==
    /\ Up /\ pc = "xfer"
    /\ ~xvisible \/ (xmanaged /\ XRunning)
    /\ ~(xvisible /\ req = "xask" /\ xmode = "normal")
    /\ ~(xvisible /\ req = "xforce" /\ xmode = "end_asked")
    /\ To("end") /\ Untold
    /\ IF xvisible THEN SetRefresh(xrefresh) ELSE UNCHANGED redirect
    /\ UNCHANGED <<select, landing, req, posted, acted, page, presses>>

PressXferStop ==
    /\ Up /\ pc = "xfer" /\ xvisible /\ xmanaged /\ XRunning
    /\ \/ req = "xask" /\ xmode = "normal" /\ xmode' = "end_asked"
       \/ req = "xforce" /\ xmode = "end_asked" /\ xmode' = "end_forced"
    /\ To("end") /\ Tell({"other"}) /\ acted' = TRUE
    /\ SetRefresh(xrefresh)
    /\ UNCHANGED <<select, host, form_of_repo, reached, value, browsed, xvisible,
                   xrefresh, xmanaged, xjob, req, posted, page, presses>>

(* The thread has ended: the popup closes and the path is browsed in the     *)
(* repository the landing holds, the former one if the thread has failed,    *)
(* and a bug if there is none. The error comes next.                         *)
XferEnd ==
    /\ Up /\ pc = "xfer" /\ xvisible /\ xmanaged /\ xthread \in {"ended", "failed"}
    /\ xmanaged' = FALSE /\ xmode' = "closed" /\ xthread' = "off"
    /\ xvisible' = FALSE /\ xrefresh' = FALSE
    /\ IF libdar_entrep = null
       THEN Bug("null") /\ UNCHANGED <<select, given, browsed, redirect, page>>
       ELSE /\ Browse(libdar_entrep)
            /\ IF xthread = "failed"
               THEN /\ pc' = "idle" /\ UNCHANGED <<status, redirect>>
                    /\ page' = Page("error", {"ack"}, FALSE, "", FALSE)
               ELSE To("end") /\ SetRefresh(FALSE) /\ UNCHANGED page
    /\ Tell({"other", "popup"})
    /\ UNCHANGED <<host, form_of_repo, entrep, entrepot_changed, libdar_entrep, value,
                   read, refused, req, posted, acted, presses>>

-----------------------------------------------------------------------------
(* The thread: html_entrepot_landing::inherited_run, html_entrepot's one.    *)
XJob == <<select, host, repo, value, browsed, given, xpopup, server>>

XBegin ==
    /\ Up /\ xthread = "start"
    /\ IF entrep = null \/ need_update
       THEN xthread' = "connect" /\ read' = repo
       ELSE xthread' = "built" /\ UNCHANGED read
    /\ UNCHANGED <<XJob, need_update, entrep, entrepot_changed, libdar_entrep,
                   refused>>

XConnect ==
    /\ Up /\ xthread = "connect"
    /\ entrep' = read
    /\ xthread' = "built"
    /\ UNCHANGED <<XJob, need_update, entrepot_changed, libdar_entrep, read, refused>>

XFail ==
    /\ Up /\ xthread = "connect"
    /\ xthread' = "failed" /\ refused' = TRUE
    /\ UNCHANGED <<XJob, need_update, entrep, entrepot_changed, libdar_entrep, read>>

XEnd ==
    /\ Up /\ xthread = "built"
    /\ need_update' = FALSE
    /\ libdar_entrep' = entrep /\ entrepot_changed' = FALSE
    /\ xthread' = "ended"
    /\ UNCHANGED <<XJob, entrep, read, refused>>

-----------------------------------------------------------------------------
LandingRound ==
    \/ \E how \in {"type", "host"} : PostRepository(how)
    \/ RepositoryQuiet \/ PlusQuiet \/ PressPlus \/ PressPlusUpdates
    \/ Select \/ Cancel
    \/ XferQuiet \/ PressXferStop \/ XferEnd

LandingThread == XBegin \/ XConnect \/ XFail \/ XEnd

(* The buttons not covered by a popup.                                       *)
Buttons ==
    IF visible THEN PopupButtons
    ELSE IF xvisible
    THEN IF xmode = "normal" THEN {"xask"} ELSE IF xmode = "end_asked" THEN {"xforce"} ELSE {}
    ELSE {"plus"} \cup (IF host = "landing" THEN {"type", "host"} ELSE {})
=============================================================================
