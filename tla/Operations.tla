----------------------------- MODULE Operations -----------------------------
(* The pages of the operations of a session (saisie, html_menu,              *)
(* html_archive_read, html_archive_create, _merge, _isolate, _repair): the   *)
(* menu selects the operation, its page holds the repository where a backup  *)
(* is read or written and the path in it, a thread reaches the repository    *)
(* when it has changed, and the button of the page launches the operation,   *)
(* whose own thread fetches its parameters from the page.                    *)
(*                                                                           *)
(* Any button may be pressed at any time: it can be on a former page or in   *)
(* another window of the browser. A repository is a number.                  *)
EXTENDS Rounds, Sequences

CONSTANTS
    Tags,       \* the entries of the menu
    Readers,    \* the operations that read an existing backup
    Writers,    \* those whose page holds the repository of the backup they write
    Local,      \* the file system of the server
    Repos,      \* descriptions of repositories
    Defaults    \* those the configurations named default may hold

ASSUME OperationsAssumption ==
    /\ {"main", "biblio", "sessions", "close"} \subseteq Tags
    /\ (Readers \cup Writers) \subseteq Tags
    /\ Readers \subseteq
         {"test", "compare", "restore", "list", "isolate", "merge", "repair"}
    /\ Writers \subseteq {"create", "isolate", "merge", "repair"}
    /\ Writers \ {"create"} \subseteq Readers
    /\ Local \in Repos /\ Defaults \subseteq Repos

VARIABLES
    tag, previous,   \* html_menu: current_mode, previous_mode
    section,         \* the active section of select (html_aiguille)
    readShown,       \* html_archive_read is visible
    box,             \* html_yes_no_box is visible
    todo,            \* saisie::status
    holders,         \* html_archive_read, and the page of each writer
    back,            \* html_page::redirect: the URL the page is reloaded under
    job, op, asks    \* the thread of the operation: what it does and still asks

menu == <<tag, previous, section, readShown>>
operation == <<job, op, asks>>
vars == <<server, menu, box, todo, holders, back, operation>>

Holders == {"read"} \cup Writers
Operations == Readers \cup Writers

Shown(h) == IF h = "read" THEN readShown ELSE section = h

Posts ==
    {<<"repo", h>> : h \in Holders} \cup {<<"load", "">>, <<"answer", "yes">>, <<"answer", "no">>}

AllButtons ==
    {<<"menu", t>> : t \in Tags} \cup {<<"go", o>> : o \in Operations}
        \cup {<<"finish", "read">>} \cup Posts

(* A page is built with the configuration named default, which is described  *)
(* anew and told, or with a cleared one, which browses the local files.      *)
Holder(configured, r) ==
    [repo |-> r,             \* what the form of html_entrepot describes
     obsolete |-> TRUE,      \* html_entrepot::entrep_need_update
     entrep |-> Local, given |-> Local,  \* its object, and the one of the path
     need |-> configured,    \* need_entrepot_update
     managed |-> FALSE,      \* the popup shows
     thread |-> "off", target |-> Local,  \* the thread, what it has read, ...
     lost |-> FALSE]         \* ... and if the last one failed or missed a change

Init ==
    /\ pc = "idle" /\ req = <<"get", "">> /\ posted = FALSE /\ acted = FALSE
    /\ changed = {} /\ redirect = FALSE /\ presses = 0 /\ status = "up"
    /\ page = Page("form", {}, FALSE, "", FALSE)
    /\ tag = "main" /\ previous = "main" /\ section = "main" /\ readShown = FALSE
    /\ box = FALSE /\ todo = "idle" /\ back = <<"get", "">>
    /\ \E S \in SUBSET Holders : \E default \in [S -> Defaults] :
          holders = [h \in Holders |-> IF h \in S THEN Holder(TRUE, default[h])
                                                  ELSE Holder(FALSE, Local)]
    /\ job = "off" /\ op = "idle" /\ asks = <<>>

-----------------------------------------------------------------------------
(* html_menu::set_current_mode and what saisie does of it: while the closing *)
(* is asked, the page of before remains, but not the backup to read, which   *)
(* only the page to restore keeps.                                           *)
SetMode(t) ==
    IF t = tag THEN UNCHANGED menu
    ELSE LET use == IF t = "close" THEN tag ELSE t
         IN  /\ tag' = t /\ previous' = tag
             /\ section' = use
             /\ readShown' = (use = "restore" \/ t \in Readers)

NoRedirect == SetRefresh(FALSE) /\ back' = <<"get", "">>

Same == UNCHANGED <<req, posted, acted, redirect, back, page, presses>>

(* A round of saisie. The status of the last operation is forgotten.         *)
Start ==
    /\ Up /\ pc = "start"
    /\ todo' = "idle"
    /\ box' = (box \/ tag = "close")
    /\ IF tag = "close" /\ ~box THEN Tell({"page"}) ELSE Untold
    /\ To("menu") /\ Same
    /\ UNCHANGED <<menu, holders, operation>>

(* The entries of the menu, that the URL designates in every round.          *)
Menu ==
    /\ Up /\ pc = "menu"
    /\ IF \E t \in Tags \ {tag} : req = <<"menu", t>>
       THEN SetMode(req[2]) /\ Tell({"page"})
       ELSE UNCHANGED menu /\ Untold
    /\ To("read") /\ Same
    /\ UNCHANGED <<box, todo, holders, operation>>

-----------------------------------------------------------------------------
(* The repository of h is described again.                                   *)
Described(hold, r) == [hold EXCEPT !.repo = r, !.obsolete = TRUE, !.need = TRUE]

Running(h) == holders[h].thread \in {"start", "connect", "built"}

After(h) == IF h = "read" THEN "readpop" ELSE "pagepop"

HolderStage(h) == pc = (IF h = "read" THEN "read" ELSE "page") /\ Shown(h)

(* A page whose repository has changed has it reached first. It expects that *)
(* its thread has ended, and the page of a writer that its popup has seen    *)
(* it: html_archive_read first clears its own, which joins what has ended.   *)
Free(h) == IF h = "read" THEN holders[h].thread \in {"off", "ended"}
                         ELSE ~holders[h].managed

UpdateEntrepot(h) ==
    /\ Up /\ HolderStage(h) /\ holders[h].need /\ Free(h)
    /\ holders' = [holders EXCEPT ![h].need = FALSE, ![h].managed = TRUE,
                                  ![h].thread = "start"]
    /\ UNCHANGED <<pc, status>> /\ Tell({"page"}) /\ Same
    /\ UNCHANGED <<menu, box, todo, operation>>

(* The error that clear() then meets replaces the page; the popup stays, and *)
(* the repository is still to reach.                                         *)
UpdateFails ==
    /\ Up /\ HolderStage("read") /\ holders["read"].need
    /\ holders["read"].thread = "failed"
    /\ holders' = [holders EXCEPT !["read"].thread = "off"]
    /\ pc' = "idle" /\ page' = Page("error", {}, FALSE, "", FALSE)
    /\ Tell({"page"})
    /\ UNCHANGED <<req, posted, acted, redirect, back, presses, status, menu, box, todo,
                   operation>>

UpdateMeetsThread(h) ==
    /\ Up /\ HolderStage(h) /\ holders[h].need /\ ~Free(h)
    /\ h = "read" => Running(h)
    /\ Bug(IF Running(h) THEN "busy" ELSE "managed")
    /\ Tell({"page"}) /\ Same
    /\ UNCHANGED <<menu, box, todo, holders, operation>>

(* The form of the repository is posted: the page of the backup to read      *)
(* does not expect it while its thread is at work.                           *)
PostRepository(h) ==
    /\ Up /\ HolderStage(h) /\ ~holders[h].need
    /\ Submitted(<<"repo", h>>) /\ posted' = FALSE
    /\ IF h = "read" /\ Running(h)
       THEN Bug("running") /\ UNCHANGED holders
       ELSE /\ \E r \in Repos \ {holders[h].repo} :
                  holders' = [holders EXCEPT ![h] = Described(@, r)]
            /\ To(After(h))
    /\ Tell({"page"})
    /\ UNCHANGED <<req, acted, redirect, back, page, presses, menu, box, todo, operation>>

HolderQuiet(h) ==
    /\ Up /\ HolderStage(h) /\ ~holders[h].need /\ ~Submitted(<<"repo", h>>)
    /\ To(After(h)) /\ Untold /\ Same
    /\ UNCHANGED <<menu, box, todo, holders, operation>>

(* The popup: the page reloads itself under the same URL while the thread    *)
(* works, ...                                                                *)
PopupStage(h) == pc = After(h) /\ Shown(h) /\ holders[h].managed

Following(stage) == IF stage \in {"read", "readpop"} THEN "page" ELSE "biblio"

PopupWaits(h) ==
    /\ Up /\ PopupStage(h) /\ Running(h)
    /\ SetRefresh(TRUE) /\ back' = req
    /\ To(Following(pc)) /\ Untold
    /\ UNCHANGED <<req, posted, acted, page, presses, menu, box, todo, holders, operation>>

(* ... it closes when it has ended, ...                                      *)
PopupEnds(h) ==
    /\ Up /\ PopupStage(h) /\ holders[h].thread = "ended"
    /\ holders' = [holders EXCEPT ![h].managed = FALSE, ![h].thread = "off"]
    /\ NoRedirect
    /\ To(Following(pc)) /\ Tell({"page"})
    /\ UNCHANGED <<req, posted, acted, page, presses, menu, box, todo, operation>>

(* ... and the error it ended with replaces the page, whose redirection      *)
(* stays; that of html_archive_read, hidden unless interrupted, stays too,   *)
(* with its button Close, ...                                                *)
PopupFails(h) ==
    /\ Up /\ PopupStage(h) /\ holders[h].thread = "failed"
    /\ holders' = [holders EXCEPT ![h].managed = (h = "read"), ![h].thread = "off"]
    /\ pc' = "idle" /\ page' = Page("error", {}, FALSE, "", FALSE)
    /\ Tell({"page"})
    /\ UNCHANGED <<req, posted, acted, redirect, back, presses, status, menu, box, todo,
                   operation>>

(* ... and its next evaluation clears the redirection.                       *)
PopupStays ==
    /\ Up /\ PopupStage("read") /\ holders["read"].thread = "off"
    /\ NoRedirect
    /\ IF Pressed(<<"finish", "read">>)
       THEN /\ holders' = [holders EXCEPT !["read"].managed = FALSE]
            /\ acted' = TRUE /\ Tell({"page"})
       ELSE UNCHANGED <<holders, acted>> /\ Untold
    /\ To(Following(pc))
    /\ UNCHANGED <<req, posted, page, presses, menu, box, todo, operation>>

(* What is not in the page is not evaluated.                                 *)
Hidden ==
    /\ Up
    /\ \/ pc = "read" /\ ~readShown
       \/ pc = "readpop" /\ ~(readShown /\ holders["read"].managed)
       \/ pc = "page" /\ section \notin Writers
       \/ pc = "pagepop" /\ ~holders[section].managed
    /\ To(Following(pc)) /\ Untold /\ Same
    /\ UNCHANGED <<menu, box, todo, holders, operation>>

(* Mutant: the hidden pages are not told that a configuration has changed.   *)
DescribedIfShown(h, r) ==
    IF Shown(h) THEN Described(holders[h], r) ELSE [holders[h] EXCEPT !.repo = r]

Changed(h, r) == Described(holders[h], r)

(* A configuration of the library is changed, and so is the repository of    *)
(* the pages that follow it, though they are hidden.                         *)
Biblio ==
    /\ Up /\ pc = "biblio"
    /\ IF section = "biblio" /\ Submitted(<<"load", "">>)
       THEN /\ posted' = FALSE /\ Tell({"page"})
            /\ \E h \in Holders :
                  IF h = "read" /\ Running(h)
                  THEN Bug("running") /\ UNCHANGED holders
                  ELSE /\ \E r \in Repos \ {holders[h].repo} :
                             holders' = [holders EXCEPT ![h] = Changed(h, r)]
                       /\ To("go")
       ELSE UNCHANGED <<posted, holders>> /\ Untold /\ To("go")
    /\ UNCHANGED <<req, acted, redirect, back, page, presses, menu, box, todo, operation>>

-----------------------------------------------------------------------------
(* The getters the thread of each operation calls, in its order              *)
(* (inherited_run of each), and when saisie answers them.                    *)
CreateAsks == <<"path", "basename", "fs_root", "create">>
TestAsks == <<"path", "basename", "read", "test">>
CompareAsks == <<"path", "basename", "fs_root", "read", "compare">>
RestoreAsks == <<"path", "fs_root", "basename", "restore", "read">>
ListAsks == <<"path", "basename", "read">>
IsolateAsks == <<"path", "basename", "read", "isolate">>
MergeAsks == <<"path", "basename", "read", "merge">>
RepairAsks == <<"path", "basename", "read", "repair">>

Asks ==
    [create |-> CreateAsks, test |-> TestAsks, compare |-> CompareAsks,
     restore |-> RestoreAsks, list |-> ListAsks, isolate |-> IsolateAsks,
     merge |-> MergeAsks, repair |-> RepairAsks]

Getters == {"path", "basename", "fs_root", "read"} \cup DOMAIN Asks

Answered(getter) ==
    \/ getter \in {"path", "basename"} /\ todo # "idle"
    \/ getter = "fs_root" /\ todo \in {"restore", "compare", "create"}
    \/ getter = "read" /\ todo \in Readers
    \/ getter = "repair"
    \/ getter = todo

(* The session launches the thread of the operation (go_test and others).    *)
Go(o) == job' = "start" /\ op' = o /\ asks' = Asks[o]

(* The button of the page: saisie keeps what is launched and has it launched.*)
Launch ==
    /\ Up /\ pc = "go"
    /\ IF section \in Operations /\ Pressed(<<"go", section>>)
       THEN todo' = section /\ acted' = TRUE /\ Go(section)
       ELSE UNCHANGED <<todo, acted, operation>>
    /\ To("close") /\ Untold
    /\ UNCHANGED <<req, posted, redirect, back, page, presses, menu, box, holders>>

(* The question: yes closes the session, no selects the entry of before.     *)
Answer ==
    /\ Up /\ pc = "close"
    /\ IF box /\ (Submitted(<<"answer", "yes">>) \/ Submitted(<<"answer", "no">>))
       THEN /\ box' = FALSE /\ posted' = FALSE /\ Tell({"page"})
            /\ IF req[2] = "yes" THEN Bug("closed") /\ UNCHANGED menu
                                 ELSE To("end") /\ SetMode(previous)
       ELSE UNCHANGED <<box, posted, menu>> /\ Untold /\ To("end")
    /\ UNCHANGED <<req, acted, redirect, back, page, presses, todo, holders, operation>>

(* Mutant: nothing is ignored at the end of the round that launches.         *)
NeverIgnored == FALSE

(* ignore_body_changed_from_my_children: no other round follows.             *)
Ignored == tag = "sessions" \/ todo # "idle"

NextRound ==
    /\ Up /\ pc = "end" /\ changed # {} /\ ~Ignored
    /\ pc' = "start" /\ changed' = {} /\ posted' = FALSE
    /\ UNCHANGED <<req, acted, redirect, back, page, presses, status, menu, box, todo, holders,
                   operation>>

(* The page is sent: the one of the operation if there is one.               *)
Send ==
    /\ Up /\ pc = "end" /\ (changed = {} \/ Ignored)
    /\ pc' = "idle" /\ posted' = FALSE /\ acted' = FALSE /\ changed' = {}
    /\ IF tag = "sessions"
       THEN SetMode(previous) /\ NoRedirect
       ELSE UNCHANGED <<menu, redirect, back>>
    /\ page' = IF job # "off" THEN Page("running", {}, TRUE, "", FALSE)
               ELSE IF tag = "sessions" THEN Page("sessions", {}, FALSE, "", FALSE)
               ELSE Page("form", {}, redirect, "", FALSE)
    /\ UNCHANGED <<req, presses, status, box, todo, holders, operation>>

Build ==
    \/ Start \/ Menu
    \/ \E h \in Holders :
          UpdateEntrepot(h) \/ UpdateMeetsThread(h) \/ PostRepository(h) \/ HolderQuiet(h)
          \/ PopupWaits(h) \/ PopupEnds(h) \/ PopupFails(h)
    \/ UpdateFails \/ PopupStays \/ Hidden \/ Biblio \/ Launch \/ Answer \/ NextRound \/ Send

-----------------------------------------------------------------------------
(* The thread of a page: html_entrepot::get_entrepot, whose object is given  *)
(* to the path that is browsed.                                              *)
ThreadAt(h, stage) == Up /\ holders[h].thread = stage

Work(h, hold) ==
    /\ holders' = [holders EXCEPT ![h] = hold]
    /\ UNCHANGED <<server, menu, box, todo, back, operation>>

ThreadBegin(h) ==
    /\ ThreadAt(h, "start")
    /\ Work(h, IF holders[h].obsolete
               THEN [holders[h] EXCEPT !.thread = "connect", !.target = holders[h].repo]
               ELSE [holders[h] EXCEPT !.thread = "built"])

ThreadConnect(h) ==
    /\ ThreadAt(h, "connect")
    /\ Work(h, [holders[h] EXCEPT !.thread = "built", !.entrep = holders[h].target,
                                  !.target = Local])

ThreadFail(h) ==
    /\ ThreadAt(h, "connect") /\ holders[h].target # Local
    /\ Work(h, [holders[h] EXCEPT !.thread = "failed", !.lost = TRUE, !.target = Local])

(* A description changed since it was read is forgotten.                     *)
ThreadEnd(h) ==
    /\ ThreadAt(h, "built")
    /\ Work(h, [holders[h] EXCEPT !.thread = "ended", !.obsolete = FALSE,
                                  !.given = holders[h].entrep,
                                  !.lost = (holders[h].repo # holders[h].entrep)])

Thread(h) == ThreadBegin(h) \/ ThreadConnect(h) \/ ThreadFail(h) \/ ThreadEnd(h)

(* The thread of the operation.                                              *)
Ask ==
    /\ Up /\ job = "start" /\ asks # <<>>
    /\ IF Answered(Head(asks)) THEN asks' = Tail(asks) /\ UNCHANGED job
                               ELSE job' = "bug" /\ UNCHANGED asks
    /\ UNCHANGED <<server, menu, box, todo, holders, back, op>>

Operate ==
    /\ Up /\ job = "start" /\ asks = <<>>
    /\ job' = "ended"
    /\ UNCHANGED <<server, menu, box, todo, holders, back, op, asks>>

Job == Ask \/ Operate

-----------------------------------------------------------------------------
Receive(r, isPost) ==
    /\ Up /\ pc = "idle"
    /\ req' = r /\ posted' = isPost /\ acted' = FALSE
    /\ pc' = "start" /\ changed' = {}
    /\ UNCHANGED <<redirect, back, page, status, menu, box, todo, holders>>

(* The user presses a button of this page or of a former one.                *)
Press(b) ==
    /\ presses < MaxPresses /\ presses' = presses + 1
    /\ page.kind \in {"form", "sessions"}
    /\ Receive(b, b \in Posts)
    /\ UNCHANGED operation

Reload ==
    /\ page.kind = "form" /\ Receive(req, FALSE)
    /\ UNCHANGED <<presses, operation>>

(* The browser reloads the page, as its redirection tells.                   *)
Redirected ==
    /\ page.kind = "form" /\ page.refresh /\ Receive(back, FALSE)
    /\ UNCHANGED <<presses, operation>>

Acknowledge ==
    /\ page.kind = "error" /\ Receive(<<"get", "">>, FALSE)
    /\ UNCHANGED <<presses, operation>>

(* The page of the operation shows that it has ended (see LibdarControl).    *)
Leave ==
    /\ page.kind = "running" /\ job = "ended"
    /\ Receive(<<"get", "">>, FALSE)
    /\ job' = "off" /\ op' = "idle" /\ UNCHANGED <<asks, presses>>

Over == (~Up \/ presses = MaxPresses) /\ UNCHANGED vars

Next ==
    \/ \E b \in AllButtons : Press(b)
    \/ Reload \/ Redirected \/ Acknowledge \/ Leave
    \/ Build
    \/ \E h \in Holders : Thread(h)
    \/ Job \/ Over

Spec == Init /\ [][Next]_vars

(* The threads are scheduled and libdar comes back; the browser reloads the  *)
(* page when it was told to, the user leaves those of an error or of an      *)
(* operation that has ended.                                                 *)
Fairness ==
    /\ WF_vars(Build) /\ WF_vars(Job)
    /\ \A h \in Holders : WF_vars(Thread(h))
    /\ WF_vars(Redirected) /\ WF_vars(Acknowledge) /\ WF_vars(Leave)

FairSpec == Spec /\ Fairness

-----------------------------------------------------------------------------
(* Type correctness; the status names the check that was met.                *)
HolderType ==
    [repo : Repos, obsolete : BOOLEAN, entrep : Repos, given : Repos, need : BOOLEAN,
     managed : BOOLEAN, thread : {"off", "start", "connect", "built", "ended", "failed"},
     target : Repos, lost : BOOLEAN]

TypeOK ==
    /\ pc \in {"idle", "start", "menu", "read", "readpop", "page", "pagepop", "biblio",
               "go", "close", "end"}
    /\ tag \in Tags /\ previous \in Tags /\ section \in Tags
    /\ readShown \in BOOLEAN /\ box \in BOOLEAN
    /\ posted \in BOOLEAN /\ acted \in BOOLEAN /\ redirect \in BOOLEAN
    /\ changed \subseteq {"page"}
    /\ holders \in [Holders -> HolderType]
    /\ todo \in Operations \cup {"idle"} /\ op \in Operations \cup {"idle"}
    /\ job \in {"off", "start", "ended", "bug"}
    /\ asks \in Seq(Getters)
    /\ status \in {"up", "closed", "busy", "managed", "running"}

(* The thread of an operation finds the parameters of this operation, which  *)
(* it fetches while the server thread ends the round that launched it:       *)
(* another round would have reset the status (saisie.cpp,                    *)
(* ignore_body_changed_from_my_children, WEBDAR_BUG of the getters).         *)
OperationFindsItsParameters == job # "bug"

AtRest == Up /\ pc = "idle" /\ page.kind = "form"

(* The path on a page at rest is the one of the repository the page shows,   *)
(* also when it was changed while the page was hidden, unless the thread     *)
(* that had to reach it failed or missed the change                          *)
(* (html_archive_create.cpp, need_entrepot_update).                          *)
PathsBrowseTheRepository ==
    AtRest => \A h \in Holders :
        Shown(h) /\ ~Running(h) /\ ~holders[h].lost
            => holders[h].given = holders[h].repo

(* The page reloads itself only while a thread is watched: set by a popup    *)
(* that is then hidden, the redirection would outlive it                     *)
(* (html_libdar_running_popup.cpp, html_page::set_refresh_redirection). The  *)
(* error of a thread leaves it set.                                          *)
ReloadsWhileWaiting ==
    AtRest /\ page.refresh =>
        \E h \in Holders : holders[h].thread # "off" \/ holders[h].lost

(* A page that waits for a repository to be reached ends waiting, or is left,*)
(* and does not go on reloading itself afterwards                            *)
(* (html_libdar_running_popup.cpp, enable_refresh).                          *)
Waiting(h) == holders[h].thread # "off" /\ Shown(h)

WaitingEnds ==
    /\ []ReloadsWhileWaiting
    /\ \A h \in Holders :
          Waiting(h) ~> (~Waiting(h) \/ ~Up \/ page.kind = "sessions")

=============================================================================
