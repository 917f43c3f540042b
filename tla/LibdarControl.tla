---------------------------- MODULE LibdarControl ----------------------------
(* A libdar operation run from a session: the modes of the session (class    *)
(* user_interface), the component that runs, watches and stops the libdar    *)
(* thread (html_web_user_interaction) with the page that holds it            *)
(* (html_libdar_running_page), the questions of that thread                  *)
(* (web_user_interaction), the archive left open for listing                 *)
(* (archive_init_list) and the browser of the user.                          *)
(*                                                                           *)
(* The server thread builds a page in rounds, until nothing changes any      *)
(* more. One round of the running page takes the mutex all_threads_pending   *)
(* for three steps: Update (the questions), Watch (the thread) and a step of *)
(* the children (the buttons, the form). The libdar thread runs at the same  *)
(* time, and only its call to clear() takes that mutex.                      *)
(*                                                                           *)
(* Listing and summary are one mode here, as are the eight operations other  *)
(* than opening an archive; get_string and get_secu_string are one kind.     *)
EXTENDS Naturals

CONSTANT MaxFailures   \* bound: the pages whose building may fail

ASSUME FailuresAssumption == MaxFailures \in Nat

VARIABLES
    mode, return_mode, current,   \* user_interface (current: current_thread)
    hmode, autohide, was_interrupted, managed,  \* html_web_user_interaction
    shown,           \* the questions visible in the form (h_inter, h_gtstr_fs)
    form,            \* h_form is visible
    value_set,       \* the fields that ignore the POST being processed
    enable_refresh,  \* html_libdar_running_page
    asked, answered, \* the question pending in web_user_interaction
    thread,          \* the libdar thread
    stop,            \* the cancellation it was sent
    opened,          \* archive_init_list holds an open archive (ptr)
    pc, req, changed,   \* the server thread: step, request, body_changed
    page,            \* what the browser last received
    displayed,       \* history: the pending question has been on such a page
    failures,        \* the pages that failed so far
    status

ui == <<mode, return_mode, current>>
web == <<hmode, autohide, was_interrupted, managed>>
box == <<shown, form, value_set, enable_refresh>>
question == <<asked, answered>>
job == <<thread, stop, opened>>
server == <<pc, req, changed>>
seen == <<page, displayed, failures, status>>

vars == <<ui, web, box, question, job, server, seen>>

Kinds == {"pause", "get_string"}

Jobs == {"test", "open"}   \* open: for listing or summary

Requests == Kinds \cup Jobs \cup {"get", "ask_close", "force_close", "finish",
                                  "acknowledge", "close"}

Running == {"opening", "running"}

Modes == Running \cup {"config", "listing", "error"}

ThreadStates == {"off", "start", "working", "asking", "ended", "failed", "bug"}

Init ==
    /\ mode = "config" /\ return_mode = "config" /\ current = "none"
    /\ hmode = "normal" /\ managed = "none"
    /\ autohide = FALSE /\ was_interrupted = FALSE
    /\ shown = {} /\ form = FALSE /\ value_set = {} /\ enable_refresh = TRUE
    /\ asked = "none" /\ answered = FALSE
    /\ thread = "off" /\ stop = "none" /\ opened = FALSE
    /\ pc = "idle" /\ req = "get" /\ changed = FALSE
    /\ page = [mode |-> "config", shown |-> {}, refresh |-> FALSE, finish |-> FALSE]
    /\ displayed = FALSE /\ failures = 0 /\ status = "up"

-----------------------------------------------------------------------------
Up == status = "up"

IsRunning == thread \in {"start", "working", "asking"}

(* The condition all_threads_pending is held by the server thread.           *)
Locked == pc \in {"watch", "children"}

(* A thread object that was given to this session and could not be run.      *)
Refused == managed # "none" /\ thread = "off"

Pending == IF asked # "none" /\ ~answered THEN {asked} ELSE {}

(* The server thread ends with a bug exception: the process goes down.       *)
Bug(kind) ==
    /\ status' = kind
    /\ UNCHANGED <<ui, web, box, question, job, server, page, displayed, failures>>

-----------------------------------------------------------------------------
(* The browser sends a request, maybe twice or from an old page.             *)
Receive(r) ==
    /\ Up /\ pc = "idle"
    /\ pc' = "eval"
    /\ req' = r
    /\ UNCHANGED <<changed, ui, web, box, question, job, seen>>

(* The page is complete and is sent.                                         *)
Send ==
    LET running == mode \in Running
    IN  /\ Up /\ pc = "send"
        /\ page' = [mode    |-> mode,
                    shown   |-> IF running THEN shown ELSE {},
                    refresh |-> running /\ enable_refresh,
                    finish  |-> running /\ hmode = "finished"]
        /\ displayed' = (displayed \/ (running /\ asked \in shown))
        /\ pc' = "idle"
        /\ req' = "get"
        /\ UNCHANGED <<changed, ui, web, box, question, job, failures, status>>

ToError == return_mode' = mode /\ mode' = "error"

(* Building a page may fail, for lack of memory: the error page comes        *)
(* instead. If that one fails the server thread ends, and another connection *)
(* takes the session.                                                        *)
PageFails ==
    /\ Up /\ pc = "eval"
    /\ failures < MaxFailures
    /\ failures' = failures + 1
    /\ IF mode = "error"
       THEN pc' = "idle" /\ UNCHANGED <<mode, return_mode>>
       ELSE ToError /\ UNCHANGED pc
    /\ UNCHANGED <<current, web, box, question, job, req, changed, page,
                   displayed, status>>

(* Nothing on the page reacts to the request.                                *)
NoReaction ==
    /\ Up /\ pc = "eval"
    /\ \/ mode = "config" /\ req \notin Jobs
       \/ mode = "listing" /\ req # "close"
       \/ mode = "error" /\ req # "acknowledge"
    /\ pc' = "send"
    /\ UNCHANGED <<req, changed, ui, web, box, question, job, seen>>

AfterError == mode' = IF return_mode = "listing" THEN "config" ELSE return_mode

Acknowledge ==
    /\ Up /\ pc = "eval" /\ mode = "error" /\ req = "acknowledge"
    /\ AfterError
    /\ req' = "get"
    /\ UNCHANGED <<return_mode, current, web, box, question, job, pc, changed, seen>>

CloseListing ==
    /\ Up /\ pc = "eval" /\ mode = "listing" /\ req = "close"
    /\ opened' = FALSE
    /\ mode' = "config"
    /\ req' = "get"
    /\ UNCHANGED <<return_mode, current, web, box, question, thread, stop, pc,
                   changed, seen>>

-----------------------------------------------------------------------------
(* clear(), run by the server thread before an operation: the component is   *)
(* shown again, in its normal mode; becoming visible asks for the refresh.   *)
ClearForm ==
    /\ asked' = "none" /\ answered' = FALSE
    /\ shown' = {} /\ form' = FALSE /\ UNCHANGED value_set

(* Mutant: the refresh, stopped at the end of the operation before, is not   *)
(* asked for again.                                                          *)
ShowQuietly ==
    /\ hmode' = "normal"
    /\ was_interrupted' = (hmode = "normal" /\ was_interrupted)
    /\ UNCHANGED enable_refresh

BackToNormal ==
    /\ hmode' = "normal"
    /\ was_interrupted' = (hmode = "normal" /\ was_interrupted)
    /\ enable_refresh' = (hmode = "closed" \/ enable_refresh)

(* The user starts operation j: on_event, then go_*, then                    *)
(* run_and_control_thread. When the thread cannot be run the exception leads *)
(* to the error page, and what was recorded of the thread remains.           *)
Launch(j) ==
    /\ Up /\ pc = "eval" /\ mode = "config" /\ req = j
    /\ managed = "none" /\ current = "none"
    /\ ClearForm
    /\ BackToNormal
    /\ managed' = j /\ current' = j
    /\ \/ /\ mode' = IF j = "open" THEN "opening" ELSE "running"
          /\ thread' = "start"
          /\ stop' = "none"
          /\ UNCHANGED return_mode
       \/ /\ mode' = "error" /\ return_mode' = "config"
          /\ UNCHANGED <<thread, stop>>
    /\ req' = "get"
    /\ UNCHANGED <<autohide, opened, pc, changed, seen>>

(* The next operation after a thread could not be run: clear() takes that    *)
(* thread for one that ended. Without autohide the check of current_thread   *)
(* fails; with it the mode goes back to config, or to listing, whose source  *)
(* must be open, while the new thread is being run.                          *)
LaunchAgain(j) ==
    /\ pc = "eval" /\ mode = "config" /\ req = j /\ Up
    /\ managed # "none" \/ current # "none"
    /\ Bug(IF autohide /\ ~was_interrupted /\ (j = "open" => opened)
           THEN "unwatched" ELSE "bug")

-----------------------------------------------------------------------------
(* Mutant: a page being filled in is refreshed as any other.                 *)
KeepRefreshing ==
    /\ form' = (shown' # {})
    /\ UNCHANGED enable_refresh

(* adjust_visibility: the page is not refreshed while a form is filled in.   *)
AdjustVisibility ==
    /\ form' = (shown' # {})
    /\ enable_refresh' =
           CASE shown' # {} /\ ~form -> FALSE
             [] shown' = {} /\ form /\ hmode \notin {"finished", "closed"} -> TRUE
             [] OTHER -> enable_refresh

(* Mutant: a field that has just been set takes the POST of another page.    *)
ShowUnlocked ==
    /\ shown' = shown \cup Pending
    /\ UNCHANGED value_set

(* A question not shown yet is, in fields that ignore the current POST.      *)
ShowQuestions ==
    /\ shown' = shown \cup Pending
    /\ value_set' = value_set \cup (Pending \ shown)

(* update_html_from_libdar_status.                                           *)
Update ==
    /\ Up /\ pc = "eval" /\ mode \in Running
    /\ ShowQuestions
    /\ AdjustVisibility
    /\ changed' = (shown' # shown \/ form' # form)
    /\ pc' = "watch"
    /\ UNCHANGED <<req, ui, web, question, job, seen>>

(* Mutant: current_thread is kept.                                           *)
FinishedKeepsThread ==
    LET listed == mode = "opening" /\ ~was_interrupted
    IN  /\ mode' = IF listed THEN "listing" ELSE "config"
        /\ opened' = (opened /\ (listed \/ mode = "running"))
        /\ UNCHANGED <<current, return_mode>>

(* Mutant: an interrupted opening is listed too.                             *)
FinishedLists ==
    /\ mode' = IF mode = "opening" THEN "listing" ELSE "config"
    /\ current' = "none"
    /\ UNCHANGED <<return_mode, opened>>

(* user_interface, told that the operation is over: an archive that was      *)
(* opened without interruption is listed, another one is closed.             *)
LibdarHasFinished ==
    LET listed == mode = "opening" /\ ~was_interrupted
    IN  /\ mode' = IF listed THEN "listing" ELSE "config"
        /\ opened' = (opened /\ (listed \/ mode = "running"))
        /\ current' = "none"
        /\ UNCHANGED return_mode

(* update_controlled_thread_status, while the thread runs or after its end.  *)
WatchNothing ==
    /\ Up /\ pc = "watch"
    /\ managed = "none" \/ IsRunning
    /\ pc' = "children"
    /\ UNCHANGED <<req, changed, ui, web, box, question, job, seen>>

(* The thread ended well: the component waits to be closed or, with autohide *)
(* and if nobody interrupted the thread, closes at once.                     *)
WatchEnd ==
    /\ Up /\ pc = "watch" /\ managed # "none" /\ thread = "ended"
    /\ managed' = "none" /\ thread' = "off"
    /\ enable_refresh' = FALSE
    /\ IF ~autohide \/ was_interrupted
       THEN /\ hmode' = "finished"
            /\ changed' = TRUE
            /\ pc' = "children"
            /\ UNCHANGED <<ui, opened>>
       ELSE /\ hmode' = "closed"
            /\ LibdarHasFinished
            /\ pc' = "eval"
            /\ changed' = FALSE
    /\ stop' = "none"
    /\ UNCHANGED <<autohide, was_interrupted, shown, form, value_set, req, question,
                   seen>>

(* The thread ended with an exception, thrown again here: an error page, or  *)
(* the end of the server thread for a bug exception.                         *)
WatchFailure ==
    /\ Up /\ pc = "watch" /\ managed # "none" /\ thread \in {"failed", "bug"}
    /\ managed' = "none" /\ thread' = "off"
    /\ was_interrupted' = TRUE
    /\ hmode' = "finished"
    /\ enable_refresh' = FALSE
    /\ pc' = "eval"
    /\ changed' = FALSE
    /\ stop' = "none"
    /\ IF thread = "bug"
       THEN status' = "libdar_bug" /\ UNCHANGED <<mode, return_mode>>
       ELSE ToError /\ UNCHANGED status
    /\ UNCHANGED <<autohide, current, shown, form, value_set, req, question, opened,
                   page, displayed, failures>>

-----------------------------------------------------------------------------
(* The end of a round: another one if something changed. The POST is not     *)
(* processed twice.                                                          *)
NextRound(again) ==
    /\ value_set' = {}
    /\ changed' = FALSE
    /\ pc' = IF again THEN "eval" ELSE "send"
    /\ req' = IF req \in Kinds THEN "get" ELSE req

(* Nothing on the page reacts: an answer to a field that is not visible or   *)
(* has just been set, a button that is not visible.                          *)
ChildrenQuiet ==
    /\ Up /\ pc = "children"
    /\ req \notin shown \ value_set
    /\ ~(req = "ask_close" /\ hmode = "normal")
    /\ ~(req = "force_close" /\ hmode = "end_asked")
    /\ ~(req = "finish" /\ hmode = "finished")
    /\ NextRound(changed)
    /\ UNCHANGED <<ui, web, shown, form, enable_refresh, question, job, seen>>

(* on_event, for a field of the form: the answer wakes the libdar thread,    *)
(* which must have asked for it.                                             *)
GiveAnswer ==
    /\ Up /\ pc = "children" /\ req \in shown \ value_set
    /\ status' = IF req \in Pending THEN "up" ELSE "bug"
    /\ answered' = (answered \/ req \in Pending)
    /\ shown' = shown \ {req}
    /\ NextRound(TRUE)
    /\ UNCHANGED <<form, enable_refresh, asked, ui, web, job, page, displayed, failures>>

(* Mutant: the thread is not told.                                           *)
CancelNobody(kind) == UNCHANGED stop

(* clean_threads_termination.                                                *)
Cancel(kind) == stop' = IF managed # "none" /\ IsRunning THEN kind ELSE stop

PressAskClose ==
    /\ Up /\ pc = "children" /\ req = "ask_close" /\ hmode = "normal"
    /\ hmode' = "end_asked"
    /\ was_interrupted' = TRUE
    /\ Cancel("soft")
    /\ NextRound(TRUE)
    /\ UNCHANGED <<autohide, managed, shown, form, enable_refresh, ui,
                   question, thread, opened, seen>>

PressForceClose ==
    /\ Up /\ pc = "children" /\ req = "force_close" /\ hmode = "end_asked"
    /\ hmode' = "end_forced"
    /\ was_interrupted' = TRUE
    /\ Cancel("hard")
    /\ enable_refresh' = ~form
    /\ NextRound(TRUE)
    /\ UNCHANGED <<autohide, managed, shown, form, ui, question, thread,
                   opened, seen>>

PressFinish ==
    /\ Up /\ pc = "children" /\ req = "finish" /\ hmode = "finished"
    /\ hmode' = "closed"
    /\ enable_refresh' = FALSE
    /\ LibdarHasFinished
    /\ NextRound(TRUE)
    /\ UNCHANGED <<autohide, was_interrupted, managed, shown, form,
                   question, thread, stop, seen>>

-----------------------------------------------------------------------------
(* The libdar thread calls clear() first: if the user asked it to end        *)
(* already, leaving that mode fails because a thread is managed. The thread  *)
(* that opens an archive refuses to find one open.                           *)
Begin ==
    /\ Up /\ thread = "start" /\ ~Locked
    /\ IF managed = "open" /\ opened
       THEN thread' = "bug" /\ UNCHANGED <<question, shown, form, value_set,
                                           was_interrupted, autohide>>
       ELSE /\ ClearForm
            /\ thread' = IF hmode = "normal" THEN "working" ELSE "bug"
            /\ was_interrupted' = (hmode = "normal" /\ was_interrupted)
            /\ autohide' = (hmode # "normal" /\ autohide)
    /\ UNCHANGED <<enable_refresh, hmode, managed, stop, opened, ui, server, seen>>

(* The thread that opens an archive sets autohide once it has the options.   *)
OpenArchive ==
    /\ Up /\ thread = "working" /\ managed = "open" /\ ~autohide
    /\ autohide' = TRUE
    /\ UNCHANGED <<hmode, was_interrupted, managed, ui, box, question, job, server, seen>>

Ask(k) ==
    /\ Up /\ thread = "working"
    /\ thread' = "asking"
    /\ asked' = k
    /\ displayed' = FALSE
    /\ UNCHANGED <<answered, stop, opened, ui, web, box, server, page, failures, status>>

(* Back from control.wait(), with the answer. The wait is in no loop, and a  *)
(* return without an answer is a bug: like the code, the model counts on the *)
(* condition of libthreadar to return only once it was signaled.             *)
ReadAnswer ==
    /\ Up /\ thread = "asking" /\ answered
    /\ thread' = "working"
    /\ asked' = "none" /\ answered' = FALSE
    /\ displayed' = FALSE
    /\ UNCHANGED <<stop, opened, ui, web, box, server, page, failures, status>>

(* The thread ends, well or with an exception, that of a cancellation or     *)
(* another one. It leaves the archive open for listing only if it ends well. *)
End ==
    /\ Up /\ thread = "working"
    /\ \/ /\ thread' = "ended"
          /\ managed = "open" => autohide
          /\ opened' = (opened \/ managed = "open")
       \/ /\ thread' = "failed"
          /\ UNCHANGED opened
    /\ UNCHANGED <<stop, ui, web, box, question, server, seen>>

Over == ~Up /\ UNCHANGED vars

-----------------------------------------------------------------------------
Libdar == Begin \/ OpenArchive \/ (\E k \in Kinds : Ask(k)) \/ ReadAnswer \/ End

Build ==
    \/ NoReaction \/ Acknowledge \/ CloseListing
    \/ \E j \in Jobs : Launch(j) \/ LaunchAgain(j)
    \/ Update \/ WatchNothing \/ WatchEnd \/ WatchFailure
    \/ ChildrenQuiet \/ GiveAnswer
    \/ PressAskClose \/ PressForceClose \/ PressFinish
    \/ Send

Next == (\E r \in Requests : Receive(r)) \/ PageFails \/ Build \/ Libdar \/ Over

Spec == Init /\ [][Next]_vars

(* The threads are scheduled and a libdar thread told to stop looks for its  *)
(* cancellation. The browser reloads the page when it was told to, and its   *)
(* user in the end answers the question, closes the screen or leaves the     *)
(* error that it shows; nothing says when libdar ends by itself.             *)
Fairness ==
    /\ WF_vars(Build)
    /\ SF_vars(Begin) /\ WF_vars(ReadAnswer) /\ WF_vars(OpenArchive)
    /\ SF_vars(stop # "none" /\ End)
    /\ SF_vars(page.refresh /\ Receive("get"))
    /\ SF_vars(page.finish /\ Receive("finish"))
    /\ SF_vars(page.mode = "error" /\ Receive("acknowledge"))
    /\ \A k \in Kinds : SF_vars(k \in page.shown /\ Receive(k))

FairSpec == Spec /\ Fairness

-----------------------------------------------------------------------------
TypeOK ==
    /\ mode \in Modes /\ return_mode \in Modes \ {"error"}
    /\ current \in Jobs \cup {"none"} /\ managed \in Jobs \cup {"none"}
    /\ hmode \in {"normal", "end_asked", "end_forced", "finished", "closed"}
    /\ autohide \in BOOLEAN /\ was_interrupted \in BOOLEAN
    /\ form \in BOOLEAN /\ enable_refresh \in BOOLEAN
    /\ answered \in BOOLEAN /\ opened \in BOOLEAN
    /\ changed \in BOOLEAN /\ displayed \in BOOLEAN
    /\ shown \in SUBSET Kinds /\ value_set \in SUBSET Kinds
    /\ asked \in Kinds \cup {"none"}
    /\ thread \in ThreadStates
    /\ stop \in {"none", "soft", "hard"}
    /\ pc \in {"idle", "eval", "watch", "children", "send"}
    /\ req \in Requests
    /\ page \in [mode : Modes, shown : SUBSET Kinds, refresh : BOOLEAN,
                 finish : BOOLEAN]
    /\ failures \in 0 .. MaxFailures
    /\ status \in {"up", "bug", "libdar_bug", "unwatched"}

(* None of the checks that the server thread makes on the way (WEBDAR_BUG in *)
(* user_interface, html_web_user_interaction, web_user_interaction) fails,   *)
(* whatever the order of the clicks, answers, reloads and ends of the libdar *)
(* thread, unless the system refused to run a thread.                        *)
ServerMeetsNoBug == status \in {"bug", "unwatched"} => Refused

(* The mode of the session tells what its libdar thread does, also behind an *)
(* error page: configuration and listing mean that no thread is left, the    *)
(* listing has an open archive, the running page has a thread or the logs of *)
(* one that ended. Only a refused thread leaves traces in the configuration. *)
ModeFollowsThread ==
    LET m == IF mode = "error" THEN return_mode ELSE mode
    IN  Up => /\ m \in {"config", "listing"} =>
                     \/ current = "none" /\ managed = "none" /\ thread = "off"
                     \/ m = "config" /\ Refused
              /\ m \in Running => /\ current # "none"
                                  /\ (managed = "none") <=> (hmode = "finished")
              /\ m = "listing" => opened
              /\ thread # "off" => managed = current

(* A running page reloads itself exactly while it has no question and no     *)
(* end to show: the answer being typed is never lost, and nobody has to      *)
(* reload a page to learn that libdar asked something or ended.              *)
RunningPagePolls ==
    page.mode \in Running =>
        page.refresh <=> (page.shown = {} /\ ~page.finish)

(* Every answer that reaches libdar is to the question it asked, once, and   *)
(* to one that a page has shown before: an answer posted twice, or from an   *)
(* old page, does not go to a question that came in the meantime.            *)
Stage ==
    CASE asked = "none" -> "none"
      [] asked # "none" /\ answered -> "answered"
      [] asked # "none" /\ ~answered -> IF displayed THEN "shown" ELSE "asked"

AsDialogue == INSTANCE Dialogue WITH question <- asked, stage <- Stage

KeepsDialogue == AsDialogue!Spec

(* A question of libdar reaches the browser, which only reloads its page (or *)
(* acknowledges an error that came first).                                   *)
QuestionIsShown == Pending # {} ~> displayed \/ ~Up

(* A stop asked by the user, gently or not, ends the operation and leads     *)
(* back to the configuration, once the pending questions are answered.       *)
StopEndsOperation ==
    hmode \in {"end_asked", "end_forced"} ~> mode = "config" \/ ~Up

(* The page follows the libdar thread, in what it shows and in what it does. *)
PageFollowsThread == ModeFollowsThread /\ RunningPagePolls

(* Nobody waits for ever: neither libdar for a user who is never asked, nor a*)
(* user for an operation that was told to stop.                              *)
DialogueEnds == QuestionIsShown /\ StopEndsOperation

=============================================================================
