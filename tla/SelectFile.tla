----------------------------- MODULE SelectFile -----------------------------
(* The popup by which a user browses a repository and selects a path (class  *)
(* html_select_file): what it shows of a directory, the thread that reads    *)
(* this directory or creates another one, and the component that watches     *)
(* this thread (html_web_user_interaction, without the questions of libdar,  *)
(* which are in LibdarControl).                                              *)
(*                                                                           *)
(* A round evaluates the popup in five steps, fieldset (the directory),      *)
(* webui (the thread), buttons (the bottom of the popup) and reload, between *)
(* the attempt to take content_mutex (open) and its release. The thread only *)
(* works with this mutex.                                                    *)
EXTENDS Rounds, FiniteSets

CONSTANTS
    Paths,         \* the paths of the repository, that may exist or not
    ParentOf,      \* their parent, which is itself for the root
    InodeType, TargetType,   \* "isdir", "nondir" or "symlink", and its target
    Absent,        \* a path that does not exist, in each of them
    NewDir,        \* the directory a user may create in a directory, if any
    Filtered,      \* the files that do not match filter
    MaxFailures    \* bound: the directories that cannot be read

ASSUME PathsAssumption ==
    /\ ParentOf \in [Paths -> Paths] /\ Absent \in [Paths -> Paths]
    /\ InodeType \in [Paths -> {"isdir", "nondir", "symlink"}]
    /\ TargetType \in [Paths -> {"isdir", "nondir"}]

VARIABLES
    visible,       \* the popup is shown: status is st_go_select
    is_loading_mode,
    label,         \* fieldset
    target_type, inode_type,   \* fieldset_target_type, fieldset_type
    path_loaded,   \* "" for none
    listed,        \* the entries of content that have a button
    hit,           \* the entry that the URL names is still in content
    fresh,         \* those the page shows are
    which_thread, need_reload, should_refresh,
    warning, new_warning,
    form,          \* createdir_form is visible
    showing,       \* btn_createdir or btn_hide_createdir
    parent,        \* the button of parentdir that is visible
    hmode, managed,   \* html_web_user_interaction: mode, managed_thread
    thread, stop,  \* the thread, and how it was told to stop
    mutex,         \* content_mutex
    location,      \* where the repository is
    exists,        \* the paths that exist
    failures,
    mode,          \* cur_select_mode
    spoilt,        \* history: the listing failed or was interrupted, or the
                   \* path that was asked was replaced by its parent
    owed,          \* history: a warning was given, the popup being watched,
                   \* that no page has shown
    moved          \* history: the request has moved to the parent directory

dir == <<label, target_type, inode_type, path_loaded>>
content == <<listed, hit, fresh, spoilt>>
warn == <<warning, new_warning, owed, moved>>
create == <<form, showing>>
web == <<hmode, managed, stop>>
disk == <<location, exists, failures>>
flags == <<need_reload, should_refresh>>

select == <<visible, is_loading_mode, dir, content, which_thread, flags, warn,
            create, parent, web, thread, mutex, disk, mode>>

InitSelect ==
    /\ visible = FALSE /\ is_loading_mode = FALSE
    /\ label = "" /\ target_type = "isdir" /\ inode_type = "isdir"
    /\ path_loaded = ""
    /\ listed = {} /\ hit = FALSE /\ fresh = FALSE /\ spoilt = FALSE
    /\ which_thread = "nothing"
    /\ need_reload = FALSE /\ should_refresh = FALSE
    /\ warning = FALSE /\ new_warning = FALSE /\ owed = FALSE /\ moved = FALSE
    /\ form = TRUE /\ showing = "new" /\ parent = "one"
    /\ hmode = "normal" /\ managed = FALSE /\ stop = "none"
    /\ thread = "off" /\ mutex = "none"
    /\ location = ""
    /\ exists = {p \in Paths : \A q \in Paths : p # NewDir[q] /\ p # Absent[q]}
    /\ failures = 0

IsRunning == thread \in {"start", "init", "retry", "fill", "list", "create"}

-----------------------------------------------------------------------------
(* What a directory has, and what add_content_entry gives a button to.       *)
Entries(d) == {p \in exists : ParentOf[p] = d /\ p # d}

HasButton(p) ==
    \/ TargetType[p] = "isdir"
    \/ /\ p \notin Filtered
       /\ IF InodeType[p] = "symlink" THEN mode \in {"sel_file", "sel_symlinks"}
          ELSE mode = "sel_file"

Listing(d) == {p \in Entries(d) : HasButton(p)}

(* loading_mode(true), then html_web_user_interaction::clear and             *)
(* run_and_control_thread. The thread waits for content_mutex first.         *)
Launch(which) ==
    /\ which_thread' = which
    /\ is_loading_mode' = TRUE
    /\ hmode' = "normal" /\ managed' = TRUE /\ stop' = "none"
    /\ thread' = "start"
    /\ should_refresh' = TRUE

(* run_thread, for a directory that may be the one that is shown already.    *)
NoLaunch ==
    UNCHANGED <<which_thread, is_loading_mode, web, thread, should_refresh, path_loaded>>

RunThread(which, loaded) ==
    IF label' = loaded THEN NoLaunch
    ELSE Launch(which) /\ path_loaded' = label'

(* A condition under which run_thread, or what it calls, is a bug.           *)
Busy == which_thread # "nothing" \/ IsRunning \/ managed

(* go_select, called between two evaluations of the popup.                   *)
GoSelect(start) ==
    IF visible THEN UNCHANGED select
    ELSE /\ visible' = TRUE
         /\ label' = start
         /\ form' = FALSE
         /\ listed' = {} /\ hit' = FALSE /\ fresh' = FALSE /\ spoilt' = FALSE
         /\ RunThread("init_fill", "")
         /\ UNCHANGED <<target_type, inode_type, need_reload, warn, showing,
                        parent, mutex, disk, mode>>

-----------------------------------------------------------------------------
(* inherited_get_body_part, before the components of the popup.              *)
OpenPopup ==
    /\ Up /\ pc = "open" /\ visible
    /\ IF mutex = "none" THEN mutex' = "server"
       ELSE UNCHANGED mutex
    /\ warning' = (warning /\ new_warning)
    /\ IF mutex # "none" /\ ~is_loading_mode THEN Bug("bug") ELSE To("fieldset")
    /\ changed' = changed \ {"popup"}
    /\ UNCHANGED <<visible, is_loading_mode, dir, content, which_thread, flags, new_warning,
                   owed, moved, create, parent, web, thread, disk, mode, req, posted, acted,
                   redirect, page, presses>>

NoPopup ==
    /\ Up /\ pc = "open" /\ ~visible
    /\ To("xfer") /\ Untold
    /\ UNCHANGED <<select, req, posted, acted, redirect, page, presses>>

OnEntry == req \in listed /\ hit /\ ~acted

FieldsetQuiet ==
    /\ Up /\ pc = "fieldset"
    /\ is_loading_mode \/ ~(OnEntry \/ req = parent)
    /\ To("webui") /\ Untold
    /\ UNCHANGED <<select, req, posted, acted, redirect, page, presses>>

(* Mutant: a plain button acts again once it was hidden and shown.           *)
SwapNot == UNCHANGED parent

(* html_double_button: the button that was pressed makes room for another    *)
(* one, of another URL.                                                      *)
Swap == parent' = IF parent = "one" THEN "two" ELSE "one"

PressParent ==
    /\ Up /\ pc = "fieldset" /\ ~is_loading_mode /\ req = parent
    /\ Swap
    /\ label' = ParentOf[label]
    /\ target_type' = "isdir" /\ inode_type' = "unknown"
    /\ IF label' # path_loaded /\ Busy THEN Bug("bug") ELSE To("webui")
    /\ RunThread("fill_only", path_loaded)
    /\ Tell({"popup"}) /\ acted' = TRUE /\ moved' = TRUE
    /\ UNCHANGED <<visible, content, need_reload, warning, new_warning, owed, create,
                   mutex, disk, mode, req, posted, redirect, page, presses>>

(* The path of that name in a directory, which may have none.                *)
Below(d, p) == IF ParentOf[p] = d THEN p ELSE Absent[d]

(* An entry of the directory that is shown: the label is replaced or         *)
(* extended depending on what it names.                                      *)
PressEntry ==
    /\ Up /\ pc = "fieldset" /\ ~is_loading_mode /\ OnEntry
    /\ label' = Below(IF target_type = "isdir" THEN label ELSE ParentOf[label], req)
    /\ target_type' = TargetType[req] /\ inode_type' = InodeType[req]
    /\ IF target_type' = "isdir"
       THEN /\ RunThread("fill_only", path_loaded)
            /\ IF label' # path_loaded /\ Busy THEN Bug("bug") ELSE To("webui")
       ELSE NoLaunch /\ To("webui")
    /\ Tell({"popup"}) /\ acted' = TRUE
    /\ UNCHANGED <<visible, content, need_reload, warn, create, parent, mutex, disk,
                   mode, req, posted, redirect, page, presses>>

-----------------------------------------------------------------------------
(* html_web_user_interaction, as auto_hide(true, false) makes it: the end of *)
(* the thread closes it, whatever ended the thread.                          *)
(* Mutant: not when a directory was created, whose listing is due.           *)
StayLoading == is_loading_mode' = need_reload

LeaveLoading == is_loading_mode' = FALSE

Finished ==
    /\ managed' = FALSE /\ thread' = "off" /\ stop' = "none"
    /\ hmode' = "closed"
    /\ should_refresh' = FALSE
    /\ LeaveLoading
    /\ Tell({"popup"})

WebuiQuiet ==
    /\ Up /\ pc = "webui"
    /\ ~managed \/ IsRunning
    /\ ~(is_loading_mode /\ req = "ask" /\ hmode = "normal")
    /\ ~(is_loading_mode /\ req = "force" /\ hmode = "end_asked")
    /\ To("buttons") /\ Untold
    /\ UNCHANGED <<select, req, posted, acted, redirect, page, presses>>

WebuiEnd ==
    /\ Up /\ pc = "webui" /\ managed /\ thread = "ended"
    /\ Finished
    /\ To("buttons")
    /\ UNCHANGED <<visible, dir, content, which_thread, need_reload, warn, create,
                   parent, mutex, disk, mode, req, posted, acted, redirect, page,
                   presses>>

(* Mutant: content_mutex is not released when an exception goes through.     *)
KeepMutex == UNCHANGED mutex

ReleaseMutex == mutex' = IF mutex = "server" THEN "none" ELSE mutex

(* What ended the thread is thrown again: the page of errors, or the end of  *)
(* the server thread for a bug.                                              *)
WebuiFailure ==
    /\ Up /\ pc = "webui" /\ managed /\ thread \in {"failed", "bug"}
    /\ Finished
    /\ ReleaseMutex
    /\ pc' = "idle"
    /\ IF thread = "bug" THEN status' = "filled_file" /\ UNCHANGED page
       ELSE /\ page' = Page("error", {"ack"}, FALSE, "", FALSE)
            /\ UNCHANGED status
    /\ UNCHANGED <<visible, dir, content, which_thread, need_reload, warn, create,
                   parent, disk, mode, req, posted, acted, redirect, presses>>

PressAskOrForce ==
    /\ Up /\ pc = "webui" /\ managed /\ IsRunning
    /\ \/ req = "ask" /\ hmode = "normal" /\ hmode' = "end_asked" /\ stop' = "soft"
       \/ req = "force" /\ hmode = "end_asked" /\ hmode' = "end_forced" /\ stop' = "hard"
    /\ should_refresh' = TRUE
    /\ To("buttons") /\ Tell({"popup"}) /\ acted' = TRUE
    /\ UNCHANGED <<visible, is_loading_mode, dir, content, which_thread, need_reload,
                   warn, create, parent, managed, thread, mutex, disk, mode, req,
                   posted, redirect, page, presses>>

-----------------------------------------------------------------------------
(* The buttons at the bottom of the popup, hidden while it is loading.       *)
Bottom == {"select", "cancel", showing} \cup (IF form THEN {"mkdir"} ELSE {})

OnBottom == ~is_loading_mode /\ req \in Bottom /\
            (IF req = "mkdir" THEN posted ELSE ~acted)

ButtonsQuiet ==
    /\ Up /\ pc = "buttons" /\ ~OnBottom
    /\ To("reload") /\ Untold
    /\ UNCHANGED <<select, req, posted, acted, redirect, page, presses>>

PressNew ==
    /\ Up /\ pc = "buttons" /\ OnBottom /\ req \in {"new", "hide"}
    /\ form' = (req = "new")
    /\ showing' = IF req = "new" THEN "hide" ELSE "new"
    /\ To("reload") /\ Tell({"popup"}) /\ acted' = TRUE
    /\ UNCHANGED <<visible, is_loading_mode, dir, content, which_thread, flags, warn,
                   parent, web, thread, mutex, disk, mode, req, posted, redirect, page,
                   presses>>

(* Mutant: the directory is taken for loaded.                                *)
KeepLoaded == UNCHANGED path_loaded

ForgetLoaded == path_loaded' = ""

(* The name of a directory to create is posted: run_thread(run_create_dir).  *)
PostName ==
    /\ Up /\ pc = "buttons" /\ OnBottom /\ req = "mkdir"
    /\ form' = FALSE
    /\ IF Busy THEN Bug("bug") ELSE To("reload")
    /\ ForgetLoaded
    /\ Launch("create_dir")
    /\ need_reload' = TRUE
    /\ Tell({"popup"}) /\ acted' = TRUE
    /\ UNCHANGED <<visible, label, target_type, inode_type, content, warn, showing,
                   parent, mutex, disk, mode, req, posted, redirect, page, presses>>

(* Mutant: a directory will do for a file.                                   *)
AcceptsAny ==
    CASE mode = "sel_file" -> TRUE
      [] mode = "sel_dir" -> target_type = "isdir"
      [] mode = "sel_symlinks" -> inode_type \in {"symlink", "unknown"}

Accepts ==
    CASE mode = "sel_file" -> target_type # "isdir"
      [] mode = "sel_dir" -> target_type = "isdir"
      [] mode = "sel_symlinks" -> inode_type \in {"symlink", "unknown"}

Refuse ==
    /\ Up /\ pc = "buttons" /\ OnBottom /\ req = "select" /\ ~Accepts
    /\ warning' = TRUE /\ owed' = TRUE
    /\ To("reload") /\ Tell({"popup"}) /\ acted' = TRUE
    /\ UNCHANGED <<visible, is_loading_mode, dir, content, which_thread, flags,
                   new_warning, moved, create, parent, web, thread, mutex, disk, mode,
                   req, posted, redirect, page, presses>>

(* The selection or its cancellation: the popup closes (my_closing). What    *)
(* listens to the event is in the step that composes this action.            *)
Close(how) ==
    /\ Up /\ pc = "buttons" /\ OnBottom /\ req = how
    /\ how = "select" => Accepts
    /\ visible' = FALSE
    /\ To("reload") /\ Tell({"popup"}) /\ acted' = TRUE
    /\ UNCHANGED <<is_loading_mode, dir, content, which_thread, flags, warn, create,
                   parent, web, thread, mutex, disk, mode, req, posted, redirect, page,
                   presses>>

(* The end of the round: a directory was created and the listing is obsolete.*)
(* A thread that ended since webui looked at it is still managed.            *)
ReloadIsDue == need_reload /\ ~(managed /\ IsRunning)

(* Mutant: it is kept only while the thread works.                           *)
KeepWarningWhileLoading == new_warning' = should_refresh'

KeepWarning == new_warning' = (should_refresh' \/ "popup" \in changed)

Reload ==
    /\ Up /\ pc = "reload"
    /\ IF ReloadIsDue
       THEN /\ label' = label
            /\ need_reload' = FALSE
            /\ RunThread("fill_only", path_loaded)
            /\ IF label # path_loaded /\ Busy
               THEN Bug(IF managed THEN "unwatched" ELSE "bug")
               ELSE To("xfer")
       ELSE /\ UNCHANGED <<label, need_reload>> /\ NoLaunch
            /\ To("xfer")
    /\ ReleaseMutex
    /\ SetRefresh(should_refresh')
    /\ KeepWarning
    /\ changed' = IF should_refresh' # should_refresh THEN changed \cup {"popup"} ELSE changed
    /\ UNCHANGED <<visible, target_type, inode_type, content, warning, owed, moved,
                   create, parent, disk, mode, req, posted, acted, page, presses>>

-----------------------------------------------------------------------------
(* The thread (inherited_run), which holds content_mutex from Begin to End.  *)
(* The content is hidden while it works: only the label and the warnings it  *)
(* changes have the server thread evaluate the popup again.                  *)
Job == <<visible, is_loading_mode, should_refresh, new_warning, moved, create, parent,
         web, mode>>

answering == <<pc, req, posted, acted, redirect, page, presses, status>>

Begin ==
    /\ Up /\ thread = "start" /\ mutex = "none"
    /\ mutex' = "thread"
    /\ thread' = CASE which_thread = "create_dir" -> "create"
                   [] which_thread = "init_fill" -> "init"
                   [] which_thread = "fill_only" -> "fill"
    /\ UNCHANGED <<Job, server, need_reload, dir, content, which_thread, warning, owed, disk>>

(* The release of content_mutex and the end of the thread are one step: the  *)
(* server thread that takes the mutex in between finds the thread running,   *)
(* and a thread that is watched is Busy whatever which_thread says.          *)
EndAs(how) ==
    /\ thread' = how
    /\ mutex' = "none"
    /\ which_thread' = "nothing"

CreateDir ==
    /\ Up /\ thread = "create"
    /\ IF NewDir[location] \in Paths \ exists
       THEN exists' = exists \cup {NewDir[location]} /\ EndAs("ended")
       ELSE UNCHANGED exists /\ EndAs("failed")
    /\ UNCHANGED <<Job, server, need_reload, dir, content, warning, owed, location, failures>>

(* Reading a directory: a path that is none fails with Erange, as one that   *)
(* may not be read; a cancellation and the network fail otherwise.           *)
Reads(d) == d \in exists /\ TargetType[d] = "isdir"

MayFail(how) ==
    \/ how = "other" /\ stop # "none" /\ UNCHANGED failures
    \/ failures < MaxFailures /\ failures' = failures + 1

Outcome(d, how) ==
    \/ how = "read" /\ Reads(d) /\ UNCHANGED failures
    \/ how = "Erange" /\ ~Reads(d) /\ UNCHANGED failures
    \/ how \in {"Erange", "other"} /\ MayFail(how)

(* A warning given before the popup is evaluated for the first time is       *)
(* cleared by this evaluation.                                               *)
Warn == warning' = TRUE /\ owed' = (owed \/ new_warning) /\ Tell({"popup"})

(* init_fieldset_target_type: a path that cannot be opened as a directory is *)
(* replaced by its parent.                                                   *)
TryTarget ==
    /\ Up /\ thread = "init"
    /\ location' = label
    /\ \/ /\ Outcome(label, "read")
          /\ target_type' = "isdir" /\ inode_type' = "unknown"
          /\ thread' = "fill"
          /\ UNCHANGED <<label, changed, mutex, which_thread, warning, owed, spoilt>>
       \/ /\ Outcome(label, "Erange")
          /\ label' = ParentOf[label] /\ Tell({"popup"})
          /\ thread' = "retry"
          /\ UNCHANGED <<target_type, inode_type, mutex, which_thread, warning, owed,
                         spoilt>>
       \/ /\ Outcome(label, "other")
          /\ Warn /\ spoilt' = TRUE
          /\ EndAs("ended")
          /\ UNCHANGED <<label, target_type, inode_type>>
    /\ UNCHANGED <<Job, answering, need_reload, path_loaded, listed, hit, fresh, exists>>

TryParent ==
    /\ Up /\ thread = "retry"
    /\ location' = label
    /\ \/ /\ Outcome(label, "read")
          /\ target_type' = "isdir" /\ inode_type' = "unknown"
          /\ thread' = "fill"
          /\ UNCHANGED <<changed, mutex, which_thread, warning, owed, spoilt>>
       \/ /\ Outcome(label, "Erange")
          /\ Warn /\ spoilt' = TRUE
          /\ target_type' = "unknown" /\ inode_type' = "unknown"
          /\ EndAs("ended")
       \/ /\ Outcome(label, "other")
          /\ EndAs("failed") /\ spoilt' = TRUE
          /\ UNCHANGED <<target_type, inode_type, changed, warning, owed>>
    /\ UNCHANGED <<Job, answering, need_reload, path_loaded, label, listed, hit, fresh, exists>>

ClearContent == listed' = {} /\ hit' = FALSE /\ fresh' = FALSE

(* fill_content: a path that is no directory is a bug, thrown again by the   *)
(* server thread.                                                            *)
StartFill ==
    /\ Up /\ thread = "fill"
    /\ ClearContent /\ spoilt' = TRUE
    /\ IF target_type = "isdir"
       THEN /\ location' = label
            /\ thread' = "list" /\ UNCHANGED <<mutex, which_thread>>
       ELSE EndAs("bug") /\ UNCHANGED location
    /\ UNCHANGED <<Job, server, need_reload, dir, warning, owed, exists, failures>>

(* The entries are added one by one, unless the thread is cancelled.         *)
List ==
    /\ Up /\ thread = "list"
    /\ \/ /\ Outcome(label, "read")
          /\ listed' = Listing(label) /\ spoilt' = (path_loaded # label)
          /\ EndAs("ended")
          /\ UNCHANGED need_reload
       \/ /\ Outcome(label, "Erange")
          /\ need_reload' = TRUE
          /\ EndAs("failed")
          /\ UNCHANGED <<listed, spoilt>>
       \/ /\ Outcome(label, "other")
          /\ EndAs("failed")
          /\ UNCHANGED <<listed, spoilt, need_reload>>
       \/ /\ stop = "hard"
          /\ \E part \in SUBSET Listing(label) : listed' = part
          /\ EndAs("ended")
          /\ UNCHANGED <<spoilt, need_reload, failures>>
    /\ UNCHANGED <<Job, server, dir, hit, fresh, warning, owed, location, exists>>

(* A cancellation seen before the directory is read.                         *)
Cancelled ==
    /\ Up /\ thread = "fill" /\ which_thread = "init_fill" /\ stop = "hard"
    /\ EndAs("ended") /\ spoilt' = TRUE
    /\ UNCHANGED <<Job, server, need_reload, dir, listed, hit, fresh, warning, owed, disk>>

-----------------------------------------------------------------------------
PopupRound ==
    \/ OpenPopup \/ NoPopup
    \/ FieldsetQuiet \/ PressParent \/ PressEntry
    \/ WebuiQuiet \/ WebuiEnd \/ WebuiFailure \/ PressAskOrForce
    \/ ButtonsQuiet \/ PressNew \/ PostName \/ Refuse
    \/ Reload

PopupThread == Begin \/ CreateDir \/ TryTarget \/ TryParent \/ StartFill \/ List \/ Cancelled

(* The buttons a page shows of the popup.                                    *)
PopupButtons ==
    IF is_loading_mode
    THEN IF hmode = "normal" THEN {"ask"} ELSE IF hmode = "end_asked" THEN {"force"} ELSE {}
    ELSE {parent} \cup listed \cup Bottom
=============================================================================
