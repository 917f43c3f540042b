----------------------------- MODULE BrowseProofs -----------------------------
(* Proofs about Browse, for any paths, repositories and failures: the checks *)
(* of the popup are not met, what it lists is current, and what a user is    *)
(* told holds from click to click.                                           *)
EXTENDS Browse, TLAPS

(* The thread is watched, the popup is loading and the page reloads itself   *)
(* from its launch until its end is seen.                                    *)
Watched ==
    /\ managed = is_loading_mode /\ should_refresh = managed
    /\ managed <=> thread # "off"
    /\ IsRunning <=> which_thread # "nothing"
    /\ which_thread = "create_dir" => path_loaded = "" /\ need_reload
    /\ thread = "create" => which_thread = "create_dir"
    /\ thread = "list" => target_type = "isdir" /\ spoilt

(* Who holds content_mutex.                                                  *)
Locked ==
    /\ mutex = "thread" <=> thread \in {"init", "retry", "fill", "list", "create"}
    /\ mutex = "server" => pc \in {"fieldset", "webui", "buttons", "reload"}

(* A closed popup is at rest, an open one has something to show.             *)
Opened ==
    /\ ~visible => ~is_loading_mode /\ ~need_reload /\ ~owed
    /\ visible => label \in Paths
    /\ visible /\ path_loaded = "" => need_reload
    /\ pc \in {"fieldset", "webui", "buttons"} => visible
    /\ value \in Paths

(* What was read is what the popup shows, unless the reading was spoilt.     *)
Loaded ==
    visible /\ ~IsRunning /\ ~spoilt /\ path_loaded # "" =>
        /\ path_loaded = Directory /\ TargetType[path_loaded] = "isdir"
        /\ target_type = "isdir" <=> TargetType[label] = "isdir"
        /\ listed = Listing(path_loaded)

(* The thread that reaches the repository, its popup, and what it gives.     *)
Connected ==
    /\ xvisible = xmanaged /\ (xmanaged <=> xthread # "off")
    /\ visible /\ xmanaged => xthread \in {"ended", "failed"}
    /\ xmanaged => host = "landing"
    /\ XRunning => entrepot_changed
    /\ xthread = "ended" => ~entrepot_changed
    /\ xthread = "failed" => refused
    /\ xthread = "connect" => read = repo
    /\ xthread = "built" => entrep = repo
    /\ ~need_update /\ entrep # null => entrep = repo
    /\ host = "landing" /\ ~entrepot_changed =>
          libdar_entrep # null /\ (~need_update => libdar_entrep = repo)

(* What the page that is at rest offers.                                     *)
FormShown == pc = "idle" /\ page.kind = "form"

Offered ==
    FormShown =>
        /\ visible => ~xmanaged
        /\ need_reload \/ owed => is_loading_mode
        /\ page.buttons \cap {"select", "cancel"} # {} =>
              visible /\ ~is_loading_mode /\ page.label = label
        /\ page.buttons \cap {"plus", "type", "host"} # {} => ~visible /\ ~xmanaged

(* What a request finds, since nothing offered meanwhile leads elsewhere.    *)
Requested ==
    /\ req \in {"select", "cancel"} =>
          /\ ~need_reload /\ ~is_loading_mode /\ ~xmanaged
          /\ page.kind = "form" /\ (visible => page.label = label)
          /\ owed => req = "select" /\ acted
    /\ req \in {"type", "host"} => ~visible /\ ~xmanaged
    /\ req = "plus" /\ visible /\ ~(pc = "idle" /\ page.kind = "error")
          => host = "plain" \/ ~entrepot_changed
    /\ moved => req # parent

(* What the round has told so far.                                           *)
Told ==
    /\ pc = "repo" => changed \subseteq {"popup"}
    /\ "other" \in changed /\ visible => pc \in {"end", "idle"}
    /\ "other" \in changed /\ pc = "plus" => req \in {"type", "host"}
    /\ pc \in {"xfer", "end"} /\ need_reload => is_loading_mode
    /\ pc = "end" /\ visible => ~xmanaged

(* A warning that no page has shown yet is kept from round to round.         *)
Warned ==
    visible /\ owed =>
        /\ warning
        /\ pc \in {"idle", "repo", "plus", "open", "fieldset", "webui"} => new_warning
        /\ pc \in {"buttons", "reload"} => new_warning \/ "popup" \in changed
        /\ pc \in {"xfer", "end"} => new_warning \/ (changed = {} /\ ~managed /\ ~xmanaged)
        /\ xmanaged =>
              \/ is_loading_mode /\ thread = "ended"
              \/ pc \in {"buttons", "reload"} /\ "popup" \in changed
              \/ pc = "xfer"

Invs ==
    /\ Watched /\ Locked /\ Opened /\ Loaded /\ Connected
    /\ Offered /\ Requested /\ Told /\ Warned

IInv == TypeOK /\ ServerMeetsNoBug /\ (Up => Invs)

(* TypeOK in parts: the flags, ...                                           *)
RequestFlags ==
    /\ posted \in BOOLEAN /\ acted \in BOOLEAN /\ redirect \in BOOLEAN
    /\ need_update \in BOOLEAN /\ entrepot_changed \in BOOLEAN /\ refused \in BOOLEAN
    /\ xvisible \in BOOLEAN /\ xmanaged \in BOOLEAN /\ xrefresh \in BOOLEAN

PopupFlags ==
    /\ visible \in BOOLEAN /\ is_loading_mode \in BOOLEAN /\ managed \in BOOLEAN
    /\ need_reload \in BOOLEAN /\ should_refresh \in BOOLEAN /\ form \in BOOLEAN

ContentFlags ==
    /\ warning \in BOOLEAN /\ new_warning \in BOOLEAN /\ owed \in BOOLEAN
    /\ moved \in BOOLEAN /\ spoilt \in BOOLEAN /\ hit \in BOOLEAN
    /\ fresh \in BOOLEAN

(* ... the paths and the repositories, ...                                   *)
DataOK ==
    /\ label \in Paths \cup {""} /\ path_loaded \in Paths \cup {""}
    /\ location \in Paths \cup {""} /\ value \in Paths \cup {""}
    /\ listed \subseteq Paths /\ exists \subseteq Paths
    /\ changed \subseteq {"popup", "other"} /\ repo \in Repos
    /\ entrep \in Repos \cup {null} /\ libdar_entrep \in Repos \cup {null}
    /\ read \in Repos \cup {null}

(* ... where the threads and the buttons are.                                *)
StatesOK ==
    /\ pc \in {"idle", "repo", "plus", "open", "fieldset", "webui", "buttons",
                    "reload", "xfer", "end"}
    /\ status \in {"up", "bug", "filled_file", "unwatched", "managed", "null"}
    /\ target_type \in {"isdir", "nondir", "symlink", "unknown"}
    /\ thread \in {"off", "start", "init", "retry", "fill", "list", "create",
                    "ended", "failed", "bug"}
    /\ which_thread \in {"nothing", "init_fill", "fill_only", "create_dir"}
    /\ mutex \in {"none", "server", "thread"} /\ parent \in {"one", "two"}
    /\ showing \in {"new", "hide"} /\ page.kind \in {"form", "error"}
    /\ host \in {"landing", "plain"}
    /\ mode \in {"sel_dir", "sel_file", "sel_symlinks"}
    /\ xthread \in {"off", "start", "connect", "built", "ended", "failed"}
    /\ {hmode, xmode} \subseteq {"normal", "end_asked", "end_forced", "closed"}
    /\ stop \in {"none", "soft", "hard"}

(* The type invariant is the conjunction of its parts.                       *)
LEMMA TypeOKParts ==
    TypeOK <=> RequestFlags /\ PopupFlags /\ ContentFlags /\ DataOK /\ StatesOK
BY DEF TypeOK, RequestFlags, PopupFlags, ContentFlags, DataOK, StatesOK

(* The listing of a directory depends on what exists and on the mode.        *)
LEMMA ListingKept ==
    ASSUME UNCHANGED <<exists, mode>>, UNCHANGED path_loaded
    PROVE  Listing(path_loaded)' = Listing(path_loaded)
BY DEF Listing, Entries, HasButton

(* What the browser shows of an error.                                       *)
LEMMA ErrorPage == Page("error", {"ack"}, FALSE, "", FALSE).kind = "error"
BY DEF Page

(* A button of the page at rest is pressed: what the page offers is what the *)
(* request finds (Offered gives Requested).                                  *)
LEMMA PressKeeps ==
    ASSUME TypeOK, Invs, ServerMeetsNoBug, NEW b \in page.buttons, Press(b)
    PROVE  IInv'
<1>0. (b \in Posts) \in BOOLEAN /\ (b \in listed /\ fresh) \in BOOLEAN
  OBVIOUS
<1>1. TypeOK'
  <2>0. RequestFlags /\ PopupFlags /\ ContentFlags /\ DataOK /\ StatesOK
    BY TypeOKParts
  <2>1. RequestFlags'
    BY <1>0, <2>0
         DEF Press, RequestFlags, Receive, landing, form_of_repo, reached, xpopup, xjob
  <2>2. PopupFlags'
    BY <2>0 DEF Press, PopupFlags, Receive, flags, web, Up, create
  <2>3. ContentFlags'
    BY <2>0 DEF Press, ContentFlags, Receive, Up
  <2>4. DataOK'
    BY <2>0 DEF Press, DataOK, Receive, dir, disk, landing, Up, form_of_repo, reached, xjob
  <2>5. StatesOK'
    BY <2>0 DEF Press, StatesOK, Receive, dir, web, landing, Up, xpopup, xjob, create
  <2> QED
    BY <2>1, <2>2, <2>3, <2>4, <2>5
         DEF TypeOK, RequestFlags, PopupFlags, ContentFlags, DataOK, StatesOK
<1>2. ServerMeetsNoBug'
  BY DEF Press, ServerMeetsNoBug, Receive, Up
<1>3. Up' => Watched'
  BY DEF Invs, Press, Watched, Receive, dir, flags, web, IsRunning, Up
<1>4. Up' => Locked'
  BY DEF Invs, Press, Locked, Receive, Up
<1>5. Up' => Opened'
  BY DEF Invs, Press, Opened, Receive, dir, flags, landing, Up
<1>6. Up' => Loaded'
  BY ListingKept DEF Invs, Press, Loaded, Receive, dir, flags, web, disk, landing,
       IsRunning, Directory, Up, form_of_repo, reached, xpopup, xjob, create
<1>7. Up' => Connected'
  BY DEF Invs, Press, Connected, Receive, Posts, landing, XRunning, null, Up, form_of_repo,
       reached, xpopup, xjob
<1>8. Up' => Offered'
  BY DEF Press, Offered, Receive, flags, landing, FormShown, Up, xpopup
<1>9. Up' => Requested'
  BY DEF Invs, Press, Requested, Receive, dir, flags, landing, Up, reached, xpopup,
       Offered, FormShown
<1>10. Up' => Told'
  BY DEF Press, Told, Receive, flags, landing, Up, xpopup
<1>11. Up' => Warned'
  BY DEF Invs, Press, Warned, Receive, landing, Up, xpopup
<1> QED
  BY <1>1, <1>2, <1>3, <1>4, <1>5, <1>6, <1>7, <1>8, <1>9, <1>10, <1>11 DEF IInv, Invs

(* The page reloads itself.                                                  *)
LEMMA RefreshKeeps ==
    ASSUME TypeOK, Invs, ServerMeetsNoBug, Refresh
    PROVE  IInv'
<1>1. TypeOK'
  <2>0. RequestFlags /\ PopupFlags /\ ContentFlags /\ DataOK /\ StatesOK
    BY TypeOKParts
  <2>1. RequestFlags'
    BY <2>0
         DEF Refresh, RequestFlags, Receive, select, landing, Up, form_of_repo, reached,
         xpopup, xjob
  <2>2. PopupFlags'
    BY <2>0 DEF Refresh, PopupFlags, Receive, select, Up, flags, web, create
  <2>3. ContentFlags'
    BY <2>0 DEF Refresh, ContentFlags, Receive, select, Up, content, warn
  <2>4. DataOK'
    BY <2>0
         DEF Refresh, DataOK, Receive, select, landing, Up, dir, content, disk,
         form_of_repo, reached, xjob
  <2>5. StatesOK'
    BY <2>0
         DEF Refresh, StatesOK, Receive, select, landing, Up, dir, web, xpopup, xjob, create
  <2> QED
    BY <2>1, <2>2, <2>3, <2>4, <2>5
         DEF TypeOK, RequestFlags, PopupFlags, ContentFlags, DataOK, StatesOK
<1>2. ServerMeetsNoBug'
  BY DEF Refresh, ServerMeetsNoBug, Receive, select, Up
<1>3. Up' => Watched'
  BY DEF Invs, Refresh, Watched, Receive, select, IsRunning, Up, dir, content, flags, web
<1>4. Up' => Locked'
  BY DEF Invs, Refresh, Locked, Receive, select, Up
<1>5. Up' => Opened'
  BY DEF Invs, Refresh, Opened, Receive, select, landing, Up, dir, flags, warn
<1>6. Up' => Loaded'
  BY ListingKept DEF Invs, Refresh, Loaded, Receive, select, landing, IsRunning, Directory,
       Up, dir, content, flags, web, disk, form_of_repo, reached, xpopup, xjob, warn, create
<1>7. Up' => Connected'
  BY DEF Invs, Refresh, Connected, Receive, select, landing, XRunning, null, Up,
       form_of_repo, reached, xpopup, xjob
<1>8. Up' => Offered'
  BY DEF Refresh, Offered, Receive, select, landing, FormShown, Up, flags, xpopup, warn
<1>9. Up' => Requested'
  BY DEF Invs, Refresh, Requested, Receive, select, landing, Up, dir, flags, reached,
       xpopup, Offered, FormShown, warn
<1>10. Up' => Told'
  BY DEF Refresh, Told, Receive, select, landing, Up, flags, xpopup
<1>11. Up' => Warned'
  BY DEF Invs, Refresh, Warned, Receive, select, landing, Up, xpopup, warn
<1> QED
  BY <1>1, <1>2, <1>3, <1>4, <1>5, <1>6, <1>7, <1>8, <1>9, <1>10, <1>11 DEF IInv, Invs

(* The user leaves the message of an error.                                  *)
LEMMA AcknowledgeKeeps ==
    ASSUME TypeOK, Invs, ServerMeetsNoBug, Acknowledge
    PROVE  IInv'
<1>1. TypeOK'
  <2>0. RequestFlags /\ PopupFlags /\ ContentFlags /\ DataOK /\ StatesOK
    BY TypeOKParts
  <2>1. RequestFlags'
    BY <2>0
         DEF Acknowledge, RequestFlags, Receive, select, landing, Up, form_of_repo,
         reached, xpopup, xjob
  <2>2. PopupFlags'
    BY <2>0 DEF Acknowledge, PopupFlags, Receive, select, Up, flags, web, create
  <2>3. ContentFlags'
    BY <2>0 DEF Acknowledge, ContentFlags, Receive, select, Up, content, warn
  <2>4. DataOK'
    BY <2>0
         DEF Acknowledge, DataOK, Receive, select, landing, Up, dir, content, disk,
         form_of_repo, reached, xjob
  <2>5. StatesOK'
    BY <2>0
         DEF Acknowledge, StatesOK, Receive, select, landing, Up, dir, web, xpopup, xjob,
         create
  <2> QED
    BY <2>1, <2>2, <2>3, <2>4, <2>5
         DEF TypeOK, RequestFlags, PopupFlags, ContentFlags, DataOK, StatesOK
<1>2. ServerMeetsNoBug'
  BY DEF Acknowledge, ServerMeetsNoBug, Receive, select, Up
<1>3. Up' => Watched'
  BY DEF Invs, Acknowledge, Watched, Receive, select, IsRunning, Up, dir, content, flags,
       web
<1>4. Up' => Locked'
  BY DEF Invs, Acknowledge, Locked, Receive, select, Up
<1>5. Up' => Opened'
  BY DEF Invs, Acknowledge, Opened, Receive, select, landing, Up, dir, flags, warn
<1>6. Up' => Loaded'
  BY ListingKept DEF Invs, Acknowledge, Loaded, Receive, select, landing, IsRunning,
       Directory, Up, dir, content, flags, web, disk, form_of_repo, reached, xpopup, xjob,
       warn, create
<1>7. Up' => Connected'
  BY DEF Invs, Acknowledge, Connected, Receive, select, landing, XRunning, null, Up,
       form_of_repo, reached, xpopup, xjob
<1>8. Up' => Offered'
  BY DEF Acknowledge, Offered, Receive, select, landing, FormShown, Up, flags, xpopup, warn
<1>9. Up' => Requested'
  BY DEF Invs, Acknowledge, Requested, Receive, select, landing, Up, flags, reached,
       xpopup, TypeOK, warn
<1>10. Up' => Told'
  BY DEF Acknowledge, Told, Receive, select, landing, Up, flags, xpopup
<1>11. Up' => Warned'
  BY DEF Invs, Acknowledge, Warned, Receive, select, landing, Up, xpopup, warn
<1> QED
  BY <1>1, <1>2, <1>3, <1>4, <1>5, <1>6, <1>7, <1>8, <1>9, <1>10, <1>11 DEF IInv, Invs

(* A change told in a round starts another one, without the request          *)
(* (server::run).                                                            *)
LEMMA NextRoundKeeps ==
    ASSUME TypeOK, Invs, ServerMeetsNoBug, NextRound
    PROVE  IInv'
<1>1. TypeOK'
  <2>0. RequestFlags /\ PopupFlags /\ ContentFlags /\ DataOK /\ StatesOK
    BY TypeOKParts
  <2>1. RequestFlags'
    BY <2>0
         DEF NextRound, RequestFlags, Up, select, landing, form_of_repo, reached, xpopup,
         xjob
  <2>2. PopupFlags'
    BY <2>0 DEF NextRound, PopupFlags, Up, select, flags, web, create
  <2>3. ContentFlags'
    BY <2>0 DEF NextRound, ContentFlags, Up, select, content, warn
  <2>4. DataOK'
    BY <2>0
         DEF NextRound, DataOK, Up, select, landing, dir, content, disk, form_of_repo,
         reached, xjob
  <2>5. StatesOK'
    BY <2>0 DEF NextRound, StatesOK, Up, select, landing, dir, web, xpopup, xjob, create
  <2> QED
    BY <2>1, <2>2, <2>3, <2>4, <2>5
         DEF TypeOK, RequestFlags, PopupFlags, ContentFlags, DataOK, StatesOK
<1>2. ServerMeetsNoBug'
  BY DEF NextRound, ServerMeetsNoBug, Up, select
<1>3. Up' => Watched'
  BY DEF Invs, NextRound, Watched, Up, select, IsRunning, dir, content, flags, web
<1>4. Up' => Locked'
  BY DEF Invs, NextRound, Locked, Up, select
<1>5. Up' => Opened'
  BY DEF Invs, NextRound, Opened, Up, select, landing, dir, flags, warn
<1>6. Up' => Loaded'
  BY ListingKept DEF Invs, NextRound, Loaded, Up, select, landing, IsRunning, Directory,
       dir, content, flags, web, disk, form_of_repo, reached, xpopup, xjob, warn, create
<1>7. Up' => Connected'
  BY DEF Invs, NextRound, Connected, Up, select, landing, XRunning, null, form_of_repo,
       reached, xpopup, xjob
<1>8. Up' => Offered'
  BY DEF NextRound, Offered, Up, select, landing, FormShown, flags, xpopup, warn
<1>9. Up' => Requested'
  BY DEF Invs, NextRound, Requested, Up, select, landing, dir, flags, reached, xpopup, warn
<1>10. Up' => Told'
  BY DEF NextRound, Told, Up, select, landing, flags, xpopup
<1>11. Up' => Warned'
  BY DEF Invs, NextRound, Warned, Up, select, landing, xpopup, warn
<1> QED
  BY <1>1, <1>2, <1>3, <1>4, <1>5, <1>6, <1>7, <1>8, <1>9, <1>10, <1>11 DEF IInv, Invs

(* The page is sent when nothing has changed: it offers no selection while   *)
(* the popup loads.                                                          *)
LEMMA SendKeeps ==
    ASSUME TypeOK, Invs, ServerMeetsNoBug, Send
    PROVE  IInv'
<1>1. TypeOK'
  <2>0. RequestFlags /\ PopupFlags /\ ContentFlags /\ DataOK /\ StatesOK
    BY TypeOKParts
  <2>1. RequestFlags'
    BY <2>0
         DEF Send, RequestFlags, Up, Buttons, landing, form_of_repo, reached, xpopup, xjob
  <2>2. PopupFlags'
    BY <2>0 DEF Send, PopupFlags, Up, Buttons, flags, web, create
  <2>3. ContentFlags'
    BY <2>0 DEF Send, ContentFlags, Up, Buttons
  <2>4. DataOK'
    BY <2>0 DEF Send, DataOK, Up, Buttons, dir, disk, landing, form_of_repo, reached, xjob
  <2>5. StatesOK'
    <3>1. page'.kind = "form" /\ pc' = "idle"
      BY DEF Send, Page
    <3>2. UNCHANGED <<status, target_type, thread, which_thread, mutex, parent, showing, host, mode, xthread,
                      hmode, xmode, stop>>
      BY DEF Send, landing, xpopup, xjob, dir, create, web
    <3> QED
      BY <2>0, <3>1, <3>2 DEF StatesOK
  <2> QED
    BY <2>1, <2>2, <2>3, <2>4, <2>5
         DEF TypeOK, RequestFlags, PopupFlags, ContentFlags, DataOK, StatesOK
<1>2. ServerMeetsNoBug'
  BY DEF Send, ServerMeetsNoBug, Up, Buttons
<1>3. Up' => Watched'
  BY DEF Invs, Send, Watched, Up, Buttons, dir, flags, web, IsRunning
<1>4. Up' => Locked'
  BY DEF Invs, Send, Locked, Up, Buttons
<1>5. Up' => Opened'
  BY DEF Invs, Send, Opened, Up, Buttons, dir, flags, landing
<1>6. Up' => Loaded'
  BY ListingKept DEF Invs, Send, Loaded, Up, Buttons, dir, flags, web, disk, landing,
       IsRunning, Directory, form_of_repo, reached, xpopup, xjob, create
<1>7. Up' => Connected'
  BY DEF Invs, Send, Connected, Up, Buttons, landing, XRunning, null, PopupButtons,
       form_of_repo, reached, xpopup, xjob
<1>8. Up' => Offered'
  <2> SUFFICES ASSUME Up' PROVE Offered'
    OBVIOUS
  <2>1. page'.kind = "form" /\ page'.buttons = Buttons /\ (visible => page'.label = label)
    BY DEF Send, Page
  <2>2. ~owed'
    BY DEF Invs, Warned, Opened, Send, TypeOK
  <2>3. Buttons \cap {"select", "cancel"} # {} => visible /\ ~is_loading_mode
    BY DEF Buttons, PopupButtons
  <2>4. Buttons \cap {"plus", "type", "host"} # {} => ~visible /\ ~xvisible
    BY NamesAssumption, ZenonT(60) DEF Buttons, PopupButtons, Bottom, Names, TypeOK
  <2>5. xvisible = xmanaged /\ (visible => ~xmanaged) /\ (need_reload => is_loading_mode)
    BY DEF Invs, Connected, Told, Send
  <2>6. UNCHANGED <<visible, label, is_loading_mode, need_reload, xmanaged>>
    BY DEF Send, dir, flags, landing, xpopup
  <2> QED
    BY <2>1, <2>2, <2>3, <2>4, <2>5, <2>6 DEF Offered
<1>9. Up' => Requested'
  BY DEF Invs, Send, Requested, Up, Page, Buttons, dir, flags, landing, PopupButtons,
       reached, xpopup
<1>10. Up' => Told'
  BY DEF Send, Told, Up, Buttons, flags, landing, xpopup
<1>11. Up' => Warned'
  BY DEF Invs, Send, Warned, Up, Buttons, landing, xpopup
<1> QED
  BY <1>1, <1>2, <1>3, <1>4, <1>5, <1>6, <1>7, <1>8, <1>9, <1>10, <1>11 DEF IInv, Invs

(* The user describes another repository: the page no longer counts on the   *)
(* one that was reached.                                                     *)
LEMMA PostRepositoryKeeps ==
    ASSUME TypeOK, Invs, ServerMeetsNoBug, NEW how \in {"type", "host"}, PostRepository(how)
    PROVE  IInv'
<1>1. TypeOK'
  <2>0. RequestFlags /\ PopupFlags /\ ContentFlags /\ DataOK /\ StatesOK
    BY TypeOKParts
  <2>1. RequestFlags'
    BY <2>0 DEF PostRepository, RequestFlags, Up, Describe, select, xpopup
  <2>2. PopupFlags'
    BY <2>0 DEF PostRepository, PopupFlags, Up, Describe, select, flags, web, create
  <2>3. ContentFlags'
    BY <2>0 DEF PostRepository, ContentFlags, Up, Describe, select, content, warn
  <2>4. DataOK'
    BY <2>0 DEF PostRepository, DataOK, Up, Describe, Tell, select, null, dir, content, disk
  <2>5. StatesOK'
    BY <2>0 DEF PostRepository, StatesOK, Up, Describe, select, xpopup, dir, web, create, To
  <2> QED
    BY <2>1, <2>2, <2>3, <2>4, <2>5
         DEF TypeOK, RequestFlags, PopupFlags, ContentFlags, DataOK, StatesOK
<1>2. ServerMeetsNoBug'
  BY DEF PostRepository, ServerMeetsNoBug, Up, Describe, select, To
<1>3. Up' => Watched'
  BY DEF Invs, PostRepository, Watched, Up, Describe, select, IsRunning, dir, content,
       flags, web
<1>4. Up' => Locked'
  BY DEF Invs, PostRepository, Locked, Up, Describe, select
<1>5. Up' => Opened'
  BY DEF Invs, PostRepository, Opened, Up, Describe, select, dir, flags, warn, To
<1>6. Up' => Loaded'
  BY ListingKept DEF Invs, PostRepository, Loaded, Up, Describe, select, xpopup, IsRunning,
       Directory, dir, content, flags, web, disk, warn, create
<1>7. Up' => Connected'
  BY DEF Invs, PostRepository, Connected, Up, Describe, select, xpopup, XRunning, null,
       flags, Requested, warn
<1>8. Up' => Offered'
  BY DEF PostRepository, Offered, Up, Describe, select, xpopup, FormShown, flags, warn, To
<1>9. Up' => Requested'
  BY DEF Invs, PostRepository, Requested, Up, Describe, select, xpopup, flags, warn
<1>10. Up' => Told'
  BY DEF Invs, PostRepository, Told, Up, Describe, select, xpopup, flags, Requested, warn,
       To
<1>11. Up' => Warned'
  BY DEF Invs, PostRepository, Warned, Up, Describe, select, xpopup, warn
<1> QED
  BY <1>1, <1>2, <1>3, <1>4, <1>5, <1>6, <1>7, <1>8, <1>9, <1>10, <1>11 DEF IInv, Invs

(* The part of the repository has no event to handle.                        *)
LEMMA RepositoryQuietKeeps ==
    ASSUME TypeOK, Invs, ServerMeetsNoBug, RepositoryQuiet
    PROVE  IInv'
<1>1. TypeOK'
  <2>0. RequestFlags /\ PopupFlags /\ ContentFlags /\ DataOK /\ StatesOK
    BY TypeOKParts
  <2>1. RequestFlags'
    BY <2>0
         DEF RepositoryQuiet, RequestFlags, Up, select, landing, form_of_repo, reached,
         xpopup, xjob
  <2>2. PopupFlags'
    BY <2>0 DEF RepositoryQuiet, PopupFlags, Up, select, flags, web, create
  <2>3. ContentFlags'
    BY <2>0 DEF RepositoryQuiet, ContentFlags, Up, select, content, warn
  <2>4. DataOK'
    BY <2>0 DEF RepositoryQuiet, DataOK, Up, Untold, select, landing, null, dir, content,
         disk, form_of_repo, reached, xjob
  <2>5. StatesOK'
    BY <2>0
         DEF RepositoryQuiet, StatesOK, Up, select, landing, dir, web, xpopup, xjob,
         create, To
  <2> QED
    BY <2>1, <2>2, <2>3, <2>4, <2>5
         DEF TypeOK, RequestFlags, PopupFlags, ContentFlags, DataOK, StatesOK
<1>2. ServerMeetsNoBug'
  BY DEF RepositoryQuiet, ServerMeetsNoBug, Up, select, To
<1>3. Up' => Watched'
  BY DEF Invs, RepositoryQuiet, Watched, Up, select, IsRunning, dir, content, flags, web
<1>4. Up' => Locked'
  BY DEF Invs, RepositoryQuiet, Locked, Up, select
<1>5. Up' => Opened'
  BY DEF Invs, RepositoryQuiet, Opened, Up, select, landing, dir, flags, warn, To
<1>6. Up' => Loaded'
  BY ListingKept DEF Invs, RepositoryQuiet, Loaded, Up, select, landing, IsRunning,
       Directory, dir, content, flags, web, disk, form_of_repo, reached, xpopup, xjob,
       warn, create
<1>7. Up' => Connected'
  BY DEF Invs, RepositoryQuiet, Connected, Up, select, landing, XRunning, null,
       form_of_repo, reached, xpopup, xjob
<1>8. Up' => Offered'
  BY DEF RepositoryQuiet, Offered, Up, select, landing, FormShown, flags, xpopup, warn, To
<1>9. Up' => Requested'
  BY DEF Invs, RepositoryQuiet, Requested, Up, select, landing, dir, flags, reached,
       xpopup, warn
<1>10. Up' => Told'
  BY DEF Invs, RepositoryQuiet, Told, Up, Untold, select, landing, flags, xpopup, To
<1>11. Up' => Warned'
  BY DEF Invs, RepositoryQuiet, Warned, Up, select, landing, xpopup, warn
<1> QED
  BY <1>1, <1>2, <1>3, <1>4, <1>5, <1>6, <1>7, <1>8, <1>9, <1>10, <1>11 DEF IInv, Invs

(* The plus button was not pressed.                                          *)
LEMMA PlusQuietKeeps ==
    ASSUME TypeOK, Invs, ServerMeetsNoBug, PlusQuiet
    PROVE  IInv'
<1>1. TypeOK'
  <2>0. RequestFlags /\ PopupFlags /\ ContentFlags /\ DataOK /\ StatesOK
    BY TypeOKParts
  <2>1. RequestFlags'
    BY <2>0
         DEF PlusQuiet, RequestFlags, Up, select, landing, form_of_repo, reached, xpopup,
         xjob
  <2>2. PopupFlags'
    BY <2>0 DEF PlusQuiet, PopupFlags, Up, select, flags, web, create
  <2>3. ContentFlags'
    BY <2>0 DEF PlusQuiet, ContentFlags, Up, select, content, warn
  <2>4. DataOK'
    BY <2>0
         DEF PlusQuiet, DataOK, Up, Untold, select, landing, null, dir, content, disk,
         form_of_repo, reached, xjob
  <2>5. StatesOK'
    BY <2>0 DEF PlusQuiet, StatesOK, Up, select, landing, dir, web, xpopup, xjob, create, To
  <2> QED
    BY <2>1, <2>2, <2>3, <2>4, <2>5
         DEF TypeOK, RequestFlags, PopupFlags, ContentFlags, DataOK, StatesOK
<1>2. ServerMeetsNoBug'
  BY DEF PlusQuiet, ServerMeetsNoBug, Up, select, To
<1>3. Up' => Watched'
  BY DEF Invs, PlusQuiet, Watched, Up, select, IsRunning, dir, content, flags, web
<1>4. Up' => Locked'
  BY DEF Invs, PlusQuiet, Locked, Up, select
<1>5. Up' => Opened'
  BY DEF Invs, PlusQuiet, Opened, Up, select, landing, dir, flags, warn, To
<1>6. Up' => Loaded'
  BY ListingKept DEF Invs, PlusQuiet, Loaded, Up, select, landing, IsRunning, Directory,
       dir, content, flags, web, disk, form_of_repo, reached, xpopup, xjob, warn, create
<1>7. Up' => Connected'
  BY DEF Invs, PlusQuiet, Connected, Up, select, landing, XRunning, null, form_of_repo,
       reached, xpopup, xjob
<1>8. Up' => Offered'
  BY DEF PlusQuiet, Offered, Up, select, landing, FormShown, flags, xpopup, warn, To
<1>9. Up' => Requested'
  BY DEF Invs, PlusQuiet, Requested, Up, select, landing, dir, flags, reached, xpopup, warn
<1>10. Up' => Told'
  BY DEF Invs, PlusQuiet, Told, Up, Untold, select, landing, flags, xpopup, To
<1>11. Up' => Warned'
  BY DEF Invs, PlusQuiet, Warned, Up, select, landing, xpopup, warn
<1> QED
  BY <1>1, <1>2, <1>3, <1>4, <1>5, <1>6, <1>7, <1>8, <1>9, <1>10, <1>11 DEF IInv, Invs

(* The plus button opens the popup: its thread was off, so nothing that a    *)
(* former opening read is mixed with what is read now.                       *)
LEMMA PressPlusKeeps ==
    ASSUME TypeOK, Invs, ServerMeetsNoBug, PressPlus
    PROVE  IInv'
<1>0. \/ UNCHANGED select
      \/ /\ ~visible /\ visible'
         /\ is_loading_mode' = TRUE /\ managed' = TRUE /\ should_refresh' = TRUE
         /\ thread' = "start" /\ which_thread' = "init_fill"
         /\ label' = value /\ path_loaded' = value /\ value \in Paths
         /\ UNCHANGED <<need_reload, warn, mutex, mode, parent, disk>>
  <2>1. Up /\ value \in Paths /\ value # ""
    BY NamesAssumption DEF Invs, Opened, PressPlus
  <2> QED
    BY <2>1 DEF PressPlus, Browse, GoSelect, RunThread, Launch, web
<1>1. TypeOK'
  <2>0. RequestFlags /\ PopupFlags /\ ContentFlags /\ DataOK /\ StatesOK
    BY TypeOKParts
  <2>1. RequestFlags'
    BY <2>0 DEF PressPlus, RequestFlags, Up, select, Browse, form_of_repo, xpopup, xjob,
         GoSelect, RunThread, NoLaunch, Launch
  <2>2. PopupFlags'
    BY <2>0
         DEF PressPlus, PopupFlags, Up, select, Browse, flags, web, GoSelect, RunThread,
         NoLaunch, Launch, create
  <2>3. ContentFlags'
    BY <2>0
         DEF PressPlus, ContentFlags, Up, select, Browse, content, GoSelect, RunThread,
         NoLaunch, Launch, warn
  <2>4. DataOK'
    BY <2>0 DEF PressPlus, DataOK, Up, null, select, Browse, Untold, Tell, form_of_repo,
         xjob, dir, content, disk, GoSelect, RunThread, NoLaunch, Launch
  <2>5. StatesOK'
    BY <2>0, ZenonT(60) DEF PressPlus, StatesOK, Up, null, Bug, select, Browse, xpopup, xjob, dir, web,
         GoSelect, RunThread, NoLaunch, Launch, create, To
  <2> QED
    BY <2>1, <2>2, <2>3, <2>4, <2>5
         DEF TypeOK, RequestFlags, PopupFlags, ContentFlags, DataOK, StatesOK
<1>2. ServerMeetsNoBug'
  BY DEF Invs, PressPlus, ServerMeetsNoBug, Up, select, Browse, form_of_repo, xpopup, xjob,
       GoSelect, RunThread, NoLaunch, Launch, Connected, To
<1>3. Up' => Watched'
  <2>1. CASE UNCHANGED select
    BY <2>1 DEF Invs, Watched, IsRunning, select, dir, content, web, flags
  <2>2. CASE ~UNCHANGED select
    <3>1. thread = "off"
      BY <1>0, <2>2 DEF Invs, Watched, Opened
    <3> QED
      BY <1>0, <2>2, <3>1, NamesAssumption DEF Invs, Watched, IsRunning
  <2> QED
    BY <2>1, <2>2
<1>4. Up' => Locked'
  BY <1>0
       DEF Invs, Watched, Locked, Opened, TypeOK, PressPlus, select, dir, content, warn,
       create, web, disk, flags
<1>5. Up' => Opened'
  BY NamesAssumption DEF Invs, PressPlus, Opened, Up, null, Bug, select, Browse, dir,
       flags, GoSelect, RunThread, NoLaunch, Launch, warn
<1>6. Up' => Loaded'
  BY <1>0, ListingKept
       DEF Invs, Loaded, IsRunning, Directory, select, dir, content, warn, create, web,
       disk, flags
<1>7. Up' => Connected'
  BY DEF Invs, PressPlus, Connected, Up, null, select, Browse, form_of_repo, xpopup, xjob,
       XRunning, GoSelect, RunThread, NoLaunch, Launch, TypeOK
<1>8. Up' => Offered'
  BY DEF PressPlus, Offered, Up, null, Bug, select, Browse, xpopup, FormShown, flags,
       GoSelect, RunThread, NoLaunch, Launch, warn, To
<1>9. Up' => Requested'
  BY DEF Invs, PressPlus, Requested, Up, Pressed, null, select, Browse, xpopup, flags,
       GoSelect, RunThread, NoLaunch, Launch, warn
<1>10. Up' => Told'
  <2>1. pc' \in {"open", "idle"} /\ changed' \subseteq changed \cup {"popup"} /\ Up
    BY DEF PressPlus, To, Bug, Tell, Untold
  <2>2. Up' => pc' = "open"
    BY DEF PressPlus, To, Bug, Up
  <2>3. "other" \notin changed
    BY DEF Invs, Told, PressPlus, Pressed
  <2> QED
    BY <2>1, <2>2, <2>3 DEF Told
<1>11. Up' => Warned'
  BY DEF Invs, PressPlus, Warned, Up, select, Browse, xpopup, flags, GoSelect, RunThread,
       NoLaunch, Launch, Opened, warn
<1> QED
  BY <1>1, <1>2, <1>3, <1>4, <1>5, <1>6, <1>7, <1>8, <1>9, <1>10, <1>11 DEF IInv, Invs

(* The plus button starts the thread that reaches the repository.            *)
LEMMA PressPlusUpdatesKeeps ==
    ASSUME TypeOK, Invs, ServerMeetsNoBug, PressPlusUpdates
    PROVE  IInv'
<1>1. TypeOK'
  <2>0. RequestFlags /\ PopupFlags /\ ContentFlags /\ DataOK /\ StatesOK
    BY TypeOKParts
  <2>1. RequestFlags'
    BY <2>0
         DEF PressPlusUpdates, RequestFlags, Up, xpopup, xjob, select, form_of_repo, reached
  <2>2. PopupFlags'
    BY <2>0 DEF PressPlusUpdates, PopupFlags, Up, select, flags, web, create
  <2>3. ContentFlags'
    BY <2>0 DEF PressPlusUpdates, ContentFlags, Up, select, content, warn
  <2>4. DataOK'
    BY <2>0
         DEF PressPlusUpdates, DataOK, Up, xjob, null, Tell, select, form_of_repo, reached,
         dir, content, disk
  <2>5. StatesOK'
    BY <2>0
         DEF PressPlusUpdates, StatesOK, Up, Bug, xpopup, xjob, null, select, dir, web,
         create, To
  <2> QED
    BY <2>1, <2>2, <2>3, <2>4, <2>5
         DEF TypeOK, RequestFlags, PopupFlags, ContentFlags, DataOK, StatesOK
<1>2. ServerMeetsNoBug'
  BY DEF PressPlusUpdates, ServerMeetsNoBug, Up, Bug, null, select, To
<1>3. Up' => Watched'
  BY DEF Invs, PressPlusUpdates, Watched, Up, select, IsRunning, dir, content, flags, web
<1>4. Up' => Locked'
  BY DEF Invs, PressPlusUpdates, Locked, Up, select
<1>5. Up' => Opened'
  BY DEF Invs, PressPlusUpdates, Opened, Up, Bug, null, select, dir, flags, warn, To
<1>6. Up' => Loaded'
  BY ListingKept DEF Invs, PressPlusUpdates, Loaded, Up, xpopup, xjob, select,
       form_of_repo, reached, IsRunning, Directory, dir, content, flags, web, disk, warn,
       create
<1>7. Up' => Connected'
  BY DEF Invs, PressPlusUpdates, Connected, Up, Pressed, xpopup, xjob, null, select,
       form_of_repo, reached, XRunning, flags, Requested, warn
<1>8. Up' => Offered'
  BY DEF PressPlusUpdates, Offered, Up, Bug, xpopup, null, select, FormShown, flags, warn,
       To
<1>9. Up' => Requested'
  BY DEF Invs, PressPlusUpdates, Requested, Up, Pressed, xpopup, null, select, reached,
       flags, warn
<1>10. Up' => Told'
  BY DEF Invs, PressPlusUpdates, Told, Up, Pressed, Bug, xpopup, null, select, reached,
       flags, Requested, warn, To
<1>11. Up' => Warned'
  BY DEF Invs, PressPlusUpdates, Warned, Up, Pressed, xpopup, null, select, reached, flags,
       Requested, warn
<1> QED
  BY <1>1, <1>2, <1>3, <1>4, <1>5, <1>6, <1>7, <1>8, <1>9, <1>10, <1>11 DEF IInv, Invs

(* The selection closes the popup.                                           *)
LEMMA SelectKeeps ==
    ASSUME TypeOK, Invs, ServerMeetsNoBug, Select
    PROVE  IInv'
<1>1. TypeOK'
  <2>0. RequestFlags /\ PopupFlags /\ ContentFlags /\ DataOK /\ StatesOK
    BY TypeOKParts
  <2>1. RequestFlags'
    BY <2>0
         DEF Select, RequestFlags, Close, TakeSelection, form_of_repo, reached, xpopup,
         xjob, Up
  <2>2. PopupFlags'
    BY <2>0 DEF Select, PopupFlags, Close, TakeSelection, Up, flags, web, create
  <2>3. ContentFlags'
    BY <2>0 DEF Select, ContentFlags, Close, TakeSelection, Up, content, warn
  <2>4. DataOK'
    BY <2>0
         DEF Select, DataOK, Close, TakeSelection, null, form_of_repo, reached, xjob, Up,
         Tell, dir, content, disk
  <2>5. StatesOK'
    BY <2>0
         DEF Select, StatesOK, Close, TakeSelection, xpopup, xjob, Up, dir, web, create, To
  <2> QED
    BY <2>1, <2>2, <2>3, <2>4, <2>5
         DEF TypeOK, RequestFlags, PopupFlags, ContentFlags, DataOK, StatesOK
<1>2. ServerMeetsNoBug'
  BY DEF Select, ServerMeetsNoBug, Close, TakeSelection, Up, To
<1>3. Up' => Watched'
  BY DEF Invs, Select, Watched, Close, TakeSelection, IsRunning, Up, OnBottom, flags, web
<1>4. Up' => Locked'
  BY DEF Invs, Select, Locked, Close, TakeSelection, Up, To
<1>5. Up' => Opened'
  BY DEF Invs, Select, Opened, Close, TakeSelection, reached, xpopup, Up, OnBottom, flags,
       Requested, warn, To
<1>6. Up' => Loaded'
  BY ListingKept DEF Select, Loaded, Close, TakeSelection, IsRunning, Directory, Up
<1>7. Up' => Connected'
  BY DEF Invs, Select, Connected, Close, TakeSelection, null, form_of_repo, reached,
       xpopup, xjob, XRunning, Up
<1>8. Up' => Offered'
  BY DEF Select, Offered, Close, TakeSelection, xpopup, FormShown, Up, flags, warn, To
<1>9. Up' => Requested'
  BY DEF Invs, Select, Requested, Close, TakeSelection, reached, xpopup, Up, flags, warn
<1>10. Up' => Told'
  BY DEF Select, Told, Close, TakeSelection, xpopup, Up, flags, To
<1>11. Up' => Warned'
  BY DEF Select, Warned, Close, TakeSelection, xpopup, Up, warn
<1> QED
  BY <1>1, <1>2, <1>3, <1>4, <1>5, <1>6, <1>7, <1>8, <1>9, <1>10, <1>11 DEF IInv, Invs

(* The popup is closed without a selection.                                  *)
LEMMA CancelKeeps ==
    ASSUME TypeOK, Invs, ServerMeetsNoBug, Cancel
    PROVE  IInv'
<1>1. TypeOK'
  <2>0. RequestFlags /\ PopupFlags /\ ContentFlags /\ DataOK /\ StatesOK
    BY TypeOKParts
  <2>1. RequestFlags'
    BY <2>0 DEF Cancel, RequestFlags, Close, form_of_repo, reached, xpopup, xjob, Up
  <2>2. PopupFlags'
    BY <2>0 DEF Cancel, PopupFlags, Close, Up, flags, web, create
  <2>3. ContentFlags'
    BY <2>0 DEF Cancel, ContentFlags, Close, Up, content, warn
  <2>4. DataOK'
    BY <2>0
         DEF Cancel, DataOK, Close, null, form_of_repo, reached, xjob, Up, Tell, dir,
         content, disk
  <2>5. StatesOK'
    BY <2>0 DEF Cancel, StatesOK, Close, xpopup, xjob, Up, dir, web, create, To
  <2> QED
    BY <2>1, <2>2, <2>3, <2>4, <2>5
         DEF TypeOK, RequestFlags, PopupFlags, ContentFlags, DataOK, StatesOK
<1>2. ServerMeetsNoBug'
  BY DEF Cancel, ServerMeetsNoBug, Close, Up, To
<1>3. Up' => Watched'
  BY DEF Invs, Cancel, Watched, Close, IsRunning, Up, OnBottom, flags, web
<1>4. Up' => Locked'
  BY DEF Invs, Cancel, Locked, Close, Up, To
<1>5. Up' => Opened'
  BY DEF Invs, Cancel, Opened, Close, reached, xpopup, Up, flags, Requested, warn, To
<1>6. Up' => Loaded'
  BY ListingKept DEF Cancel, Loaded, Close, IsRunning, Directory, Up
<1>7. Up' => Connected'
  BY DEF Invs, Cancel, Connected, Close, null, form_of_repo, reached, xpopup, xjob,
       XRunning, Up
<1>8. Up' => Offered'
  BY DEF Cancel, Offered, Close, xpopup, FormShown, Up, flags, warn, To
<1>9. Up' => Requested'
  BY DEF Invs, Cancel, Requested, Close, reached, xpopup, Up, flags, warn
<1>10. Up' => Told'
  BY DEF Cancel, Told, Close, xpopup, Up, flags, To
<1>11. Up' => Warned'
  BY DEF Cancel, Warned, Close, xpopup, Up, warn
<1> QED
  BY <1>1, <1>2, <1>3, <1>4, <1>5, <1>6, <1>7, <1>8, <1>9, <1>10, <1>11 DEF IInv, Invs

(* The popup of the repository is not shown, or waits.                       *)
LEMMA XferQuietKeeps ==
    ASSUME TypeOK, Invs, ServerMeetsNoBug, XferQuiet
    PROVE  IInv'
<1>1. TypeOK'
  <2>0. RequestFlags /\ PopupFlags /\ ContentFlags /\ DataOK /\ StatesOK
    BY TypeOKParts
  <2>1. RequestFlags'
    <3>1. redirect' \in BOOLEAN
      BY <2>0 DEF XferQuiet, SetRefresh, RequestFlags
    <3> QED
      BY <2>0, <3>1
           DEF XferQuiet, RequestFlags, landing, form_of_repo, reached, xpopup, xjob
  <2>2. PopupFlags'
    BY <2>0 DEF XferQuiet, PopupFlags, Up, select, flags, web, create
  <2>3. ContentFlags'
    BY <2>0 DEF XferQuiet, ContentFlags, Up, select, content, warn
  <2>4. DataOK'
    BY <2>0 DEF XferQuiet, DataOK, Up, XRunning, Untold, select, landing, null, dir,
         content, disk, form_of_repo, reached, xjob
  <2>5. StatesOK'
    BY <2>0 DEF XferQuiet, StatesOK, Up, select, landing, dir, web, xpopup, xjob, create, To
  <2> QED
    BY <2>1, <2>2, <2>3, <2>4, <2>5
         DEF TypeOK, RequestFlags, PopupFlags, ContentFlags, DataOK, StatesOK
<1>2. ServerMeetsNoBug'
  BY DEF XferQuiet, ServerMeetsNoBug, Up, select, To
<1>3. Up' => Watched'
  BY DEF Invs, XferQuiet, Watched, Up, select, IsRunning, dir, content, flags, web
<1>4. Up' => Locked'
  BY DEF Invs, XferQuiet, Locked, Up, select
<1>5. Up' => Opened'
  BY DEF Invs, XferQuiet, Opened, Up, select, landing, dir, flags, warn, To
<1>6. Up' => Loaded'
  BY ListingKept DEF Invs, XferQuiet, Loaded, Up, select, landing, IsRunning, Directory,
       dir, content, flags, web, disk, form_of_repo, reached, xpopup, xjob, warn, create
<1>7. Up' => Connected'
  BY DEF Invs, XferQuiet, Connected, Up, XRunning, select, landing, null, form_of_repo,
       reached, xpopup, xjob
<1>8. Up' => Offered'
  BY DEF XferQuiet, Offered, Up, select, landing, FormShown, flags, xpopup, warn, To
<1>9. Up' => Requested'
  BY DEF Invs, XferQuiet, Requested, Up, select, landing, dir, flags, reached, xpopup, warn
<1>10. Up' => Told'
  BY DEF Invs, XferQuiet, Told, Up, XRunning, select, landing, flags, form_of_repo,
       reached, xpopup, xjob, Connected, null, To
<1>11. Up' => Warned'
  BY DEF Invs, XferQuiet, Warned, Up, XRunning, Untold, select, web, landing, form_of_repo,
       reached, xpopup, xjob, Connected, null, warn, To
<1> QED
  BY <1>1, <1>2, <1>3, <1>4, <1>5, <1>6, <1>7, <1>8, <1>9, <1>10, <1>11 DEF IInv, Invs

(* The thread that reaches the repository is asked to stop.                  *)
LEMMA PressXferStopKeeps ==
    ASSUME TypeOK, Invs, ServerMeetsNoBug, PressXferStop
    PROVE  IInv'
<1>1. TypeOK'
  <2>0. RequestFlags /\ PopupFlags /\ ContentFlags /\ DataOK /\ StatesOK
    BY TypeOKParts
  <2>1. RequestFlags'
    BY <2>0
         DEF PressXferStop, RequestFlags, Up, XRunning, SetRefresh, select, form_of_repo,
         reached, xjob
  <2>2. PopupFlags'
    BY <2>0 DEF PressXferStop, PopupFlags, Up, select, flags, web, create
  <2>3. ContentFlags'
    BY <2>0 DEF PressXferStop, ContentFlags, Up, select, content, warn
  <2>4. DataOK'
    BY <2>0
         DEF PressXferStop, DataOK, Up, XRunning, Tell, select, form_of_repo, reached,
         xjob, null, dir, content, disk
  <2>5. StatesOK'
    BY <2>0 DEF PressXferStop, StatesOK, Up, select, xjob, dir, web, create, To
  <2> QED
    BY <2>1, <2>2, <2>3, <2>4, <2>5
         DEF TypeOK, RequestFlags, PopupFlags, ContentFlags, DataOK, StatesOK
<1>2. ServerMeetsNoBug'
  BY DEF PressXferStop, ServerMeetsNoBug, Up, select, To
<1>3. Up' => Watched'
  BY DEF Invs, PressXferStop, Watched, Up, select, IsRunning, dir, content, flags, web
<1>4. Up' => Locked'
  BY DEF Invs, PressXferStop, Locked, Up, select
<1>5. Up' => Opened'
  BY DEF Invs, PressXferStop, Opened, Up, select, dir, flags, warn, To
<1>6. Up' => Loaded'
  BY ListingKept DEF Invs, PressXferStop, Loaded, Up, select, form_of_repo, reached, xjob,
       IsRunning, Directory, dir, content, flags, web, disk, warn, create
<1>7. Up' => Connected'
  BY DEF Invs, PressXferStop, Connected, Up, select, form_of_repo, reached, xjob
<1>8. Up' => Offered'
  BY DEF PressXferStop, Offered, Up, select, FormShown, flags, warn, To
<1>9. Up' => Requested'
  BY DEF Invs, PressXferStop, Requested, Up, select, reached, flags, warn
<1>10. Up' => Told'
  BY DEF Invs, PressXferStop, Told, Up, XRunning, select, form_of_repo, reached, xjob,
       flags, Connected, null, To
<1>11. Up' => Warned'
  BY DEF Invs, PressXferStop, Warned, Up, XRunning, select, form_of_repo, reached, xjob,
       Connected, null, warn
<1> QED
  BY <1>1, <1>2, <1>3, <1>4, <1>5, <1>6, <1>7, <1>8, <1>9, <1>10, <1>11 DEF IInv, Invs

(* The end of the thread that reaches the repository is seen, and the popup  *)
(* for browsing opens on what it gave.                                       *)
LEMMA XferEndKeeps ==
    ASSUME TypeOK, Invs, ServerMeetsNoBug, XferEnd
    PROVE  IInv'
<1>0. \/ UNCHANGED select
      \/ /\ ~visible /\ visible'
         /\ is_loading_mode' = TRUE /\ managed' = TRUE /\ should_refresh' = TRUE
         /\ thread' = "start" /\ which_thread' = "init_fill"
         /\ label' = value /\ path_loaded' = value /\ value \in Paths
         /\ UNCHANGED <<need_reload, warn, mutex, mode, parent, disk>>
  <2>1. Up /\ value \in Paths /\ value # ""
    BY NamesAssumption DEF Invs, Opened, XferEnd
  <2> QED
    BY <2>1 DEF XferEnd, Browse, GoSelect, RunThread, Launch, web
<1>a. UNCHANGED <<req, acted, moved, parent, entrepot_changed, host>> /\ ~xmanaged' /\ Up
  BY <1>0, NamesAssumption DEF XferEnd, select, warn, Browse, GoSelect
<1>b. \/ page' = page /\ pc' = "end" /\ status' = status /\ xthread = "ended"
      \/ page'.kind = "error" /\ pc' = "idle" /\ status' = status
      \/ page' = page /\ pc' = "idle" /\ status' = "null"
  <2>1. CASE libdar_entrep = null
    BY <2>1 DEF XferEnd, Bug
  <2>2. CASE libdar_entrep # null /\ xthread = "failed"
    BY <2>2, ErrorPage DEF XferEnd
  <2>3. CASE libdar_entrep # null /\ xthread = "ended"
    BY <2>3 DEF XferEnd, To
  <2> QED
    BY <2>1, <2>2, <2>3 DEF XferEnd
<1>1. TypeOK'
  <2>0. RequestFlags /\ PopupFlags /\ ContentFlags /\ DataOK /\ StatesOK
    BY TypeOKParts
  <2>1. RequestFlags'
    BY <2>0 DEF XferEnd, RequestFlags, Up, null, select, Browse, Page, SetRefresh,
         form_of_repo, GoSelect, RunThread, NoLaunch, Launch
  <2>2. PopupFlags'
    BY <2>0
         DEF XferEnd, PopupFlags, Up, select, Browse, flags, web, GoSelect, RunThread,
         NoLaunch, Launch, create
  <2>3. ContentFlags'
    BY <2>0
         DEF XferEnd, ContentFlags, Up, select, Browse, content, GoSelect, RunThread,
         NoLaunch, Launch, warn
  <2>4. DataOK'
    BY <2>0 DEF XferEnd, DataOK, Up, null, select, Browse, Tell, form_of_repo, dir,
         content, disk, GoSelect, RunThread, NoLaunch, Launch
  <2>5. StatesOK'
    <3>1. UNCHANGED <<target_type, mutex, parent, showing, host, mode>>
      BY <1>0 DEF XferEnd, select, dir, create, Browse, GoSelect
    <3>2. /\ thread' \in {thread, "start"} /\ which_thread' \in {which_thread, "init_fill"}
          /\ hmode' \in {hmode, "normal"} /\ stop' \in {stop, "none"}
      BY DEF XferEnd, Browse, GoSelect, RunThread, Launch, NoLaunch, select, web
    <3>3. xthread' = "off" /\ xmode' = "closed"
      BY DEF XferEnd
    <3> QED
      BY <1>b, <2>0, <3>1, <3>2, <3>3 DEF StatesOK
  <2> QED
    BY <2>1, <2>2, <2>3, <2>4, <2>5
         DEF TypeOK, RequestFlags, PopupFlags, ContentFlags, DataOK, StatesOK
<1>2. ServerMeetsNoBug'
  BY DEF XferEnd, ServerMeetsNoBug, Up, null, Bug, select, Browse, GoSelect, RunThread,
       NoLaunch, Launch, To
<1>3. Up' => Watched'
  <2>1. CASE UNCHANGED select
    BY <2>1 DEF Invs, Watched, IsRunning, select, dir, content, web, flags
  <2>2. CASE ~UNCHANGED select
    <3>1. thread = "off"
      BY <1>0, <2>2 DEF Invs, Watched, Opened
    <3> QED
      BY <1>0, <2>2, <3>1, NamesAssumption DEF Invs, Watched, IsRunning
  <2> QED
    BY <2>1, <2>2
<1>4. Up' => Locked'
  BY <1>0
       DEF Invs, Watched, Locked, Opened, TypeOK, XferEnd, select, dir, content, warn,
       create, web, disk, flags
<1>5. Up' => Opened'
  BY NamesAssumption DEF Invs, XferEnd, Opened, Up, null, Bug, select, Browse, dir, flags,
       GoSelect, RunThread, NoLaunch, Launch, warn
<1>6. Up' => Loaded'
  BY <1>0, ListingKept
       DEF Invs, Loaded, IsRunning, Directory, select, dir, content, warn, create, web,
       disk, flags
<1>7. Up' => Connected'
  BY DEF Invs, XferEnd, Connected, Up, null, select, Browse, form_of_repo, XRunning,
       GoSelect, RunThread, NoLaunch, Launch
<1>8. Up' => Offered'
  BY <1>b DEF Offered, FormShown, Up
<1>9. Up' => Requested'
  <2> SUFFICES ASSUME Up' PROVE Requested'
    OBVIOUS
  <2>1. xmanaged /\ pc = "xfer" /\ req \notin {"select", "cancel", "type", "host"}
    BY DEF Invs, Requested, XferEnd
  <2>2. xthread = "ended" => ~entrepot_changed
    BY DEF Invs, Connected
  <2>3. moved => req # parent
    BY DEF Invs, Requested
  <2> QED
    BY <1>a, <1>b, <2>1, <2>2, <2>3 DEF Requested, Up
<1>10. Up' => Told'
  BY DEF Invs, XferEnd, Told, Up, null, Bug, select, Browse, flags, GoSelect, RunThread,
       NoLaunch, Launch, To
<1>11. Up' => Warned'
  BY DEF Invs, XferEnd, Warned, Up, select, Browse, flags, GoSelect, RunThread, NoLaunch,
       Launch, Opened, warn
<1> QED
  BY <1>1, <1>2, <1>3, <1>4, <1>5, <1>6, <1>7, <1>8, <1>9, <1>10, <1>11 DEF IInv, Invs

(* The popup is evaluated.                                                   *)
LEMMA OpenPopupKeeps ==
    ASSUME TypeOK, Invs, ServerMeetsNoBug, OpenPopup, UNCHANGED landing
    PROVE  IInv'
<1>1. TypeOK'
  <2>0. RequestFlags /\ PopupFlags /\ ContentFlags /\ DataOK /\ StatesOK
    BY TypeOKParts
  <2>1. RequestFlags'
    BY <2>0 DEF OpenPopup, RequestFlags, landing, Up, form_of_repo, reached, xpopup, xjob
  <2>2. PopupFlags'
    BY <2>0 DEF OpenPopup, PopupFlags, Up, flags, web, create
  <2>3. ContentFlags'
    BY <2>0 DEF OpenPopup, ContentFlags, Up, content
  <2>4. DataOK'
    BY <2>0
         DEF OpenPopup, DataOK, landing, Up, dir, content, disk, form_of_repo, reached, xjob
  <2>5. StatesOK'
    BY <2>0 DEF OpenPopup, StatesOK, landing, Up, Bug, dir, web, xpopup, xjob, create, To
  <2> QED
    BY <2>1, <2>2, <2>3, <2>4, <2>5
         DEF TypeOK, RequestFlags, PopupFlags, ContentFlags, DataOK, StatesOK
<1>2. ServerMeetsNoBug'
  BY DEF Invs, OpenPopup, ServerMeetsNoBug, Up, flags, web, Watched, Locked, IsRunning,
       TypeOK, To
<1>3. Up' => Watched'
  BY DEF Invs, OpenPopup, Watched, Up, dir, content, flags, web, IsRunning
<1>4. Up' => Locked'
  BY DEF Invs, OpenPopup, Locked, Up, To
<1>5. Up' => Opened'
  BY DEF Invs, OpenPopup, Opened, landing, Up, dir, flags
<1>6. Up' => Loaded'
  BY ListingKept DEF Invs, OpenPopup, Loaded, landing, Up, dir, content, flags, web, disk,
       IsRunning, Directory, form_of_repo, reached, xpopup, xjob, create
<1>7. Up' => Connected'
  BY DEF Invs, OpenPopup, Connected, landing, Up, XRunning, null, form_of_repo, reached,
       xpopup, xjob
<1>8. Up' => Offered'
  BY DEF OpenPopup, Offered, landing, Up, Bug, flags, FormShown, xpopup, To
<1>9. Up' => Requested'
  BY DEF Invs, OpenPopup, Requested, landing, Up, dir, flags, reached, xpopup
<1>10. Up' => Told'
  BY DEF Invs, OpenPopup, Told, landing, Up, Bug, flags, xpopup, To
<1>11. Up' => Warned'
  BY DEF Invs, OpenPopup, Warned, landing, Up, xpopup
<1> QED
  BY <1>1, <1>2, <1>3, <1>4, <1>5, <1>6, <1>7, <1>8, <1>9, <1>10, <1>11 DEF IInv, Invs

(* A hidden popup is passed.                                                 *)
LEMMA NoPopupKeeps ==
    ASSUME TypeOK, Invs, ServerMeetsNoBug, NoPopup, UNCHANGED landing
    PROVE  IInv'
<1>1. TypeOK'
  <2>0. RequestFlags /\ PopupFlags /\ ContentFlags /\ DataOK /\ StatesOK
    BY TypeOKParts
  <2>1. RequestFlags'
    BY <2>0
         DEF NoPopup, RequestFlags, landing, Up, select, form_of_repo, reached, xpopup, xjob
  <2>2. PopupFlags'
    BY <2>0 DEF NoPopup, PopupFlags, Up, select, flags, web, create
  <2>3. ContentFlags'
    BY <2>0 DEF NoPopup, ContentFlags, Up, select, content, warn
  <2>4. DataOK'
    BY <2>0
         DEF NoPopup, DataOK, landing, Up, Untold, select, null, form_of_repo, reached,
         xjob, dir, content, disk
  <2>5. StatesOK'
    BY <2>0 DEF NoPopup, StatesOK, landing, Up, select, xpopup, xjob, dir, web, create, To
  <2> QED
    BY <2>1, <2>2, <2>3, <2>4, <2>5
         DEF TypeOK, RequestFlags, PopupFlags, ContentFlags, DataOK, StatesOK
<1>2. ServerMeetsNoBug'
  BY DEF NoPopup, ServerMeetsNoBug, Up, select, To
<1>3. Up' => Watched'
  BY DEF Invs, NoPopup, Watched, Up, select, IsRunning, dir, content, flags, web
<1>4. Up' => Locked'
  BY DEF Invs, NoPopup, Locked, Up, select
<1>5. Up' => Opened'
  BY DEF Invs, NoPopup, Opened, landing, Up, select, flags, warn, To
<1>6. Up' => Loaded'
  BY ListingKept DEF NoPopup, Loaded, Up, select, IsRunning, Directory
<1>7. Up' => Connected'
  BY DEF Invs, NoPopup, Connected, landing, Up, select, XRunning, null, form_of_repo,
       reached, xpopup, xjob
<1>8. Up' => Offered'
  BY DEF NoPopup, Offered, landing, Up, select, FormShown, xpopup, flags, warn, To
<1>9. Up' => Requested'
  BY DEF Invs, NoPopup, Requested, landing, Up, select, reached, xpopup, flags, warn
<1>10. Up' => Told'
  BY DEF Invs, NoPopup, Told, landing, Up, select, xpopup, flags, Opened, warn, To
<1>11. Up' => Warned'
  BY DEF NoPopup, Warned, landing, Up, select, xpopup, warn
<1> QED
  BY <1>1, <1>2, <1>3, <1>4, <1>5, <1>6, <1>7, <1>8, <1>9, <1>10, <1>11 DEF IInv, Invs

(* No entry of the list was pressed.                                         *)
LEMMA FieldsetQuietKeeps ==
    ASSUME TypeOK, Invs, ServerMeetsNoBug, FieldsetQuiet, UNCHANGED landing
    PROVE  IInv'
<1>1. TypeOK'
  <2>0. RequestFlags /\ PopupFlags /\ ContentFlags /\ DataOK /\ StatesOK
    BY TypeOKParts
  <2>1. RequestFlags'
    BY <2>0
         DEF FieldsetQuiet, RequestFlags, landing, Up, select, form_of_repo, reached,
         xpopup, xjob
  <2>2. PopupFlags'
    BY <2>0 DEF FieldsetQuiet, PopupFlags, Up, select, flags, web, create
  <2>3. ContentFlags'
    BY <2>0 DEF FieldsetQuiet, ContentFlags, Up, select, content, warn
  <2>4. DataOK'
    BY <2>0
         DEF FieldsetQuiet, DataOK, landing, Up, Untold, select, null, form_of_repo,
         reached, xjob, dir, content, disk
  <2>5. StatesOK'
    BY <2>0
         DEF FieldsetQuiet, StatesOK, landing, Up, select, xpopup, xjob, dir, web, create,
         To
  <2> QED
    BY <2>1, <2>2, <2>3, <2>4, <2>5
         DEF TypeOK, RequestFlags, PopupFlags, ContentFlags, DataOK, StatesOK
<1>2. ServerMeetsNoBug'
  BY DEF FieldsetQuiet, ServerMeetsNoBug, Up, select, To
<1>3. Up' => Watched'
  BY DEF Invs, FieldsetQuiet, Watched, Up, select, IsRunning, dir, content, flags, web
<1>4. Up' => Locked'
  BY DEF Invs, FieldsetQuiet, Locked, Up, select, To
<1>5. Up' => Opened'
  BY DEF Invs, FieldsetQuiet, Opened, landing, Up, select, dir, flags, warn
<1>6. Up' => Loaded'
  BY ListingKept DEF Invs, FieldsetQuiet, Loaded, landing, Up, select, IsRunning,
       Directory, form_of_repo, reached, xpopup, xjob, dir, content, flags, web, disk,
       warn, create
<1>7. Up' => Connected'
  BY DEF Invs, FieldsetQuiet, Connected, landing, Up, select, XRunning, null, form_of_repo,
       reached, xpopup, xjob
<1>8. Up' => Offered'
  BY DEF FieldsetQuiet, Offered, landing, Up, select, FormShown, xpopup, flags, warn, To
<1>9. Up' => Requested'
  BY DEF Invs, FieldsetQuiet, Requested, landing, Up, select, reached, xpopup, dir, flags,
       warn
<1>10. Up' => Told'
  BY DEF Invs, FieldsetQuiet, Told, landing, Up, Untold, select, xpopup, flags, To
<1>11. Up' => Warned'
  BY DEF Invs, FieldsetQuiet, Warned, landing, Up, select, xpopup, warn
<1> QED
  BY <1>1, <1>2, <1>3, <1>4, <1>5, <1>6, <1>7, <1>8, <1>9, <1>10, <1>11 DEF IInv, Invs

(* The button of the parent moves to the directory above, and has the        *)
(* content read again.                                                       *)
LEMMA PressParentKeeps ==
    ASSUME TypeOK, Invs, ServerMeetsNoBug, PressParent, UNCHANGED landing
    PROVE  IInv'
<1>1. TypeOK'
  <2>0. RequestFlags /\ PopupFlags /\ ContentFlags /\ DataOK /\ StatesOK
    BY TypeOKParts
  <2>1. RequestFlags'
    BY <2>0 DEF PressParent, RequestFlags, landing, Up, Swap, RunThread, form_of_repo,
         reached, xpopup, xjob, NoLaunch, Launch
  <2>2. PopupFlags'
    BY <2>0 DEF PressParent, PopupFlags, Up, Swap, RunThread, NoLaunch, Launch, web, create
  <2>3. ContentFlags'
    BY <2>0 DEF PressParent, ContentFlags, Up, Swap, RunThread, content, NoLaunch, Launch
  <2>4. DataOK'
    BY <2>0, PathsAssumption DEF PressParent, DataOK, landing, Up, Swap, RunThread, Tell,
         content, disk, null, form_of_repo, reached, xjob, NoLaunch, Launch, Invs, Opened
  <2>5. StatesOK'
    BY <2>0
         DEF PressParent, StatesOK, landing, Up, Swap, Bug, RunThread, xpopup, xjob,
         NoLaunch, Launch, web, create, To
  <2> QED
    BY <2>1, <2>2, <2>3, <2>4, <2>5
         DEF TypeOK, RequestFlags, PopupFlags, ContentFlags, DataOK, StatesOK
<1>2. ServerMeetsNoBug'
  BY DEF Invs, PressParent, ServerMeetsNoBug, Up, Swap, Busy, RunThread, IsRunning,
       NoLaunch, Launch, web, Watched, To
<1>3. Up' => Watched'
  <2> SUFFICES ASSUME Up' PROVE Watched'
    OBVIOUS
  <2>1. ~managed /\ thread = "off" /\ which_thread = "nothing" /\ Up
    BY DEF Invs, Watched, PressParent, TypeOK, IsRunning
  <2>2. CASE label' = path_loaded
    BY <2>1, <2>2 DEF Invs, Watched, PressParent, RunThread, NoLaunch, web, IsRunning
  <2>3. CASE label' # path_loaded
    BY <2>1, <2>3 DEF Invs, Watched, PressParent, RunThread, Launch, IsRunning
  <2> QED
    BY <2>2, <2>3
<1>4. Up' => Locked'
  BY DEF Invs, PressParent, Locked, Up, Swap, Busy, Bug, RunThread, IsRunning, NoLaunch,
       Launch, To
<1>5. Up' => Opened'
  <2>1. visible /\ label' \in Paths /\ (path_loaded' = path_loaded \/ path_loaded' = label')
    BY PathsAssumption DEF Invs, Opened, PressParent, RunThread, Launch, NoLaunch
  <2>2. UNCHANGED <<visible, need_reload, owed, value>> /\ Up
    BY DEF PressParent, landing
  <2> QED
    BY <2>1, <2>2, NamesAssumption DEF Invs, Opened
<1>6. Up' => Loaded'
  BY ListingKept DEF Invs, PressParent, Loaded, landing, Up, Swap, RunThread, content,
       disk, IsRunning, Directory, form_of_repo, reached, xpopup, xjob, NoLaunch, Launch,
       web, create
<1>7. Up' => Connected'
  BY DEF Invs, PressParent, Connected, landing, Up, Swap, RunThread, XRunning, null,
       form_of_repo, reached, xpopup, xjob, NoLaunch, Launch
<1>8. Up' => Offered'
  BY DEF PressParent, Offered, landing, Up, Swap, Bug, RunThread, FormShown, xpopup,
       NoLaunch, Launch, To
<1>9. Up' => Requested'
  BY DEF Invs, PressParent, Requested, landing, Up, Swap, RunThread, reached, xpopup,
       NoLaunch, Launch, TypeOK
<1>10. Up' => Told'
  BY DEF Invs, PressParent, Told, landing, Up, Swap, Bug, RunThread, Tell, xpopup,
       NoLaunch, Launch, To
<1>11. Up' => Warned'
  BY DEF Invs, PressParent, Warned, landing, Up, Swap, RunThread, xpopup, NoLaunch, Launch
<1> QED
  BY <1>1, <1>2, <1>3, <1>4, <1>5, <1>6, <1>7, <1>8, <1>9, <1>10, <1>11 DEF IInv, Invs

(* An entry of the list is followed, or taken as the selection: what was     *)
(* read for one stands for the other when both have the same directory.      *)
LEMMA PressEntryKeeps ==
    ASSUME TypeOK, Invs, ServerMeetsNoBug, PressEntry, UNCHANGED landing
    PROVE  IInv'
<1>0. /\ Up /\ visible /\ ~managed /\ ~is_loading_mode /\ ~should_refresh
      /\ thread = "off" /\ which_thread = "nothing"
  BY DEF Invs, Watched, Opened, PressEntry, TypeOK, IsRunning
<1>00. label' \in Paths /\ req \in Paths /\ req \notin Names /\ (path_loaded' = path_loaded \/ path_loaded' = label')
  <2>1. req \in Paths /\ req \in listed
    BY DEF PressEntry, OnEntry, TypeOK
  <2>2. label' \in Paths
    BY <2>1, PathsAssumption DEF Invs, Opened, PressEntry, Below
  <2> QED
    BY <1>0, <2>1, <2>2, NamesAssumption DEF PressEntry, RunThread, Launch, NoLaunch
<1>1. TypeOK'
  <2>0. RequestFlags /\ PopupFlags /\ ContentFlags /\ DataOK /\ StatesOK
    BY TypeOKParts
  <2>1. RequestFlags'
    BY <2>0
         DEF PressEntry, RequestFlags, landing, Up, RunThread, NoLaunch, form_of_repo,
         reached, xpopup, xjob, Launch
  <2>2. PopupFlags'
    BY <2>0 DEF PressEntry, PopupFlags, Up, RunThread, NoLaunch, Launch, web, create
  <2>3. ContentFlags'
    BY <2>0 DEF PressEntry, ContentFlags, Up, RunThread, NoLaunch, content, Launch, warn
  <2>4. DataOK'
    BY <1>00, <2>0
         DEF PressEntry, Tell, DataOK, disk, landing, form_of_repo, reached, xpopup, xjob,
         content
  <2>5. StatesOK'
    <3>1. TargetType[req] \in {"isdir", "nondir"}
      BY <1>00, PathsAssumption
    <3>2. thread' \in {thread, "start"} /\ which_thread' \in {which_thread, "fill_only"}
      BY DEF PressEntry, RunThread, Launch, NoLaunch, web
    <3>3. hmode' \in {hmode, "normal"} /\ stop' \in {stop, "none"}
      BY DEF PressEntry, RunThread, Launch, NoLaunch, web
    <3>4. pc' \in {"idle", "webui"} /\ status' \in {status, "bug"}
      BY DEF PressEntry, To, Bug
    <3>5. UNCHANGED <<mutex, parent, showing, page, host, mode, xthread, xmode>> /\ target_type' = TargetType[req]
      BY DEF PressEntry, create, landing, xpopup, xjob
    <3> QED
      BY <2>0, <3>1, <3>2, <3>3, <3>4, <3>5 DEF StatesOK
  <2> QED
    BY <2>1, <2>2, <2>3, <2>4, <2>5
         DEF TypeOK, RequestFlags, PopupFlags, ContentFlags, DataOK, StatesOK
<1>2. ServerMeetsNoBug'
  BY DEF Invs, PressEntry, ServerMeetsNoBug, Up, RunThread, Busy, NoLaunch, Launch,
       IsRunning, web, Watched, To
<1>3. Up' => Watched'
  BY DEF Invs, PressEntry, Watched, Up, RunThread, NoLaunch, IsRunning, Launch, web
<1>4. Up' => Locked'
  BY DEF Invs, PressEntry, Locked, Up, RunThread, Busy, Bug, NoLaunch, Launch, IsRunning, To
<1>5. Up' => Opened'
  <2>1. UNCHANGED <<visible, need_reload, owed, value>>
    BY DEF PressEntry, landing, warn
  <2> QED
    BY <1>0, <1>00, <2>1, NamesAssumption DEF Invs, Opened
<1>6. Up' => Loaded'
  <2> SUFFICES ASSUME Up', ~IsRunning', ~spoilt', path_loaded' # ""
               PROVE  Loaded'
    BY DEF Loaded
  <2>1. /\ UNCHANGED <<path_loaded, spoilt, listed, exists, mode, visible>>
        /\ target_type' = "isdir" => label' = path_loaded
    BY DEF PressEntry, RunThread, Launch, NoLaunch, IsRunning, content, disk
  <2>2. /\ path_loaded = Directory /\ TargetType[path_loaded] = "isdir"
        /\ listed = Listing(path_loaded)
    BY <1>0, <2>1 DEF Invs, Loaded, IsRunning
  <2>3. label' = req /\ ParentOf[req] = path_loaded
    BY <2>2 DEF PressEntry, OnEntry, Below, Directory, Listing, Entries
  <2>4. target_type' = TargetType[req]
    BY DEF PressEntry
  <2>5. Directory' = path_loaded
    BY <2>1, <2>3 DEF Directory
  <2> QED
    BY <2>1, <2>2, <2>3, <2>4, <2>5, ListingKept DEF Loaded
<1>7. Up' => Connected'
  BY DEF Invs, PressEntry, Connected, landing, Up, RunThread, NoLaunch, XRunning, null,
       form_of_repo, reached, xpopup, xjob, Launch
<1>8. Up' => Offered'
  BY DEF PressEntry, Offered, landing, Up, RunThread, Bug, NoLaunch, FormShown, xpopup,
       Launch, warn, To
<1>9. Up' => Requested'
  <2>1. req' = req /\ req \notin Names /\ parent' \in {"one", "two"} /\ UNCHANGED moved
    BY <1>00 DEF PressEntry, warn, TypeOK
  <2> QED
    BY <2>1 DEF Requested, Names
<1>10. Up' => Told'
  BY DEF Invs, PressEntry, Told, landing, Up, RunThread, Bug, NoLaunch, Tell, xpopup,
       Launch, To
<1>11. Up' => Warned'
  BY DEF Invs, PressEntry, Warned, landing, Up, RunThread, NoLaunch, xpopup, Launch, warn
<1> QED
  BY <1>1, <1>2, <1>3, <1>4, <1>5, <1>6, <1>7, <1>8, <1>9, <1>10, <1>11 DEF IInv, Invs

(* The thread of the popup works, or none does.                              *)
LEMMA WebuiQuietKeeps ==
    ASSUME TypeOK, Invs, ServerMeetsNoBug, WebuiQuiet, UNCHANGED landing
    PROVE  IInv'
<1>1. TypeOK'
  <2>0. RequestFlags /\ PopupFlags /\ ContentFlags /\ DataOK /\ StatesOK
    BY TypeOKParts
  <2>1. RequestFlags'
    BY <2>0
         DEF WebuiQuiet, RequestFlags, landing, Up, IsRunning, select, form_of_repo,
         reached, xpopup, xjob
  <2>2. PopupFlags'
    BY <2>0 DEF WebuiQuiet, PopupFlags, Up, IsRunning, select, flags, web, create
  <2>3. ContentFlags'
    BY <2>0 DEF WebuiQuiet, ContentFlags, Up, IsRunning, select, content, warn
  <2>4. DataOK'
    BY <2>0 DEF WebuiQuiet, DataOK, landing, Up, IsRunning, Untold, select, null,
         form_of_repo, reached, xjob, dir, content, disk
  <2>5. StatesOK'
    BY <2>0
         DEF WebuiQuiet, StatesOK, landing, Up, IsRunning, select, xpopup, xjob, dir, web,
         create, To
  <2> QED
    BY <2>1, <2>2, <2>3, <2>4, <2>5
         DEF TypeOK, RequestFlags, PopupFlags, ContentFlags, DataOK, StatesOK
<1>2. ServerMeetsNoBug'
  BY DEF WebuiQuiet, ServerMeetsNoBug, Up, IsRunning, select, To
<1>3. Up' => Watched'
  BY DEF Invs, WebuiQuiet, Watched, Up, IsRunning, select, dir, content, flags, web
<1>4. Up' => Locked'
  BY DEF Invs, WebuiQuiet, Locked, Up, IsRunning, select, To
<1>5. Up' => Opened'
  BY DEF Invs, WebuiQuiet, Opened, landing, Up, IsRunning, select, dir, flags, warn
<1>6. Up' => Loaded'
  BY ListingKept DEF Invs, WebuiQuiet, Loaded, landing, Up, IsRunning, select, Directory,
       form_of_repo, reached, xpopup, xjob, dir, content, flags, web, disk, warn, create
<1>7. Up' => Connected'
  BY DEF Invs, WebuiQuiet, Connected, landing, Up, IsRunning, select, XRunning, null,
       form_of_repo, reached, xpopup, xjob
<1>8. Up' => Offered'
  BY DEF WebuiQuiet, Offered, landing, Up, IsRunning, select, FormShown, xpopup, flags,
       warn, To
<1>9. Up' => Requested'
  BY DEF Invs, WebuiQuiet, Requested, landing, Up, IsRunning, select, reached, xpopup, dir,
       flags, warn
<1>10. Up' => Told'
  BY DEF Invs, WebuiQuiet, Told, landing, Up, IsRunning, Untold, select, xpopup, flags, To
<1>11. Up' => Warned'
  BY DEF Invs, WebuiQuiet, Warned, landing, Up, IsRunning, select, xpopup, warn
<1> QED
  BY <1>1, <1>2, <1>3, <1>4, <1>5, <1>6, <1>7, <1>8, <1>9, <1>10, <1>11 DEF IInv, Invs

(* The end of the thread is seen: the popup leaves its loading mode unless   *)
(* another reading is due.                                                   *)
LEMMA WebuiEndKeeps ==
    ASSUME TypeOK, Invs, ServerMeetsNoBug, WebuiEnd, UNCHANGED landing
    PROVE  IInv'
<1>1. TypeOK'
  <2>0. RequestFlags /\ PopupFlags /\ ContentFlags /\ DataOK /\ StatesOK
    BY TypeOKParts
  <2>1. RequestFlags'
    BY <2>0
         DEF WebuiEnd, RequestFlags, landing, Up, Finished, form_of_repo, reached, xpopup,
         xjob, LeaveLoading
  <2>2. PopupFlags'
    BY <2>0 DEF WebuiEnd, PopupFlags, Up, Finished, LeaveLoading, create
  <2>3. ContentFlags'
    BY <2>0 DEF WebuiEnd, ContentFlags, Up, Finished, content, LeaveLoading, warn
  <2>4. DataOK'
    BY <2>0 DEF WebuiEnd, DataOK, landing, Up, Finished, dir, content, disk, null,
         form_of_repo, reached, xjob, LeaveLoading, Tell
  <2>5. StatesOK'
    BY <2>0
         DEF WebuiEnd, StatesOK, landing, Up, Finished, dir, xpopup, xjob, LeaveLoading,
         create, To
  <2> QED
    BY <2>1, <2>2, <2>3, <2>4, <2>5
         DEF TypeOK, RequestFlags, PopupFlags, ContentFlags, DataOK, StatesOK
<1>2. ServerMeetsNoBug'
  BY DEF WebuiEnd, ServerMeetsNoBug, Up, Finished, LeaveLoading, To
<1>3. Up' => Watched'
  BY DEF Invs, WebuiEnd, Watched, Up, Finished, IsRunning, LeaveLoading
<1>4. Up' => Locked'
  BY DEF Invs, WebuiEnd, Locked, Up, Finished, LeaveLoading, To
<1>5. Up' => Opened'
  BY DEF Invs, WebuiEnd, Opened, landing, Up, Finished, dir, LeaveLoading, warn
<1>6. Up' => Loaded'
  BY ListingKept DEF Invs, WebuiEnd, Loaded, landing, Up, Finished, dir, content, disk,
       IsRunning, Directory, form_of_repo, reached, xpopup, xjob, LeaveLoading, warn, create
<1>7. Up' => Connected'
  BY DEF Invs, WebuiEnd, Connected, landing, Up, Finished, XRunning, null, form_of_repo,
       reached, xpopup, xjob, LeaveLoading
<1>8. Up' => Offered'
  BY DEF WebuiEnd, Offered, landing, Up, Finished, FormShown, xpopup, LeaveLoading, warn, To
<1>9. Up' => Requested'
  BY DEF Invs, WebuiEnd, Requested, landing, Up, Finished, dir, reached, xpopup,
       LeaveLoading, warn
<1>10. Up' => Told'
  BY DEF Invs, WebuiEnd, Told, landing, Up, Finished, xpopup, LeaveLoading, Tell, To
<1>11. Up' => Warned'
  BY DEF Invs, WebuiEnd, Warned, landing, Up, Finished, xpopup, LeaveLoading, Tell, warn, To
<1> QED
  BY <1>1, <1>2, <1>3, <1>4, <1>5, <1>6, <1>7, <1>8, <1>9, <1>10, <1>11 DEF IInv, Invs

(* A thread that failed is seen to have ended.                               *)
LEMMA WebuiFailureKeeps ==
    ASSUME TypeOK, Invs, ServerMeetsNoBug, WebuiFailure, UNCHANGED landing
    PROVE  IInv'
<1>0. \/ page' = page /\ status' = "filled_file"
      \/ page'.kind = "error" /\ status' = status
  <2>1. CASE thread = "bug"
    BY <2>1 DEF WebuiFailure
  <2>2. CASE thread # "bug"
    BY <2>2, ErrorPage DEF WebuiFailure
  <2> QED
    BY <2>1, <2>2
<1>1. TypeOK'
  <2>0. RequestFlags /\ PopupFlags /\ ContentFlags /\ DataOK /\ StatesOK
    BY TypeOKParts
  <2>1. RequestFlags'
    BY <2>0 DEF WebuiFailure, RequestFlags, landing, Up, Finished, ReleaseMutex,
         form_of_repo, reached, xpopup, xjob, LeaveLoading
  <2>2. PopupFlags'
    BY <2>0 DEF WebuiFailure, PopupFlags, Up, Finished, ReleaseMutex, LeaveLoading, create
  <2>3. ContentFlags'
    BY <2>0
         DEF WebuiFailure, ContentFlags, Up, Finished, ReleaseMutex, content, LeaveLoading,
         warn
  <2>4. DataOK'
    BY <2>0 DEF WebuiFailure, DataOK, landing, Up, Finished, ReleaseMutex, dir, content,
         disk, null, form_of_repo, reached, xjob, LeaveLoading, Tell
  <2>5. StatesOK'
    <3>1. page'.kind \in {"form", "error"} /\ status' \in {status, "filled_file"}
      BY <1>0, <2>0 DEF StatesOK
    <3>2. /\ pc' = "idle" /\ thread' = "off" /\ stop' = "none" /\ hmode' = "closed"
          /\ mutex' \in {mutex, "none"}
      BY DEF WebuiFailure, Finished, ReleaseMutex
    <3>3. UNCHANGED <<target_type, which_thread, parent, showing, host, mode, xthread, xmode>>
      BY DEF WebuiFailure, dir, create, landing, xpopup, xjob
    <3> QED
      BY <2>0, <3>1, <3>2, <3>3 DEF StatesOK
  <2> QED
    BY <2>1, <2>2, <2>3, <2>4, <2>5
         DEF TypeOK, RequestFlags, PopupFlags, ContentFlags, DataOK, StatesOK
<1>2. ServerMeetsNoBug'
  BY DEF WebuiFailure, ServerMeetsNoBug, Up, Finished, ReleaseMutex, LeaveLoading
<1>3. Up' => Watched'
  BY DEF Invs, WebuiFailure, Watched, Up, Finished, ReleaseMutex, IsRunning, LeaveLoading
<1>4. Up' => Locked'
  BY DEF Invs, WebuiFailure, Locked, Up, Finished, ReleaseMutex, LeaveLoading
<1>5. Up' => Opened'
  BY DEF Invs, WebuiFailure, Opened, landing, Up, Finished, ReleaseMutex, dir,
       LeaveLoading, warn
<1>6. Up' => Loaded'
  BY ListingKept DEF Invs, WebuiFailure, Loaded, landing, Up, Finished, ReleaseMutex, dir,
       content, disk, IsRunning, Directory, form_of_repo, reached, xpopup, xjob,
       LeaveLoading, warn, create
<1>7. Up' => Connected'
  BY DEF Invs, WebuiFailure, Connected, landing, Up, Finished, ReleaseMutex, XRunning,
       null, form_of_repo, reached, xpopup, xjob, LeaveLoading
<1>8. Up' => Offered'
  BY <1>0 DEF Offered, FormShown, Up
<1>9. Up' => Requested'
  BY DEF Invs, WebuiFailure, Requested, landing, Up, Finished, ReleaseMutex, reached,
       xpopup, LeaveLoading, Watched, IsRunning, warn
<1>10. Up' => Told'
  BY DEF WebuiFailure, Told, landing, Up, Finished, ReleaseMutex, xpopup, LeaveLoading
<1>11. Up' => Warned'
  BY DEF Invs, WebuiFailure, Warned, landing, Up, Finished, ReleaseMutex, xpopup,
       LeaveLoading, warn
<1> QED
  BY <1>1, <1>2, <1>3, <1>4, <1>5, <1>6, <1>7, <1>8, <1>9, <1>10, <1>11 DEF IInv, Invs

(* The thread is asked to stop, or cancelled.                                *)
LEMMA PressAskOrForceKeeps ==
    ASSUME TypeOK, Invs, ServerMeetsNoBug, PressAskOrForce, UNCHANGED landing
    PROVE  IInv'
<1>1. TypeOK'
  <2>0. RequestFlags /\ PopupFlags /\ ContentFlags /\ DataOK /\ StatesOK
    BY TypeOKParts
  <2>1. RequestFlags'
    BY <2>0
         DEF PressAskOrForce, RequestFlags, landing, Up, IsRunning, form_of_repo, reached,
         xpopup, xjob
  <2>2. PopupFlags'
    BY <2>0 DEF PressAskOrForce, PopupFlags, Up, IsRunning, create
  <2>3. ContentFlags'
    BY <2>0 DEF PressAskOrForce, ContentFlags, Up, IsRunning, content, warn
  <2>4. DataOK'
    BY <2>0 DEF PressAskOrForce, DataOK, landing, Up, IsRunning, Tell, dir, content, disk,
         null, form_of_repo, reached, xjob
  <2>5. StatesOK'
    BY <2>0
         DEF PressAskOrForce, StatesOK, landing, Up, IsRunning, dir, xpopup, xjob, create,
         To
  <2> QED
    BY <2>1, <2>2, <2>3, <2>4, <2>5
         DEF TypeOK, RequestFlags, PopupFlags, ContentFlags, DataOK, StatesOK
<1>2. ServerMeetsNoBug'
  BY DEF PressAskOrForce, ServerMeetsNoBug, Up, IsRunning, To
<1>3. Up' => Watched'
  BY DEF Invs, PressAskOrForce, Watched, Up, IsRunning, dir, content
<1>4. Up' => Locked'
  BY DEF Invs, PressAskOrForce, Locked, Up, IsRunning, To
<1>5. Up' => Opened'
  BY DEF Invs, PressAskOrForce, Opened, landing, Up, IsRunning, dir, warn
<1>6. Up' => Loaded'
  BY ListingKept DEF PressAskOrForce, Loaded, Up, IsRunning, Directory
<1>7. Up' => Connected'
  BY DEF Invs, PressAskOrForce, Connected, landing, Up, IsRunning, XRunning, null,
       form_of_repo, reached, xpopup, xjob
<1>8. Up' => Offered'
  BY DEF PressAskOrForce, Offered, landing, Up, IsRunning, FormShown, xpopup, warn, To
<1>9. Up' => Requested'
  BY DEF Invs, PressAskOrForce, Requested, landing, Up, IsRunning, reached, xpopup, warn
<1>10. Up' => Told'
  BY DEF Invs, PressAskOrForce, Told, landing, Up, IsRunning, Tell, xpopup, To
<1>11. Up' => Warned'
  BY DEF Invs, PressAskOrForce, Warned, landing, Up, IsRunning, xpopup, warn
<1> QED
  BY <1>1, <1>2, <1>3, <1>4, <1>5, <1>6, <1>7, <1>8, <1>9, <1>10, <1>11 DEF IInv, Invs

(* No button of the bottom was pressed.                                      *)
LEMMA ButtonsQuietKeeps ==
    ASSUME TypeOK, Invs, ServerMeetsNoBug, ButtonsQuiet, UNCHANGED landing
    PROVE  IInv'
<1>1. TypeOK'
  <2>0. RequestFlags /\ PopupFlags /\ ContentFlags /\ DataOK /\ StatesOK
    BY TypeOKParts
  <2>1. RequestFlags'
    BY <2>0
         DEF ButtonsQuiet, RequestFlags, landing, Up, select, form_of_repo, reached,
         xpopup, xjob
  <2>2. PopupFlags'
    BY <2>0 DEF ButtonsQuiet, PopupFlags, Up, select, flags, web, create
  <2>3. ContentFlags'
    BY <2>0 DEF ButtonsQuiet, ContentFlags, Up, select, content, warn
  <2>4. DataOK'
    BY <2>0
         DEF ButtonsQuiet, DataOK, landing, Up, Untold, select, null, form_of_repo,
         reached, xjob, dir, content, disk
  <2>5. StatesOK'
    BY <2>0
         DEF ButtonsQuiet, StatesOK, landing, Up, select, xpopup, xjob, dir, web, create, To
  <2> QED
    BY <2>1, <2>2, <2>3, <2>4, <2>5
         DEF TypeOK, RequestFlags, PopupFlags, ContentFlags, DataOK, StatesOK
<1>2. ServerMeetsNoBug'
  BY DEF ButtonsQuiet, ServerMeetsNoBug, Up, select, To
<1>3. Up' => Watched'
  BY DEF Invs, ButtonsQuiet, Watched, Up, select, IsRunning, dir, content, flags, web
<1>4. Up' => Locked'
  BY DEF Invs, ButtonsQuiet, Locked, Up, select, To
<1>5. Up' => Opened'
  BY DEF Invs, ButtonsQuiet, Opened, landing, Up, select, dir, flags, warn
<1>6. Up' => Loaded'
  BY ListingKept DEF Invs, ButtonsQuiet, Loaded, landing, Up, select, IsRunning, Directory,
       form_of_repo, reached, xpopup, xjob, dir, content, flags, web, disk, warn, create
<1>7. Up' => Connected'
  BY DEF Invs, ButtonsQuiet, Connected, landing, Up, select, XRunning, null, form_of_repo,
       reached, xpopup, xjob
<1>8. Up' => Offered'
  BY DEF ButtonsQuiet, Offered, landing, Up, select, FormShown, xpopup, flags, warn, To
<1>9. Up' => Requested'
  BY DEF Invs, ButtonsQuiet, Requested, landing, Up, select, reached, xpopup, dir, flags,
       warn
<1>10. Up' => Told'
  BY DEF Invs, ButtonsQuiet, Told, landing, Up, Untold, select, xpopup, flags, To
<1>11. Up' => Warned'
  BY DEF Invs, ButtonsQuiet, Warned, landing, Up, Untold, select, xpopup, warn, To
<1> QED
  BY <1>1, <1>2, <1>3, <1>4, <1>5, <1>6, <1>7, <1>8, <1>9, <1>10, <1>11 DEF IInv, Invs

(* The form that names a directory is shown or hidden.                       *)
LEMMA PressNewKeeps ==
    ASSUME TypeOK, Invs, ServerMeetsNoBug, PressNew, UNCHANGED landing
    PROVE  IInv'
<1>1. TypeOK'
  <2>0. RequestFlags /\ PopupFlags /\ ContentFlags /\ DataOK /\ StatesOK
    BY TypeOKParts
  <2>1. RequestFlags'
    BY <2>0 DEF PressNew, RequestFlags, landing, Up, form_of_repo, reached, xpopup, xjob
  <2>2. PopupFlags'
    BY <2>0 DEF PressNew, PopupFlags, Up, flags, web
  <2>3. ContentFlags'
    BY <2>0 DEF PressNew, ContentFlags, Up, content, warn
  <2>4. DataOK'
    BY <2>0
         DEF PressNew, DataOK, landing, Up, Tell, dir, content, disk, null, form_of_repo,
         reached, xjob
  <2>5. StatesOK'
    BY <2>0 DEF PressNew, StatesOK, landing, Up, dir, web, xpopup, xjob, To
  <2> QED
    BY <2>1, <2>2, <2>3, <2>4, <2>5
         DEF TypeOK, RequestFlags, PopupFlags, ContentFlags, DataOK, StatesOK
<1>2. ServerMeetsNoBug'
  BY DEF PressNew, ServerMeetsNoBug, Up, To
<1>3. Up' => Watched'
  BY DEF Invs, PressNew, Watched, Up, OnBottom, flags, web, IsRunning
<1>4. Up' => Locked'
  BY DEF Invs, PressNew, Locked, Up, To
<1>5. Up' => Opened'
  BY DEF Invs, PressNew, Opened, landing, Up, dir, flags, warn
<1>6. Up' => Loaded'
  BY ListingKept DEF Invs, PressNew, Loaded, landing, Up, dir, content, flags, web, disk,
       IsRunning, Directory, form_of_repo, reached, xpopup, xjob, warn
<1>7. Up' => Connected'
  BY DEF Invs, PressNew, Connected, landing, Up, XRunning, null, form_of_repo, reached,
       xpopup, xjob
<1>8. Up' => Offered'
  BY DEF PressNew, Offered, landing, Up, flags, FormShown, xpopup, warn, To
<1>9. Up' => Requested'
  BY DEF Invs, PressNew, Requested, landing, Up, flags, reached, xpopup, warn
<1>10. Up' => Told'
  BY DEF Invs, PressNew, Told, landing, Up, Tell, flags, xpopup, To
<1>11. Up' => Warned'
  BY DEF Invs, PressNew, Warned, landing, Up, Tell, xpopup, warn, To
<1> QED
  BY <1>1, <1>2, <1>3, <1>4, <1>5, <1>6, <1>7, <1>8, <1>9, <1>10, <1>11 DEF IInv, Invs

(* A new directory was named: its creation is due, then a reading.           *)
LEMMA PostNameKeeps ==
    ASSUME TypeOK, Invs, ServerMeetsNoBug, PostName, UNCHANGED landing
    PROVE  IInv'
<1>1. TypeOK'
  <2>0. RequestFlags /\ PopupFlags /\ ContentFlags /\ DataOK /\ StatesOK
    BY TypeOKParts
  <2>1. RequestFlags'
    BY <2>0
         DEF PostName, RequestFlags, landing, Up, ForgetLoaded, Launch, form_of_repo,
         reached, xpopup, xjob
  <2>2. PopupFlags'
    BY <2>0 DEF PostName, PopupFlags, Up, ForgetLoaded, Launch
  <2>3. ContentFlags'
    BY <2>0 DEF PostName, ContentFlags, Up, ForgetLoaded, Launch, content, warn
  <2>4. DataOK'
    BY <2>0 DEF PostName, DataOK, landing, Up, ForgetLoaded, Launch, Tell, content, disk,
         null, form_of_repo, reached, xjob
  <2>5. StatesOK'
    <3>1. pc' \in {"idle", "reload"} /\ status' \in {status, "bug"}
      BY DEF PostName, To, Bug
    <3>2. /\ thread' = "start" /\ which_thread' = "create_dir"
          /\ hmode' = "normal" /\ stop' = "none"
      BY DEF PostName, Launch
    <3>3. UNCHANGED <<target_type, mutex, parent, showing, page, host, mode, xthread, xmode>>
      BY DEF PostName, landing, xpopup, xjob
    <3> QED
      BY <2>0, <3>1, <3>2, <3>3 DEF StatesOK
  <2> QED
    BY <2>1, <2>2, <2>3, <2>4, <2>5
         DEF TypeOK, RequestFlags, PopupFlags, ContentFlags, DataOK, StatesOK
<1>2. ServerMeetsNoBug'
  BY DEF Invs, PostName, ServerMeetsNoBug, Up, OnBottom, Busy, ForgetLoaded, Launch,
       Bottom, IsRunning, Watched, To
<1>3. Up' => Watched'
  BY DEF PostName, Watched, Up, ForgetLoaded, Launch, IsRunning
<1>4. Up' => Locked'
  BY DEF Invs, PostName, Locked, Up, Busy, Bug, ForgetLoaded, Launch, IsRunning, To
<1>5. Up' => Opened'
  BY DEF Invs, PostName, Opened, landing, Up, ForgetLoaded, Launch, warn
<1>6. Up' => Loaded'
  BY ListingKept DEF PostName, Loaded, Up, ForgetLoaded, Launch, IsRunning, Directory
<1>7. Up' => Connected'
  BY DEF Invs, PostName, Connected, landing, Up, ForgetLoaded, Launch, XRunning, null,
       form_of_repo, reached, xpopup, xjob
<1>8. Up' => Offered'
  BY DEF PostName, Offered, landing, Up, Bug, ForgetLoaded, Launch, FormShown, xpopup,
       warn, To
<1>9. Up' => Requested'
  BY DEF Invs, PostName, Requested, landing, Up, ForgetLoaded, Launch, reached, xpopup, warn
<1>10. Up' => Told'
  BY DEF Invs, PostName, Told, landing, Up, Bug, ForgetLoaded, Launch, Tell, xpopup, To
<1>11. Up' => Warned'
  BY DEF Invs, PostName, Warned, landing, Up, Bug, ForgetLoaded, Launch, Tell, xpopup,
       warn, To
<1> QED
  BY <1>1, <1>2, <1>3, <1>4, <1>5, <1>6, <1>7, <1>8, <1>9, <1>10, <1>11 DEF IInv, Invs

(* A selection that the mode does not accept is refused with a warning.      *)
LEMMA RefuseKeeps ==
    ASSUME TypeOK, Invs, ServerMeetsNoBug, Refuse, UNCHANGED landing
    PROVE  IInv'
<1>1. TypeOK'
  <2>0. RequestFlags /\ PopupFlags /\ ContentFlags /\ DataOK /\ StatesOK
    BY TypeOKParts
  <2>1. RequestFlags'
    BY <2>0 DEF Refuse, RequestFlags, landing, Up, form_of_repo, reached, xpopup, xjob
  <2>2. PopupFlags'
    BY <2>0 DEF Refuse, PopupFlags, Up, flags, web, create
  <2>3. ContentFlags'
    BY <2>0 DEF Refuse, ContentFlags, Up, content
  <2>4. DataOK'
    BY <2>0
         DEF Refuse, DataOK, landing, Up, Tell, dir, content, disk, null, form_of_repo,
         reached, xjob
  <2>5. StatesOK'
    BY <2>0 DEF Refuse, StatesOK, landing, Up, dir, web, xpopup, xjob, create, To
  <2> QED
    BY <2>1, <2>2, <2>3, <2>4, <2>5
         DEF TypeOK, RequestFlags, PopupFlags, ContentFlags, DataOK, StatesOK
<1>2. ServerMeetsNoBug'
  BY DEF Refuse, ServerMeetsNoBug, Up, To
<1>3. Up' => Watched'
  BY DEF Invs, Refuse, Watched, Up, OnBottom, flags, web, IsRunning
<1>4. Up' => Locked'
  BY DEF Invs, Refuse, Locked, Up, To
<1>5. Up' => Opened'
  BY DEF Invs, Refuse, Opened, landing, Up, dir, flags
<1>6. Up' => Loaded'
  BY ListingKept DEF Invs, Refuse, Loaded, landing, Up, dir, content, flags, web, disk,
       IsRunning, Directory, form_of_repo, reached, xpopup, xjob, create
<1>7. Up' => Connected'
  BY DEF Invs, Refuse, Connected, landing, Up, XRunning, null, form_of_repo, reached,
       xpopup, xjob
<1>8. Up' => Offered'
  BY DEF Refuse, Offered, landing, Up, flags, FormShown, xpopup, To
<1>9. Up' => Requested'
  BY DEF Invs, Refuse, Requested, landing, Up, dir, flags, reached, xpopup
<1>10. Up' => Told'
  BY DEF Invs, Refuse, Told, landing, Up, Tell, flags, xpopup, To
<1>11. Up' => Warned'
  BY DEF Refuse, Warned, landing, Up, Tell, xpopup, To
<1> QED
  BY <1>1, <1>2, <1>3, <1>4, <1>5, <1>6, <1>7, <1>8, <1>9, <1>10, <1>11 DEF IInv, Invs

(* A reading that is due is launched, with the mutex free and no thread      *)
(* left.                                                                     *)
LEMMA ReloadKeeps ==
    ASSUME TypeOK, Invs, ServerMeetsNoBug, Reload, UNCHANGED landing
    PROVE  IInv'
<1>1. TypeOK'
  <2>0. RequestFlags /\ PopupFlags /\ ContentFlags /\ DataOK /\ StatesOK
    BY TypeOKParts
  <2>1. RequestFlags'
    <3>1. redirect' \in BOOLEAN
      <4>1. should_refresh' = should_refresh \/ should_refresh' = TRUE
        BY DEF Reload, RunThread, Launch, NoLaunch
      <4> QED
        BY <2>0, <4>1 DEF Reload, SetRefresh, PopupFlags
    <3> QED
      BY <2>0, <3>1 DEF Reload, RequestFlags, landing, form_of_repo, reached, xpopup, xjob
  <2>2. PopupFlags'
    BY <2>0
         DEF Reload, PopupFlags, Up, RunThread, NoLaunch, ReleaseMutex, Launch, web, create
  <2>3. ContentFlags'
    BY <2>0
         DEF Reload, ContentFlags, Up, RunThread, NoLaunch, ReleaseMutex, SetRefresh,
         KeepWarning, content, Launch
  <2>4. DataOK'
    BY <2>0 DEF Reload, DataOK, landing, Up, RunThread, NoLaunch, ReleaseMutex, content,
         disk, form_of_repo, reached, xjob, Launch
  <2>5. StatesOK'
    BY <2>0 DEF Reload, StatesOK, landing, Up, RunThread, Bug, NoLaunch, ReleaseMutex,
         xpopup, xjob, Launch, web, create, To
  <2> QED
    BY <2>1, <2>2, <2>3, <2>4, <2>5
         DEF TypeOK, RequestFlags, PopupFlags, ContentFlags, DataOK, StatesOK
<1>2. ServerMeetsNoBug'
  BY DEF Invs, Reload, ServerMeetsNoBug, Up, ReloadIsDue, RunThread, Busy, Bug, NoLaunch,
       ReleaseMutex, IsRunning, Launch, web, Watched, To
<1>3. Up' => Watched'
  BY DEF Invs, Reload, Watched, Up, ReloadIsDue, RunThread, Busy, NoLaunch, ReleaseMutex,
       content, IsRunning, Launch, web
<1>4. Up' => Locked'
  BY DEF Invs, Reload, Locked, Up, ReloadIsDue, RunThread, Busy, Bug, NoLaunch,
       ReleaseMutex, IsRunning, Launch
<1>5. Up' => Opened'
  <2> SUFFICES ASSUME Up' PROVE Opened'
    OBVIOUS
  <2>1. CASE ReloadIsDue
    <3>1. visible /\ label \in Paths
      BY <2>1 DEF Invs, Opened, ReloadIsDue
    <3>2. label' = label /\ path_loaded' = label
      BY <2>1, <3>1 DEF Reload, RunThread, Launch, NoLaunch
    <3> QED
      BY <3>1, <3>2, NamesAssumption DEF Invs, Opened, Reload, To, Bug, Up, landing
  <2>2. CASE ~ReloadIsDue
    BY <2>2 DEF Invs, Opened, Reload, NoLaunch, To, landing
  <2> QED
    BY <2>1, <2>2
<1>6. Up' => Loaded'
  BY ListingKept DEF Invs, Reload, Loaded, landing, Up, RunThread, NoLaunch, ReleaseMutex,
       content, disk, IsRunning, Directory, form_of_repo, reached, xpopup, xjob, Launch,
       web, create
<1>7. Up' => Connected'
  BY DEF Invs, Reload, Connected, landing, Up, RunThread, NoLaunch, ReleaseMutex, XRunning,
       null, form_of_repo, reached, xpopup, xjob, Launch
<1>8. Up' => Offered'
  BY DEF Reload, Offered, landing, Up, RunThread, Bug, NoLaunch, ReleaseMutex, FormShown,
       xpopup, Launch, To
<1>9. Up' => Requested'
  BY DEF Invs, Reload, Requested, landing, Up, ReloadIsDue, RunThread, Busy, NoLaunch,
       ReleaseMutex, reached, xpopup, IsRunning, Launch
<1>10. Up' => Told'
  BY DEF Invs, Reload, Told, landing, Up, ReloadIsDue, RunThread, Busy, Bug, NoLaunch,
       ReleaseMutex, xpopup, IsRunning, Launch, web, Watched, To
<1>11. Up' => Warned'
  <2> SUFFICES ASSUME Up', visible, owed
               PROVE  Warned'
    BY DEF Warned, Reload
  <2>1. UNCHANGED <<warning, xmanaged>> /\ warning /\ pc = "reload" /\ pc' = "xfer"
    BY DEF Invs, Warned, Reload, landing, xpopup, To, Bug, Up
  <2>2. CASE new_warning'
    BY <2>1, <2>2 DEF Warned
  <2>3. CASE ~new_warning'
    <3>1. ~should_refresh' /\ "popup" \notin changed
      BY <2>3 DEF Reload, KeepWarning
    <3>2. ~should_refresh /\ should_refresh' = should_refresh
      BY <3>1 DEF Reload, RunThread, Launch, NoLaunch, TypeOK
    <3>3. changed' = changed
      BY <3>2 DEF Reload
    <3>4. changed = {}
      BY <2>1, <3>1 DEF Invs, Told, TypeOK
    <3>5. ~xmanaged
      BY <2>1, <3>1, <3>2 DEF Invs, Warned, Watched, TypeOK
    <3>6. ~managed'
      BY <3>1, <3>2 DEF Invs, Watched, Reload, RunThread, Launch, NoLaunch, web, TypeOK
    <3> QED
      BY <2>1, <3>3, <3>4, <3>5, <3>6 DEF Warned
  <2> QED
    BY <2>2, <2>3
<1> QED
  BY <1>1, <1>2, <1>3, <1>4, <1>5, <1>6, <1>7, <1>8, <1>9, <1>10, <1>11 DEF IInv, Invs

(* The thread takes content_mutex and looks at what it was launched for.     *)
LEMMA BeginKeeps ==
    ASSUME TypeOK, Invs, ServerMeetsNoBug, Begin, UNCHANGED landing
    PROVE  IInv'
<1>1. TypeOK'
  <2>0. RequestFlags /\ PopupFlags /\ ContentFlags /\ DataOK /\ StatesOK
    BY TypeOKParts
  <2>1. RequestFlags'
    BY <2>0
         DEF Begin, RequestFlags, landing, Up, Job, form_of_repo, reached, xpopup, xjob,
         server
  <2>2. PopupFlags'
    BY <2>0 DEF Begin, PopupFlags, Up, Job, web, server, create
  <2>3. ContentFlags'
    BY <2>0 DEF Begin, ContentFlags, Up, Job, content, server
  <2>4. DataOK'
    BY <2>0
         DEF Begin, DataOK, landing, Up, Job, dir, content, disk, form_of_repo, reached,
         xjob, server
  <2>5. StatesOK'
    <3>1. which_thread \in {"init_fill", "fill_only", "create_dir"}
      BY <2>0 DEF Invs, Watched, IsRunning, Begin, StatesOK
    <3>2. thread' \in {"create", "init", "fill"} /\ mutex' = "thread"
      BY <3>1 DEF Begin
    <3>3. UNCHANGED <<pc, status, target_type, which_thread, parent, showing, page, host,
                      mode, xthread, hmode, xmode, stop>>
      BY DEF Begin, Job, server, dir, create, web, landing, xpopup, xjob
    <3> QED
      BY <2>0, <3>2, <3>3 DEF StatesOK
  <2> QED
    BY <2>1, <2>2, <2>3, <2>4, <2>5
         DEF TypeOK, RequestFlags, PopupFlags, ContentFlags, DataOK, StatesOK
<1>2. ServerMeetsNoBug'
  BY DEF Begin, ServerMeetsNoBug, Up, Job, server
<1>3. Up' => Watched'
  BY DEF Invs, Begin, Watched, Up, Job, dir, IsRunning, web, server, TypeOK
<1>4. Up' => Locked'
  BY DEF Invs, Begin, Locked, Up, Job, web, server, Watched, IsRunning, TypeOK
<1>5. Up' => Opened'
  BY DEF Invs, Begin, Opened, landing, Up, Job, dir, server
<1>6. Up' => Loaded'
  BY ListingKept
       DEF Invs, Begin, Loaded, Up, Job, IsRunning, Directory, web, server, Watched, TypeOK
<1>7. Up' => Connected'
  BY DEF Invs, Begin, Connected, landing, Up, Job, XRunning, null, form_of_repo, reached,
       xpopup, xjob, server
<1>8. Up' => Offered'
  BY DEF Invs, Begin, Offered, landing, Up, Job, dir, FormShown, xpopup, server
<1>9. Up' => Requested'
  BY DEF Invs, Begin, Requested, landing, Up, Job, dir, reached, xpopup, server
<1>10. Up' => Told'
  BY DEF Invs, Begin, Told, landing, Up, Job, xpopup, server
<1>11. Up' => Warned'
  BY DEF Invs, Begin, Warned, landing, Up, Job, web, xpopup, server
<1> QED
  BY <1>1, <1>2, <1>3, <1>4, <1>5, <1>6, <1>7, <1>8, <1>9, <1>10, <1>11 DEF IInv, Invs

(* The thread creates the directory, then goes on as one that reads.         *)
LEMMA CreateDirKeeps ==
    ASSUME TypeOK, Invs, ServerMeetsNoBug, CreateDir, UNCHANGED landing
    PROVE  IInv'
<1>1. TypeOK'
  <2>0. RequestFlags /\ PopupFlags /\ ContentFlags /\ DataOK /\ StatesOK
    BY TypeOKParts
  <2>1. RequestFlags'
    BY <2>0
         DEF CreateDir, RequestFlags, landing, Up, EndAs, Job, form_of_repo, reached,
         xpopup, xjob, server
  <2>2. PopupFlags'
    BY <2>0 DEF CreateDir, PopupFlags, Up, EndAs, Job, web, server, create
  <2>3. ContentFlags'
    BY <2>0 DEF CreateDir, ContentFlags, Up, EndAs, Job, content, server
  <2>4. DataOK'
    BY <2>0
         DEF CreateDir, DataOK, landing, Up, EndAs, Job, dir, content, form_of_repo,
         reached, xjob, server
  <2>5. StatesOK'
    BY <2>0
         DEF CreateDir, StatesOK, landing, Up, EndAs, Job, dir, xpopup, xjob, web, server,
         create
  <2> QED
    BY <2>1, <2>2, <2>3, <2>4, <2>5
         DEF TypeOK, RequestFlags, PopupFlags, ContentFlags, DataOK, StatesOK
<1>2. ServerMeetsNoBug'
  BY DEF CreateDir, ServerMeetsNoBug, Up, EndAs, Job, server
<1>3. Up' => Watched'
  BY DEF Invs, CreateDir, Watched, Up, EndAs, Job, IsRunning, web, server
<1>4. Up' => Locked'
  BY DEF CreateDir, Locked, Up, EndAs, Job, server
<1>5. Up' => Opened'
  BY DEF Invs, CreateDir, Opened, landing, Up, EndAs, Job, dir, server
<1>6. Up' => Loaded'
  BY ListingKept
       DEF Invs, CreateDir, Loaded, Up, EndAs, Job, dir, IsRunning, Directory, web, server,
       Watched
<1>7. Up' => Connected'
  BY DEF Invs, CreateDir, Connected, landing, Up, EndAs, Job, XRunning, null, form_of_repo,
       reached, xpopup, xjob, server
<1>8. Up' => Offered'
  BY DEF Invs, CreateDir, Offered, landing, Up, EndAs, Job, dir, FormShown, xpopup, server
<1>9. Up' => Requested'
  BY DEF Invs, CreateDir, Requested, landing, Up, EndAs, Job, dir, reached, xpopup, server
<1>10. Up' => Told'
  BY DEF Invs, CreateDir, Told, landing, Up, EndAs, Job, xpopup, server
<1>11. Up' => Warned'
  BY DEF Invs, CreateDir, Warned, landing, Up, EndAs, Job, web, xpopup, server
<1> QED
  BY <1>1, <1>2, <1>3, <1>4, <1>5, <1>6, <1>7, <1>8, <1>9, <1>10, <1>11 DEF IInv, Invs

(* The thread looks at what the path is.                                     *)
LEMMA TryTargetKeeps ==
    ASSUME TypeOK, Invs, ServerMeetsNoBug, TryTarget, UNCHANGED landing
    PROVE  IInv'
<1>1. TypeOK'
  <2>0. RequestFlags /\ PopupFlags /\ ContentFlags /\ DataOK /\ StatesOK
    BY TypeOKParts
  <2>1. RequestFlags'
    BY <2>0
         DEF TryTarget, RequestFlags, landing, Up, Warn, EndAs, Job, form_of_repo, reached,
         xpopup, xjob, answering, Tell
  <2>2. PopupFlags'
    BY <2>0 DEF TryTarget, PopupFlags, Up, Warn, EndAs, Job, web, answering, Tell, create
  <2>3. ContentFlags'
    BY <2>0 DEF TryTarget, ContentFlags, Up, Warn, EndAs, Job, answering, Tell
  <2>4. DataOK'
    <3>1. label \in Paths /\ label' \in {label, ParentOf[label]}
      BY DEF Invs, Watched, Opened, TryTarget, TypeOK
    <3>2. location' = label /\ UNCHANGED <<path_loaded, value, listed, exists, repo, entrep, libdar_entrep, read>>
      BY DEF TryTarget, Job, answering, Tell, landing, form_of_repo, reached, xjob
    <3>3. changed' \in {changed, changed \cup {"popup"}}
      BY DEF TryTarget, Warn, Tell
    <3> QED
      BY <2>0, <3>1, <3>2, <3>3, PathsAssumption DEF DataOK
  <2>5. StatesOK'
    BY <2>0
         DEF TryTarget, StatesOK, landing, Up, Warn, EndAs, Job, xpopup, xjob, web, answering, Tell,
         create
  <2> QED
    BY <2>1, <2>2, <2>3, <2>4, <2>5
         DEF TypeOK, RequestFlags, PopupFlags, ContentFlags, DataOK, StatesOK
<1>2. ServerMeetsNoBug'
  BY DEF TryTarget, ServerMeetsNoBug, Up, Warn, EndAs, Job, answering, Tell
<1>3. Up' => Watched'
  BY DEF Invs, TryTarget, Watched, Up, Warn, EndAs, Job, IsRunning, web, answering, Tell
<1>4. Up' => Locked'
  BY DEF Invs, TryTarget, Locked, Up, Warn, EndAs, Job, answering, Tell
<1>5. Up' => Opened'
  BY PathsAssumption, ZenonT(60)
       DEF Invs, TryTarget, Opened, landing, Up, Warn, EndAs, Job, web, answering, Tell, Watched,
       IsRunning, TypeOK
<1>6. Up' => Loaded'
  BY ListingKept DEF TryTarget, Loaded, Up, Warn, EndAs, Job, IsRunning, Directory, answering, Tell
<1>7. Up' => Connected'
  BY DEF Invs, TryTarget, Connected, landing, Up, Warn, EndAs, Job, XRunning, null,
       form_of_repo, reached, xpopup, xjob, answering, Tell
<1>8. Up' => Offered'
  BY DEF Invs, TryTarget, Offered, landing, Up, Warn, EndAs, Job, FormShown, xpopup, web,
       answering, Tell, Watched, IsRunning
<1>9. Up' => Requested'
  BY DEF Invs, TryTarget, Requested, landing, Up, Warn, EndAs, Job, reached, xpopup, web,
       answering, Tell, Watched, IsRunning
<1>10. Up' => Told'
  BY DEF Invs, TryTarget, Told, landing, Up, Warn, EndAs, Job, xpopup, answering, Tell
<1>11. Up' => Warned'
  BY DEF Invs, TryTarget, Warned, landing, Up, Warn, EndAs, Job, xpopup, web, answering, Tell,
       Watched, IsRunning
<1> QED
  BY <1>1, <1>2, <1>3, <1>4, <1>5, <1>6, <1>7, <1>8, <1>9, <1>10, <1>11 DEF IInv, Invs

(* The path is not there any more: the thread tries the one above.           *)
LEMMA TryParentKeeps ==
    ASSUME TypeOK, Invs, ServerMeetsNoBug, TryParent, UNCHANGED landing
    PROVE  IInv'
<1>1. TypeOK'
  <2>0. RequestFlags /\ PopupFlags /\ ContentFlags /\ DataOK /\ StatesOK
    BY TypeOKParts
  <2>1. RequestFlags'
    BY <2>0
         DEF TryParent, RequestFlags, landing, Up, Warn, EndAs, Job, form_of_repo, reached,
         xpopup, xjob, answering, Tell
  <2>2. PopupFlags'
    BY <2>0 DEF TryParent, PopupFlags, Up, Warn, EndAs, Job, web, answering, Tell, create
  <2>3. ContentFlags'
    BY <2>0 DEF TryParent, ContentFlags, Up, Warn, EndAs, Job, answering, Tell
  <2>4. DataOK'
    BY <2>0
         DEF TryParent, DataOK, landing, Up, Warn, EndAs, Job, form_of_repo, reached, xjob,
         answering, Tell
  <2>5. StatesOK'
    BY <2>0
         DEF TryParent, StatesOK, landing, Up, Warn, EndAs, Job, xpopup, xjob, web, answering, Tell,
         create
  <2> QED
    BY <2>1, <2>2, <2>3, <2>4, <2>5
         DEF TypeOK, RequestFlags, PopupFlags, ContentFlags, DataOK, StatesOK
<1>2. ServerMeetsNoBug'
  BY DEF TryParent, ServerMeetsNoBug, Up, Warn, EndAs, Job, answering, Tell
<1>3. Up' => Watched'
  BY DEF Invs, TryParent, Watched, Up, Warn, EndAs, Job, IsRunning, web, answering, Tell
<1>4. Up' => Locked'
  BY DEF Invs, TryParent, Locked, Up, Warn, EndAs, Job, answering, Tell
<1>5. Up' => Opened'
  BY DEF Invs, TryParent, Opened, landing, Up, Warn, EndAs, Job, web, answering, Tell, Watched,
       IsRunning
<1>6. Up' => Loaded'
  BY ListingKept DEF TryParent, Loaded, Up, Warn, EndAs, Job, IsRunning, Directory, answering, Tell
<1>7. Up' => Connected'
  BY DEF Invs, TryParent, Connected, landing, Up, Warn, EndAs, Job, XRunning, null,
       form_of_repo, reached, xpopup, xjob, answering, Tell
<1>8. Up' => Offered'
  BY DEF Invs, TryParent, Offered, landing, Up, Warn, EndAs, Job, FormShown, xpopup, web,
       answering, Tell, Watched, IsRunning
<1>9. Up' => Requested'
  BY DEF Invs, TryParent, Requested, landing, Up, Warn, EndAs, Job, reached, xpopup, web,
       answering, Tell, Watched, IsRunning
<1>10. Up' => Told'
  BY DEF Invs, TryParent, Told, landing, Up, Warn, EndAs, Job, xpopup, answering, Tell
<1>11. Up' => Warned'
  BY DEF Invs, TryParent, Warned, landing, Up, Warn, EndAs, Job, xpopup, web, answering, Tell,
       Watched, IsRunning
<1> QED
  BY <1>1, <1>2, <1>3, <1>4, <1>5, <1>6, <1>7, <1>8, <1>9, <1>10, <1>11 DEF IInv, Invs

(* The thread clears the content before it reads the directory.              *)
LEMMA StartFillKeeps ==
    ASSUME TypeOK, Invs, ServerMeetsNoBug, StartFill, UNCHANGED landing
    PROVE  IInv'
<1>1. TypeOK'
  <2>0. RequestFlags /\ PopupFlags /\ ContentFlags /\ DataOK /\ StatesOK
    BY TypeOKParts
  <2>1. RequestFlags'
    BY <2>0 DEF StartFill, RequestFlags, landing, Up, ClearContent, EndAs, Job,
         form_of_repo, reached, xpopup, xjob, server
  <2>2. PopupFlags'
    BY <2>0 DEF StartFill, PopupFlags, Up, ClearContent, EndAs, Job, web, server, create
  <2>3. ContentFlags'
    BY <2>0 DEF StartFill, ContentFlags, Up, ClearContent, EndAs, Job, server
  <2>4. DataOK'
    BY <2>0
         DEF StartFill, DataOK, landing, Up, ClearContent, EndAs, Job, dir, form_of_repo,
         reached, xjob, server
  <2>5. StatesOK'
    BY <2>0
         DEF StartFill, StatesOK, landing, Up, ClearContent, EndAs, Job, dir, xpopup, xjob,
         web, server, create
  <2> QED
    BY <2>1, <2>2, <2>3, <2>4, <2>5
         DEF TypeOK, RequestFlags, PopupFlags, ContentFlags, DataOK, StatesOK
<1>2. ServerMeetsNoBug'
  BY DEF StartFill, ServerMeetsNoBug, Up, ClearContent, EndAs, Job, server
<1>3. Up' => Watched'
  BY DEF Invs, StartFill, Watched, Up, ClearContent, EndAs, Job, dir, IsRunning, web, server
<1>4. Up' => Locked'
  BY DEF Invs, StartFill, Locked, Up, ClearContent, EndAs, Job, server
<1>5. Up' => Opened'
  BY DEF Invs, StartFill, Opened, landing, Up, ClearContent, EndAs, Job, dir, server
<1>6. Up' => Loaded'
  BY ListingKept
       DEF StartFill, Loaded, Up, ClearContent, EndAs, Job, IsRunning, Directory, server
<1>7. Up' => Connected'
  BY DEF Invs, StartFill, Connected, landing, Up, ClearContent, EndAs, Job, XRunning, null,
       form_of_repo, reached, xpopup, xjob, server
<1>8. Up' => Offered'
  BY DEF Invs, StartFill, Offered, landing, Up, ClearContent, EndAs, Job, dir, FormShown,
       xpopup, server
<1>9. Up' => Requested'
  BY DEF Invs, StartFill, Requested, landing, Up, ClearContent, EndAs, Job, dir, reached,
       xpopup, server
<1>10. Up' => Told'
  BY DEF Invs, StartFill, Told, landing, Up, ClearContent, EndAs, Job, xpopup, server
<1>11. Up' => Warned'
  BY DEF Invs, StartFill, Warned, landing, Up, ClearContent, EndAs, Job, web, xpopup, server
<1> QED
  BY <1>1, <1>2, <1>3, <1>4, <1>5, <1>6, <1>7, <1>8, <1>9, <1>10, <1>11 DEF IInv, Invs

(* The thread has read the directory: what is listed is what was there.      *)
LEMMA ListKeeps ==
    ASSUME TypeOK, Invs, ServerMeetsNoBug, List, UNCHANGED landing
    PROVE  IInv'
<1>1. TypeOK'
  <2>0. RequestFlags /\ PopupFlags /\ ContentFlags /\ DataOK /\ StatesOK
    BY TypeOKParts
  <2>1. RequestFlags'
    BY <2>0
         DEF List, RequestFlags, landing, Up, EndAs, Job, form_of_repo, reached, xpopup,
         xjob, server
  <2>2. PopupFlags'
    BY <2>0 DEF List, PopupFlags, Up, EndAs, Job, web, server, create
  <2>3. ContentFlags'
    BY <2>0 DEF List, ContentFlags, Up, EndAs, Job, server
  <2>4. DataOK'
    <3>1. listed' \subseteq Paths
      <4>1. Listing(label) \subseteq Paths
        BY <2>0 DEF Listing, Entries, DataOK
      <4> QED
        BY <2>0, <4>1 DEF List, DataOK
    <3>2. UNCHANGED <<label, location, path_loaded, value, exists, changed, repo, entrep, libdar_entrep, read>>
      BY DEF List, Job, dir, server, landing, form_of_repo, reached, xjob
    <3> QED
      BY <2>0, <3>1, <3>2 DEF DataOK
  <2>5. StatesOK'
    BY <2>0
         DEF List, StatesOK, landing, Up, EndAs, Job, dir, xpopup, xjob, web, server, create
  <2> QED
    BY <2>1, <2>2, <2>3, <2>4, <2>5
         DEF TypeOK, RequestFlags, PopupFlags, ContentFlags, DataOK, StatesOK
<1>2. ServerMeetsNoBug'
  BY DEF List, ServerMeetsNoBug, Up, EndAs, Job, server
<1>3. Up' => Watched'
  BY DEF Invs, List, Watched, Up, EndAs, Job, IsRunning, web, server
<1>4. Up' => Locked'
  BY DEF List, Locked, Up, EndAs, Job, server
<1>5. Up' => Opened'
  BY DEF Invs, List, Opened, landing, Up, EndAs, Job, dir, web, server, Watched, IsRunning
<1>6. Up' => Loaded'
  <2> SUFFICES ASSUME ~spoilt'
               PROVE  Loaded'
    BY DEF Loaded
  <2>1. /\ path_loaded = label /\ listed' = Listing(label) /\ TargetType[label] = "isdir"
        /\ target_type = "isdir"
    <3>1. spoilt /\ target_type = "isdir"
      BY DEF Invs, Watched, List
    <3>2. Outcome(label, "read") /\ listed' = Listing(label) /\ spoilt' = (path_loaded # label)
      BY <3>1 DEF List
    <3> QED
      BY <3>1, <3>2 DEF Outcome, Reads
  <2>2. UNCHANGED <<path_loaded, label, target_type, exists, mode>>
    BY DEF List, Job, dir
  <2>3. Listing(path_loaded)' = Listing(path_loaded)
    BY <2>2, ListingKept
  <2> QED
    BY <2>1, <2>2, <2>3 DEF Loaded, Directory
<1>7. Up' => Connected'
  BY DEF Invs, List, Connected, landing, Up, EndAs, Job, XRunning, null, form_of_repo,
       reached, xpopup, xjob, server
<1>8. Up' => Offered'
  BY DEF Invs, List, Offered, landing, Up, EndAs, Job, FormShown, xpopup, web, server,
       Watched, IsRunning
<1>9. Up' => Requested'
  BY DEF Invs, List, Requested, landing, Up, EndAs, Job, reached, xpopup, web, server,
       Watched, IsRunning
<1>10. Up' => Told'
  BY DEF Invs, List, Told, landing, Up, EndAs, Job, xpopup, web, server, Watched, IsRunning
<1>11. Up' => Warned'
  BY DEF Invs, List, Warned, landing, Up, EndAs, Job, web, xpopup, server
<1> QED
  BY <1>1, <1>2, <1>3, <1>4, <1>5, <1>6, <1>7, <1>8, <1>9, <1>10, <1>11 DEF IInv, Invs

(* The thread was stopped: what it had read may be partial, which spoilt     *)
(* says.                                                                     *)
LEMMA CancelledKeeps ==
    ASSUME TypeOK, Invs, ServerMeetsNoBug, Cancelled, UNCHANGED landing
    PROVE  IInv'
<1>1. TypeOK'
  <2>0. RequestFlags /\ PopupFlags /\ ContentFlags /\ DataOK /\ StatesOK
    BY TypeOKParts
  <2>1. RequestFlags'
    BY <2>0
         DEF Cancelled, RequestFlags, landing, Up, EndAs, Job, form_of_repo, reached,
         xpopup, xjob, server
  <2>2. PopupFlags'
    BY <2>0 DEF Cancelled, PopupFlags, Up, EndAs, Job, web, server, create
  <2>3. ContentFlags'
    BY <2>0 DEF Cancelled, ContentFlags, Up, EndAs, Job, server
  <2>4. DataOK'
    BY <2>0
         DEF Cancelled, DataOK, landing, Up, EndAs, Job, dir, disk, form_of_repo, reached,
         xjob, server
  <2>5. StatesOK'
    BY <2>0
         DEF Cancelled, StatesOK, landing, Up, EndAs, Job, dir, xpopup, xjob, web, server,
         create
  <2> QED
    BY <2>1, <2>2, <2>3, <2>4, <2>5
         DEF TypeOK, RequestFlags, PopupFlags, ContentFlags, DataOK, StatesOK
<1>2. ServerMeetsNoBug'
  BY DEF Cancelled, ServerMeetsNoBug, Up, EndAs, Job, server
<1>3. Up' => Watched'
  BY DEF Invs, Cancelled, Watched, Up, EndAs, Job, IsRunning, web, server
<1>4. Up' => Locked'
  BY DEF Cancelled, Locked, Up, EndAs, Job, server
<1>5. Up' => Opened'
  BY DEF Invs, Cancelled, Opened, landing, Up, EndAs, Job, dir, server
<1>6. Up' => Loaded'
  BY ListingKept DEF Cancelled, Loaded, Up, EndAs, Job, IsRunning, Directory, server
<1>7. Up' => Connected'
  BY DEF Invs, Cancelled, Connected, landing, Up, EndAs, Job, XRunning, null, form_of_repo,
       reached, xpopup, xjob, server
<1>8. Up' => Offered'
  BY DEF Invs, Cancelled, Offered, landing, Up, EndAs, Job, dir, FormShown, xpopup, server
<1>9. Up' => Requested'
  BY DEF Invs, Cancelled, Requested, landing, Up, EndAs, Job, dir, reached, xpopup, server
<1>10. Up' => Told'
  BY DEF Invs, Cancelled, Told, landing, Up, EndAs, Job, xpopup, server
<1>11. Up' => Warned'
  BY DEF Invs, Cancelled, Warned, landing, Up, EndAs, Job, web, xpopup, server
<1> QED
  BY <1>1, <1>2, <1>3, <1>4, <1>5, <1>6, <1>7, <1>8, <1>9, <1>10, <1>11 DEF IInv, Invs

(* The thread reads the description of the repository.                       *)
LEMMA XBeginKeeps ==
    ASSUME TypeOK, Invs, ServerMeetsNoBug, XBegin
    PROVE  IInv'
<1>1. TypeOK'
  <2>0. RequestFlags /\ PopupFlags /\ ContentFlags /\ DataOK /\ StatesOK
    BY TypeOKParts
  <2>1. RequestFlags'
    BY <2>0 DEF XBegin, RequestFlags, Up, XJob, select, xpopup, server
  <2>2. PopupFlags'
    BY <2>0 DEF XBegin, PopupFlags, Up, XJob, select, server, flags, web, create
  <2>3. ContentFlags'
    BY <2>0 DEF XBegin, ContentFlags, Up, XJob, select, server, content, warn
  <2>4. DataOK'
    BY <2>0 DEF XBegin, DataOK, Up, XJob, select, server, dir, content, disk
  <2>5. StatesOK'
    BY <2>0 DEF XBegin, StatesOK, Up, XJob, select, xpopup, server, dir, web, create
  <2> QED
    BY <2>1, <2>2, <2>3, <2>4, <2>5
         DEF TypeOK, RequestFlags, PopupFlags, ContentFlags, DataOK, StatesOK
<1>2. ServerMeetsNoBug'
  BY DEF XBegin, ServerMeetsNoBug, Up, XJob, select, server
<1>3. Up' => Watched'
  BY DEF Invs, XBegin, Watched, Up, XJob, IsRunning, select, server, dir, content, flags,
       web
<1>4. Up' => Locked'
  BY DEF Invs, XBegin, Locked, Up, XJob, select, server
<1>5. Up' => Opened'
  BY DEF Invs, XBegin, Opened, Up, XJob, select, server, dir, flags, warn
<1>6. Up' => Loaded'
  BY ListingKept DEF Invs, XBegin, Loaded, Up, XJob, IsRunning, Directory, select, xpopup,
       server, dir, content, flags, web, disk, warn, create
<1>7. Up' => Connected'
  BY DEF Invs, XBegin, Connected, Up, null, XJob, XRunning, select, xpopup, server
<1>8. Up' => Offered'
  BY DEF Invs, XBegin, Offered, Up, XJob, FormShown, select, xpopup, server, dir, flags,
       warn
<1>9. Up' => Requested'
  BY DEF Invs, XBegin, Requested, Up, XJob, select, xpopup, server, dir, flags, warn
<1>10. Up' => Told'
  BY DEF Invs, XBegin, Told, Up, XJob, select, xpopup, server, flags
<1>11. Up' => Warned'
  BY DEF Invs, XBegin, Warned, Up, XJob, select, web, xpopup, server, warn
<1> QED
  BY <1>1, <1>2, <1>3, <1>4, <1>5, <1>6, <1>7, <1>8, <1>9, <1>10, <1>11 DEF IInv, Invs

(* The thread reaches the repository that it read.                           *)
LEMMA XConnectKeeps ==
    ASSUME TypeOK, Invs, ServerMeetsNoBug, XConnect
    PROVE  IInv'
<1>1. TypeOK'
  <2>0. RequestFlags /\ PopupFlags /\ ContentFlags /\ DataOK /\ StatesOK
    BY TypeOKParts
  <2>1. RequestFlags'
    BY <2>0 DEF XConnect, RequestFlags, Up, XJob, select, xpopup, server
  <2>2. PopupFlags'
    BY <2>0 DEF XConnect, PopupFlags, Up, XJob, select, server, flags, web, create
  <2>3. ContentFlags'
    BY <2>0 DEF XConnect, ContentFlags, Up, XJob, select, server, content, warn
  <2>4. DataOK'
    BY <2>0 DEF XConnect, DataOK, Up, XJob, select, server, dir, content, disk
  <2>5. StatesOK'
    BY <2>0 DEF XConnect, StatesOK, Up, XJob, select, xpopup, server, dir, web, create
  <2> QED
    BY <2>1, <2>2, <2>3, <2>4, <2>5
         DEF TypeOK, RequestFlags, PopupFlags, ContentFlags, DataOK, StatesOK
<1>2. ServerMeetsNoBug'
  BY DEF XConnect, ServerMeetsNoBug, Up, XJob, select, server
<1>3. Up' => Watched'
  BY DEF Invs, XConnect, Watched, Up, XJob, IsRunning, select, server, dir, content, flags,
       web
<1>4. Up' => Locked'
  BY DEF Invs, XConnect, Locked, Up, XJob, select, server
<1>5. Up' => Opened'
  BY DEF Invs, XConnect, Opened, Up, XJob, select, server, dir, flags, warn
<1>6. Up' => Loaded'
  BY ListingKept DEF Invs, XConnect, Loaded, Up, XJob, IsRunning, Directory, select,
       xpopup, server, dir, content, flags, web, disk, warn, create
<1>7. Up' => Connected'
  BY DEF Invs, XConnect, Connected, Up, XJob, XRunning, null, select, xpopup, server
<1>8. Up' => Offered'
  BY DEF Invs, XConnect, Offered, Up, XJob, FormShown, select, xpopup, server, dir, flags,
       warn
<1>9. Up' => Requested'
  BY DEF Invs, XConnect, Requested, Up, XJob, select, xpopup, server, dir, flags, warn
<1>10. Up' => Told'
  BY DEF Invs, XConnect, Told, Up, XJob, select, xpopup, server, flags
<1>11. Up' => Warned'
  BY DEF Invs, XConnect, Warned, Up, XJob, select, web, xpopup, server, warn
<1> QED
  BY <1>1, <1>2, <1>3, <1>4, <1>5, <1>6, <1>7, <1>8, <1>9, <1>10, <1>11 DEF IInv, Invs

(* The thread cannot reach the repository.                                   *)
LEMMA XFailKeeps ==
    ASSUME TypeOK, Invs, ServerMeetsNoBug, XFail
    PROVE  IInv'
<1>1. TypeOK'
  <2>0. RequestFlags /\ PopupFlags /\ ContentFlags /\ DataOK /\ StatesOK
    BY TypeOKParts
  <2>1. RequestFlags'
    BY <2>0 DEF XFail, RequestFlags, Up, XJob, select, xpopup, server
  <2>2. PopupFlags'
    BY <2>0 DEF XFail, PopupFlags, Up, XJob, select, server, flags, web, create
  <2>3. ContentFlags'
    BY <2>0 DEF XFail, ContentFlags, Up, XJob, select, server, content, warn
  <2>4. DataOK'
    BY <2>0 DEF XFail, DataOK, Up, XJob, select, server, dir, content, disk
  <2>5. StatesOK'
    BY <2>0 DEF XFail, StatesOK, Up, XJob, select, xpopup, server, dir, web, create
  <2> QED
    BY <2>1, <2>2, <2>3, <2>4, <2>5
         DEF TypeOK, RequestFlags, PopupFlags, ContentFlags, DataOK, StatesOK
<1>2. ServerMeetsNoBug'
  BY DEF XFail, ServerMeetsNoBug, Up, XJob, select, server
<1>3. Up' => Watched'
  BY DEF Invs, XFail, Watched, Up, XJob, IsRunning, select, server, dir, content, flags, web
<1>4. Up' => Locked'
  BY DEF Invs, XFail, Locked, Up, XJob, select, server
<1>5. Up' => Opened'
  BY DEF Invs, XFail, Opened, Up, XJob, select, server, dir, flags, warn
<1>6. Up' => Loaded'
  BY ListingKept DEF Invs, XFail, Loaded, Up, XJob, IsRunning, Directory, select, xpopup,
       server, dir, content, flags, web, disk, warn, create
<1>7. Up' => Connected'
  BY DEF Invs, XFail, Connected, Up, XJob, XRunning, null, select, xpopup, server
<1>8. Up' => Offered'
  BY DEF Invs, XFail, Offered, Up, XJob, FormShown, select, xpopup, server, dir, flags, warn
<1>9. Up' => Requested'
  BY DEF Invs, XFail, Requested, Up, XJob, select, xpopup, server, dir, flags, warn
<1>10. Up' => Told'
  BY DEF Invs, XFail, Told, Up, XJob, select, xpopup, server, flags
<1>11. Up' => Warned'
  BY DEF Invs, XFail, Warned, Up, XJob, select, web, xpopup, server, warn
<1> QED
  BY <1>1, <1>2, <1>3, <1>4, <1>5, <1>6, <1>7, <1>8, <1>9, <1>10, <1>11 DEF IInv, Invs

(* The thread hands over the repository that it reached.                     *)
LEMMA XEndKeeps ==
    ASSUME TypeOK, Invs, ServerMeetsNoBug, XEnd
    PROVE  IInv'
<1>1. TypeOK'
  <2>0. RequestFlags /\ PopupFlags /\ ContentFlags /\ DataOK /\ StatesOK
    BY TypeOKParts
  <2>1. RequestFlags'
    BY <2>0 DEF XEnd, RequestFlags, Up, XJob, select, xpopup, server
  <2>2. PopupFlags'
    BY <2>0 DEF XEnd, PopupFlags, Up, XJob, select, server, flags, web, create
  <2>3. ContentFlags'
    BY <2>0 DEF XEnd, ContentFlags, Up, XJob, select, server, content, warn
  <2>4. DataOK'
    BY <2>0 DEF XEnd, DataOK, Up, XJob, select, server, dir, content, disk
  <2>5. StatesOK'
    BY <2>0 DEF XEnd, StatesOK, Up, XJob, select, xpopup, server, dir, web, create
  <2> QED
    BY <2>1, <2>2, <2>3, <2>4, <2>5
         DEF TypeOK, RequestFlags, PopupFlags, ContentFlags, DataOK, StatesOK
<1>2. ServerMeetsNoBug'
  BY DEF XEnd, ServerMeetsNoBug, Up, XJob, select, server
<1>3. Up' => Watched'
  BY DEF Invs, XEnd, Watched, Up, XJob, IsRunning, select, server, dir, content, flags, web
<1>4. Up' => Locked'
  BY DEF Invs, XEnd, Locked, Up, XJob, select, server
<1>5. Up' => Opened'
  BY DEF Invs, XEnd, Opened, Up, XJob, select, server, dir, flags, warn
<1>6. Up' => Loaded'
  BY ListingKept DEF Invs, XEnd, Loaded, Up, XJob, IsRunning, Directory, select, xpopup,
       server, dir, content, flags, web, disk, warn, create
<1>7. Up' => Connected'
  BY ReposAssumption
       DEF Invs, XEnd, Connected, Up, XJob, XRunning, null, select, xpopup, server, TypeOK
<1>8. Up' => Offered'
  BY DEF Invs, XEnd, Offered, Up, XJob, FormShown, select, xpopup, server, dir, flags, warn
<1>9. Up' => Requested'
  BY DEF Invs, XEnd, Requested, Up, XJob, select, xpopup, server, dir, flags, warn
<1>10. Up' => Told'
  BY DEF Invs, XEnd, Told, Up, XJob, select, xpopup, server, flags
<1>11. Up' => Warned'
  BY DEF Invs, XEnd, Warned, Up, XJob, select, web, xpopup, server, warn
<1> QED
  BY <1>1, <1>2, <1>3, <1>4, <1>5, <1>6, <1>7, <1>8, <1>9, <1>10, <1>11 DEF IInv, Invs

(* A session starts with its popups closed and no thread.                    *)
LEMMA InitKeeps ==
    ASSUME Init
    PROVE  IInv
<1>1. PICK u \in Uses : host = u[1] /\ mode = u[2] /\ value = u[3]
  BY DEF Init, InitLanding
<1>2. host \in {"landing", "plain"} /\ mode \in {"sel_dir", "sel_file", "sel_symlinks"} /\ value \in Paths
  BY <1>1, ReposAssumption
<1>3. entrep \in {null, 1} /\ (host = "landing" \/ entrep = null) /\ libdar_entrep = entrep
  BY DEF Init, InitLanding
<1>4. page.kind = "form" /\ page.buttons = Buttons
  BY DEF Init, Page
<1>5. Buttons \cap {"select", "cancel"} = {}
  BY DEF Init, InitSelect, InitLanding, Buttons
<1>6. TypeOK
  <2>1. RequestFlags /\ PopupFlags /\ ContentFlags
    BY <1>3 DEF Init, InitSelect, InitLanding, RequestFlags, PopupFlags, ContentFlags
  <2>2. DataOK
    BY <1>2, <1>3, ReposAssumption DEF Init, InitSelect, InitLanding, DataOK
  <2>3. StatesOK
    BY <1>2, <1>4 DEF Init, InitSelect, InitLanding, StatesOK
  <2> QED
    BY <2>1, <2>2, <2>3, TypeOKParts
<1>7. ServerMeetsNoBug
  BY DEF Init, ServerMeetsNoBug
<1>8. Watched /\ Locked /\ Opened /\ Loaded
  BY <1>2 DEF Init, InitSelect, Watched, Locked, Opened, Loaded, IsRunning
<1>9. Connected
  BY <1>2, <1>3 DEF Init, InitSelect, InitLanding, Connected, XRunning, null
<1>10. Offered
  BY <1>4, <1>5 DEF Init, InitSelect, InitLanding, Offered
<1>11. Requested /\ Told /\ Warned
  BY DEF Init, InitSelect, InitLanding, Requested, Told, Warned
<1> QED
  BY <1>6, <1>7, <1>8, <1>9, <1>10, <1>11 DEF IInv, Invs

(* A step that changes nothing keeps the invariant.                          *)
LEMMA StutterKeeps ==
    ASSUME IInv, UNCHANGED vars
    PROVE  IInv'
<1>1. UNCHANGED <<pc, req, posted, acted, changed, redirect, page, presses, status>>
  BY DEF vars, server
<1>2. UNCHANGED <<visible, is_loading_mode, label, target_type, inode_type, path_loaded, listed,
                  hit, fresh, spoilt, which_thread, need_reload, should_refresh>>
  BY DEF vars, select, dir, content, flags
<1>3. UNCHANGED <<warning, new_warning, owed, moved, form, showing, parent, hmode, managed, stop,
                  thread, mutex, location, exists, failures, mode>>
  BY DEF vars, select, warn, create, web, disk
<1>4. UNCHANGED <<host, repo, need_update, entrep, entrepot_changed, libdar_entrep, given, value,
                  browsed, xvisible, xrefresh, xmode, xmanaged, xthread, read, refused>>
  BY DEF vars, landing, form_of_repo, reached, xpopup, xjob
<1>5. TypeOK'
  <2>0. RequestFlags /\ PopupFlags /\ ContentFlags /\ DataOK /\ StatesOK
    BY TypeOKParts DEF IInv
  <2>1. RequestFlags'
    BY <2>0, <1>1, <1>4 DEF RequestFlags
  <2>2. PopupFlags'
    BY <2>0, <1>2, <1>3 DEF PopupFlags
  <2>3. ContentFlags'
    BY <2>0, <1>2, <1>3 DEF ContentFlags
  <2>4. DataOK'
    BY <2>0, <1>1, <1>2, <1>3, <1>4 DEF DataOK, null
  <2>5. StatesOK'
    BY <2>0, <1>1, <1>2, <1>3, <1>4 DEF StatesOK
  <2> QED
    BY <2>1, <2>2, <2>3, <2>4, <2>5
       DEF TypeOK, RequestFlags, PopupFlags, ContentFlags, DataOK, StatesOK
<1>6. ServerMeetsNoBug' /\ (Up' => Up)
  BY <1>1 DEF IInv, ServerMeetsNoBug, Up
<1>7. Up => Watched' /\ Locked' /\ Opened'
  BY <1>1, <1>2, <1>3, <1>4 DEF IInv, Invs, Watched, Locked, Opened, IsRunning
<1>8. Up => Loaded'
  BY <1>2, <1>3, ListingKept DEF IInv, Invs, Loaded, IsRunning, Directory
<1>9. Up => Connected'
  BY <1>2, <1>4 DEF IInv, Invs, Connected, XRunning
<1>10. Up => Offered' /\ Requested'
  BY <1>1, <1>2, <1>3, <1>4 DEF IInv, Invs, Offered, Requested, FormShown
<1>11. Up => Told' /\ Warned'
  BY <1>1, <1>2, <1>3, <1>4 DEF IInv, Invs, Told, Warned
<1> QED
  BY <1>5, <1>6, <1>7, <1>8, <1>9, <1>10, <1>11 DEF IInv, Invs

(* The steps of the evaluation of the popup, together.                       *)
LEMMA RoundKeeps ==
    ASSUME TypeOK, Invs, ServerMeetsNoBug, PopupRound, UNCHANGED landing
    PROVE  IInv'
BY OpenPopupKeeps, NoPopupKeeps, FieldsetQuietKeeps, PressParentKeeps, PressEntryKeeps,
   WebuiQuietKeeps, WebuiEndKeeps, WebuiFailureKeeps, PressAskOrForceKeeps, ButtonsQuietKeeps,
   PressNewKeeps, PostNameKeeps, RefuseKeeps, ReloadKeeps
   DEF PopupRound

(* The steps of the thread of the popup, together.                           *)
LEMMA ThreadKeeps ==
    ASSUME TypeOK, Invs, ServerMeetsNoBug, PopupThread, UNCHANGED landing
    PROVE  IInv'
BY BeginKeeps, CreateDirKeeps, TryTargetKeeps, TryParentKeeps, StartFillKeeps, ListKeeps,
   CancelledKeeps
   DEF PopupThread

(* The steps of the evaluation of the page, together.                        *)
LEMMA LandingRoundKeeps ==
    ASSUME TypeOK, Invs, ServerMeetsNoBug, LandingRound
    PROVE  IInv'
BY PostRepositoryKeeps, RepositoryQuietKeeps, PlusQuietKeeps, PressPlusKeeps,
   PressPlusUpdatesKeeps, SelectKeeps, CancelKeeps, XferQuietKeeps, PressXferStopKeeps, XferEndKeeps
   DEF LandingRound

(* A step of the specification is one of the actions above, or changes       *)
(* nothing.                                                                  *)
LEMMA StepsOfTheProgram ==
    ASSUME Next
    PROVE  UNCHANGED vars \/ Up
BY DEF Next, Press, Refresh, Acknowledge, Receive, Build, Work, Over, NextRound, Send,
     PopupRound,
   LandingRound, PopupThread, LandingThread, PostRepository, RepositoryQuiet, PlusQuiet, PressPlus,
   PressPlusUpdates, Select, Cancel, Close, XferQuiet, PressXferStop, XferEnd, XBegin, XConnect,
   XFail, XEnd, OpenPopup, NoPopup, FieldsetQuiet, PressParent, PressEntry, WebuiQuiet, WebuiEnd,
   WebuiFailure, PressAskOrForce, ButtonsQuiet, PressNew, PostName, Refuse, Reload, Begin,
   CreateDir, TryTarget, TryParent, StartFill, List, Cancelled

(* Every step keeps the invariant.                                           *)
LEMMA NextKeeps ==
    ASSUME IInv, Next
    PROVE  IInv'
<1>1. CASE UNCHANGED vars
  BY <1>1, StutterKeeps
<1>2. CASE ~UNCHANGED vars
  <2> TypeOK /\ Invs /\ ServerMeetsNoBug
    BY <1>2, StepsOfTheProgram DEF IInv
  <2>1. CASE \E b \in page.buttons : Press(b)
    BY <2>1, PressKeeps
  <2>2. CASE Refresh \/ Acknowledge
    BY <2>2, RefreshKeeps, AcknowledgeKeeps
  <2>3. CASE Build
    BY <2>3, RoundKeeps, LandingRoundKeeps, NextRoundKeeps, SendKeeps DEF Build
  <2>4. CASE Work
    BY <2>4, ThreadKeeps, XBeginKeeps, XConnectKeeps, XFailKeeps, XEndKeeps
         DEF Work, LandingThread
  <2> QED
    BY <1>2, <2>1, <2>2, <2>3, <2>4 DEF Next, Over
<1> QED
  BY <1>1, <1>2

(* The invariant is inductive.                                               *)
THEOREM Invariance == Spec => []IInv
BY InitKeeps, NextKeeps, StutterKeeps, PTL DEF Spec

(* The variables keep their types.                                           *)
THEOREM TypeCorrect == Spec => []TypeOK
BY Invariance, PTL DEF IInv

(* The server thread meets none of the checks of the popup: a thread is      *)
(* launched only when none is left, and the content is shown with the mutex  *)
(* free (html_select_file.cpp, run_thread and inherited_get_body_part).      *)
THEOREM NoBugMet == Spec => []ServerMeetsNoBug
BY Invariance, PTL DEF IInv

(* What a page at rest lists is what its directory has, whatever was pressed *)
(* before and whatever reading was skipped (path_loaded in                   *)
(* html_select_file.cpp).                                                    *)
THEOREM ListingCurrent == Spec => []ListingIsCurrent
<1>1. IInv => ListingIsCurrent
  <2> SUFFICES ASSUME IInv, AtRest, ~spoilt
               PROVE  listed = Listing(Directory)
    BY DEF ListingIsCurrent
  <2>1. ~need_reload /\ ~IsRunning
    <3>1. ~need_reload
      BY DEF IInv, Invs, AtRest, Offered, FormShown
    <3>2. thread = "off"
      BY DEF IInv, Invs, AtRest, Watched, TypeOK
    <3> QED
      BY <3>1, <3>2 DEF IsRunning
  <2>2. path_loaded # ""
    BY <2>1 DEF IInv, Invs, AtRest, Opened
  <2> QED
    BY <2>1, <2>2 DEF IInv, Invs, AtRest, Loaded
<1> QED
  BY <1>1, Invariance, PTL

(* The button of the parent that is seen as pressed was on the page that the *)
(* user saw.                                                                 *)
LEMMA PressParentMoves ==
    ASSUME IInv, PressParent
    PROVE  ~moved
BY DEF IInv, Invs, Requested, PressParent

(* What is selected is what was shown, and of the kind that the mode asks    *)
(* for.                                                                      *)
LEMMA SelectKind ==
    ASSUME IInv, Select
    PROVE  /\ label = page.label
           /\ ~spoilt /\ mode = "sel_dir" => TargetType[label] = "isdir"
           /\ ~spoilt /\ mode = "sel_file" => TargetType[label] # "isdir"
<1>1. Up /\ pc = "buttons" /\ req = "select" /\ ~is_loading_mode /\ Accepts
  BY DEF Select, Close, OnBottom
<1>2. visible /\ label = page.label /\ ~need_reload
  BY <1>1 DEF IInv, Invs, Opened, Requested
<1>3. ~IsRunning /\ path_loaded # ""
  <2>1. thread = "off"
    BY <1>1 DEF IInv, Invs, Watched, TypeOK
  <2>2. path_loaded # ""
    BY <1>1, <1>2 DEF IInv, Invs, Opened
  <2> QED
    BY <2>1, <2>2 DEF IsRunning
<1>4. ~spoilt => (target_type = "isdir" <=> TargetType[label] = "isdir")
  BY <1>1, <1>2, <1>3 DEF IInv, Invs, Loaded
<1>5. mode = "sel_dir" => target_type = "isdir"
  BY <1>1 DEF Accepts
<1>6. mode = "sel_file" => target_type # "isdir"
  BY <1>1 DEF Accepts
<1> QED
  BY <1>2, <1>4, <1>5, <1>6

(* A page with a listing shows the warning that is owed.                     *)
LEMMA SendWarns ==
    ASSUME IInv, Send, visible, owed
    PROVE  page'.warning
<1>1. warning
  BY DEF IInv, Invs, Warned, Send
<1> QED
  BY <1>1 DEF Send, Page

(* Of all steps two open the popup, and both do with the repository that the *)
(* form describes, unless it was refused or is to be reached again.          *)
LEMMA OpeningBrowses ==
    ASSUME IInv, Next, ~visible, visible', host = "landing"
    PROVE  browsed' = repo \/ refused \/ need_update
<1>1. PressPlus \/ XferEnd
  BY DEF Next, Press, Refresh, Acknowledge, Receive, Build, Work, Over, vars, NextRound,
       Send,
     PopupRound, LandingRound, PopupThread, LandingThread, PostRepository, RepositoryQuiet,
     PlusQuiet, PressPlusUpdates, Select, Cancel, Close, XferQuiet, PressXferStop, XBegin, XConnect,
     XFail, XEnd, OpenPopup, NoPopup, FieldsetQuiet, PressParent, PressEntry, WebuiQuiet, WebuiEnd,
     WebuiFailure, PressAskOrForce, ButtonsQuiet, PressNew, PostName, Refuse, Reload, Begin,
     CreateDir, TryTarget, TryParent, StartFill, List, Cancelled, select, XJob, Job
<1>2. Up /\ Connected
  BY <1>1 DEF PressPlus, XferEnd, IInv, Invs
<1>3. CASE PressPlus
  <2>1. ~entrepot_changed /\ browsed' = libdar_entrep
    BY <1>3 DEF PressPlus, Browse, select
  <2> QED
    BY <1>2, <2>1 DEF Connected
<1>4. CASE XferEnd
  <2>1. browsed' = libdar_entrep /\ xthread \in {"ended", "failed"}
    BY <1>4 DEF XferEnd, Browse, select
  <2> QED
    BY <1>2, <2>1 DEF Connected
<1> QED
  BY <1>1, <1>3, <1>4

(* What a user can count on while browsing holds at every step: one press    *)
(* moves once, what is shown is what is selected, no warning is lost, and    *)
(* the repository browsed is the one on the page (html_select_file.cpp,      *)
(* html_archive_landing.cpp).                                                *)
THEOREM ToldWhileBrowsing == Spec => BrowsesAsTold
<1>1. IInv /\ [Next]_vars => [PressParent => ~moved]_vars
  BY PressParentMoves
<1>2. IInv /\ [Next]_vars =>
        [Select => /\ label = page.label
                   /\ ~spoilt /\ mode = "sel_dir" => TargetType[label] = "isdir"
                   /\ ~spoilt /\ mode = "sel_file" => TargetType[label] # "isdir"]_vars
  BY SelectKind
<1>3. IInv /\ [Next]_vars => [Send /\ visible /\ owed => page'.warning]_vars
  BY SendWarns
<1>4. IInv /\ [Next]_vars =>
        [~visible /\ visible' /\ host = "landing" =>
             browsed' = repo \/ refused \/ need_update]_vars
  BY OpeningBrowses
<1>5. Spec => MovesOnce
  BY <1>1, Invariance, PTL DEF Spec, MovesOnce
<1>6. Spec => SelectsWhatIsShown
  BY <1>2, Invariance, PTL DEF Spec, SelectsWhatIsShown
<1>7. Spec => WarningIsShown
  BY <1>3, Invariance, PTL DEF Spec, WarningIsShown
<1>8. Spec => RepositoryIsTheOneShown
  BY <1>4, Invariance, PTL DEF Spec, RepositoryIsTheOneShown
<1> QED
  BY <1>5, <1>6, <1>7, <1>8 DEF BrowsesAsTold

=============================================================================
