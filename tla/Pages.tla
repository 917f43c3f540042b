-------------------------------- MODULE Pages --------------------------------
(* What a user meets who logs in (Login): the pages of a session that show   *)
(* what it holds, the archive that is open (Listing) and, when none is shown,*)
(* the Configure page with its tabs and sections (Sections) and the          *)
(* configurations it proposes (Defaults), in the tab of the general settings.*)
EXTENDS Login, Listing, Sections, Defaults

CONSTANT MainTab  \* the tab that holds the buttons of the library

VARIABLE visit  \* bound: what the user looks at when logged in, as these parts
                \* share nothing but the mode of user_interface

Visits == {"archives", "options", "settings"}

pages == <<login, viewer, configure, defaults, visit>>

PagesInit ==
    /\ visit \in Visits
    /\ LoginInit /\ ListingInit /\ SectionsInit /\ DefaultsInit
    /\ visit # "settings" => stored = SetDefaultConfigs(<<>>).stored

(* The session keeps what it holds while its user disconnects and comes back.*)
LogIn ==
    /\ LoginNext
    /\ UNCHANGED <<viewer, configure, defaults, visit>>

(* A request whose credentials are right; the other pages are not part of    *)
(* this one. The connection of a request that gets no answer is closed.      *)
ReadArchives ==
    /\ IsLoggedIn /\ visit = "archives"
    /\ ListingNext
    /\ IF failures' # failures /\ mode' # "error"
       THEN login' = [login EXCEPT !.connected = FALSE, !.page = Nothing]
       ELSE UNCHANGED login
    /\ UNCHANGED <<configure, defaults, visit>>

ReadOptions ==
    /\ IsLoggedIn /\ visit = "options" /\ mode = "config"
    /\ SectionsNext
    /\ UNCHANGED <<login, viewer, defaults, visit>>

SetLibrary ==
    /\ IsLoggedIn /\ visit = "settings" /\ mode = "config"
    /\ MainTab \in tabs.content.shown
    /\ DefaultsNext
    /\ UNCHANGED <<login, viewer, configure, visit>>

PagesNext == LogIn \/ ReadArchives \/ ReadOptions \/ SetLibrary

PagesSpec == PagesInit /\ [][PagesNext]_pages
=============================================================================
