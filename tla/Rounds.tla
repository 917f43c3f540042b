------------------------------- MODULE Rounds -------------------------------
(* The server thread that builds the page of a session, component after      *)
(* component and in rounds until nothing changes any more, and the browser   *)
(* that shows the page, presses one of its buttons, or reloads it under the  *)
(* URL it was asked by (body_builder, html_page, html_button).               *)
(*                                                                           *)
(* The order of the components is given by the modules that use this one: pc *)
(* is the component that comes next. A component out of the page is passed.  *)
EXTENDS Naturals

CONSTANT MaxPresses    \* bound: the buttons pressed and the forms posted

VARIABLES
    pc,        \* the component to evaluate, or "idle"
    req,       \* the URL: the button it names, or the form that is posted
    posted,    \* the request is a POST that no round has processed yet
    acted,     \* the button of the URL has acted, and its text is cached
    changed,   \* the components whose body_changed was set in this round
    redirect,  \* html_page::redirect: the page reloads itself
    page,      \* what the browser shows
    presses,
    status

server == <<pc, req, posted, acted, changed, redirect, page, presses, status>>

Up == status = "up"

(* The server thread meets a check that fails and ends.                      *)
Bug(kind) == pc' = "idle" /\ status' = kind

(* What a browser shows: the form or the message of an error, the buttons    *)
(* not covered by another box, and what the popup displays.                  *)
Page(kind, buttons, refresh, label, warning) ==
    [kind |-> kind, buttons |-> buttons, refresh |-> refresh,
     label |-> label, warning |-> warning]

(* A button pressed acts once as long as its text stays in the cache.        *)
Pressed(b) == req = b /\ ~acted

(* A form takes what was posted to it, once.                                 *)
Submitted(f) == req = f /\ posted

To(stage) == pc' = stage /\ status' = status

(* body_builder::my_body_part_has_changed.                                   *)
Tell(who) == changed' = changed \cup who

Untold == UNCHANGED changed

(* Mutant: the page is never told to reload itself.                          *)
NoRefresh(b) == redirect' = FALSE

(* Mutant: the page is never told to stop reloading itself.                  *)
RefreshForEver(b) == redirect' = (b \/ redirect)

(* html_page::set_refresh_redirection.                                       *)
SetRefresh(b) == redirect' = b
=============================================================================
