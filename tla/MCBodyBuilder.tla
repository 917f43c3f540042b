--------------------------- MODULE MCBodyBuilder ---------------------------
(* BodyBuilder on a page with a button, a form that has a choice and a box   *)
(* of two fields, and a part that events may show or hide.                   *)
EXTENDS BodyBuilder

MCNodes == {"root", "button", "form", "type", "box", "name", "option", "part"}

MCChildren ==
    [n \in MCNodes |->
        CASE n = "root" -> <<"button", "form", "part">>
          [] n = "form" -> <<"type", "box">>
          [] n = "box" -> <<"name", "option">>
          [] OTHER -> <<>>]

MCKind ==
    [n \in MCNodes |->
        CASE n \in {"button", "form"} -> n
          [] n = "type" -> "radio"
          [] n = "name" -> "input"
          [] n = "option" -> "check"
          [] OTHER -> "box"]

Handler(do, n) == {<<[do |-> do, node |-> n, same |-> b]>> : b \in BOOLEAN}

MCHidden == {{}, {"box", "part"}}

(* What each event may do; those that set a field go down the page or come   *)
(* from the form, so that none causes itself.                                *)
MayDo(n) ==
    CASE n = "button" ->
            Handler("visible", "box") \cup Handler("visible", "button")
              \cup Handler("value", "type") \cup Handler("enabled", "name")
      [] n = "type" ->
            Handler("visible", "box") \cup Handler("visible", "button")
              \cup Handler("value", "option")
      [] n = "name" -> Handler("visible", "part") \cup Handler("value", "option")
      [] n = "form" -> Handler("value", "type")

(* Two events have a handler.                                                *)
MCReactions ==
    UNION {{[n \in MCNodes |-> CASE n = p[1] -> h [] n = p[2] -> k [] OTHER -> <<>>] :
               h \in MayDo(p[1]), k \in MayDo(p[2])} :
           p \in {<<"button", "type">>, <<"type", "name">>, <<"form", "type">>}}

Post(f) == [method |-> "POST", target |-> "form", posted |-> f]

(* The button is pressed, the form submitted with some of its fields, or the *)
(* URL of either asked for again.                                            *)
MCRequests ==
    {[method |-> "GET", target |-> n, posted |-> <<>>] : n \in {"button", "form"}}
      \cup {Post([f \in S |-> IF f = "type" THEN v ELSE 1]) :
               v \in {0, 1}, S \in {{"type"}, {"type", "name"}}}
      \cup {Post([f \in {"type", "name", "option"} |-> 1])}
=============================================================================
