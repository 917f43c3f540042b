------------------------------- MODULE MCPages -------------------------------
(* An archive of directories on three levels, one with the same first        *)
(* directory, empty here, and one that holds no directory.                   *)
EXTENDS Pages

MCSubdirs ==
    [deep |-> (Root :> <<"a", "b">>) @@ (<<"a">> :> <<"c">>)
              @@ (<<"b">> :> <<>>) @@ (<<"a", "c">> :> <<"e">>)
              @@ (<<"a", "c", "e">> :> <<>>),
     flat |-> (Root :> <<"a">>) @@ (<<"a">> :> <<>>),
     bare |-> (Root :> <<>>)]

MCTabs == <<"main", "confread", "confsave">>

(* The user "a", and passwords of each length that base64 tells apart, one   *)
(* with a colon, one with bytes above 127.                                   *)
MCUser == <<97>>
MCPassword == <<65, 195>>
MCTyped == {<<>>, <<65>>, <<65, 195>>, <<65, 58>>, <<65, 195, 66>>}

(* The user kept nothing; a description of a repository that an old version  *)
(* wrote, and how to read with it; all but what reading needs.               *)
MCFiles ==
    {[stored |-> <<>>, broken |-> {}],
     [stored |-> ("repo" :> {}) @@ ("confread" :> {"repo"}), broken |-> {"repo"}],
     [stored |-> ("over_policy" :> {}) @@ ("confrest" :> {"over_policy"}),
      broken |-> {}]}
=============================================================================
