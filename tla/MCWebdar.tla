------------------------------ MODULE MCWebdar ------------------------------
(* One or two addresses, spelt as the man page does, with more behind a port *)
(* or behind the last of them, or not at all.                                *)
EXTENDS Webdar

V4 == <<"4", ".", "4">>
V6 == <<":", ":", "1">>
Any6 == <<":", ":">>

At(i, p) == [interface |-> i, port |-> p]

MCTwo == <<At(V6, 1), At(V4, 0)>>

MCTexts ==
    {SpellAll(as) : as \in
        {MCTwo, <<At(V6, 0)>>, <<At(Any6, 1)>>, <<At(<<"n">>, 0)>>}}
    \cup {<<>>, <<":", "1">>, <<"4", ":">>, <<",", "4">>, <<"[", "]">>,
          <<"4", ":", "1", "n">>, <<"4", ":", "1", ":", "1">>, V4 \o <<",">>,
          <<"[", ":", ":", "1", "]", ":", "1", "n", ",">> \o V4 \o <<",">>,
          <<"4", "]">>, <<"4", "[", ":", ":", "1", "]">>,
          <<"[", ":", ":", "1", "]", "1">>, <<"[", ":", ":", "1", "]", ":">>}

MCOptions ==
    ({"l"} \X MCTexts) \cup ({"C", "K"} \X {<<>>, <<"file">>})
    \cup ({"m"} \X {<<"1">>, <<"0">>, <<"n">>})
    \cup ({"w"} \X {<<"yes">>, <<"no">>, <<"n">>})
    \cup ({"v", "b", "h", "V", "?"} \X {<<>>})

(* Up to two options, or both files about two addresses.                     *)
MCCommands ==
    UNION {[1..n -> MCOptions] : n \in 0..2}
    \cup {<< <<"C", <<"file">> >>, <<"l", SpellAll(MCTwo)>>,
             <<"K", <<"file">> >> >>}

MCListeners == 1..2
=============================================================================
