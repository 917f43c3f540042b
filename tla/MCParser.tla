------------------------------ MODULE MCParser ------------------------------
(* Parser on two requests of a session: one with a body, one with a value    *)
(* that is folded over two lines. Each cell of a method, a URI or a version  *)
(* stands for some bytes.                                                    *)
EXTENDS Parser

Post == [method |-> <<"PO", "ST">>, uri |-> <<"/", "s", "/", "p">>,
         attributes |-> [k \in {<<"length">>} |-> <<"1">>],
         body |-> <<"b">>]

Get == [method |-> <<"G", "ET">>, uri |-> <<"/", "s">>,
        attributes |-> [k \in {<<"any">>} |-> <<"v", " ", "w">>],
        body |-> <<>>]

MCVersion == <<"HTTP", "/", "1">>

As(part, text) == [k \in DOMAIN text |-> <<part, text[k]>>]

Line(r) ==
    As("method", r.method) \o As("method_end", <<" ">>)
      \o As("uri", r.uri) \o As("uri_end", <<" ">>)
      \o As("version", MCVersion) \o As("line_cr", <<CR>>) \o As("line_lf", <<LF>>)

EndOfValue == As("value_cr", <<CR>>) \o As("value_lf", <<LF>>)

EndOfHeaders == As("empty_cr", <<CR>>) \o As("empty_lf", <<LF>>)

PostText ==
    Line(Post) \o As("key_first", <<"length">>) \o As("colon", <<":">>)
      \o As("space", <<" ">>) \o As("value", <<"1">>) \o EndOfValue
      \o EndOfHeaders \o As("body", Post.body)

GetText ==
    Line(Get) \o As("key_first", <<"any">>) \o As("colon", <<":">>)
      \o As("space", <<" ">>) \o As("value", <<"v">>) \o EndOfValue
      \o As("fold", <<" ", " ">>) \o As("value_first", <<"w">>) \o EndOfValue
      \o EndOfHeaders

Text == PostText \o GetText

MCStream == [k \in DOMAIN Text |-> Text[k][2]]

EndsAt(p) == p = Len(PostText) \/ p = Len(Text)

MCSaid[p \in 0..Len(Text)] ==
    IF p = 0 THEN [turn |-> 0, part |-> "nothing", req |-> Empty]
    ELSE LET s == Coming(MCSaid[p - 1])
             next == IF EndsAt(p) THEN "nothing" ELSE Text[p + 1][1]
         IN  [turn |-> s.turn, part |-> next,
              req |-> Grown(s.req, s.part, Text[p][2], next)]

WithLast(r, n) == [method |-> r.method, uri |-> r.uri, body |-> r.body,
                   attributes |-> r.attributes, last |-> n]

MCRequests == <<WithLast(Post, Len(PostText)), WithLast(Get, Len(MCStream))>>

MCContentLength == <<"length">>

MCMethods == {Post.method, Get.method}
=============================================================================
