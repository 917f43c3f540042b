------------------------------- MODULE Parser -------------------------------
(* Classes parser and request, and the loop of server::inherited_run that    *)
(* uses them: a server thread reads requests from its connection and sends   *)
(* their answers. Between two requests of a session it looks, without        *)
(* waiting, whether the next one is for the same session.                    *)
EXTENDS Connexion

CONSTANTS
    Requests,       \* the requests of the stream, in order
    Methods,        \* the methods webdar knows
    Version,        \* the version it answers to
    ContentLength,  \* the key of this header
    Pipelining,     \* whether the client sends a request before it has the
                    \* answer of the previous one
    NoSession,
    Said            \* what the first cells of the stream say, for each number
                    \* of them: see RequestsAssumption

VARIABLES
    stage,      \* where the server thread is
    cont,       \* the stage that follows the end of the line
    req,        \* parser::req
    answered,   \* parser::answered
    sess,       \* the session the server holds
    cancelled,  \* whether the thread was asked to end
    ahead,      \* history: part of the request was read by the last poll
    answers     \* history: what the client was answered

parser == <<cont, req, answered, sess, cancelled, ahead, answers>>
vars == <<connexion, stage, parser>>

Empty == [method |-> <<>>, uri |-> <<>>, version |-> <<>>,
          key |-> <<>>, value |-> <<>>, attributes |-> <<>>, body |-> <<>>]

(* The functions that read the request, in order: get_token, get_word twice, *)
(* skip_line (line, and line_cr after a CR), is_empty_line, get_token,       *)
(* skip_over twice, up_to_eol (value), up_to_eol_with_LWS (fold, then folded *)
(* after a space), up_to_length.                                             *)
Reading == {"method", "uri", "version", "line", "line_cr", "header", "key",
            "colon", "space", "value", "fold", "folded", "body"}

(* The same get_token and get_word, that do not wait.                        *)
Polling == {"next_method", "next_uri"}

(* over: the thread ended with the connection or was cancelled. dropped: the *)
(* request could not be parsed. failed: no answer came from the session.     *)
(* bug: a bug exception.                                                     *)
Ends == {"over", "dropped", "failed", "bug"}

Stages == Reading \cup Polling
            \cup {"loop", "checkpoint", "serve", "refuse"} \cup Ends

Special == {"/", ":", " ", CR, LF}

IsToken(c) == c \notin Special

IsWord(c) == IsToken(c) \/ c \in {"/", ":"}

(* What the client sends. Said gives, after some cells of the stream, which  *)
(* request it has come to (turn), what the next cell is in it (part) and what*)
(* it says so far (req). A header line ends with its value, unless the next  *)
(* line begins with spaces: the value then goes on, after one space.         *)
Parts == {"method", "uri", "version", "key", "value", "body",
          "method_end", "uri_end", "line_cr", "line_lf", "key_first",
          "colon", "space", "value_first", "value_cr", "value_lf", "fold",
          "empty_cr", "empty_lf", "nothing"}

IsPart(part, c) ==
    \/ part \in {"method", "key_first", "key"} /\ IsToken(c)
    \/ part \in {"uri", "version"} /\ IsWord(c)
    \/ part \in {"method_end", "uri_end", "space", "fold"} /\ c = " "
    \/ part = "colon" /\ c = ":"
    \/ part = "value" /\ c # CR
    \/ part = "value_first" /\ c \notin {CR, " "}
    \/ part \in {"line_cr", "value_cr", "empty_cr"} /\ c = CR
    \/ part \in {"line_lf", "value_lf", "empty_lf"} /\ c = LF
    \/ part = "body"

Follows(part, next) ==
    \/ part = "method" /\ next \in {"method", "method_end"}
    \/ part = "method_end" /\ next = "uri"
    \/ part = "uri" /\ next \in {"uri", "uri_end"}
    \/ part = "uri_end" /\ next = "version"
    \/ part = "version" /\ next \in {"version", "line_cr"}
    \/ part = "line_cr" /\ next = "line_lf"
    \/ part \in {"line_lf", "value_lf"} /\ next \in {"key_first", "empty_cr"}
    \/ part = "value_lf" /\ next = "fold"
    \/ part \in {"key_first", "key"} /\ next \in {"key", "colon"}
    \/ part = "colon" /\ next = "space"
    \/ part \in {"space", "value", "value_first"} /\ next \in {"value", "value_cr"}
    \/ part = "value_cr" /\ next = "value_lf"
    \/ part = "fold" /\ next \in {"fold", "value_first", "value_cr"}
    \/ part = "empty_cr" /\ next = "empty_lf"
    \/ part \in {"empty_lf", "body"} /\ next \in {"body", "nothing"}

(* The attributes once the line that q ends with is one of them. The first   *)
(* value of a key counts.                                                    *)
Gathered(q) ==
    IF q.key = <<>> THEN q.attributes
    ELSE [k \in DOMAIN q.attributes \cup {q.key} |->
             IF k \in DOMAIN q.attributes THEN q.attributes[k] ELSE q.value]

(* What q says with one more cell.                                           *)
Grown(q, part, c, next) ==
    CASE part = "method" -> [q EXCEPT !.method = Append(@, c)]
      [] part = "uri" -> [q EXCEPT !.uri = Append(@, c)]
      [] part = "version" -> [q EXCEPT !.version = Append(@, c)]
      [] part = "key_first" -> [q EXCEPT !.attributes = Gathered(q),
                                         !.key = <<c>>, !.value = <<>>]
      [] part = "key" -> [q EXCEPT !.key = Append(@, c)]
      [] part \in {"value", "value_first"} -> [q EXCEPT !.value = Append(@, c)]
      [] part = "fold" /\ next # "fold" -> [q EXCEPT !.value = Append(@, " ")]
      [] part = "empty_cr" -> [q EXCEPT !.attributes = Gathered(q)]
      [] part = "body" -> [q EXCEPT !.body = Append(@, c)]
      [] OTHER -> q

Beginning(turn) == [turn |-> turn, part |-> "method", req |-> Empty]

(* What comes next, with the request that follows when one has ended.        *)
Coming(s) == IF s.part = "nothing" THEN Beginning(s.turn + 1) ELSE s

LengthOf(attributes) ==
    IF ContentLength \in DOMAIN attributes
    THEN Len(attributes[ContentLength]) ELSE 0

(* The parts of a request that s has gone through are those of one that      *)
(* webdar supports, and a whole request is the one of its turn.              *)
IsRight(s) ==
    /\ s.part # "method" => s.req.method \in Methods
    /\ s.part = "uri_end" => s.req.uri \notin {<<>>, Version}
    /\ s.part \notin {"method", "method_end", "uri", "uri_end", "version"} =>
          s.req.version = Version
    /\ s.part = "colon" => s.req.key # <<>>
    /\ s.part = "body" => Len(s.req.body) < LengthOf(s.req.attributes)
    /\ s.part = "nothing" =>
          /\ Len(s.req.body) = LengthOf(s.req.attributes)
          /\ ContentLength \in DOMAIN s.req.attributes =>
                s.req.attributes[ContentLength] # <<>>
          /\ s.req.method = Requests[s.turn].method
          /\ s.req.uri = Requests[s.turn].uri
          /\ s.req.attributes = Requests[s.turn].attributes
          /\ s.req.body = Requests[s.turn].body

(* The stream is made of the requests, and no name of a method ends a part   *)
(* of another one or of a URI: what is left of a request that was read ahead *)
(* could be taken for a request.                                             *)
ASSUME RequestsAssumption ==
    /\ DOMAIN Said = 0..Len(Stream)
    /\ Said[0] = [turn |-> 0, part |-> "nothing", req |-> Empty]
    /\ \A p \in 0..Len(Stream) :
          /\ Said[p].turn \in 0..Len(Requests) /\ Said[p].part \in Parts
          /\ DOMAIN Said[p].req = DOMAIN Empty
          /\ Said[p].req.body \in Seq(Cells)
          /\ LengthOf(Said[p].req.attributes) \in Nat
          /\ Said[p].part = "nothing" =>
                p = IF Said[p].turn = 0 THEN 0 ELSE Requests[Said[p].turn].last
          /\ p > 0 => IsRight(Said[p])
    /\ \A p \in 1..Len(Stream) :
          LET s == Coming(Said[p - 1])
          IN  /\ IsPart(s.part, Stream[p]) /\ Follows(s.part, Said[p].part)
              /\ Said[p].turn = s.turn
              /\ Said[p].req = Grown(s.req, s.part, Stream[p], Said[p].part)
    /\ \A p \in 1..Len(Stream), q \in 0..(Len(Stream) - 1) :
          Said[p].part \in {"method", "uri"} /\ p <= q
            /\ SubSeq(Stream, p + 1, q) \in Methods => IsToken(Stream[q + 1])
    /\ <<>> \notin Methods /\ Version # <<>>

(* webdar_tools_get_session_ID_from_URI: the first element of the path.      *)
SessionOf(uri) == IF Len(uri) < 2 THEN NoSession ELSE uri[2]

Init ==
    /\ InitConnexion
    /\ stage = "loop" /\ cont = "header"
    /\ req = Empty
    /\ answered = TRUE
    /\ sess = NoSession
    /\ cancelled = FALSE
    /\ ahead = FALSE
    /\ answers = <<>>

-----------------------------------------------------------------------------
(* What the function of the stage reads next is in the buffer. The last two  *)
(* of a line are looked at together (read_test_second).                      *)
Enough ==
    /\ Unread > 0
    /\ stage \in {"header", "value"} /\ First = CR => Unread > 1

(* Mutant: up_to_length stops too early.                                     *)
BodyLengthButOne ==
    IF ContentLength \in DOMAIN req.attributes
    THEN Len(req.attributes[ContentLength]) - 1 ELSE 0

(* Mutant: up_to_length stops too late.                                      *)
BodyLengthAndOne ==
    IF ContentLength \in DOMAIN req.attributes
    THEN Len(req.attributes[ContentLength]) + 1 ELSE 0

(* The header gives a length in unary: a value that was cut is a shorter     *)
(* one, and an empty one is no number.                                       *)
BodyLength ==
    IF ContentLength \in DOMAIN req.attributes
    THEN Len(req.attributes[ContentLength]) ELSE 0

BodyIsRead == Len(req.body) >= BodyLength

HasNoLength ==
    /\ ContentLength \in DOMAIN req.attributes
    /\ req.attributes[ContentLength] = <<>>

NeedsData ==
    /\ stage \in Reading \cup Polling
    /\ ~Enough
    /\ stage = "body" => ~BodyIsRead

(* add_attribute, whose map::insert changes nothing when the key exists.     *)
AddAttribute ==
    req' = [req EXCEPT !.attributes =
               [k \in DOMAIN @ \cup {req.key} |->
                   IF k \in DOMAIN @ THEN @[k] ELSE req.value]]

(* What sanity checks read() ends with.                                      *)
IsSupported == req.version = Version /\ req.method \in Methods

(* The function of the stage returns: get_request goes on, or throws.        *)
Returned ==
    /\ stage' = CASE stage = "method" -> "uri"
                  [] stage = "uri" -> "version"
                  [] stage = "version" ->
                        IF req.version \in {<<>>, Version} THEN "line"
                        ELSE "dropped"
                  [] stage \in {"line", "line_cr"} -> cont
                  [] stage = "header" -> "key"
                  [] stage = "key" -> IF req.key = <<>> THEN "dropped"
                                      ELSE "colon"
                  [] stage = "colon" -> "space"
                  [] stage = "space" -> "value"
                  [] stage = "value" -> "fold"
                  [] stage \in {"fold", "folded"} -> "header"
                  [] stage = "body" ->
                        IF HasNoLength THEN "dropped"
                        ELSE IF etat # "connected" THEN "over"
                        ELSE IF IsSupported THEN "serve" ELSE "refuse"
    /\ cont' = IF stage = "version" THEN "header" ELSE cont
    /\ CASE stage = "header" ->
               req' = [req EXCEPT !.key = <<>>, !.value = <<>>]
         [] stage \in {"fold", "folded"} -> AddAttribute
         [] OTHER -> UNCHANGED req

(* source.reset() when it throws.                                            *)
ReturnedOrThrown ==
    /\ Returned
    /\ IF stage' = "dropped" THEN Reset ELSE UNCHANGED connexion

(* What is left alone while a request is read. A server that ends releases   *)
(* its session.                                                              *)
Aside ==
    /\ sess' = IF stage' \in Ends THEN NoSession ELSE sess
    /\ UNCHANGED <<answered, cancelled, ahead, answers>>

Skip == ReadOne /\ UNCHANGED <<req, stage, cont>>

SkipTo(next) == ReadOne /\ stage' = next /\ UNCHANGED <<req, cont>>

Take(field) ==
    /\ ReadOne
    /\ req' = [req EXCEPT ![field] = Append(@, First)]
    /\ UNCHANGED <<stage, cont>>

(* One more cell of a token or word, after the spaces before it.             *)
Gather(field, isPart) ==
    \/ First = " " /\ req[field] = <<>> /\ Skip
    \/ isPart /\ Take(field)

IsGathered(field, isPart) == ~isPart /\ (First = " " => req[field] # <<>>)

-----------------------------------------------------------------------------
(* request::read, cell by cell.                                              *)
ReadMethod ==
    /\ stage = "method" /\ Enough
    /\ \/ Gather("method", IsToken(First))
       \/ IsGathered("method", IsToken(First)) /\ ReturnedOrThrown
    /\ Aside

ReadUri ==
    /\ stage = "uri" /\ Enough
    /\ \/ Gather("uri", IsWord(First))
       \/ IsGathered("uri", IsWord(First)) /\ ReturnedOrThrown
    /\ Aside

ReadVersion ==
    /\ stage = "version" /\ Enough
    /\ \/ Gather("version", IsWord(First))
       \/ IsGathered("version", IsWord(First)) /\ ReturnedOrThrown
    /\ Aside

SkipLine ==
    /\ stage \in {"line", "line_cr"} /\ Enough
    /\ \/ stage = "line" /\ First # CR /\ Skip
       \/ stage = "line" /\ First = CR /\ SkipTo("line_cr")
       \/ /\ stage = "line_cr"
          /\ IF First = LF THEN SkipTo(cont)
             ELSE stage' = "line" /\ UNCHANGED <<connexion, req, cont>>
    /\ Aside

(* Mutant: the empty line is left where it is.                               *)
IsEmptyLineKept ==
    /\ stage = "header" /\ Enough
    /\ IF First = CR /\ Second = LF
       THEN stage' = "body" /\ UNCHANGED <<connexion, req, cont>>
       ELSE ReturnedOrThrown
    /\ Aside

(* is_empty_line: the end of the headers, or one more.                       *)
IsEmptyLine ==
    /\ stage = "header" /\ Enough
    /\ IF First = CR /\ Second = LF
       THEN stage' = "line" /\ cont' = "body" /\ UNCHANGED <<connexion, req>>
       ELSE ReturnedOrThrown
    /\ Aside

ReadKey ==
    /\ stage = "key" /\ Enough
    /\ \/ Gather("key", IsToken(First))
       \/ IsGathered("key", IsToken(First)) /\ ReturnedOrThrown
    /\ Aside

SkipOver ==
    /\ stage \in {"colon", "space"} /\ Enough
    /\ LET char == IF stage = "colon" THEN ":" ELSE " "
           next == IF stage = "colon" THEN "space" ELSE "value"
       IN IF First = char THEN SkipTo(next) ELSE Skip
    /\ Aside

ReadValue ==
    /\ stage = "value" /\ Enough
    /\ IF First = CR /\ Second = LF
       THEN stage' = "line" /\ cont' = "fold" /\ UNCHANGED <<connexion, req>>
       ELSE Take("value")
    /\ Aside

(* A line that starts with a space goes on with the value, the spaces being  *)
(* one.                                                                      *)
ReadFold ==
    /\ stage \in {"fold", "folded"} /\ Enough
    /\ \/ First = " " /\ SkipTo("folded")
       \/ First # " " /\ stage = "fold" /\ ReturnedOrThrown
       \/ /\ First # " " /\ stage = "folded"
          /\ req' = [req EXCEPT !.value = Append(@, " ")]
          /\ stage' = "value" /\ UNCHANGED <<connexion, cont>>
    /\ Aside

ReadBody ==
    /\ stage = "body"
    /\ IF BodyIsRead THEN ReturnedOrThrown ELSE Enough /\ Take("body")
    /\ Aside

ReadRequest ==
    \/ ReadMethod \/ ReadUri \/ ReadVersion \/ SkipLine \/ IsEmptyLine
    \/ ReadKey \/ SkipOver \/ ReadValue \/ ReadFold \/ ReadBody

-----------------------------------------------------------------------------
(* What the functions do of an exception of the connection: those that       *)
(* return a token or a word throw it when they have nothing to return, and   *)
(* up_to_length always does. The others ignore it, but a signal is not       *)
(* ignored between the lines of a value.                                     *)
Throws(isSignal) ==
    \/ stage \in {"method", "uri", "version", "key"} /\ req[stage] = <<>>
    \/ stage \in {"fold", "folded"} /\ isSignal
    \/ stage = "body"

(* No more data can be read: exception_range and the like.                   *)
EndReached ==
    /\ stage \in Reading /\ NeedsData /\ IsOver
    /\ IF Throws(FALSE)
       THEN stage' = "dropped" /\ UNCHANGED <<cont, req>>
       ELSE Returned
    /\ IF stage' = "dropped" THEN Reset ELSE NoMoreData
    /\ Aside

(* server_pool::cancel_all_servers: the flag that cancellation_checkpoint    *)
(* looks at, and a signal, which has an effect on a thread that waits in     *)
(* recv only: it throws exception_signal. One that is about to call recv     *)
(* waits for ever.                                                           *)
Cancel ==
    /\ ~cancelled /\ stage \notin Ends
    /\ cancelled' = TRUE
    /\ \/ UNCHANGED <<connexion, stage, cont, req>>
       \/ /\ stage \in Reading /\ NeedsData /\ WouldBlock
          /\ IF Throws(TRUE)
             THEN stage' = "loop" /\ UNCHANGED <<cont, req>>
             ELSE Returned
          /\ IF stage' = "dropped" THEN Reset ELSE UNCHANGED connexion
    /\ sess' = IF stage' \in Ends THEN NoSession ELSE sess
    /\ UNCHANGED <<answered, ahead, answers>>

-----------------------------------------------------------------------------
(* The loop of the server thread: while it holds a session it looks for the  *)
(* next request of this session, otherwise it waits for any request.         *)
Loop ==
    /\ stage = "loop"
    /\ stage' = IF etat # "connected" THEN "over"
                ELSE IF sess = NoSession THEN "checkpoint"
                ELSE IF ~answered THEN "bug" ELSE "next_method"
    /\ sess' = IF stage' \in Ends THEN NoSession ELSE sess
    /\ IF stage' = "bug" THEN Reset ELSE UNCHANGED connexion
    /\ UNCHANGED <<cont, req, answered, cancelled, ahead, answers>>

(* get_next_request_uri: what try_reading takes from the connection is in    *)
(* req, and stays there if it is not enough for a URI.                       *)
Poll ==
    /\ stage \in Polling /\ Enough
    /\ \/ stage = "next_method" /\ Gather("method", IsToken(First))
       \/ /\ stage = "next_method" /\ IsGathered("method", IsToken(First))
          /\ stage' = "next_uri" /\ UNCHANGED <<connexion, req, cont>>
       \/ stage = "next_uri" /\ Gather("uri", IsWord(First))
       \/ /\ stage = "next_uri" /\ IsGathered("uri", IsWord(First))
          /\ stage' = IF SessionOf(req.uri) = sess THEN "checkpoint" ELSE "loop"
          /\ UNCHANGED <<connexion, req, cont>>
    /\ sess' = IF stage' = "loop" THEN NoSession ELSE sess
    /\ ahead' = (ahead \/ consumed' # consumed)
    /\ UNCHANGED <<answered, cancelled, answers>>

PollFails ==
    /\ stage \in Polling /\ NeedsData
    /\ \/ WouldBlock /\ UNCHANGED connexion
       \/ NoMoreData
    /\ stage' = "loop"
    /\ sess' = NoSession
    /\ UNCHANGED <<cont, req, answered, cancelled, ahead, answers>>

(* get_request, which first clears req.                                      *)
GetRequest ==
    /\ stage = "checkpoint"
    /\ IF cancelled
       THEN stage' = "over" /\ Reset /\ UNCHANGED <<req, answered>>
       ELSE /\ stage' = IF answered THEN "method" ELSE "bug"
            /\ req' = Empty
            /\ answered' = FALSE
            /\ IF answered THEN UNCHANGED connexion ELSE Reset
    /\ sess' = IF stage' \in Ends THEN NoSession ELSE sess
    /\ UNCHANGED <<cont, cancelled, ahead, answers>>

(* send_answer. The client may have closed the connection.                   *)
SendAnswer(ans) ==
    /\ \/ /\ answers' = Append(answers, ans)
          /\ req' = Empty /\ ahead' = FALSE
          /\ UNCHANGED connexion
       \/ peer = "closed" /\ Reset /\ UNCHANGED <<req, ahead, answers>>
    /\ stage' = "loop" /\ answered' = TRUE
    /\ UNCHANGED <<cont, cancelled>>

(* The answer to a request, through a session or not. A session may fail.    *)
Serve ==
    /\ stage = "serve"
    /\ \/ SendAnswer(req.uri) /\ UNCHANGED sess
       \/ /\ SessionOf(req.uri) # NoSession
          /\ sess \in {NoSession, SessionOf(req.uri)}
          /\ SendAnswer(req.uri)
          /\ sess' = SessionOf(req.uri)
       \/ /\ stage' = IF sess \in {NoSession, SessionOf(req.uri)}
                      THEN "failed" ELSE "bug"
          /\ sess' = NoSession
          /\ Reset
          /\ UNCHANGED <<cont, req, answered, cancelled, ahead, answers>>

(* get_request answers by itself a request it refuses, with the version of   *)
(* the request: when it is not supported the answer is not sent.             *)
Refuse ==
    /\ stage = "refuse"
    /\ IF req.version = Version THEN SendAnswer(<<>>)
       ELSE /\ Reset
            /\ stage' = "loop" /\ answered' = TRUE
            /\ UNCHANGED <<cont, req, cancelled, ahead, answers>>
    /\ UNCHANGED sess

(* A client that does not pipeline waits for the answer of a request before  *)
(* it sends the next one.                                                    *)
Send ==
    /\ Pipelining \/ \A i \in DOMAIN Requests :
                        sent = Requests[i].last => Len(answers) >= i
    /\ SendOne
    /\ UNCHANGED <<stage, parser>>

HangUp == ClientCloses /\ UNCHANGED <<stage, parser>>

FillBuffer == NeedsData /\ Receive /\ UNCHANGED <<stage, parser>>

Server ==
    \/ ReadRequest \/ EndReached \/ Loop \/ Poll \/ PollFails \/ GetRequest
    \/ Serve \/ Refuse \/ FillBuffer

(* The thread ended, or waits for a client that has nothing more to say.     *)
Over ==
    /\ \/ stage \in Ends
       \/ sent = Len(Stream) /\ stage \in Reading /\ NeedsData /\ WouldBlock
    /\ UNCHANGED vars

Next == Server \/ Send \/ HangUp \/ Cancel \/ Over

Spec == Init /\ [][Next]_vars

Fairness == WF_vars(Server)

FairSpec == Spec /\ Fairness

-----------------------------------------------------------------------------
(* Every variable has its type.                                              *)
TypeOK ==
    /\ sent \in 0..Len(Stream) /\ received \in 0..sent
    /\ consumed \in 0..received
    /\ peer \in {"open", "closed"} /\ etat \in {"connected", "not_connected"}
    /\ Len(buffer) <= BufferSize /\ already_read \in 0..Len(buffer)
    /\ stage \in Stages /\ cont \in {"header", "fold", "body"}
    /\ DOMAIN req = DOMAIN Empty
    /\ answered \in BOOLEAN /\ cancelled \in BOOLEAN /\ ahead \in BOOLEAN
    /\ Len(answers) <= Len(Requests)

EndOf(i) == IF i = 0 THEN 0 ELSE Requests[i].last

(* A request that is served is the next one the client sent, whole, however  *)
(* it was cut (request.hpp, "The request could be read entirely").           *)
ServedIsSent ==
    stage = "serve" /\ ~cancelled =>
        LET r == Requests[Len(answers) + 1]
        IN /\ req.method = r.method /\ req.uri = r.uri
           /\ req.attributes = r.attributes /\ req.body = r.body

(* Answers come in the order of the requests, one for each, and the server   *)
(* then stands at the first cell of the next request.                        *)
AnswersInStep ==
    ~cancelled =>
        /\ \A i \in DOMAIN answers : answers[i] \in {<<>>, Requests[i].uri}
        /\ stage = "loop" /\ etat = "connected" /\ ~ahead =>
              consumed = EndOf(Len(answers))

(* The buffer is full and ends with the first of the two cells that          *)
(* read_test_second wants.                                                   *)
IsSplit == Len(buffer) = BufferSize /\ Unread = 1 /\ First = CR

(* A well formed request is turned down only if its beginning was read ahead *)
(* and lost (parser::get_request), or if the thread is cancelled, the client *)
(* leaves or a line ends with the buffer (proto_connexion::read_test_second).*)
(* A bug exception needs both a cancellation and a request read ahead.       *)
RefusedForAReason ==
    /\ stage = "refuse" => ahead
    /\ stage = "dropped" => cancelled \/ peer = "closed" \/ IsSplit
    /\ stage = "bug" => cancelled /\ ahead

(* A request that was sent gets an answer, unless the connection ends.       *)
RequestIsAnswered ==
    \A i \in DOMAIN Requests :
        sent >= Requests[i].last ~>
            Len(answers) >= i \/ stage \in Ends \/ cancelled

(* What the server makes of a stream, in one statement: each request served  *)
(* as it was sent, answered in its turn, refused only for the reasons above. *)
AnsweredAsSent == ServedIsSent /\ AnswersInStep /\ RefusedForAReason

=============================================================================
