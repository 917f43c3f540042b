---------------------------- MODULE ParserProofs ----------------------------
(* Proofs about Connexion and Parser: whatever the requests, however the     *)
(* stream is cut, and for any size of the buffer, the parser reads the       *)
(* stream itself, and the server answers each request as it was sent.        *)
EXTENDS Parser, SequenceTheorems, TLAPS

(* What a step of the program does to its connection.                        *)
Moves ==
    \/ Receive
    \/ NoMoreData
    \/ ReadOne /\ Unread > 0
    \/ Reset
    \/ SendOne
    \/ ClientCloses
    \/ UNCHANGED connexion

ConnexionType ==
    /\ sent \in Nat /\ sent <= Len(Stream)
    /\ received \in Nat /\ received <= sent
    /\ consumed \in Nat
    /\ buffer \in Seq(Cells) /\ Len(buffer) <= BufferSize
    /\ already_read \in Nat /\ already_read <= Len(buffer)

IInv == ConnexionType /\ BufferIsStream

-----------------------------------------------------------------------------
(* The parser takes a cell from the buffer only when there is one, and does  *)
(* nothing else to its connection than reading it or dropping it.            *)
LEMMA OnlyMoves == Next => Moves
<1> SUFFICES ASSUME Next PROVE Moves
    OBVIOUS
<1> USE DEF Moves, Enough, Aside, Gather, Skip, SkipTo, Take, ReturnedOrThrown
<1>1. CASE ReadMethod
      BY <1>1 DEF ReadMethod
<1>2. CASE ReadUri
      BY <1>2 DEF ReadUri
<1>3. CASE ReadVersion
      BY <1>3 DEF ReadVersion
<1>4. CASE SkipLine
      BY <1>4 DEF SkipLine
<1>5. CASE IsEmptyLine
      BY <1>5 DEF IsEmptyLine
<1>6. CASE ReadKey
      BY <1>6 DEF ReadKey
<1>7. CASE SkipOver
      BY <1>7 DEF SkipOver
<1>8. CASE ReadValue
      BY <1>8 DEF ReadValue
<1>9. CASE ReadFold
      BY <1>9 DEF ReadFold
<1>10. CASE ReadBody
      BY <1>10 DEF ReadBody
<1>11. CASE EndReached
      BY <1>11 DEF EndReached
<1>12. CASE Loop
      BY <1>12 DEF Loop
<1>13. CASE Poll
      BY <1>13 DEF Poll
<1>14. CASE PollFails
      BY <1>14 DEF PollFails
<1>15. CASE GetRequest
      BY <1>15 DEF GetRequest
<1>16. CASE Serve
      BY <1>16 DEF Serve, SendAnswer
<1>17. CASE Refuse
      BY <1>17 DEF Refuse, SendAnswer
<1>18. CASE FillBuffer
      BY <1>18 DEF FillBuffer
<1>19. CASE Send \/ HangUp
      BY <1>19 DEF Send, HangUp
<1>20. CASE Cancel
      BY <1>20 DEF Cancel
<1>21. CASE Over
      BY <1>21 DEF Over, vars
<1> QED
    BY <1>1, <1>2, <1>3, <1>4, <1>5, <1>6, <1>7, <1>8, <1>9, <1>10, <1>11,
       <1>12, <1>13, <1>14, <1>15, <1>16, <1>17, <1>18, <1>19, <1>20, <1>21
       DEF Next, Server, ReadRequest

-----------------------------------------------------------------------------
LEMMA InitIInv == Init => IInv
BY StreamAssumption, BufferAssumption
   DEF Init, InitConnexion, IInv, ConnexionType, BufferIsStream, Unread

(* fill_buffer keeps what is unread and appends what follows it.             *)
LEMMA ReceiveKeeps == ASSUME IInv, Receive PROVE IInv'
<1> DEFINE kept == SubSeq(buffer, already_read + 1, Len(buffer))
           size == IF sent - received < Room THEN sent - received ELSE Room
           new  == SubSeq(Stream, received + 1, received + size)
<1> USE DEF IInv, ConnexionType, BufferIsStream, Unread
<1>1. /\ kept \in Seq(Cells)
      /\ Len(kept) = Unread
      /\ \A k \in 1..Unread : kept[k] = buffer[already_read + k]
      <2>1. \A i \in (already_read + 1)..Len(buffer) : buffer[i] \in Cells
            BY ElementOfSeq
      <2> QED
          BY <2>1, SubSeqProperties
<1>2. Room = BufferSize - Unread
      BY <1>1 DEF Room, Kept
<1>3. /\ size \in Nat /\ received + size <= sent
      /\ Unread + size <= BufferSize
      <2>1. /\ sent \in Nat /\ received \in Nat /\ received < sent
            /\ Unread \in Nat /\ Unread <= BufferSize
            BY BufferAssumption DEF Receive
      <2> HIDE DEF IInv, ConnexionType, BufferIsStream, Unread, kept
      <2> QED
          BY <1>2, <2>1, BufferAssumption
<1>4. /\ new \in Seq(Cells)
      /\ Len(new) = size
      /\ \A k \in 1..size : new[k] = Stream[received + k]
      <2> HIDE DEF size
      <2>1. \A i \in (received + 1)..(received + size) : Stream[i] \in Cells
            BY <1>3, StreamAssumption, ElementOfSeq
      <2> QED
          BY <1>3, <2>1, SubSeqProperties
<1>5. /\ buffer' = kept \o new
      /\ received' = received + size
      /\ already_read' = 0
      /\ UNCHANGED <<sent, peer, etat, consumed>>
      BY DEF Receive, Kept
<1> HIDE DEF kept, size, new
<1>6. /\ buffer' \in Seq(Cells)
      /\ Len(buffer') = Unread + size
      /\ \A k \in 1..(Unread + size) :
            buffer'[k] = IF k <= Unread THEN kept[k] ELSE new[k - Unread]
      <2> HIDE DEF IInv, ConnexionType, BufferIsStream, Unread
      <2>1. /\ kept \o new \in Seq(Cells)
            /\ Len(kept \o new) = Len(kept) + Len(new)
            /\ \A k \in 1..(Len(kept) + Len(new)) :
                  (kept \o new)[k] = IF k <= Len(kept) THEN kept[k]
                                     ELSE new[k - Len(kept)]
            BY <1>1, <1>4, ConcatProperties
      <2> QED
          BY <1>1, <1>4, <1>5, <2>1
<1>7. /\ ConnexionType'
      /\ Unread' = Unread + size
      /\ received' = consumed' + Unread'
      BY <1>3, <1>5, <1>6
<1>8. ASSUME NEW k \in 1..(Unread + size)
      PROVE  buffer'[k] = Stream[consumed + k]
      <2>1. CASE k <= Unread
            BY <1>1, <1>3, <1>6, <2>1
      <2>2. CASE k > Unread
            <3>1. k - Unread \in 1..size
                  BY <2>2, <1>3
            <3>2. new[k - Unread] = Stream[received + (k - Unread)]
                  BY <3>1, <1>4
            <3>3. received + (k - Unread) = consumed + k
                  OBVIOUS
            <3>4. buffer'[k] = new[k - Unread]
                  BY <1>3, <1>6, <2>2
            <3> QED
                BY <3>2, <3>3, <3>4
      <2> QED
          BY <1>3, <2>1, <2>2
<1>9. \A k \in 1..Unread' : buffer'[already_read' + k] = Stream[consumed' + k]
      <2> HIDE DEF IInv, ConnexionType, BufferIsStream, Unread
      <2>1. SUFFICES ASSUME NEW k \in 1..Unread'
                     PROVE  buffer'[already_read' + k] = Stream[consumed' + k]
            OBVIOUS
      <2>2. /\ already_read' + k = k /\ consumed' = consumed
            /\ k \in 1..(Unread + size)
            BY <1>5, <1>7
      <2> QED
          BY <1>8, <2>2
<1> QED
    BY <1>7, <1>9

(* The other moves leave the cells of the buffer where they are.             *)
LEMMA MovesKeep == ASSUME IInv, Moves PROVE IInv'
<1> USE DEF IInv, ConnexionType, BufferIsStream, Unread
<1>1. CASE Receive
      BY <1>1, ReceiveKeeps
<1>2. CASE ReadOne /\ Unread > 0
      <2>1. ConnexionType' /\ received' = consumed' + Unread'
            BY <1>2 DEF ReadOne
      <2>2. ASSUME NEW k \in 1..Unread'
            PROVE  buffer'[already_read' + k] = Stream[consumed' + k]
            <3>1. k + 1 \in 1..Unread
                  BY <1>2 DEF ReadOne
            <3>2. buffer[already_read + (k + 1)] = Stream[consumed + (k + 1)]
                  BY <3>1
            <3> QED
                BY <1>2, <3>2 DEF ReadOne
      <2> QED
          BY <2>1, <2>2
<1>3. CASE SendOne
      BY <1>3, StreamAssumption DEF SendOne, read
<1>4. CASE NoMoreData \/ Reset \/ ClientCloses
      BY <1>4 DEF NoMoreData, Reset, ClientCloses, read
<1>5. CASE UNCHANGED connexion
      BY <1>5 DEF connexion
<1> QED
    BY <1>1, <1>2, <1>3, <1>4, <1>5 DEF Moves

(* Nothing the client sends is lost, read twice or out of order in the       *)
(* buffer of its connection, however the network cuts it and whatever the    *)
(* parser does of it (proto_connexion::fill_buffer).                         *)
THEOREM BufferFollowsStream == Spec => []BufferIsStream
<1>1. Init => IInv
      BY InitIInv
<1>2. IInv /\ [Next]_vars => IInv'
      <2>1. CASE Next
            BY <2>1, OnlyMoves, MovesKeep
      <2>2. CASE UNCHANGED vars
            BY <2>2, MovesKeep DEF vars, Moves
      <2> QED
          BY <2>1, <2>2
<1>3. IInv => BufferIsStream
      BY DEF IInv
<1> QED
    BY <1>1, <1>2, <1>3, PTL DEF Spec

-----------------------------------------------------------------------------
(* What the client is saying where the parser is, and what it says next.     *)
Here == Said[consumed]

Now == Coming(Here)

Then == Said[consumed + 1]

Turn == Len(answers) + 1

InFirstLine == {"method", "method_end", "uri", "uri_end"}

IsBlank(q) == q.key = <<>> /\ q.value = <<>> /\ q.attributes = <<>> /\ q.body = <<>>

Agrees(q, s) == q.method = s.method /\ q.uri = s.uri /\ q.version = s.version

IsDoomed(q) == q.method \notin Methods \/ q.version # Version

IsGood(q) == q.method \in Methods /\ q.version = Version

IsSame(q, s) ==
    q.key = s.key /\ q.value = s.value /\ q.attributes = s.attributes /\ q.body = s.body

(* Before the headers.                                                       *)
IsAsked(s) ==
    /\ IsBlank(s.req)
    /\ s.part \in InFirstLine => s.req.version = <<>>
    /\ s.part \in {"method", "method_end"} => s.req.uri = <<>>

(* Between two requests, of which the second may have been begun.            *)
BetweenAt(h, s, ah) ==
    /\ IsAsked(s)
    /\ ~ah => h.part = "nothing"
    /\ ah => h.part # "nothing" /\ s.part \in InFirstLine

NextMethodAt(q, h, s, ah) ==
    /\ IsAsked(s) /\ s.part \in {"method", "method_end"}
    /\ ah <=> h.part # "nothing"
    /\ ~ah => q = Empty
    /\ q.method = s.req.method /\ q.uri = <<>>

NextUriAt(q, s) ==
    /\ IsAsked(s) /\ s.part \in {"method_end", "uri", "uri_end"}
    /\ s.part = "uri_end" => q.uri # <<>>
    /\ s.part = "method_end" => q.uri = <<>>

(* The stages of request::read, when nothing was read before.                *)
MethodAt(q, s) ==
    /\ IsAsked(s) /\ IsBlank(q) /\ Agrees(q, s.req)
    /\ s.part \in {"method", "method_end"}

UriAt(q, s) ==
    /\ IsAsked(s) /\ IsBlank(q) /\ Agrees(q, s.req)
    /\ s.part \in {"method_end", "uri", "uri_end"}

VersionAt(q, s) ==
    /\ IsAsked(s) /\ IsBlank(q) /\ Agrees(q, s.req)
    /\ s.part \in {"uri_end", "version", "line_cr"}

(* What is left of a method or URI.                                          *)
IsLeft(m, k) ==
    m = <<>> \/ \E p \in 1..k : /\ Said[p].part \in {"method", "uri"}
                                /\ m = SubSeq(Stream, p + 1, k)

(* The same stages when the beginning of the request is lost.                *)
MethodLate(q, s, k) ==
    /\ IsAsked(s) /\ IsBlank(q) /\ q.uri = <<>> /\ q.version = <<>>
    /\ s.part \in InFirstLine \cup {"version", "line_cr"}
    /\ s.part \in InFirstLine => IsLeft(q.method, k)

UriLate(q, s) ==
    /\ IsAsked(s) /\ IsBlank(q) /\ q.version = <<>>
    /\ \/ /\ q.method \notin Methods
          /\ s.part \in {"method_end", "uri", "uri_end"}
          /\ s.part = "uri_end" => q.uri # <<>>
          /\ s.part = "method_end" => q.uri = <<>>
       \/ s.part = "uri_end" /\ q.uri = <<>>
       \/ s.part \in {"version", "line_cr"}

VersionLate(q, s) ==
    /\ IsAsked(s) /\ IsBlank(q)
    /\ \/ /\ q.method \notin Methods
          /\ s.part \in {"uri_end", "version", "line_cr"}
          /\ q.version = s.req.version
       \/ s.part = "line_cr" /\ q.version = <<>>

(* After the first line, what the headers say so far.                        *)
LineAt(co, q, s) ==
    \/ co = "header" /\ s.part = "line_cr" /\ IsSame(q, s.req) /\ IsBlank(q)
    \/ co = "fold" /\ s.part = "value_cr" /\ IsSame(q, s.req) /\ q.key # <<>>
    \/ /\ co = "body" /\ s.part = "empty_cr"
       /\ q.attributes = Gathered(s.req) /\ q.body = s.req.body

LineCrAt(co, q, s) ==
    \/ co = "header" /\ s.part = "line_lf" /\ IsSame(q, s.req) /\ IsBlank(q)
    \/ co = "fold" /\ s.part = "value_lf" /\ IsSame(q, s.req) /\ q.key # <<>>
    \/ /\ co = "body" /\ s.part = "empty_lf"
       /\ q.attributes = s.req.attributes /\ q.body = s.req.body

HeaderAt(q, s) ==
    /\ s.part \in {"key_first", "empty_cr"}
    /\ q.attributes = Gathered(s.req) /\ q.body = s.req.body

KeyAt(q, s) ==
    /\ q.value = <<>>
    /\ \/ s.part \in {"key", "colon"} /\ IsSame(q, s.req)
       \/ /\ s.part = "key_first" /\ q.key = <<>>
          /\ q.attributes = Gathered(s.req) /\ q.body = s.req.body

PastKeyAt(st, q, s) == st = s.part /\ IsSame(q, s.req) /\ q.key # <<>>

ValueAt(q, s) ==
    /\ s.part \in {"value", "value_first", "value_cr"}
    /\ IsSame(q, s.req) /\ q.key # <<>>

FoldAt(q, s) ==
    /\ s.part \in {"fold", "key_first", "empty_cr"}
    /\ IsSame(q, s.req) /\ q.key # <<>>

FoldedAt(q, s) ==
    /\ q.key # <<>> /\ q.key = s.req.key
    /\ q.attributes = s.req.attributes /\ q.body = s.req.body
    /\ \/ s.part = "fold" /\ q.value = s.req.value
       \/ /\ s.part \in {"value_first", "value_cr"}
          /\ Append(q.value, " ") = s.req.value

BodyAt(q, h) == q.attributes = h.req.attributes /\ q.body = h.req.body

ReadsAt(st, co, q, s) ==
    \/ st = "line" /\ LineAt(co, q, s)
    \/ st = "line_cr" /\ LineCrAt(co, q, s)
    \/ st = "header" /\ HeaderAt(q, s)
    \/ st = "key" /\ KeyAt(q, s)
    \/ st \in {"colon", "space"} /\ PastKeyAt(st, q, s)
    \/ st = "value" /\ ValueAt(q, s)
    \/ st = "fold" /\ FoldAt(q, s)
    \/ st = "folded" /\ FoldedAt(q, s)

(* What was read is what was said, or will be refused.                       *)
IsJudged(q, s, ah) == /\ ~ah => Agrees(q, s.req)
                      /\ ah => IsDoomed(q)

(* A line was cut at the end of the buffer.                                  *)
SplitAt(st, q, ah) ==
    /\ st \in {"fold", "header", "key"}
    /\ st = "key" => q.key = <<>>
    /\ ~ah => IsGood(q)

StartsAt(st, q, h, s, ah, k) ==
    /\ ah => h.part # "nothing"
    /\ \/ st = "method" /\ (~ah => MethodAt(q, s)) /\ (ah => MethodLate(q, s, k))
       \/ st = "uri" /\ (~ah => UriAt(q, s)) /\ (ah => UriLate(q, s))
       \/ st = "version" /\ (~ah => VersionAt(q, s)) /\ (ah => VersionLate(q, s))

RestsAt(st, q, h, s, ah, se) ==
    \/ st = "loop" /\ BetweenAt(h, s, ah) /\ (~ah => q = Empty) /\ (ah => se = NoSession)
    \/ st = "checkpoint" /\ BetweenAt(h, s, ah)
    \/ st = "next_method" /\ NextMethodAt(q, h, s, ah)
    \/ st = "next_uri" /\ NextUriAt(q, s) /\ ah /\ h.part # "nothing"

FinishesAt(st, q, h, ah) ==
    \/ /\ st = "body" /\ h.part \in {"body", "nothing"}
       /\ BodyAt(q, h) /\ IsJudged(q, h, ah)
    \/ /\ st = "serve" /\ h.part = "nothing"
       /\ BodyAt(q, h) /\ Agrees(q, h.req) /\ ~ah
    \/ st = "refuse" /\ h.part = "nothing"

NormalAt ==
    \/ Now.turn = Turn /\ RestsAt(stage, req, Here, Now, ahead, sess)
    \/ Now.turn = Turn /\ StartsAt(stage, req, Here, Now, ahead, consumed)
    \/ /\ Now.turn = Turn /\ Here.part # "nothing"
       /\ IsJudged(req, Now, ahead) /\ ReadsAt(stage, cont, req, Now)
    \/ Here.turn = Turn /\ FinishesAt(stage, req, Here, ahead)
    \/ IsSplit /\ SplitAt(stage, req, ahead)
    \/ stage \in Ends

(* As long as the thread is not cancelled nor its client gone.               *)
Normal == ~cancelled /\ etat = "connected" => NormalAt

(* What was cut short when the thread was asked to end is not refused.       *)
MethodCut(q, s) ==
    /\ q.method = s.req.method /\ q.uri = <<>> /\ q.version = <<>>
    /\ s.req.uri = <<>> /\ s.part \in {"method", "method_end"}

UriCut(q, s) ==
    /\ q.version = <<>>
    /\ \/ /\ q.method \in Methods /\ s.part \in {"method_end", "uri", "uri_end"}
          /\ s.part = "method_end" => q.uri = <<>>
          /\ s.part = "uri_end" => q.uri # <<>>
       \/ s.part = "method" /\ s.req.uri = <<>>
       \/ s.part = "method_end" /\ s.req.uri = <<>> /\ q.uri # <<>>

VersionCut(q, s) ==
    \/ /\ q.method \in Methods
       /\ s.part \in {"uri", "uri_end", "version", "line_cr"}
       /\ s.part = "line_cr" => q.version # <<>>
    \/ /\ s.part \in {"method_end", "uri", "uri_end"} /\ q.version = s.req.uri
       /\ s.part = "method_end" => q.version = <<>>

CutAt(st, q, s) ==
    \/ st = "method" /\ MethodCut(q, s)
    \/ st = "uri" /\ UriCut(q, s)
    \/ st = "version" /\ VersionCut(q, s)
    \/ st \notin {"method", "uri", "version"} /\ IsGood(q)

Cut == cancelled /\ ~ahead /\ etat = "connected" /\ stage \in Reading
          => CutAt(stage, req, Now)

ReqType ==
    /\ DOMAIN req = DOMAIN Empty
    /\ req.method \in Seq(Cells) /\ req.uri \in Seq(Cells)
    /\ req.version \in Seq(Cells) /\ req.key \in Seq(Cells)

ParserType ==
    /\ stage \in Stages /\ cont \in {"header", "fold", "body"} /\ ReqType
    /\ answers \in Seq(Seq(Cells))

Reasons ==
    /\ stage \in {"checkpoint", "serve", "refuse"} \cup Polling => etat = "connected"
    /\ stage \in {"loop", "checkpoint"} \cup Polling /\ ~answered => cancelled
    /\ stage \in Polling => answered /\ sess # NoSession
    /\ stage \in {"loop"} \cup Polling /\ sess # NoSession /\ ~ahead /\ etat = "connected" =>
          answered /\ req.uri = <<>>
    /\ stage \in {"loop"} /\ ~answered /\ sess # NoSession => ahead
    /\ stage \in Reading \cup {"checkpoint", "serve", "refuse"} /\ sess # NoSession => ahead
    /\ stage \in Reading /\ etat # "connected" => peer = "closed"
    /\ RefusedForAReason

Answers == ~cancelled => \A i \in DOMAIN answers : answers[i] \in {<<>>, Requests[i].uri}

PInv == ParserType /\ Normal /\ Cut /\ Reasons /\ Answers

-----------------------------------------------------------------------------
(* Grown, one field at a time.                                               *)
Grew(g, q, part, c, next) ==
    /\ g.method = IF part = "method" THEN Append(q.method, c) ELSE q.method
    /\ g.uri = IF part = "uri" THEN Append(q.uri, c) ELSE q.uri
    /\ g.version = IF part = "version" THEN Append(q.version, c) ELSE q.version
    /\ g.key = IF part = "key_first" THEN <<c>>
               ELSE IF part = "key" THEN Append(q.key, c) ELSE q.key
    /\ g.value = IF part = "key_first" THEN <<>>
                 ELSE IF part \in {"value", "value_first"} THEN Append(q.value, c)
                 ELSE IF part = "fold" /\ next # "fold" THEN Append(q.value, " ")
                 ELSE q.value
    /\ g.attributes = IF part \in {"key_first", "empty_cr"} THEN Gathered(q)
                      ELSE q.attributes
    /\ g.body = IF part = "body" THEN Append(q.body, c) ELSE q.body

LEMMA GrownIs ==
    ASSUME NEW q, DOMAIN q = DOMAIN Empty, NEW part, NEW c, NEW next
    PROVE  Grew(Grown(q, part, c, next), q, part, c, next)
<1>1. DOMAIN q = {"method", "uri", "version", "key", "value", "attributes", "body"}
  BY DEF Empty
<1>2. PICK a : a = Gathered(q)
  OBVIOUS
<1>3. CASE part = "method"
  BY <1>1, <1>3 DEF Grown, Grew
<1>4. CASE part = "uri"
  BY <1>1, <1>4 DEF Grown, Grew
<1>5. CASE part = "version"
  BY <1>1, <1>5 DEF Grown, Grew
<1>6. CASE part = "key_first"
  BY <1>1, <1>2, <1>6 DEF Grown, Grew
<1>7. CASE part = "key"
  BY <1>1, <1>7 DEF Grown, Grew
<1>8. CASE part \in {"value", "value_first"}
  BY <1>1, <1>8 DEF Grown, Grew
<1>9. CASE part = "fold" /\ next # "fold"
  BY <1>1, <1>9 DEF Grown, Grew
<1>10. CASE part = "empty_cr"
  BY <1>1, <1>2, <1>10 DEF Grown, Grew
<1>11. CASE part = "body"
  BY <1>1, <1>11 DEF Grown, Grew
<1>12. CASE /\ part \notin {"method", "uri", "version", "key_first", "key", "value",
                            "value_first", "empty_cr", "body"}
            /\ ~(part = "fold" /\ next # "fold")
  BY <1>12 DEF Grown, Grew
<1> QED
  BY <1>3, <1>4, <1>5, <1>6, <1>7, <1>8, <1>9, <1>10, <1>11, <1>12

(* What s says with the next cell, c, is what t says.                        *)
Grows(s, c, t) ==
    /\ IsPart(s.part, c) /\ Follows(s.part, t.part) /\ t.turn = s.turn
    /\ Grew(t.req, s.req, s.part, c, t.part) /\ IsRight(t)
    /\ s.part # "method" => IsRight(s)

(* Where the parser is between two cells.                                    *)
IsPlace(h, s, p) ==
    /\ p \in 0..Len(Stream) /\ h = Said[p] /\ s = Coming(h)
    /\ s.part \in Parts \ {"nothing"} /\ h.part \in Parts
    /\ h.part # "nothing" => p \in 1..Len(Stream) /\ IsRight(h) /\ s = h
    /\ h.part = "nothing" => s = Beginning(h.turn + 1)
    /\ h.turn \in 0..Len(Requests)
    /\ h.turn # 0 => IsRight(h)
    /\ h.part = "nothing" => p = IF h.turn = 0 THEN 0 ELSE Requests[h.turn].last
    /\ h.req.body \in Seq(Cells) /\ LengthOf(h.req.attributes) \in Nat

LEMMA PlaceIs ==
    ASSUME IInv
    PROVE  IsPlace(Here, Now, consumed)
<1>1. consumed \in 0..Len(Stream)
  BY StreamAssumption DEF IInv, ConnexionType, BufferIsStream, Unread
<1>2. PICK p \in 0..Len(Stream) : p = consumed
  BY <1>1
<1>3. PICK h : h = Said[p]
  OBVIOUS
<1>4. /\ h.turn \in 0..Len(Requests) /\ h.part \in Parts
      /\ h.part = "nothing" => p = IF h.turn = 0 THEN 0 ELSE Requests[h.turn].last
      /\ h.req.body \in Seq(Cells) /\ LengthOf(h.req.attributes) \in Nat
      /\ p > 0 => IsRight(h)
  BY <1>3, RequestsAssumption
<1>5. p = 0 => h.turn = 0 /\ h.part = "nothing"
  BY <1>3, RequestsAssumption
<1>6. Len(Stream) \in Nat
  BY StreamAssumption
<1>7. p # 0 => p > 0 /\ p \in 1..Len(Stream)
  BY <1>6
<1>8. PICK s : s = Coming(h)
  OBVIOUS
<1>9. h.part # "nothing" => s = h
  BY <1>8 DEF Coming
<1>10. h.part = "nothing" => s = Beginning(h.turn + 1)
  BY <1>8 DEF Coming
<1>11. s.part \in Parts \ {"nothing"}
  BY <1>4, <1>9, <1>10 DEF Beginning, Parts
<1>12. IsPlace(h, s, p)
  BY <1>3, <1>4, <1>5, <1>7, <1>8, <1>9, <1>10, <1>11 DEF IsPlace
<1> QED
  BY <1>2, <1>3, <1>8, <1>12 DEF Here, Now

LEMMA CellIs ==
    ASSUME IInv, Unread > 0
    PROVE  /\ First = Stream[consumed + 1] /\ First \in Cells
           /\ consumed \in 0..(Len(Stream) - 1)
           /\ Unread > 1 => Second = Stream[consumed + 2] /\ consumed + 2 \in 1..Len(Stream)
<1> USE DEF IInv, ConnexionType, BufferIsStream, Unread
<1>1. Len(Stream) \in Nat /\ consumed + Unread <= Len(Stream)
  BY StreamAssumption
<1>2. 1 \in 1..Unread /\ consumed \in 0..(Len(Stream) - 1) /\ consumed + 1 \in 1..Len(Stream)
  BY <1>1
<1>3. First = Stream[consumed + 1]
  BY <1>2 DEF First
<1>4. First \in Cells
  BY <1>2, <1>3, StreamAssumption, ElementOfSeq
<1>5. ASSUME Unread > 1 PROVE Second = Stream[consumed + 2] /\ consumed + 2 \in 1..Len(Stream)
  <2>1. 2 \in 1..Unread /\ consumed + 2 \in 1..Len(Stream)
    BY <1>1, <1>5
  <2> QED
    BY <2>1 DEF Second
<1> QED
  BY <1>2, <1>3, <1>4, <1>5

LEMMA SaidGrows ==
    ASSUME NEW p \in 1..Len(Stream), NEW s, s = Coming(Said[p - 1])
    PROVE  Grows(s, Stream[p], Said[p])
<1>1. PICK t : t = Said[p]
  OBVIOUS
<1>2. PICK h : h = Said[p - 1]
  OBVIOUS
<1>3. p - 1 \in 0..Len(Stream) /\ p \in 0..Len(Stream) /\ p > 0
  BY StreamAssumption
<1>4. /\ IsPart(s.part, Stream[p]) /\ Follows(s.part, t.part) /\ t.turn = s.turn
      /\ t.req = Grown(s.req, s.part, Stream[p], t.part)
  BY <1>1, RequestsAssumption
<1>5. IsRight(t)
  BY <1>1, <1>3, RequestsAssumption
<1>6. DOMAIN s.req = DOMAIN Empty
  BY <1>2, <1>3, RequestsAssumption DEF Coming, Beginning
<1>7. s.part # "method" => IsRight(s)
  <2>1. CASE h.part = "nothing"
    BY <1>2, <2>1 DEF Coming, Beginning
  <2>2. CASE h.part # "nothing"
    <3>1. p - 1 # 0
      BY <1>2, <2>2, RequestsAssumption
    <3>2. p - 1 > 0
      BY <3>1
    <3>3. IsRight(h)
      BY <1>2, <1>3, <3>2, RequestsAssumption
    <3> QED
      BY <1>2, <2>2, <3>3 DEF Coming
  <2> QED
    BY <2>1, <2>2
<1> QED
  BY <1>1, <1>4, <1>5, <1>6, <1>7, GrownIs DEF Grows

LEMMA NowGrows ==
    ASSUME IInv, Unread > 0
    PROVE  Grows(Now, First, Then)
<1>1. PICK p : p = consumed + 1
  OBVIOUS
<1>2. p \in 1..Len(Stream) /\ p - 1 = consumed /\ First = Stream[p]
  BY <1>1, CellIs, StreamAssumption
<1> QED
  BY <1>1, <1>2, SaidGrows DEF Now, Here, Then

LEMMA ThenGrows ==
    ASSUME IInv, Unread > 1, Then.part # "nothing"
    PROVE  Grows(Then, Second, Said[consumed + 2])
<1>0. Unread > 0
  BY DEF IInv, ConnexionType, BufferIsStream, Unread
<1>1. PICK p : p = consumed + 2
  OBVIOUS
<1>2. p \in 1..Len(Stream) /\ p - 1 = consumed + 1 /\ Second = Stream[p]
  BY <1>0, <1>1, CellIs, StreamAssumption
<1>3. Then = Coming(Said[p - 1])
  BY <1>2 DEF Then, Coming
<1> QED
  BY <1>1, <1>2, <1>3, SaidGrows

(* One more cell was read.                                                   *)
LEMMA ReadMoves ==
    ASSUME IInv, Unread > 0, ReadOne
    PROVE  Here' = Then /\ Now' = Coming(Then)
BY DEF ReadOne, Here, Now, Then

LEMMA Stays ==
    ASSUME UNCHANGED consumed
    PROVE  Here' = Here /\ Now' = Now
BY DEF Here, Now

LEMMA GoesOn ==
    ASSUME NEW s, NEW c, NEW t, Grows(s, c, t), s.part \notin {"empty_lf", "body"}
    PROVE  t.part # "nothing" /\ Coming(t) = t
<1>1. Follows(s.part, t.part)
  BY DEF Grows
<1>2. t.part # "nothing"
  BY <1>1 DEF Follows
<1> QED
  BY <1>2 DEF Coming

-----------------------------------------------------------------------------
(* The first line of a request of which nothing was read before.             *)

TookMethod(q1, q, c) ==
    /\ q1.method = Append(q.method, c) /\ q1.uri = q.uri /\ q1.version = q.version
    /\ IsSame(q1, q)

TookUri(q1, q, c) ==
    /\ q1.uri = Append(q.uri, c) /\ q1.method = q.method /\ q1.version = q.version
    /\ IsSame(q1, q)

TookVersion(q1, q, c) ==
    /\ q1.version = Append(q.version, c) /\ q1.method = q.method /\ q1.uri = q.uri
    /\ IsSame(q1, q)

TookKey(q1, q, c) ==
    /\ q1.key = Append(q.key, c) /\ Agrees(q1, q) /\ q1.method = q.method
    /\ q1.value = q.value /\ q1.attributes = q.attributes /\ q1.body = q.body

TookValue(q1, q, c) ==
    /\ q1.value = Append(q.value, c) /\ Agrees(q1, q) /\ q1.method = q.method
    /\ q1.key = q.key /\ q1.attributes = q.attributes /\ q1.body = q.body

TookBody(q1, q, c) ==
    /\ q1.body = Append(q.body, c) /\ Agrees(q1, q) /\ q1.method = q.method
    /\ q1.key = q.key /\ q1.attributes = q.attributes /\ q1.value = q.value

LEMMA TakenIs ==
    ASSUME NEW q, DOMAIN q = DOMAIN Empty, NEW q1, NEW c
    PROVE  /\ q1 = [q EXCEPT !["method"] = Append(@, c)] => TookMethod(q1, q, c)
           /\ q1 = [q EXCEPT !["uri"] = Append(@, c)] => TookUri(q1, q, c)
           /\ q1 = [q EXCEPT !["version"] = Append(@, c)] => TookVersion(q1, q, c)
           /\ q1 = [q EXCEPT !["key"] = Append(@, c)] => TookKey(q1, q, c)
           /\ q1 = [q EXCEPT !["value"] = Append(@, c)] => TookValue(q1, q, c)
           /\ q1 = [q EXCEPT !["body"] = Append(@, c)] => TookBody(q1, q, c)
<1>1. DOMAIN q = {"method", "uri", "version", "key", "value", "attributes", "body"}
  BY DEF Empty
<1> QED
  BY <1>1 DEF TookMethod, TookUri, TookVersion, TookKey, TookValue, TookBody, Agrees, IsSame

LEMMA SpecialCells ==
    /\ ~IsToken(" ") /\ ~IsWord(" ") /\ ~IsToken(CR) /\ ~IsWord(CR)
    /\ ~IsToken(LF) /\ ~IsWord(LF) /\ ~IsToken(":") /\ ~IsToken("/")
    /\ CR # " " /\ LF # " " /\ CR # LF /\ CR # ":" /\ LF # ":"
    /\ \A c : IsToken(c) => IsWord(c)
BY DEF IsToken, IsWord, Special, CR, LF

LEMMA MethodMoves ==
    ASSUME NEW q, NEW q1, NEW s, NEW c, NEW t, Grows(s, c, t), MethodAt(q, s)
    PROVE  /\ c = " " => q.method # <<>>
           /\ IsToken(c) /\ TookMethod(q1, q, c) => MethodAt(q1, t)
           /\ ~IsToken(c) => UriAt(q, s)
<1>0. q.method = s.req.method /\ q.uri = s.req.uri /\ q.version = s.req.version /\ IsBlank(q)
      /\ IsBlank(s.req) /\ s.req.version = <<>> /\ s.req.uri = <<>>
  BY DEF MethodAt, Agrees, IsAsked, InFirstLine
<1>1. CASE s.part = "method"
  <2>1. IsToken(c)
    BY <1>1 DEF Grows, IsPart
  <2>2. t.part \in {"method", "method_end"}
    BY <1>1 DEF Grows, Follows
  <2>3. /\ t.req.method = Append(s.req.method, c) /\ t.req.uri = s.req.uri
        /\ t.req.version = s.req.version /\ IsBlank(t.req)
    BY <1>0, <1>1 DEF Grows, Grew, IsBlank
  <2>4. TookMethod(q1, q, c) => MethodAt(q1, t)
    BY <1>0, <2>2, <2>3 DEF MethodAt, TookMethod, Agrees, IsAsked, IsBlank, IsSame
  <2> QED
    BY <2>1, <2>4, SpecialCells
<1>2. CASE s.part = "method_end"
  <2>1. c = " "
    BY <1>2 DEF Grows, IsPart
  <2>2. s.req.method \in Methods
    BY <1>2 DEF Grows, IsRight
  <2>3. q.method # <<>>
    BY <1>0, <2>2, RequestsAssumption
  <2>4. UriAt(q, s)
    BY <1>2 DEF MethodAt, UriAt
  <2> QED
    BY <2>1, <2>3, <2>4, SpecialCells
<1> QED
  BY <1>1, <1>2 DEF MethodAt

LEMMA UriMoves ==
    ASSUME NEW q, NEW q1, NEW s, NEW c, NEW t, Grows(s, c, t), UriAt(q, s)
    PROVE  /\ c = " " /\ q.uri = <<>> => UriAt(q, t)
           /\ IsWord(c) /\ TookUri(q1, q, c) => UriAt(q1, t)
           /\ ~IsWord(c) /\ (c = " " => q.uri # <<>>) => VersionAt(q, s)
<1>0. q.method = s.req.method /\ q.uri = s.req.uri /\ q.version = s.req.version /\ IsBlank(q)
      /\ IsBlank(s.req) /\ s.req.version = <<>> /\ (s.part = "method_end" => s.req.uri = <<>>)
  BY DEF UriAt, Agrees, IsAsked, InFirstLine
<1>1. CASE s.part = "method_end"
  <2>1. c = " "
    BY <1>1 DEF Grows, IsPart
  <2>2. t.part = "uri"
    BY <1>1 DEF Grows, Follows
  <2>3. /\ t.req.method = s.req.method /\ t.req.uri = s.req.uri
        /\ t.req.version = s.req.version /\ IsBlank(t.req)
    BY <1>0, <1>1 DEF Grows, Grew, IsBlank
  <2>4. UriAt(q, t)
    BY <1>0, <2>2, <2>3 DEF UriAt, Agrees, IsAsked, IsBlank
  <2> QED
    BY <1>0, <1>1, <2>1, <2>4, SpecialCells
<1>2. CASE s.part = "uri"
  <2>1. IsWord(c)
    BY <1>2 DEF Grows, IsPart
  <2>2. t.part \in {"uri", "uri_end"}
    BY <1>2 DEF Grows, Follows
  <2>3. /\ t.req.method = s.req.method /\ t.req.uri = Append(s.req.uri, c)
        /\ t.req.version = s.req.version /\ IsBlank(t.req)
    BY <1>0, <1>2 DEF Grows, Grew, IsBlank
  <2>4. TookUri(q1, q, c) => UriAt(q1, t)
    BY <1>0, <2>2, <2>3 DEF UriAt, TookUri, Agrees, IsAsked, IsBlank, IsSame
  <2> QED
    BY <2>1, <2>4, SpecialCells
<1>3. CASE s.part = "uri_end"
  <2>1. c = " "
    BY <1>3 DEF Grows, IsPart
  <2>2. s.req.uri # <<>>
    BY <1>3 DEF Grows, IsRight
  <2>3. VersionAt(q, s)
    BY <1>3 DEF UriAt, VersionAt
  <2> QED
    BY <1>0, <2>1, <2>2, <2>3, SpecialCells
<1> QED
  BY <1>1, <1>2, <1>3 DEF UriAt

LEMMA VersionMoves ==
    ASSUME NEW q, NEW q1, NEW s, NEW c, NEW t, Grows(s, c, t), VersionAt(q, s)
    PROVE  /\ c = " " /\ q.version = <<>> => VersionAt(q, t)
           /\ IsWord(c) /\ TookVersion(q1, q, c) => VersionAt(q1, t)
           /\ ~IsWord(c) /\ (c = " " => q.version # <<>>) =>
                 q.version = Version /\ LineAt("header", q, s)
<1>0. q.method = s.req.method /\ q.uri = s.req.uri /\ q.version = s.req.version /\ IsBlank(q)
      /\ IsBlank(s.req) /\ (s.part = "uri_end" => s.req.version = <<>>)
  BY DEF VersionAt, Agrees, IsAsked, InFirstLine
<1>1. CASE s.part = "uri_end"
  <2>1. c = " "
    BY <1>1 DEF Grows, IsPart
  <2>2. t.part = "version"
    BY <1>1 DEF Grows, Follows
  <2>3. /\ t.req.method = s.req.method /\ t.req.uri = s.req.uri
        /\ t.req.version = s.req.version /\ IsBlank(t.req)
    BY <1>0, <1>1 DEF Grows, Grew, IsBlank
  <2>4. VersionAt(q, t)
    BY <1>0, <2>2, <2>3 DEF VersionAt, Agrees, IsAsked, IsBlank, InFirstLine
  <2> QED
    BY <1>0, <1>1, <2>1, <2>4, SpecialCells
<1>2. CASE s.part = "version"
  <2>1. IsWord(c)
    BY <1>2 DEF Grows, IsPart
  <2>2. t.part \in {"version", "line_cr"}
    BY <1>2 DEF Grows, Follows
  <2>3. /\ t.req.method = s.req.method /\ t.req.uri = s.req.uri
        /\ t.req.version = Append(s.req.version, c) /\ IsBlank(t.req)
    BY <1>0, <1>2 DEF Grows, Grew, IsBlank
  <2>4. TookVersion(q1, q, c) => VersionAt(q1, t)
    BY <1>0, <2>2, <2>3 DEF VersionAt, TookVersion, Agrees, IsAsked, IsBlank, IsSame, InFirstLine
  <2> QED
    BY <2>1, <2>4, SpecialCells
<1>3. CASE s.part = "line_cr"
  <2>1. c = CR
    BY <1>3 DEF Grows, IsPart
  <2>2. s.req.version = Version
    BY <1>3 DEF Grows, IsRight
  <2>3. LineAt("header", q, s)
    BY <1>0, <1>3 DEF LineAt, IsSame, IsBlank
  <2> QED
    BY <1>0, <2>1, <2>2, <2>3, SpecialCells
<1> QED
  BY <1>1, <1>2, <1>3 DEF VersionAt

-----------------------------------------------------------------------------
(* The same when its beginning was read ahead and lost.                      *)
LEMMA LeftGrows ==
    ASSUME NEW k \in 0..(Len(Stream) - 1), NEW m, IsLeft(m, k),
           m = <<>> => k \in 1..k /\ Said[k].part \in {"method", "uri"}
    PROVE  IsLeft(Append(m, Stream[k + 1]), k + 1)
<1>1. PICK p \in 1..k : Said[p].part \in {"method", "uri"} /\ m = SubSeq(Stream, p + 1, k)
  <2>1. CASE m = <<>>
    <3>1. k \in 1..k /\ Said[k].part \in {"method", "uri"}
      BY <2>1
    <3>2. SubSeq(Stream, k + 1, k) = <<>>
      BY StreamAssumption
    <3> QED
      BY <2>1, <3>1, <3>2
  <2> QED
    BY <2>1 DEF IsLeft
<1>2. Append(SubSeq(Stream, p + 1, k), Stream[k + 1]) = SubSeq(Stream, p + 1, k + 1)
  BY StreamAssumption
<1>3. p \in 1..(k + 1)
  OBVIOUS
<1> QED
  BY <1>1, <1>2, <1>3 DEF IsLeft

LEMMA LeftIsNoMethod ==
    ASSUME NEW k \in 0..(Len(Stream) - 1), NEW m, IsLeft(m, k), ~IsToken(Stream[k + 1])
    PROVE  m \notin Methods
<1>1. CASE m = <<>>
  BY <1>1, RequestsAssumption
<1>2. CASE m # <<>>
  <2>1. PICK p \in 1..k : Said[p].part \in {"method", "uri"} /\ m = SubSeq(Stream, p + 1, k)
    BY <1>2 DEF IsLeft
  <2>2. p \in 1..Len(Stream) /\ p <= k
    BY StreamAssumption
  <2> QED
    BY <2>1, <2>2, RequestsAssumption
<1> QED
  BY <1>1, <1>2

LEMMA AskedOn ==
    ASSUME NEW s, NEW c, NEW t, Grows(s, c, t), IsAsked(s),
           s.part \in InFirstLine \cup {"version"}
    PROVE  /\ IsAsked(t)
           /\ s.part = "method" => IsToken(c) /\ t.part \in {"method", "method_end"}
           /\ s.part = "method_end" => c = " " /\ t.part = "uri"
           /\ s.part = "uri" => IsWord(c) /\ t.part \in {"uri", "uri_end"}
           /\ s.part = "uri_end" => c = " " /\ t.part = "version" /\ s.req.uri # <<>>
           /\ s.part = "version" => IsWord(c) /\ t.part \in {"version", "line_cr"}
<1>1. /\ s.part = "method" => IsToken(c) /\ t.part \in {"method", "method_end"}
      /\ s.part = "method_end" => c = " " /\ t.part = "uri"
      /\ s.part = "uri" => IsWord(c) /\ t.part \in {"uri", "uri_end"}
      /\ s.part = "uri_end" => c = " " /\ t.part = "version"
      /\ s.part = "version" => IsWord(c) /\ t.part \in {"version", "line_cr"}
  BY DEF Grows, IsPart, Follows
<1>2. s.part = "uri_end" => s.req.uri # <<>>
  BY DEF Grows, IsRight
<1>3. IsBlank(t.req)
  BY DEF Grows, Grew, IsBlank, IsAsked, InFirstLine
<1>4. t.part \in InFirstLine => t.req.version = <<>>
  BY <1>1 DEF Grows, Grew, IsAsked, InFirstLine
<1>5. t.part \in {"method", "method_end"} => t.req.uri = <<>>
  BY <1>1 DEF Grows, Grew, IsAsked, InFirstLine
<1> QED
  BY <1>1, <1>2, <1>3, <1>4, <1>5 DEF IsAsked

-----------------------------------------------------------------------------
LEMMA MethodLateMoves ==
    ASSUME NEW q, NEW q1, NEW s, NEW k \in 0..(Len(Stream) - 1), NEW t,
           Grows(s, Stream[k + 1], t), MethodLate(q, s, k),
           k \in 1..k /\ s = Said[k]
    PROVE  LET c == Stream[k + 1]
           IN  /\ c = " " /\ q.method = <<>> => MethodLate(q, t, k + 1)
               /\ IsToken(c) /\ TookMethod(q1, q, c) => MethodLate(q1, t, k + 1)
               /\ ~IsToken(c) /\ (c = " " => q.method # <<>>) => UriLate(q, s)
<1>1. PICK c : c = Stream[k + 1]
  OBVIOUS
<1>2. Grows(s, c, t)
  BY <1>1
<1>3. /\ IsAsked(s) /\ IsBlank(q) /\ q.uri = <<>> /\ q.version = <<>>
      /\ s.part \in InFirstLine \cup {"version", "line_cr"}
      /\ s.part \in InFirstLine => IsLeft(q.method, k)
  BY DEF MethodLate
<1>4. CASE s.part = "line_cr"
  <2>1. c = CR
    BY <1>2, <1>4 DEF Grows, IsPart
  <2>2. UriLate(q, s)
    BY <1>3, <1>4 DEF UriLate
  <2> QED
    BY <1>1, <2>1, <2>2, SpecialCells
<1>5. CASE s.part # "line_cr"
  <2>1. s.part \in InFirstLine \cup {"version"}
    BY <1>3, <1>5
  <2>2. /\ IsAsked(t)
        /\ s.part = "method" => IsToken(c) /\ t.part \in {"method", "method_end"}
        /\ s.part = "method_end" => c = " " /\ t.part = "uri"
        /\ s.part = "uri" => IsWord(c) /\ t.part \in {"uri", "uri_end"}
        /\ s.part = "uri_end" => c = " " /\ t.part = "version"
        /\ s.part = "version" => IsWord(c) /\ t.part \in {"version", "line_cr"}
    BY <1>2, <1>3, <2>1, AskedOn
  <2>3. t.part \in InFirstLine \cup {"version", "line_cr"}
    BY <2>1, <2>2 DEF InFirstLine
  <2>4. ASSUME c = " ", q.method = <<>> PROVE MethodLate(q, t, k + 1)
    <3>1. IsLeft(q.method, k + 1)
      BY <2>4 DEF IsLeft
    <3> QED
      BY <1>3, <2>2, <2>3, <3>1 DEF MethodLate
  <2>5. ASSUME IsToken(c), TookMethod(q1, q, c) PROVE MethodLate(q1, t, k + 1)
    <3>1. ASSUME t.part \in InFirstLine PROVE IsLeft(q1.method, k + 1)
      <4>1. s.part \in {"method", "uri"}
        BY <2>1, <2>2, <2>5, <3>1, SpecialCells DEF InFirstLine
      <4>2. IsLeft(q.method, k)
        BY <1>3, <4>1 DEF InFirstLine
      <4>3. Said[k].part \in {"method", "uri"}
        BY <4>1
      <4>4. IsLeft(Append(q.method, c), k + 1)
        BY <1>1, <4>2, <4>3, LeftGrows
      <4> QED
        BY <2>5, <4>4 DEF TookMethod
    <3> QED
      BY <1>3, <2>2, <2>3, <2>5, <3>1 DEF MethodLate, TookMethod, IsBlank, IsSame
  <2>6. ASSUME ~IsToken(c), c = " " => q.method # <<>> PROVE UriLate(q, s)
    <3>1. CASE s.part = "version"
      BY <1>3, <3>1 DEF UriLate
    <3>2. CASE s.part \in InFirstLine
      <4>1. q.method \notin Methods
        BY <1>1, <1>3, <2>6, <3>2, LeftIsNoMethod
      <4>2. s.part \in {"method_end", "uri", "uri_end"}
        BY <2>2, <2>6, <3>2 DEF InFirstLine
      <4> QED
        BY <1>3, <4>1, <4>2 DEF UriLate
    <3> QED
      BY <2>1, <3>1, <3>2
  <2> QED
    BY <1>1, <2>4, <2>5, <2>6
<1> QED
  BY <1>4, <1>5

LEMMA UriLateMoves ==
    ASSUME NEW q, NEW q1, NEW s, NEW c, NEW t, Grows(s, c, t), UriLate(q, s),
           q.uri \in Seq(Cells), c \in Cells
    PROVE  /\ c = " " /\ q.uri = <<>> => UriLate(q, t)
           /\ IsWord(c) /\ TookUri(q1, q, c) => UriLate(q1, t)
           /\ ~IsWord(c) /\ (c = " " => q.uri # <<>>) => VersionLate(q, s)
<1>1. IsAsked(s) /\ IsBlank(q) /\ q.version = <<>>
  BY DEF UriLate
<1>2. TookUri(q1, q, c) => /\ IsBlank(q1) /\ q1.version = <<>> /\ q1.uri # <<>>
                           /\ q1.method = q.method
  BY <1>1 DEF TookUri, IsBlank, IsSame
<1>3. CASE s.part = "line_cr"
  <2>1. c = CR
    BY <1>3 DEF Grows, IsPart
  <2>2. VersionLate(q, s)
    BY <1>1, <1>3 DEF VersionLate
  <2> QED
    BY <2>1, <2>2, SpecialCells
<1>4. CASE s.part # "line_cr"
  <2>1. s.part \in InFirstLine \cup {"version"}
    BY <1>4 DEF UriLate, InFirstLine
  <2>2. /\ IsAsked(t)
        /\ s.part = "method_end" => c = " " /\ t.part = "uri"
        /\ s.part = "uri" => IsWord(c) /\ t.part \in {"uri", "uri_end"}
        /\ s.part = "uri_end" => c = " " /\ t.part = "version"
        /\ s.part = "version" => IsWord(c) /\ t.part \in {"version", "line_cr"}
    BY <1>1, <2>1, AskedOn
  <2>3. CASE s.part = "version"
    <3>1. TookUri(q1, q, c) => UriLate(q1, t)
      BY <1>2, <2>2, <2>3 DEF UriLate
    <3> QED
      BY <2>2, <2>3, <3>1, SpecialCells
  <2>4. CASE s.part = "uri_end" /\ q.uri = <<>>
    <3>1. UriLate(q, t)
      BY <1>1, <2>2, <2>4 DEF UriLate
    <3> QED
      BY <2>2, <2>4, <3>1, SpecialCells
  <2>5. CASE s.part = "uri_end" /\ q.uri # <<>>
    <3>1. q.method \notin Methods
      BY <2>5 DEF UriLate
    <3>2. s.req.version = <<>>
      BY <1>1, <2>5 DEF IsAsked, InFirstLine
    <3>3. VersionLate(q, s)
      BY <1>1, <2>5, <3>1, <3>2 DEF VersionLate
    <3> QED
      BY <2>2, <2>5, <3>3, SpecialCells
  <2>6. CASE s.part = "uri"
    <3>1. q.method \notin Methods
      BY <2>6 DEF UriLate
    <3>2. TookUri(q1, q, c) => UriLate(q1, t)
      BY <1>2, <2>2, <2>6, <3>1 DEF UriLate
    <3> QED
      BY <2>2, <2>6, <3>2, SpecialCells
  <2>7. CASE s.part = "method_end"
    <3>1. q.method \notin Methods /\ q.uri = <<>>
      BY <2>7 DEF UriLate
    <3>2. UriLate(q, t)
      BY <1>1, <2>2, <2>7, <3>1 DEF UriLate
    <3> QED
      BY <2>2, <2>7, <3>1, <3>2, SpecialCells
  <2> QED
    BY <2>3, <2>4, <2>5, <2>6, <2>7, <1>4 DEF UriLate
<1> QED
  BY <1>3, <1>4

LEMMA VersionLateMoves ==
    ASSUME NEW q, NEW q1, NEW s, NEW c, NEW t, Grows(s, c, t), VersionLate(q, s)
    PROVE  /\ c = " " /\ q.version = <<>> => VersionLate(q, t)
           /\ IsWord(c) /\ TookVersion(q1, q, c) => VersionLate(q1, t)
           /\ ~IsWord(c) /\ (c = " " => q.version # <<>>) =>
                 q.version \in {<<>>, Version} /\ IsDoomed(q) /\ LineAt("header", q, s)
<1>1. IsAsked(s) /\ IsBlank(q)
  BY DEF VersionLate
<1>2. TookVersion(q1, q, c) => IsBlank(q1) /\ q1.method = q.method /\ q1.version = Append(q.version, c)
  BY <1>1 DEF TookVersion, IsBlank, IsSame
<1>3. CASE s.part = "line_cr"
  <2>1. c = CR
    BY <1>3 DEF Grows, IsPart
  <2>2. s.req.version = Version
    BY <1>3 DEF Grows, IsRight
  <2>3. q.version \in {<<>>, Version}
    BY <1>3, <2>2 DEF VersionLate
  <2>4. IsDoomed(q)
    BY <2>3, RequestsAssumption DEF VersionLate, IsDoomed
  <2>5. LineAt("header", q, s)
    BY <1>1, <1>3 DEF LineAt, IsSame, IsBlank, IsAsked
  <2> QED
    BY <2>1, <2>3, <2>4, <2>5, SpecialCells
<1>4. CASE s.part # "line_cr"
  <2>0. s.part \in {"uri_end", "version"} /\ q.method \notin Methods /\ q.version = s.req.version
    BY <1>4 DEF VersionLate
  <2>1. s.part \in InFirstLine \cup {"version"}
    BY <2>0 DEF InFirstLine
  <2>2. /\ IsAsked(t)
        /\ s.part = "uri_end" => c = " " /\ t.part = "version"
        /\ s.part = "version" => IsWord(c) /\ t.part \in {"version", "line_cr"}
    BY <1>1, <2>1, AskedOn
  <2>3. t.req.version = IF s.part = "version" THEN Append(s.req.version, c) ELSE s.req.version
    BY DEF Grows, Grew
  <2>4. CASE s.part = "uri_end"
    <3>1. s.req.version = <<>>
      BY <1>1, <2>4 DEF IsAsked, InFirstLine
    <3>2. VersionLate(q, t)
      BY <1>1, <2>0, <2>2, <2>3, <2>4 DEF VersionLate
    <3> QED
      BY <2>0, <2>2, <2>4, <3>1, <3>2, SpecialCells
  <2>5. CASE s.part = "version"
    <3>1. TookVersion(q1, q, c) => VersionLate(q1, t)
      BY <1>2, <2>0, <2>2, <2>3, <2>5 DEF VersionLate
    <3> QED
      BY <2>2, <2>5, <3>1, SpecialCells
  <2> QED
    BY <2>0, <2>4, <2>5
<1> QED
  BY <1>3, <1>4

-----------------------------------------------------------------------------
(* The headers.                                                              *)
LEMMA GatheredSame ==
    ASSUME NEW q, NEW s, IsSame(q, s)
    PROVE  Gathered(q) = Gathered(s)
BY DEF IsSame, Gathered

LEMMA LineMoves ==
    ASSUME NEW co, NEW q, NEW s, NEW c, NEW t, Grows(s, c, t), LineAt(co, q, s)
    PROVE  c = CR /\ LineCrAt(co, q, t) /\ t.part # "nothing" /\ Coming(t) = t
<1>1. CASE co = "header" /\ s.part = "line_cr" /\ IsSame(q, s.req) /\ IsBlank(q)
  <2>1. c = CR /\ t.part = "line_lf"
    BY <1>1 DEF Grows, IsPart, Follows
  <2>2. IsSame(q, t.req)
    BY <1>1 DEF Grows, Grew, IsSame
  <2> QED
    BY <1>1, <2>1, <2>2 DEF LineCrAt, Coming
<1>2. CASE co = "fold" /\ s.part = "value_cr" /\ IsSame(q, s.req) /\ q.key # <<>>
  <2>1. c = CR /\ t.part = "value_lf"
    BY <1>2 DEF Grows, IsPart, Follows
  <2>2. IsSame(q, t.req)
    BY <1>2 DEF Grows, Grew, IsSame
  <2> QED
    BY <1>2, <2>1, <2>2 DEF LineCrAt, Coming
<1>3. CASE /\ co = "body" /\ s.part = "empty_cr"
           /\ q.attributes = Gathered(s.req) /\ q.body = s.req.body
  <2>1. c = CR /\ t.part = "empty_lf"
    BY <1>3 DEF Grows, IsPart, Follows
  <2>2. q.attributes = t.req.attributes /\ q.body = t.req.body
    BY <1>3 DEF Grows, Grew
  <2> QED
    BY <1>3, <2>1, <2>2 DEF LineCrAt, Coming
<1> QED
  BY <1>1, <1>2, <1>3 DEF LineAt

LEMMA LineCrMoves ==
    ASSUME NEW co, NEW q, NEW s, NEW c, NEW t, Grows(s, c, t), LineCrAt(co, q, s)
    PROVE  /\ c = LF
           /\ co = "header" => HeaderAt(q, t) /\ t.part # "nothing" /\ Coming(t) = t
           /\ co = "fold" => FoldAt(q, t) /\ t.part # "nothing" /\ Coming(t) = t
           /\ co = "body" => BodyAt(q, t) /\ t.part \in {"body", "nothing"}
           /\ co \in {"header", "fold", "body"}
<1>1. CASE co = "header" /\ s.part = "line_lf" /\ IsSame(q, s.req) /\ IsBlank(q)
  <2>1. c = LF /\ t.part \in {"key_first", "empty_cr"}
    BY <1>1 DEF Grows, IsPart, Follows
  <2>2. IsSame(q, t.req)
    BY <1>1 DEF Grows, Grew, IsSame
  <2>3. Gathered(t.req) = t.req.attributes
    BY <1>1, <2>2 DEF Gathered, IsSame, IsBlank
  <2>4. HeaderAt(q, t)
    BY <2>1, <2>2, <2>3 DEF HeaderAt, IsSame
  <2> QED
    BY <1>1, <2>1, <2>4 DEF Coming
<1>2. CASE co = "fold" /\ s.part = "value_lf" /\ IsSame(q, s.req) /\ q.key # <<>>
  <2>1. c = LF /\ t.part \in {"key_first", "empty_cr", "fold"}
    BY <1>2 DEF Grows, IsPart, Follows
  <2>2. IsSame(q, t.req)
    BY <1>2 DEF Grows, Grew, IsSame
  <2>3. FoldAt(q, t)
    BY <1>2, <2>1, <2>2 DEF FoldAt
  <2> QED
    BY <1>2, <2>1, <2>3 DEF Coming
<1>3. CASE /\ co = "body" /\ s.part = "empty_lf"
           /\ q.attributes = s.req.attributes /\ q.body = s.req.body
  <2>1. c = LF /\ t.part \in {"body", "nothing"}
    BY <1>3 DEF Grows, IsPart, Follows
  <2>2. q.attributes = t.req.attributes /\ q.body = t.req.body
    BY <1>3 DEF Grows, Grew
  <2>3. BodyAt(q, t)
    BY <2>2 DEF BodyAt
  <2> QED
    BY <1>3, <2>1, <2>3
<1> QED
  BY <1>1, <1>2, <1>3 DEF LineCrAt

(* d is the cell that follows c.                                             *)
LEMMA HeaderMoves ==
    ASSUME NEW q, NEW q1, NEW s, NEW c, NEW t, NEW d, NEW u, Grows(s, c, t), HeaderAt(q, s),
           c = CR => Grows(t, d, u)
    PROVE  /\ c = CR => d = LF /\ LineAt("body", q, s)
           /\ c # CR /\ Agrees(q1, q) /\ q1.key = <<>> /\ q1.value = <<>>
                /\ q1.attributes = q.attributes /\ q1.body = q.body => KeyAt(q1, s)
<1>1. CASE s.part = "key_first"
  <2>1. c # CR
    BY <1>1, SpecialCells DEF Grows, IsPart
  <2> QED
    BY <1>1, <2>1 DEF HeaderAt, KeyAt
<1>2. CASE s.part = "empty_cr"
  <2>1. c = CR /\ t.part = "empty_lf"
    BY <1>2 DEF Grows, IsPart, Follows
  <2>2. d = LF
    BY <2>1 DEF Grows, IsPart
  <2> QED
    BY <1>2, <2>1, <2>2 DEF HeaderAt, LineAt
<1> QED
  BY <1>1, <1>2 DEF HeaderAt

LEMMA KeyMoves ==
    ASSUME NEW q, NEW q1, NEW s, NEW c, NEW t, Grows(s, c, t), KeyAt(q, s)
    PROVE  /\ c # " "
           /\ IsToken(c) /\ TookKey(q1, q, c) => KeyAt(q1, t) /\ t.part # "nothing" /\ Coming(t) = t
           /\ ~IsToken(c) => q.key # <<>> /\ PastKeyAt("colon", q, s)
<1>1. CASE s.part = "key" /\ IsSame(q, s.req)
  <2>1. IsToken(c) /\ t.part \in {"key", "colon"}
    BY <1>1 DEF Grows, IsPart, Follows
  <2>2. /\ t.req.key = Append(s.req.key, c) /\ t.req.value = s.req.value
        /\ t.req.attributes = s.req.attributes /\ t.req.body = s.req.body
    BY <1>1 DEF Grows, Grew
  <2>3. TookKey(q1, q, c) => KeyAt(q1, t)
    BY <1>1, <2>1, <2>2 DEF KeyAt, TookKey, IsSame
  <2> QED
    BY <2>1, <2>3, SpecialCells DEF Coming
<1>2. CASE s.part = "colon" /\ IsSame(q, s.req)
  <2>1. c = ":"
    BY <1>2 DEF Grows, IsPart
  <2>2. s.req.key # <<>>
    BY <1>2 DEF Grows, IsRight
  <2> QED
    BY <1>2, <2>1, <2>2, SpecialCells DEF PastKeyAt, IsSame
<1>3. CASE /\ s.part = "key_first" /\ q.key = <<>>
           /\ q.attributes = Gathered(s.req) /\ q.body = s.req.body
  <2>1. IsToken(c) /\ t.part \in {"key", "colon"}
    BY <1>3 DEF Grows, IsPart, Follows
  <2>2. /\ t.req.key = <<c>> /\ t.req.value = <<>>
        /\ t.req.attributes = Gathered(s.req) /\ t.req.body = s.req.body
    BY <1>3 DEF Grows, Grew
  <2>3. Append(<<>>, c) = <<c>>
    OBVIOUS
  <2>4. TookKey(q1, q, c) => KeyAt(q1, t)
    BY <1>3, <2>1, <2>2, <2>3 DEF KeyAt, TookKey, IsSame
  <2> QED
    BY <2>1, <2>4, SpecialCells DEF Coming
<1> QED
  BY <1>1, <1>2, <1>3 DEF KeyAt

LEMMA PastKeyMoves ==
    ASSUME NEW q, NEW s, NEW c, NEW t, NEW st \in {"colon", "space"}, Grows(s, c, t), PastKeyAt(st, q, s)
    PROVE  /\ st = "colon" => c = ":" /\ PastKeyAt("space", q, t)
           /\ st = "space" => c = " " /\ ValueAt(q, t)
           /\ t.part # "nothing" /\ Coming(t) = t
<1>1. IsSame(q, t.req) /\ q.key # <<>>
  BY DEF Grows, Grew, IsSame, PastKeyAt
<1>2. st = "colon" => c = ":" /\ t.part = "space"
  BY DEF Grows, IsPart, Follows, PastKeyAt
<1>3. st = "space" => c = " " /\ t.part \in {"value", "value_cr"}
  BY DEF Grows, IsPart, Follows, PastKeyAt
<1> QED
  BY <1>1, <1>2, <1>3 DEF PastKeyAt, ValueAt, Coming

LEMMA ValueMoves ==
    ASSUME NEW q, NEW q1, NEW s, NEW c, NEW t, NEW d, NEW u, Grows(s, c, t), ValueAt(q, s),
           c = CR => Grows(t, d, u)
    PROVE  /\ c = CR => d = LF /\ LineAt("fold", q, s)
           /\ c # CR /\ TookValue(q1, q, c) => ValueAt(q1, t) /\ t.part # "nothing" /\ Coming(t) = t
<1>1. CASE s.part \in {"value", "value_first"}
  <2>1. c # CR /\ t.part \in {"value", "value_cr"}
    BY <1>1 DEF Grows, IsPart, Follows
  <2>2. /\ t.req.key = s.req.key /\ t.req.value = Append(s.req.value, c)
        /\ t.req.attributes = s.req.attributes /\ t.req.body = s.req.body
    BY <1>1 DEF Grows, Grew
  <2>3. TookValue(q1, q, c) => ValueAt(q1, t)
    BY <2>1, <2>2 DEF ValueAt, TookValue, IsSame
  <2> QED
    BY <2>1, <2>3 DEF Coming
<1>2. CASE s.part = "value_cr"
  <2>1. c = CR /\ t.part = "value_lf"
    BY <1>2 DEF Grows, IsPart, Follows
  <2>2. d = LF
    BY <2>1 DEF Grows, IsPart
  <2> QED
    BY <1>2, <2>1, <2>2 DEF ValueAt, LineAt
<1> QED
  BY <1>1, <1>2 DEF ValueAt

LEMMA FoldMoves ==
    ASSUME NEW q, NEW q1, NEW s, NEW c, NEW t, Grows(s, c, t), FoldAt(q, s)
    PROVE  /\ c = " " => FoldedAt(q, t) /\ t.part # "nothing" /\ Coming(t) = t
           /\ c # " " /\ q1.attributes = Gathered(q) /\ q1.body = q.body => HeaderAt(q1, s)
<1>1. CASE s.part = "fold"
  <2>1. c = " " /\ t.part \in {"fold", "value_first", "value_cr"}
    BY <1>1 DEF Grows, IsPart, Follows
  <2>2. /\ t.req.key = s.req.key /\ t.req.attributes = s.req.attributes
        /\ t.req.body = s.req.body
        /\ t.part = "fold" => t.req.value = s.req.value
        /\ t.part # "fold" => t.req.value = Append(s.req.value, " ")
    BY <1>1 DEF Grows, Grew
  <2> QED
    BY <2>1, <2>2 DEF FoldAt, FoldedAt, IsSame, Coming
<1>2. CASE s.part \in {"key_first", "empty_cr"}
  <2>1. c # " "
    BY <1>2, SpecialCells DEF Grows, IsPart
  <2>2. Gathered(q) = Gathered(s.req)
    BY GatheredSame DEF FoldAt
  <2> QED
    BY <1>2, <2>1, <2>2 DEF FoldAt, HeaderAt, IsSame
<1> QED
  BY <1>1, <1>2 DEF FoldAt

LEMMA FoldedMoves ==
    ASSUME NEW q, NEW q1, NEW s, NEW c, NEW t, Grows(s, c, t), FoldedAt(q, s)
    PROVE  /\ c = " " => FoldedAt(q, t) /\ t.part # "nothing" /\ Coming(t) = t
           /\ c # " " /\ TookValue(q1, q, " ") => ValueAt(q1, s)
<1>1. CASE s.part = "fold"
  <2>1. c = " " /\ t.part \in {"fold", "value_first", "value_cr"}
    BY <1>1 DEF Grows, IsPart, Follows
  <2>2. /\ t.req.key = s.req.key /\ t.req.attributes = s.req.attributes
        /\ t.req.body = s.req.body
        /\ t.part = "fold" => t.req.value = s.req.value
        /\ t.part # "fold" => t.req.value = Append(s.req.value, " ")
    BY <1>1 DEF Grows, Grew
  <2> QED
    BY <1>1, <2>1, <2>2 DEF FoldedAt, Coming
<1>2. CASE s.part \in {"value_first", "value_cr"}
  <2>1. c # " "
    BY <1>2, SpecialCells DEF Grows, IsPart
  <2> QED
    BY <1>2, <2>1 DEF FoldedAt, ValueAt, TookValue, IsSame
<1> QED
  BY <1>1, <1>2 DEF FoldedAt

(* The body, and what is known when it is whole.                             *)
LEMMA BodyMoves ==
    ASSUME NEW q, NEW q1, NEW h, NEW c, NEW t, Grows(h, c, t), BodyAt(q, h), h.part = "body"
    PROVE  /\ TookBody(q1, q, c) => BodyAt(q1, t)
           /\ t.part \in {"body", "nothing"}
           /\ t.req.method = h.req.method /\ t.req.uri = h.req.uri
           /\ t.req.version = h.req.version
<1>1. t.part \in {"body", "nothing"}
  BY DEF Grows, Follows
<1>2. /\ t.req.attributes = h.req.attributes /\ t.req.body = Append(h.req.body, c)
      /\ t.req.method = h.req.method /\ t.req.uri = h.req.uri
      /\ t.req.version = h.req.version
  BY DEF Grows, Grew
<1> QED
  BY <1>1, <1>2 DEF BodyAt, TookBody

LEMMA BodyEnds ==
    ASSUME NEW q, NEW h, NEW size, IsRight(h), BodyAt(q, h), h.part \in {"body", "nothing"},
           h.req.body \in Seq(Cells), LengthOf(h.req.attributes) \in Nat,
           size = IF ContentLength \in DOMAIN q.attributes
                  THEN Len(q.attributes[ContentLength]) ELSE 0
    PROVE  Len(q.body) >= size <=> h.part = "nothing"
<1>1. size = LengthOf(h.req.attributes)
  BY DEF LengthOf, BodyAt
<1>2. Len(h.req.body) \in Nat /\ q.body = h.req.body
  BY DEF BodyAt
<1>3. h.part = "body" => Len(h.req.body) < size
  BY <1>1 DEF IsRight
<1>4. h.part = "nothing" => Len(h.req.body) = size
  BY <1>1 DEF IsRight
<1> QED
  BY <1>1, <1>2, <1>3, <1>4

-----------------------------------------------------------------------------
(* What is read ahead.                                                       *)
LEMMA NextMethodMoves ==
    ASSUME NEW q, NEW q1, NEW s, NEW c, NEW t, Grows(s, c, t), IsAsked(s),
           s.part \in {"method", "method_end"}, q.method = s.req.method, q.uri = <<>>
    PROVE  /\ c = " " => q.method # <<>>
           /\ IsToken(c) /\ TookMethod(q1, q, c) =>
                 /\ IsAsked(t) /\ t.part \in {"method", "method_end"}
                 /\ q1.method = t.req.method /\ q1.uri = <<>>
           /\ ~IsToken(c) => NextUriAt(q, s) /\ s.part # "method"
<1>1. s.part \in InFirstLine \cup {"version"}
  BY DEF InFirstLine
<1>2. /\ IsAsked(t)
      /\ s.part = "method" => IsToken(c) /\ t.part \in {"method", "method_end"}
      /\ s.part = "method_end" => c = " "
  BY <1>1, AskedOn
<1>3. CASE s.part = "method"
  <2>1. t.req.method = Append(s.req.method, c)
    BY <1>3 DEF Grows, Grew
  <2> QED
    BY <1>2, <1>3, <2>1, SpecialCells DEF TookMethod
<1>4. CASE s.part = "method_end"
  <2>1. s.req.method \in Methods
    BY <1>4 DEF Grows, IsRight
  <2>2. q.method # <<>>
    BY <2>1, RequestsAssumption
  <2>3. NextUriAt(q, s)
    BY <1>4 DEF NextUriAt
  <2> QED
    BY <1>2, <1>4, <2>2, <2>3, SpecialCells
<1> QED
  BY <1>3, <1>4

LEMMA NextUriMoves ==
    ASSUME NEW q, NEW q1, NEW s, NEW c, NEW t, Grows(s, c, t), NextUriAt(q, s),
           q.uri \in Seq(Cells), c \in Cells
    PROVE  /\ c = " " /\ q.uri = <<>> => NextUriAt(q, t)
           /\ IsWord(c) /\ TookUri(q1, q, c) => NextUriAt(q1, t)
           /\ NextUriAt(q, s) => IsAsked(s) /\ s.part \in InFirstLine
<1>1. s.part \in InFirstLine \cup {"version"} /\ IsAsked(s)
  BY DEF NextUriAt, InFirstLine
<1>2. /\ IsAsked(t)
      /\ s.part = "method_end" => c = " " /\ t.part = "uri"
      /\ s.part = "uri" => IsWord(c) /\ t.part \in {"uri", "uri_end"}
      /\ s.part = "uri_end" => c = " "
  BY <1>1, AskedOn
<1>3. TookUri(q1, q, c) => q1.uri # <<>>
  BY DEF TookUri
<1>4. s.part \in {"method_end", "uri", "uri_end"}
      /\ (s.part = "uri_end" => q.uri # <<>>)
  BY DEF NextUriAt
<1>5. c = " " /\ q.uri = <<>> => NextUriAt(q, t)
  BY <1>2, <1>4, SpecialCells DEF NextUriAt
<1>6. IsWord(c) /\ TookUri(q1, q, c) => NextUriAt(q1, t)
  BY <1>2, <1>3, <1>4, SpecialCells DEF NextUriAt
<1> QED
  BY <1>1, <1>4, <1>5, <1>6 DEF InFirstLine

-----------------------------------------------------------------------------
(* What a thread does that was asked to end in the middle of a request.      *)
LEMMA MethodCutMoves ==
    ASSUME NEW q, NEW q1, NEW s, NEW c, NEW t, Grows(s, c, t), MethodCut(q, s)
    PROVE  /\ c = " " => q.method # <<>>
           /\ IsToken(c) /\ TookMethod(q1, q, c) =>
                 MethodCut(q1, t) /\ t.part # "nothing" /\ Coming(t) = t
           /\ ~IsToken(c) => UriCut(q, s)
<1>1. CASE s.part = "method"
  <2>1. IsToken(c) /\ t.part \in {"method", "method_end"}
    BY <1>1 DEF Grows, IsPart, Follows
  <2>2. t.req.method = Append(s.req.method, c) /\ t.req.uri = s.req.uri
    BY <1>1 DEF Grows, Grew
  <2>3. TookMethod(q1, q, c) => MethodCut(q1, t)
    BY <1>1, <2>1, <2>2 DEF MethodCut, TookMethod
  <2> QED
    BY <2>1, <2>3, SpecialCells DEF Coming
<1>2. CASE s.part = "method_end"
  <2>1. c = " "
    BY <1>2 DEF Grows, IsPart
  <2>2. s.req.method \in Methods
    BY <1>2 DEF Grows, IsRight
  <2>3. q.method # <<>> /\ q.method \in Methods
    BY <2>2, RequestsAssumption DEF MethodCut
  <2>4. UriCut(q, s)
    BY <1>2, <2>3 DEF MethodCut, UriCut
  <2> QED
    BY <2>1, <2>3, <2>4, SpecialCells
<1> QED
  BY <1>1, <1>2 DEF MethodCut

LEMMA UriCutMoves ==
    ASSUME NEW q, NEW q1, NEW s, NEW c, NEW t, Grows(s, c, t), UriCut(q, s),
           q.uri \in Seq(Cells), c \in Cells
    PROVE  /\ c = " " /\ q.uri = <<>> => UriCut(q, t)
           /\ IsWord(c) /\ TookUri(q1, q, c) => UriCut(q1, t)
           /\ ~IsWord(c) /\ (c = " " => q.uri # <<>>) => VersionCut(q, s)
           /\ t.part # "nothing" /\ Coming(t) = t
<1>1. /\ s.part = "method" => IsToken(c) /\ t.part \in {"method", "method_end"}
      /\ s.part = "method_end" => c = " " /\ t.part = "uri"
      /\ s.part = "uri" => IsWord(c) /\ t.part \in {"uri", "uri_end"}
      /\ s.part = "uri_end" => c = " "
      /\ s.part \in {"method", "method_end"} => t.req.uri = s.req.uri
  BY DEF Grows, IsPart, Follows, Grew
<1>2. TookUri(q1, q, c) => q1.uri # <<>> /\ q1.method = q.method /\ q1.version = q.version
  BY DEF TookUri
<1>3. s.part \in {"method", "method_end", "uri", "uri_end"}
  BY DEF UriCut
<1>4. t.part # "nothing" /\ Coming(t) = t
  BY <1>3, GoesOn
<1>5. ASSUME c = " ", q.uri = <<>> PROVE UriCut(q, t)
  <2>1. s.part = "method_end" /\ q.method \in Methods
    BY <1>1, <1>3, <1>5, SpecialCells DEF UriCut
  <2> QED
    BY <1>1, <2>1 DEF UriCut
<1>6. ASSUME IsWord(c), TookUri(q1, q, c) PROVE UriCut(q1, t)
  <2>1. CASE s.part = "method"
    BY <1>1, <1>2, <1>6, <2>1 DEF UriCut
  <2>2. CASE s.part = "uri"
    BY <1>1, <1>2, <1>6, <2>2 DEF UriCut
  <2> QED
    BY <1>1, <1>3, <1>6, <2>1, <2>2, SpecialCells
<1>7. ASSUME ~IsWord(c), c = " " => q.uri # <<>> PROVE VersionCut(q, s)
  <2>1. CASE s.part = "method_end"
    BY <1>1, <1>7, <2>1 DEF UriCut, VersionCut
  <2>2. CASE s.part = "uri_end"
    BY <2>2 DEF UriCut, VersionCut
  <2> QED
    BY <1>1, <1>3, <1>7, <2>1, <2>2, SpecialCells
<1> QED
  BY <1>4, <1>5, <1>6, <1>7

LEMMA VersionCutMoves ==
    ASSUME NEW q, NEW q1, NEW s, NEW c, NEW t, Grows(s, c, t), VersionCut(q, s),
           q.version \in Seq(Cells), c \in Cells
    PROVE  /\ c = " " /\ q.version = <<>> => VersionCut(q, t) /\ t.part # "nothing" /\ Coming(t) = t
           /\ IsWord(c) /\ TookVersion(q1, q, c) => VersionCut(q1, t) /\ t.part # "nothing" /\ Coming(t) = t
           /\ ~IsWord(c) /\ (c = " " => q.version # <<>>) /\ q.version \in {<<>>, Version} => IsGood(q)
<1>1. /\ s.part = "method_end" => c = " " /\ t.part = "uri" /\ t.req.uri = s.req.uri
      /\ s.part = "uri" => /\ IsWord(c) /\ t.part \in {"uri", "uri_end"}
                           /\ t.req.uri = Append(s.req.uri, c)
      /\ s.part = "uri_end" => c = " " /\ t.part = "version"
      /\ s.part = "version" => IsWord(c) /\ t.part \in {"version", "line_cr"}
      /\ s.part = "line_cr" => c = CR
  BY DEF Grows, IsPart, Follows, Grew
<1>2. s.part = "uri_end" => s.req.uri \notin {<<>>, Version}
  BY DEF Grows, IsRight
<1>3. TookVersion(q1, q, c) => q1.version = Append(q.version, c) /\ q1.version # <<>> /\ q1.method = q.method
  BY DEF TookVersion
<1>4. s.part \in {"method_end", "uri", "uri_end", "version", "line_cr"}
  BY DEF VersionCut
<1>5. s.part # "line_cr" => t.part # "nothing" /\ Coming(t) = t
  BY <1>1, <1>4 DEF Coming
<1>6. CASE /\ q.method \in Methods
           /\ s.part \in {"uri", "uri_end", "version", "line_cr"}
           /\ s.part = "line_cr" => q.version # <<>>
  <2>1. ASSUME c = " ", q.version = <<>> PROVE VersionCut(q, t) /\ s.part # "line_cr"
    BY <1>1, <1>6, <2>1, SpecialCells DEF VersionCut
  <2>2. ASSUME IsWord(c), TookVersion(q1, q, c) PROVE VersionCut(q1, t) /\ s.part # "line_cr"
    BY <1>1, <1>3, <1>6, <2>2, SpecialCells DEF VersionCut
  <2>3. ASSUME ~IsWord(c), c = " " => q.version # <<>>, q.version \in {<<>>, Version} PROVE IsGood(q)
    BY <1>1, <1>6, <2>3, SpecialCells DEF IsGood
  <2> QED
    BY <1>5, <2>1, <2>2, <2>3
<1>7. CASE /\ s.part \in {"method_end", "uri", "uri_end"} /\ q.version = s.req.uri
           /\ s.part = "method_end" => q.version = <<>>
  <2>1. ASSUME c = " ", q.version = <<>> PROVE VersionCut(q, t) /\ s.part # "line_cr"
    BY <1>1, <1>2, <1>7, <2>1, SpecialCells DEF VersionCut
  <2>2. ASSUME IsWord(c), TookVersion(q1, q, c) PROVE VersionCut(q1, t) /\ s.part # "line_cr"
    BY <1>1, <1>3, <1>7, <2>2, SpecialCells DEF VersionCut
  <2>3. ASSUME ~IsWord(c), c = " " => q.version # <<>>, q.version \in {<<>>, Version} PROVE IsGood(q)
    BY <1>1, <1>2, <1>7, <2>3, SpecialCells
  <2> QED
    BY <1>5, <2>1, <2>2, <2>3
<1> QED
  BY <1>6, <1>7 DEF VersionCut

-----------------------------------------------------------------------------
(* What is known at each stage.                                              *)
LEMMA NormalIs ==
    ASSUME NormalAt
    PROVE  /\ stage \in {"loop", "checkpoint"} \cup Polling \cup {"method", "uri", "version"} => Now.turn = Turn
           /\ stage \in {"loop", "checkpoint"} => BetweenAt(Here, Now, ahead)
           /\ stage = "loop" => (~ahead => req = Empty) /\ (ahead => sess = NoSession)
           /\ stage = "next_method" => NextMethodAt(req, Here, Now, ahead)
           /\ stage = "next_uri" => NextUriAt(req, Now) /\ ahead /\ Here.part # "nothing"
           /\ stage \in {"method", "uri", "version"} /\ ahead => Here.part # "nothing"
           /\ stage = "method" => (~ahead => MethodAt(req, Now)) /\ (ahead => MethodLate(req, Now, consumed))
           /\ stage = "uri" => (~ahead => UriAt(req, Now)) /\ (ahead => UriLate(req, Now))
           /\ stage = "version" => (~ahead => VersionAt(req, Now)) /\ (ahead => VersionLate(req, Now))
           /\ stage = "body" => /\ Here.turn = Turn /\ Here.part \in {"body", "nothing"}
                                /\ BodyAt(req, Here) /\ IsJudged(req, Here, ahead)
           /\ stage = "serve" => /\ Here.turn = Turn /\ Here.part = "nothing" /\ ~ahead
                                 /\ BodyAt(req, Here) /\ Agrees(req, Here.req)
           /\ stage = "refuse" => Here.turn = Turn /\ Here.part = "nothing"
BY DEF NormalAt, RestsAt, StartsAt, ReadsAt, FinishesAt, SplitAt, Ends, Polling

(* The headers are being read.                                               *)
InHeaders ==
    /\ Now.turn = Turn /\ Here.part # "nothing"
    /\ IsJudged(req, Now, ahead) /\ ReadsAt(stage, cont, req, Now)

LEMMA HeadersAre ==
    ASSUME NormalAt, stage \in {"line", "line_cr", "header", "key", "colon", "space",
                                "value", "fold", "folded"}
    PROVE  InHeaders \/ (IsSplit /\ SplitAt(stage, req, ahead))
BY DEF NormalAt, RestsAt, StartsAt, FinishesAt, Ends, InHeaders

LEMMA ReadsAfter ==
    ASSUME NEW st, NEW co, NEW q, NEW s, ReadsAt(st, co, q, s)
    PROVE  s.part \notin {"method", "method_end", "uri", "uri_end", "version", "body", "nothing"}
BY DEF ReadsAt, LineAt, LineCrAt, HeaderAt, KeyAt, PastKeyAt, ValueAt, FoldAt, FoldedAt

LEMMA AgreesOn ==
    ASSUME NEW q, NEW q1, NEW s, NEW c, NEW t, Grows(s, c, t), NEW ah,
           s.part \notin {"method", "uri", "version"}, IsJudged(q, s, ah),
           q1.method = q.method, q1.uri = q.uri, q1.version = q.version
    PROVE  IsJudged(q1, t, ah)
<1>1. t.req.method = s.req.method /\ t.req.uri = s.req.uri /\ t.req.version = s.req.version
  BY DEF Grows, Grew
<1> QED
  BY <1>1 DEF IsJudged, Agrees, IsDoomed

LEMMA NextCell ==
    ASSUME IInv, Unread > 0, ReadOne, Now.part \notin {"empty_lf", "body"}
    PROVE  /\ Here' = Then /\ Now' = Then /\ Then.part # "nothing" /\ Then.turn = Now.turn
           /\ consumed' = consumed + 1
<1>1. Grows(Now, First, Then)
  BY NowGrows
<1>2. Then.part # "nothing" /\ Coming(Then) = Then
  BY <1>1, GoesOn
<1> QED
  BY <1>1, <1>2, ReadMoves DEF Grows, ReadOne

Keeps(q1, q) == q1.method = q.method /\ q1.uri = q.uri /\ q1.version = q.version

LEMMA InHeadersOn ==
    ASSUME IInv, Unread > 0, InHeaders, ReadOne, UNCHANGED <<answers, ahead>>,
           Keeps(req', req), ReadsAt(stage', cont', req', Then), Now.part # "empty_lf"
    PROVE  NormalAt'
<1>1. Now.part \notin {"method", "method_end", "uri", "uri_end", "version", "body", "nothing"}
  BY ReadsAfter DEF InHeaders
<1>2. Grows(Now, First, Then)
  BY NowGrows
<1>3. /\ Here' = Then /\ Now' = Then /\ Then.part # "nothing" /\ Then.turn = Now.turn
  BY <1>1, NextCell
<1>4. IsJudged(req', Then, ahead)
  BY <1>1, <1>2, AgreesOn DEF InHeaders, Keeps
<1>5. Turn' = Turn /\ ahead' = ahead
  BY DEF Turn
<1> QED
  BY <1>3, <1>4, <1>5 DEF NormalAt, InHeaders

LEMMA InHeadersStill ==
    ASSUME InHeaders, UNCHANGED consumed, UNCHANGED <<answers, ahead>>,
           Keeps(req', req), ReadsAt(stage', cont', req', Now)
    PROVE  NormalAt'
<1>1. Here' = Here /\ Now' = Now
  BY Stays
<1>2. IsJudged(req', Now, ahead)
  BY DEF InHeaders, Keeps, IsJudged, Agrees, IsDoomed
<1>3. Turn' = Turn /\ ahead' = ahead
  BY DEF Turn
<1> QED
  BY <1>1, <1>2, <1>3 DEF NormalAt, InHeaders

LEMMA SplitStill ==
    ASSUME IsSplit, UNCHANGED connexion
    PROVE  IsSplit'
BY DEF IsSplit, Unread, First, connexion

-----------------------------------------------------------------------------
LEMMA ReadMethodNormal == ASSUME IInv, PInv, ReadMethod PROVE Normal'
<1> SUFFICES ASSUME ~cancelled', etat' = "connected" PROVE NormalAt'
  BY DEF Normal
<1>1. /\ Unread > 0 /\ stage = "method" /\ ahead' = ahead /\ answers' = answers
      /\ cancelled' = cancelled /\ Turn' = Turn
  BY DEF ReadMethod, Enough, Aside, Turn
<1>2. /\ ReqType
      /\ DOMAIN req = DOMAIN Empty
  BY DEF PInv, ParserType, ReqType
<1>3. CASE IsGathered("method", IsToken(First)) /\ ReturnedOrThrown
  <2>1. stage' = "uri" /\ UNCHANGED <<req, connexion>> /\ etat' = etat
    BY <1>1, <1>3 DEF ReturnedOrThrown, Returned, connexion
  <2>2. NormalAt
    BY <1>1, <2>1 DEF PInv, Normal
  <2>3. Here' = Here /\ Now' = Now
    BY <2>1, Stays DEF connexion
  <2>4. ~IsToken(First) /\ (First = " " => req.method # <<>>)
    BY <1>3 DEF IsGathered
  <2>5. CASE ~ahead
    <3>1. UriAt(req, Now)
      BY <1>1, <2>2, <2>4, <2>5, NormalIs, NowGrows, MethodMoves
    <3> QED
      BY <1>1, <2>1, <2>2, <2>3, <2>5, <3>1, NormalIs DEF NormalAt, StartsAt
  <2>6. CASE ahead
    <3>1. MethodLate(req, Now, consumed) /\ Here.part # "nothing"
      BY <1>1, <2>2, <2>6, NormalIs
    <3>2. consumed \in 0..(Len(Stream) - 1) /\ consumed \in 1..consumed /\ Now = Said[consumed]
      BY <1>1, <3>1, CellIs, PlaceIs DEF IsPlace
    <3>3. First = Stream[consumed + 1] /\ Grows(Now, First, Then)
      BY <1>1, CellIs, NowGrows
    <3>4. UriLate(req, Now)
      BY <2>4, <3>1, <3>2, <3>3, MethodLateMoves
    <3> QED
      BY <1>1, <2>1, <2>2, <2>3, <2>6, <3>1, <3>4, NormalIs DEF NormalAt, StartsAt
  <2> QED
    BY <2>5, <2>6
<1>4. CASE ReadOne /\ (Gather("method", IsToken(First)))
  <2>1. stage' = "method" /\ etat' = etat
    BY <1>1, <1>4 DEF Gather, Skip, Take, ReadOne
  <2>2. NormalAt
    BY <1>1, <2>1 DEF PInv, Normal
  <2>3. Grows(Now, First, Then) /\ First = Stream[consumed + 1]
        /\ consumed \in 0..(Len(Stream) - 1)
    BY <1>1, CellIs, NowGrows
  <2>4. \/ First = " " /\ req.method = <<>> /\ req' = req
        \/ IsToken(First) /\ TookMethod(req', req, First)
    BY <1>2, <1>4, TakenIs DEF Gather, Skip, Take
  <2>5. CASE ~ahead
    <3>1. MethodAt(req, Now) /\ Now.part \in {"method", "method_end"}
      BY <1>1, <2>2, <2>5, NormalIs DEF MethodAt
    <3>2. IsToken(First) /\ TookMethod(req', req, First)
      BY <2>3, <2>4, <3>1, MethodMoves
    <3>3. MethodAt(req', Then)
      BY <2>3, <3>1, <3>2, MethodMoves
    <3>4. Now' = Then /\ Then.turn = Now.turn
      BY <1>1, <1>4, <3>1, NextCell
    <3> QED
      BY <1>1, <2>1, <2>2, <2>5, <3>3, <3>4, NormalIs DEF NormalAt, StartsAt
  <2>6. CASE ahead
    <3>1. MethodLate(req, Now, consumed) /\ Here.part # "nothing"
      BY <1>1, <2>2, <2>6, NormalIs
    <3>2. consumed \in 1..consumed /\ Now = Said[consumed]
      BY <1>1, <3>1, CellIs, PlaceIs DEF IsPlace
    <3>3. MethodLate(req', Then, consumed + 1)
      <4>1. CASE First = " " /\ req.method = <<>> /\ req' = req
        BY <2>3, <3>1, <3>2, <4>1, MethodLateMoves
      <4>2. CASE IsToken(First) /\ TookMethod(req', req, First)
        BY <2>3, <3>1, <3>2, <4>2, MethodLateMoves
      <4> QED
        BY <2>4, <4>1, <4>2
    <3>4. Now.part \notin {"empty_lf", "body"}
      BY <3>1 DEF MethodLate, InFirstLine
    <3>5. /\ Here' = Then /\ Now' = Then /\ Then.part # "nothing" /\ Then.turn = Now.turn
          /\ consumed' = consumed + 1
      BY <1>1, <1>4, <3>4, NextCell
    <3> QED
      BY <1>1, <2>1, <2>2, <2>6, <3>3, <3>5, NormalIs DEF NormalAt, StartsAt
  <2> QED
    BY <2>5, <2>6
<1> QED
  BY <1>3, <1>4 DEF ReadMethod, Gather, Skip, Take

LEMMA ReadUriNormal == ASSUME IInv, PInv, ReadUri PROVE Normal'
<1> SUFFICES ASSUME ~cancelled', etat' = "connected" PROVE NormalAt'
  BY DEF Normal
<1>1. /\ Unread > 0 /\ stage = "uri" /\ ahead' = ahead /\ answers' = answers
      /\ cancelled' = cancelled /\ Turn' = Turn
  BY DEF ReadUri, Enough, Aside, Turn
<1>2. DOMAIN req = DOMAIN Empty /\ req.uri \in Seq(Cells) /\ First \in Cells
  BY <1>1, CellIs DEF PInv, ParserType, ReqType
<1>3. Grows(Now, First, Then)
  BY <1>1, NowGrows
<1>4. CASE IsGathered("uri", IsWord(First)) /\ ReturnedOrThrown
  <2>1. stage' = "version" /\ UNCHANGED <<req, connexion>> /\ etat' = etat
    BY <1>1, <1>4 DEF ReturnedOrThrown, Returned, connexion
  <2>2. NormalAt
    BY <1>1, <2>1 DEF PInv, Normal
  <2>3. Here' = Here /\ Now' = Now
    BY <2>1, Stays DEF connexion
  <2>4. ~IsWord(First) /\ (First = " " => req.uri # <<>>)
    BY <1>4 DEF IsGathered
  <2>5. CASE ~ahead
    <3>1. VersionAt(req, Now)
      BY <1>1, <1>3, <2>2, <2>4, <2>5, NormalIs, UriMoves
    <3> QED
      BY <1>1, <2>1, <2>2, <2>3, <2>5, <3>1, NormalIs DEF NormalAt, StartsAt
  <2>6. CASE ahead
    <3>1. UriLate(req, Now) /\ Here.part # "nothing"
      BY <1>1, <2>2, <2>6, NormalIs
    <3>2. VersionLate(req, Now)
      BY <1>2, <1>3, <2>4, <3>1, UriLateMoves
    <3> QED
      BY <1>1, <2>1, <2>2, <2>3, <2>6, <3>1, <3>2, NormalIs DEF NormalAt, StartsAt
  <2> QED
    BY <2>5, <2>6
<1>5. CASE ReadOne /\ (Gather("uri", IsWord(First)))
  <2>1. stage' = "uri" /\ etat' = etat
    BY <1>1, <1>5 DEF Gather, Skip, Take, ReadOne
  <2>2. NormalAt
    BY <1>1, <2>1 DEF PInv, Normal
  <2>4. \/ First = " " /\ req.uri = <<>> /\ req' = req
        \/ IsWord(First) /\ TookUri(req', req, First)
    BY <1>2, <1>5, TakenIs DEF Gather, Skip, Take
  <2>5. CASE ~ahead
    <3>1. UriAt(req, Now) /\ Now.part \notin {"empty_lf", "body"}
      BY <1>1, <2>2, <2>5, NormalIs DEF UriAt
    <3>2. UriAt(req', Then)
      BY <1>3, <2>4, <3>1, UriMoves
    <3>4. Now' = Then /\ Then.turn = Now.turn
      BY <1>1, <1>5, <3>1, NextCell
    <3> QED
      BY <1>1, <2>1, <2>2, <2>5, <3>2, <3>4, NormalIs DEF NormalAt, StartsAt
  <2>6. CASE ahead
    <3>1. UriLate(req, Now) /\ Now.part \notin {"empty_lf", "body"}
      BY <1>1, <2>2, <2>6, NormalIs DEF UriLate
    <3>2. UriLate(req', Then)
      BY <1>2, <1>3, <2>4, <3>1, UriLateMoves
    <3>3. /\ Here' = Then /\ Now' = Then /\ Then.part # "nothing" /\ Then.turn = Now.turn
      BY <1>1, <1>5, <3>1, NextCell
    <3> QED
      BY <1>1, <2>1, <2>2, <2>6, <3>2, <3>3, NormalIs DEF NormalAt, StartsAt
  <2> QED
    BY <2>5, <2>6
<1> QED
  BY <1>4, <1>5 DEF ReadUri, Gather, Skip, Take

LEMMA ReadVersionNormal == ASSUME IInv, PInv, ReadVersion PROVE Normal'
<1> SUFFICES ASSUME ~cancelled', etat' = "connected" PROVE NormalAt'
  BY DEF Normal
<1>1. /\ Unread > 0 /\ stage = "version" /\ ahead' = ahead /\ answers' = answers
      /\ cancelled' = cancelled /\ Turn' = Turn
  BY DEF ReadVersion, Enough, Aside, Turn
<1>2. DOMAIN req = DOMAIN Empty
  BY DEF PInv, ParserType, ReqType
<1>3. Grows(Now, First, Then)
  BY <1>1, NowGrows
<1>4. CASE IsGathered("version", IsWord(First)) /\ ReturnedOrThrown
  <2>1. stage' \in {"line", "dropped"} /\ UNCHANGED req /\ cont' = "header"
        /\ (stage' = "line" => req.version \in {<<>>, Version})
    BY <1>1, <1>4 DEF ReturnedOrThrown, Returned
  <2>2. stage' # "dropped" /\ UNCHANGED connexion /\ etat' = etat
    BY <1>4, <2>1 DEF ReturnedOrThrown, Reset, connexion
  <2>3. NormalAt
    BY <1>1, <2>2 DEF PInv, Normal
  <2>4. Here' = Here /\ Now' = Now
    BY <2>2, Stays DEF connexion
  <2>5. ~IsWord(First) /\ (First = " " => req.version # <<>>)
    BY <1>4 DEF IsGathered
  <2>6. LineAt("header", req, Now) /\ IsJudged(req, Now, ahead)
    <3>1. CASE ~ahead
      BY <1>1, <1>3, <2>3, <2>5, <3>1, NormalIs, VersionMoves DEF IsJudged, VersionAt
    <3>2. CASE ahead
      BY <1>1, <1>3, <2>3, <2>5, <3>2, NormalIs, VersionLateMoves DEF IsJudged
    <3> QED
      BY <3>1, <3>2
  <2>7. Here.part # "nothing"
    <3>1. Now.part = "line_cr"
      BY <2>6 DEF LineAt
    <3> QED
      BY <3>1, PlaceIs DEF IsPlace, Beginning
  <2>8. ReadsAt("line", "header", req, Now)
    BY <2>6 DEF ReadsAt
  <2> QED
    BY <1>1, <2>1, <2>2, <2>3, <2>4, <2>6, <2>7, <2>8, NormalIs DEF NormalAt
<1>5. CASE ReadOne /\ (Gather("version", IsWord(First)))
  <2>1. stage' = "version" /\ etat' = etat
    BY <1>1, <1>5 DEF Gather, Skip, Take, ReadOne
  <2>2. NormalAt
    BY <1>1, <2>1 DEF PInv, Normal
  <2>4. \/ First = " " /\ req.version = <<>> /\ req' = req
        \/ IsWord(First) /\ TookVersion(req', req, First)
    BY <1>2, <1>5, TakenIs DEF Gather, Skip, Take
  <2>5. CASE ~ahead
    <3>1. VersionAt(req, Now) /\ Now.part \notin {"empty_lf", "body"}
      BY <1>1, <2>2, <2>5, NormalIs DEF VersionAt
    <3>2. VersionAt(req', Then)
      BY <1>3, <2>4, <3>1, VersionMoves
    <3>4. Now' = Then /\ Then.turn = Now.turn
      BY <1>1, <1>5, <3>1, NextCell
    <3> QED
      BY <1>1, <2>1, <2>2, <2>5, <3>2, <3>4, NormalIs DEF NormalAt, StartsAt
  <2>6. CASE ahead
    <3>1. VersionLate(req, Now) /\ Now.part \notin {"empty_lf", "body"}
      BY <1>1, <2>2, <2>6, NormalIs DEF VersionLate
    <3>2. VersionLate(req', Then)
      BY <1>3, <2>4, <3>1, VersionLateMoves
    <3>3. /\ Here' = Then /\ Now' = Then /\ Then.part # "nothing" /\ Then.turn = Now.turn
      BY <1>1, <1>5, <3>1, NextCell
    <3> QED
      BY <1>1, <2>1, <2>2, <2>6, <3>2, <3>3, NormalIs DEF NormalAt, StartsAt
  <2> QED
    BY <2>5, <2>6
<1> QED
  BY <1>4, <1>5 DEF ReadVersion, Gather, Skip, Take

-----------------------------------------------------------------------------
(* The header that is read.                                                  *)
LEMMA InHeadersAre ==
    ASSUME InHeaders
    PROVE  /\ stage = "line" => LineAt(cont, req, Now)
           /\ stage = "line_cr" => LineCrAt(cont, req, Now)
           /\ stage = "header" => HeaderAt(req, Now)
           /\ stage = "key" => KeyAt(req, Now)
           /\ stage \in {"colon", "space"} => PastKeyAt(stage, req, Now)
           /\ stage = "value" => ValueAt(req, Now)
           /\ stage = "fold" => FoldAt(req, Now)
           /\ stage = "folded" => FoldedAt(req, Now)
BY DEF InHeaders, ReadsAt

(* The next cell and the one after it.                                       *)
LEMMA SecondGrows ==
    ASSUME IInv, Unread > 0, First = CR => Unread > 1,
           Now.part \notin {"empty_lf", "body"}
    PROVE  First = CR => Grows(Then, Second, Said[consumed + 2])
<1>1. Grows(Now, First, Then)
  BY NowGrows
<1>2. Then.part # "nothing"
  BY <1>1, GoesOn
<1> QED
  BY <1>2, ThenGrows

LEMMA SkipLineNormal == ASSUME IInv, PInv, SkipLine PROVE Normal'
<1> SUFFICES ASSUME ~cancelled', etat' = "connected" PROVE NormalAt'
  BY DEF Normal
<1>1. /\ Unread > 0 /\ stage \in {"line", "line_cr"} /\ UNCHANGED <<answers, ahead, cancelled>>
      /\ req' = req /\ cont' = cont
  BY DEF SkipLine, Enough, Aside, Skip, SkipTo
<1>2. etat' = etat
  BY DEF SkipLine, Skip, SkipTo, ReadOne, connexion
<1>3. InHeaders
  BY <1>1, <1>2, HeadersAre DEF PInv, Normal, SplitAt
<1>4. Grows(Now, First, Then) /\ Keeps(req', req)
  BY <1>1, NowGrows DEF Keeps
<1>5. CASE stage = "line"
  <2>1. LineAt(cont, req, Now)
    BY <1>3, <1>5, InHeadersAre
  <2>2. First = CR /\ LineCrAt(cont, req, Then)
    BY <1>4, <2>1, LineMoves
  <2>3. ReadOne /\ stage' = "line_cr"
    BY <1>5, <2>2 DEF SkipLine, SkipTo
  <2>4. Now.part # "empty_lf"
    BY <2>1 DEF LineAt
  <2>5. ReadsAt(stage', cont', req', Then)
    BY <1>1, <2>2, <2>3 DEF ReadsAt
  <2> QED
    BY <1>1, <1>3, <1>4, <2>3, <2>4, <2>5, InHeadersOn
<1>6. CASE stage = "line_cr"
  <2>1. LineCrAt(cont, req, Now)
    BY <1>3, <1>6, InHeadersAre
  <2>2. First = LF /\ cont \in {"header", "fold", "body"}
    BY <1>4, <2>1, LineCrMoves
  <2>3. ReadOne /\ stage' = cont
    BY <1>6, <2>2 DEF SkipLine, SkipTo
  <2>4. CASE cont \in {"header", "fold"}
    <3>1. ReadsAt(stage', cont', req', Then)
      BY <1>1, <1>4, <2>1, <2>3, <2>4, LineCrMoves DEF ReadsAt
    <3>2. Now.part # "empty_lf"
      BY <2>1, <2>4 DEF LineCrAt
    <3> QED
      BY <1>1, <1>3, <1>4, <2>3, <3>1, <3>2, InHeadersOn
  <2>5. CASE cont = "body"
    <3>1. BodyAt(req, Then) /\ Then.part \in {"body", "nothing"}
      BY <1>4, <2>1, <2>5, LineCrMoves
    <3>2. Here' = Then /\ Then.turn = Turn
      BY <1>1, <1>3, <1>4, <2>3, ReadMoves DEF InHeaders, Grows
    <3>3. IsJudged(req, Then, ahead)
      BY <1>3, <1>4, ReadsAfter, AgreesOn DEF InHeaders
    <3>4. Turn' = Turn
      BY <1>1 DEF Turn
    <3> QED
      BY <1>1, <2>3, <2>5, <3>1, <3>2, <3>3, <3>4 DEF NormalAt, FinishesAt
  <2> QED
    BY <2>2, <2>4, <2>5
<1> QED
  BY <1>1, <1>5, <1>6

LEMMA IsEmptyLineNormal == ASSUME IInv, PInv, IsEmptyLine PROVE Normal'
<1> SUFFICES ASSUME ~cancelled', etat' = "connected" PROVE NormalAt'
  BY DEF Normal
<1>1. /\ Unread > 0 /\ stage = "header" /\ UNCHANGED <<answers, ahead, cancelled>>
      /\ First = CR => Unread > 1
  BY DEF IsEmptyLine, Enough, Aside
<1>2. DOMAIN req = DOMAIN Empty
  BY DEF PInv, ParserType, ReqType
<1>3. UNCHANGED connexion /\ etat' = etat /\ consumed' = consumed
  BY <1>1 DEF IsEmptyLine, ReturnedOrThrown, Returned, connexion
<1>4. ~IsSplit
  BY <1>1 DEF IsSplit, IInv, ConnexionType, Unread
<1>5. InHeaders /\ HeaderAt(req, Now)
  BY <1>1, <1>3, <1>4, HeadersAre, InHeadersAre DEF PInv, Normal
<1>6. Grows(Now, First, Then) /\ (First = CR => Grows(Then, Second, Said[consumed + 2]))
  BY <1>1, <1>5, NowGrows, SecondGrows DEF HeaderAt
<1>7. CASE First = CR
  <2>1. Second = LF /\ LineAt("body", req, Now)
    BY <1>5, <1>6, <1>7, HeaderMoves
  <2>2. stage' = "line" /\ cont' = "body" /\ req' = req
    BY <1>7, <2>1 DEF IsEmptyLine
  <2>3. ReadsAt(stage', cont', req', Now) /\ Keeps(req', req)
    BY <2>1, <2>2 DEF ReadsAt, Keeps
  <2> QED
    BY <1>1, <1>3, <1>5, <2>3, InHeadersStill
<1>8. CASE First # CR
  <2>1. stage' = "key" /\ req' = [req EXCEPT !.key = <<>>, !.value = <<>>]
    BY <1>1, <1>8 DEF IsEmptyLine, ReturnedOrThrown, Returned
  <2>2. /\ Agrees(req', req) /\ Keeps(req', req) /\ req'.key = <<>> /\ req'.value = <<>>
        /\ req'.attributes = req.attributes /\ req'.body = req.body
    BY <1>2, <2>1 DEF Agrees, Keeps, Empty
  <2>3. KeyAt(req', Now)
    BY <1>5, <1>6, <1>8, <2>2, HeaderMoves
  <2>4. ReadsAt(stage', cont', req', Now)
    BY <2>1, <2>3 DEF ReadsAt
  <2> QED
    BY <1>1, <1>3, <1>5, <2>2, <2>4, InHeadersStill
<1> QED
  BY <1>7, <1>8

LEMMA ReadKeyNormal == ASSUME IInv, PInv, ReadKey PROVE Normal'
<1> SUFFICES ASSUME ~cancelled', etat' = "connected" PROVE NormalAt'
  BY DEF Normal
<1>1. /\ Unread > 0 /\ stage = "key" /\ UNCHANGED <<answers, ahead, cancelled>>
  BY DEF ReadKey, Enough, Aside
<1>2. DOMAIN req = DOMAIN Empty
  BY DEF PInv, ParserType, ReqType
<1>3. CASE ~InHeaders
  <2>1. etat = "connected"
    BY DEF ReadKey, Gather, Skip, Take, ReadOne, ReturnedOrThrown, Reset, connexion
  <2>2. IsSplit /\ req.key = <<>>
    BY <1>1, <1>3, <2>1, HeadersAre DEF PInv, Normal, SplitAt
  <2>3. First = CR
    BY <2>2 DEF IsSplit
  <2>4. ReturnedOrThrown
    BY <2>3, SpecialCells DEF ReadKey, Gather
  <2>5. stage' = "dropped"
    BY <1>1, <2>2, <2>4 DEF ReturnedOrThrown, Returned
  <2> QED
    BY <2>4, <2>5 DEF ReturnedOrThrown, Reset
<1>4. CASE InHeaders
  <2>1. KeyAt(req, Now) /\ Grows(Now, First, Then)
    BY <1>1, <1>4, NowGrows, InHeadersAre
  <2>2. First # " "
    BY <2>1, KeyMoves
  <2>3. CASE IsToken(First)
    <3>1. Take("key")
      BY <2>2, <2>3 DEF ReadKey, Gather, IsGathered
    <3>2. TookKey(req', req, First) /\ ReadOne /\ stage' = "key"
      BY <1>1, <1>2, <3>1, TakenIs DEF Take
    <3>3. KeyAt(req', Then)
      BY <2>1, <2>3, <3>2, KeyMoves
    <3>4. ReadsAt(stage', cont', req', Then) /\ Keeps(req', req)
      BY <3>2, <3>3 DEF ReadsAt, Keeps, TookKey, Agrees
    <3>5. Now.part # "empty_lf"
      BY <2>1 DEF KeyAt
    <3> QED
      BY <1>1, <1>4, <3>2, <3>4, <3>5, InHeadersOn
  <2>4. CASE ~IsToken(First)
    <3>1. ReturnedOrThrown
      BY <2>2, <2>4 DEF ReadKey, Gather
    <3>2. req.key # <<>> /\ PastKeyAt("colon", req, Now)
      BY <2>1, <2>4, KeyMoves
    <3>3. stage' = "colon" /\ req' = req /\ consumed' = consumed
      BY <1>1, <3>1, <3>2 DEF ReturnedOrThrown, Returned, connexion
    <3>4. ReadsAt(stage', cont', req', Now) /\ Keeps(req', req)
      BY <3>2, <3>3 DEF ReadsAt, Keeps
    <3> QED
      BY <1>1, <1>4, <3>3, <3>4, InHeadersStill
  <2> QED
    BY <2>3, <2>4
<1> QED
  BY <1>3, <1>4

LEMMA SkipOverNormal == ASSUME IInv, PInv, SkipOver PROVE Normal'
<1> SUFFICES ASSUME ~cancelled', etat' = "connected" PROVE NormalAt'
  BY DEF Normal
<1>1. /\ Unread > 0 /\ stage \in {"colon", "space"} /\ UNCHANGED <<answers, ahead, cancelled>>
  BY DEF SkipOver, Enough, Aside
<1>2. etat' = etat /\ ReadOne /\ req' = req
  BY DEF SkipOver, Skip, SkipTo, ReadOne
<1>3. InHeaders
  BY <1>1, <1>2, HeadersAre DEF PInv, Normal, SplitAt
<1>4. Grows(Now, First, Then) /\ Keeps(req', req)
  BY <1>1, <1>2, NowGrows DEF Keeps
<1>5. PastKeyAt(stage, req, Now) /\ Now.part # "empty_lf"
  BY <1>1, <1>3, InHeadersAre DEF PastKeyAt
<1>6. CASE stage = "colon"
  <2>1. First = ":" /\ PastKeyAt("space", req, Then)
    BY <1>4, <1>5, <1>6, PastKeyMoves
  <2>2. stage' = "space"
    BY <1>6, <2>1 DEF SkipOver, SkipTo
  <2>3. ReadsAt(stage', cont', req', Then)
    BY <1>2, <2>1, <2>2 DEF ReadsAt
  <2> QED
    BY <1>1, <1>2, <1>3, <1>4, <1>5, <2>3, InHeadersOn
<1>7. CASE stage = "space"
  <2>1. First = " " /\ ValueAt(req, Then)
    BY <1>4, <1>5, <1>7, PastKeyMoves
  <2>2. stage' = "value"
    BY <1>7, <2>1 DEF SkipOver, SkipTo
  <2>3. ReadsAt(stage', cont', req', Then)
    BY <1>2, <2>1, <2>2 DEF ReadsAt
  <2> QED
    BY <1>1, <1>2, <1>3, <1>4, <1>5, <2>3, InHeadersOn
<1> QED
  BY <1>1, <1>6, <1>7

LEMMA ReadValueNormal == ASSUME IInv, PInv, ReadValue PROVE Normal'
<1> SUFFICES ASSUME ~cancelled', etat' = "connected" PROVE NormalAt'
  BY DEF Normal
<1>1. /\ Unread > 0 /\ stage = "value" /\ UNCHANGED <<answers, ahead, cancelled>>
      /\ First = CR => Unread > 1
  BY DEF ReadValue, Enough, Aside
<1>2. DOMAIN req = DOMAIN Empty
  BY DEF PInv, ParserType, ReqType
<1>3. etat' = etat
  BY DEF ReadValue, Take, ReadOne, connexion
<1>4. InHeaders /\ ValueAt(req, Now)
  BY <1>1, <1>3, HeadersAre, InHeadersAre DEF PInv, Normal, SplitAt
<1>5. Grows(Now, First, Then) /\ (First = CR => Grows(Then, Second, Said[consumed + 2]))
      /\ Now.part # "empty_lf"
  BY <1>1, <1>4, NowGrows, SecondGrows DEF ValueAt
<1>6. CASE First = CR
  <2>1. Second = LF /\ LineAt("fold", req, Now)
    BY <1>4, <1>5, <1>6, ValueMoves
  <2>2. stage' = "line" /\ cont' = "fold" /\ req' = req /\ consumed' = consumed
    BY <1>6, <2>1 DEF ReadValue, connexion
  <2>3. ReadsAt(stage', cont', req', Now) /\ Keeps(req', req)
    BY <2>1, <2>2 DEF ReadsAt, Keeps
  <2> QED
    BY <1>1, <1>4, <2>2, <2>3, InHeadersStill
<1>7. CASE First # CR
  <2>1. Take("value")
    BY <1>7 DEF ReadValue
  <2>2. TookValue(req', req, First) /\ ReadOne /\ stage' = "value"
    BY <1>1, <1>2, <2>1, TakenIs DEF Take
  <2>3. ValueAt(req', Then)
    BY <1>4, <1>5, <1>7, <2>2, ValueMoves
  <2>4. ReadsAt(stage', cont', req', Then) /\ Keeps(req', req)
    BY <2>2, <2>3 DEF ReadsAt, Keeps, TookValue, Agrees
  <2> QED
    BY <1>1, <1>4, <1>5, <2>2, <2>4, InHeadersOn
<1> QED
  BY <1>6, <1>7

LEMMA AddAttributeIs ==
    ASSUME AddAttribute, DOMAIN req = DOMAIN Empty
    PROVE  /\ Keeps(req', req) /\ req'.body = req.body /\ DOMAIN req' = DOMAIN req
           /\ req'.key = req.key
           /\ req.key # <<>> => req'.attributes = Gathered(req)
<1>1. DOMAIN req = {"method", "uri", "version", "key", "value", "attributes", "body"}
  BY DEF Empty
<1>2. PICK a : a = [k \in DOMAIN req.attributes \cup {req.key} |->
                      IF k \in DOMAIN req.attributes THEN req.attributes[k] ELSE req.value]
  OBVIOUS
<1>3. req' = [req EXCEPT !.attributes = a]
  BY <1>2 DEF AddAttribute
<1> QED
  BY <1>1, <1>2, <1>3 DEF Keeps, Gathered

LEMMA ReadFoldNormal == ASSUME IInv, PInv, ReadFold PROVE Normal'
<1> SUFFICES ASSUME ~cancelled', etat' = "connected" PROVE NormalAt'
  BY DEF Normal
<1>1. /\ Unread > 0 /\ stage \in {"fold", "folded"} /\ UNCHANGED <<answers, ahead, cancelled>>
  BY DEF ReadFold, Enough, Aside
<1>2. DOMAIN req = DOMAIN Empty
  BY DEF PInv, ParserType, ReqType
<1>3. etat' = etat
  BY DEF ReadFold, SkipTo, ReadOne, connexion, ReturnedOrThrown, Returned
<1>4. InHeaders \/ (IsSplit /\ SplitAt(stage, req, ahead))
  BY <1>1, <1>3, HeadersAre DEF PInv, Normal
<1>5. Grows(Now, First, Then)
  BY <1>1, NowGrows
<1>6. CASE ~InHeaders
  <2>1. IsSplit /\ First = CR /\ stage = "fold"
    BY <1>1, <1>4, <1>6 DEF SplitAt, IsSplit
  <2>2. ReturnedOrThrown
    BY <2>1, SpecialCells DEF ReadFold
  <2>3. stage' = "header" /\ AddAttribute
    BY <2>1, <2>2 DEF ReturnedOrThrown, Returned
  <2>4. UNCHANGED connexion
    BY <2>2, <2>3 DEF ReturnedOrThrown
  <2>5. Keeps(req', req) /\ IsSplit'
    BY <1>2, <2>1, <2>3, <2>4, AddAttributeIs, SplitStill
  <2>6. SplitAt(stage', req', ahead')
    BY <1>1, <1>4, <1>6, <2>3, <2>5 DEF SplitAt, IsGood, Keeps
  <2> QED
    BY <2>5, <2>6 DEF NormalAt
<1>7. CASE InHeaders /\ First = " "
  <2>1. SkipTo("folded")
    BY <1>7 DEF ReadFold
  <2>2. ReadOne /\ stage' = "folded" /\ req' = req /\ Keeps(req', req)
    BY <2>1 DEF SkipTo, Keeps
  <2>3. FoldedAt(req, Then) /\ Now.part # "empty_lf"
    <3>1. CASE stage = "fold"
      <4>1. FoldAt(req, Now)
        BY <1>7, <3>1, InHeadersAre
      <4>2. FoldedAt(req, Then)
        BY <1>5, <1>7, <4>1, FoldMoves
      <4> QED
        BY <4>1, <4>2 DEF FoldAt
    <3>2. CASE stage = "folded"
      <4>1. FoldedAt(req, Now)
        BY <1>7, <3>2, InHeadersAre
      <4>2. FoldedAt(req, Then)
        BY <1>5, <1>7, <4>1, FoldedMoves
      <4> QED
        BY <4>1, <4>2 DEF FoldedAt
    <3> QED
      BY <1>1, <3>1, <3>2
  <2>4. ReadsAt(stage', cont', req', Then)
    BY <2>2, <2>3 DEF ReadsAt
  <2> QED
    BY <1>1, <1>7, <2>2, <2>3, <2>4, InHeadersOn
<1>8. CASE InHeaders /\ First # " " /\ stage = "fold"
  <2>1. ReturnedOrThrown
    BY <1>8 DEF ReadFold
  <2>2. stage' = "header" /\ AddAttribute
    BY <1>8, <2>1 DEF ReturnedOrThrown, Returned
  <2>3. consumed' = consumed
    BY <2>1, <2>2 DEF ReturnedOrThrown, connexion
  <2>4. FoldAt(req, Now) /\ req.key # <<>>
    BY <1>8, InHeadersAre DEF FoldAt
  <2>5. Keeps(req', req) /\ req'.attributes = Gathered(req) /\ req'.body = req.body
    BY <1>2, <2>2, <2>4, AddAttributeIs
  <2>6. HeaderAt(req', Now)
    BY <1>5, <1>8, <2>4, <2>5, FoldMoves
  <2>7. ReadsAt(stage', cont', req', Now)
    BY <2>2, <2>6 DEF ReadsAt
  <2> QED
    BY <1>1, <1>8, <2>3, <2>5, <2>7, InHeadersStill
<1>9. CASE InHeaders /\ First # " " /\ stage = "folded"
  <2>1. req' = [req EXCEPT !.value = Append(@, " ")] /\ stage' = "value" /\ consumed' = consumed
    BY <1>9 DEF ReadFold, connexion
  <2>2. TookValue(req', req, " ") /\ Keeps(req', req)
    <3>1. DOMAIN req = {"method", "uri", "version", "key", "value", "attributes", "body"}
      BY <1>2 DEF Empty
    <3> QED
      BY <2>1, <3>1 DEF TookValue, Agrees, Keeps
  <2>3. ValueAt(req', Now)
    BY <1>5, <1>9, <2>2, InHeadersAre, FoldedMoves
  <2>4. ReadsAt(stage', cont', req', Now)
    BY <2>1, <2>3 DEF ReadsAt
  <2> QED
    BY <1>1, <1>9, <2>1, <2>2, <2>4, InHeadersStill
<1> QED
  BY <1>1, <1>6, <1>7, <1>8, <1>9

(* The body is whole when the length says so.                                *)
LEMMA BodyRead ==
    ASSUME IInv, PInv, NormalAt, stage = "body"
    PROVE  /\ Here.turn = Turn /\ BodyAt(req, Here) /\ IsJudged(req, Here, ahead)
           /\ IsRight(Here)
           /\ BodyIsRead => Here.part = "nothing" /\ ~HasNoLength
           /\ ~BodyIsRead => Here.part = "body"
<1>1. /\ Here.turn = Turn /\ Here.part \in {"body", "nothing"}
      /\ BodyAt(req, Here) /\ IsJudged(req, Here, ahead)
  BY NormalIs
<1>2. IsPlace(Here, Now, consumed)
  BY PlaceIs
<1>3. IsRight(Here)
  <2>1. CASE Here.part = "body"
    BY <1>2, <2>1 DEF IsPlace
  <2>2. CASE Here.part = "nothing"
    <3>1. Here.turn # 0
      <4>1. PICK n : n = Turn
        OBVIOUS
      <4>2. n \in Nat \ {0}
        BY <4>1 DEF Turn, PInv, ParserType
      <4> QED
        BY <1>1, <4>1, <4>2
    <3> QED
      BY <1>2, <3>1 DEF IsPlace
  <2> QED
    BY <1>1, <2>1, <2>2
<1>4. BodyIsRead <=> Here.part = "nothing"
  BY <1>1, <1>2, <1>3, BodyEnds DEF IsPlace, BodyIsRead, BodyLength
<1>5. Here.part = "nothing" => ~HasNoLength
  BY <1>1, <1>3 DEF IsRight, HasNoLength, BodyAt
<1> QED
  BY <1>1, <1>3, <1>4, <1>5

-----------------------------------------------------------------------------
LEMMA ReadBodyNormal == ASSUME IInv, PInv, ReadBody PROVE Normal'
<1> SUFFICES ASSUME ~cancelled', etat' = "connected" PROVE NormalAt'
  BY DEF Normal
<1>1. /\ stage = "body" /\ UNCHANGED <<answers, ahead, cancelled>> /\ Turn' = Turn
  BY DEF ReadBody, Aside, Turn
<1>2. DOMAIN req = DOMAIN Empty
  BY DEF PInv, ParserType, ReqType
<1>3. etat' = etat
  BY DEF ReadBody, Take, ReadOne, ReturnedOrThrown, Reset, connexion
<1>4. NormalAt
  BY <1>1, <1>3 DEF PInv, Normal
<1>5. /\ Here.turn = Turn /\ BodyAt(req, Here) /\ IsJudged(req, Here, ahead)
      /\ IsRight(Here)
      /\ BodyIsRead => Here.part = "nothing" /\ ~HasNoLength
      /\ ~BodyIsRead => Here.part = "body"
  BY <1>1, <1>4, BodyRead
<1>6. CASE ~BodyIsRead
  <2>1. Unread > 0 /\ Take("body")
    BY <1>6 DEF ReadBody, Enough
  <2>2. ReadOne /\ stage' = "body" /\ TookBody(req', req, First)
    BY <1>1, <1>2, <2>1, TakenIs DEF Take
  <2>3. Now = Here
    BY <1>5, <1>6, PlaceIs DEF IsPlace
  <2>4. Grows(Here, First, Then) /\ Here' = Then
    BY <2>1, <2>2, <2>3, NowGrows, ReadMoves
  <2>5. BodyAt(req', Then) /\ Then.part \in {"body", "nothing"} /\ Then.turn = Turn
    BY <1>5, <1>6, <2>2, <2>4, BodyMoves DEF Grows
  <2>6. IsJudged(req', Then, ahead)
    BY <1>5, <1>6, <2>2, <2>4, AgreesOn DEF TookBody, Agrees
  <2> QED
    BY <1>1, <2>2, <2>4, <2>5, <2>6 DEF NormalAt, FinishesAt
<1>7. CASE BodyIsRead
  <2>1. ReturnedOrThrown /\ Here.part = "nothing" /\ ~HasNoLength
    BY <1>5, <1>7 DEF ReadBody
  <2>2. stage' = IF IsSupported THEN "serve" ELSE "refuse"
    BY <1>1, <1>3, <2>1 DEF ReturnedOrThrown, Returned
  <2>3. req' = req /\ consumed' = consumed
    BY <1>1, <2>1, <2>2 DEF ReturnedOrThrown, Returned, connexion
  <2>4. Here' = Here
    BY <2>3, Stays
  <2>5. IsSupported => ~ahead /\ Agrees(req, Here.req)
    BY <1>5 DEF IsSupported, IsJudged, IsDoomed
  <2> QED
    BY <1>1, <1>5, <2>1, <2>2, <2>3, <2>4, <2>5 DEF NormalAt, FinishesAt
<1> QED
  BY <1>6, <1>7

(* The buffer has no room: only a line that ends with it stops the parser.   *)
LEMMA EndIsSplit ==
    ASSUME IInv, NeedsData, ~HasRoom
    PROVE  IsSplit /\ stage \in {"header", "value"}
<1>1. Len(buffer) = BufferSize /\ Unread > 0
  BY BufferAssumption DEF IInv, ConnexionType, HasRoom, Unread
<1>2. stage \in {"header", "value"} /\ First = CR /\ ~(Unread > 1)
  BY <1>1 DEF NeedsData, Enough
<1>3. Unread = 1
  BY <1>1, <1>2 DEF IInv, ConnexionType, Unread
<1> QED
  BY <1>1, <1>2, <1>3 DEF IsSplit

LEMMA HeadersGood ==
    ASSUME IInv, InHeaders, ~ahead
    PROVE  IsGood(req)
<1>1. Now.part \notin {"method", "method_end", "uri", "uri_end", "version", "body", "nothing"}
  BY ReadsAfter DEF InHeaders
<1>2. IsRight(Now)
  BY PlaceIs DEF IsPlace, InHeaders
<1>3. Agrees(req, Now.req)
  BY DEF InHeaders, IsJudged
<1> QED
  BY <1>1, <1>2, <1>3 DEF IsRight, Agrees, IsGood

LEMMA ConnexionStays ==
    ASSUME NoMoreData, etat' = "connected"
    PROVE  etat = "connected" /\ ~HasRoom /\ UNCHANGED <<buffer, already_read, consumed>>
BY DEF NoMoreData, read

LEMMA EndReachedNormal == ASSUME IInv, PInv, EndReached PROVE Normal'
<1> SUFFICES ASSUME ~cancelled', etat' = "connected" PROVE NormalAt'
  BY DEF Normal
<1>1. UNCHANGED <<answers, ahead, cancelled>> /\ NeedsData
  BY DEF EndReached, Aside
<1>2. stage' # "dropped" /\ NoMoreData
  BY DEF EndReached, Reset
<1>3. etat = "connected" /\ ~HasRoom /\ UNCHANGED <<buffer, already_read, consumed>>
  BY <1>2, ConnexionStays
<1>4. IsSplit /\ stage \in {"header", "value"}
  BY <1>1, <1>3, EndIsSplit
<1>5. IsSplit'
  BY <1>3, <1>4 DEF IsSplit, Unread, First
<1>6. InHeaders \/ SplitAt(stage, req, ahead)
  BY <1>1, <1>3, <1>4, HeadersAre DEF PInv, Normal
<1>7. ~ahead => IsGood(req)
  BY <1>6, HeadersGood DEF SplitAt
<1>8. DOMAIN req = DOMAIN Empty
  BY DEF PInv, ParserType, ReqType
<1>9. Returned
  BY <1>2, <1>4 DEF EndReached, Throws
<1>10. CASE stage = "header"
  <2>1. stage' = "key" /\ req' = [req EXCEPT !.key = <<>>, !.value = <<>>]
    BY <1>9, <1>10 DEF Returned
  <2>2. Keeps(req', req) /\ req'.key = <<>>
    BY <1>8, <2>1 DEF Keeps, Empty
  <2> QED
    BY <1>1, <1>5, <1>7, <2>1, <2>2 DEF NormalAt, SplitAt, IsGood, Keeps
<1>11. CASE stage = "value"
  <2>1. stage' = "fold" /\ req' = req
    BY <1>9, <1>11 DEF Returned
  <2> QED
    BY <1>1, <1>5, <1>7, <2>1 DEF NormalAt, SplitAt
<1> QED
  BY <1>4, <1>10, <1>11

-----------------------------------------------------------------------------
LEMMA BeginningIs ==
    ASSUME NEW n
    PROVE  LET s == Beginning(n)
           IN  /\ s.turn = n /\ s.part = "method" /\ s.req = Empty /\ IsAsked(s)
               /\ Empty.method = <<>> /\ Empty.uri = <<>> /\ Empty.version = <<>>
               /\ IsBlank(Empty)
BY DEF Beginning, IsAsked, IsBlank, Empty, InFirstLine

LEMMA LoopNormal == ASSUME IInv, PInv, Loop PROVE Normal'
<1> SUFFICES ASSUME ~cancelled', etat' = "connected" PROVE NormalAt'
  BY DEF Normal
<1>1. stage = "loop" /\ UNCHANGED <<req, answers, ahead, cancelled>>
  BY DEF Loop
<1>2. stage' # "bug" /\ UNCHANGED connexion
  BY DEF Loop, Reset
<1>3. NormalAt /\ etat = "connected" /\ consumed' = consumed
  BY <1>1, <1>2 DEF PInv, Normal, connexion
<1>4. Here' = Here /\ Now' = Now /\ Turn' = Turn /\ Now.turn = Turn
  BY <1>1, <1>3, Stays, NormalIs DEF Turn
<1>5. BetweenAt(Here, Now, ahead) /\ (~ahead => req = Empty) /\ (ahead => sess = NoSession)
  BY <1>1, <1>3, NormalIs
<1>6. CASE sess = NoSession
  <2>1. stage' = "checkpoint"
    BY <1>3, <1>6 DEF Loop
  <2> QED
    BY <1>1, <1>4, <1>5, <2>1 DEF NormalAt, RestsAt
<1>7. CASE sess # NoSession
  <2>1. stage' = "next_method"
    BY <1>2, <1>3, <1>7 DEF Loop
  <2>2. ~ahead /\ req = Empty /\ Here.part = "nothing"
    BY <1>5, <1>7 DEF BetweenAt
  <2>3. Now = Beginning(Here.turn + 1)
    BY <2>2, PlaceIs DEF IsPlace
  <2>4. NextMethodAt(req, Here, Now, ahead)
    BY <2>2, <2>3, BeginningIs DEF NextMethodAt
  <2> QED
    BY <1>1, <1>4, <2>1, <2>4 DEF NormalAt, RestsAt
<1> QED
  BY <1>6, <1>7

LEMMA PollNormal == ASSUME IInv, PInv, Poll PROVE Normal'
<1> SUFFICES ASSUME ~cancelled', etat' = "connected" PROVE NormalAt'
  BY DEF Normal
<1>1. /\ Unread > 0 /\ stage \in Polling /\ UNCHANGED <<answers, cancelled>> /\ Turn' = Turn
      /\ ahead' = (ahead \/ consumed' # consumed)
  BY DEF Poll, Enough, Turn
<1>2. etat' = etat
  BY DEF Poll, Gather, Skip, Take, ReadOne, connexion
<1>3. NormalAt /\ Now.turn = Turn
  BY <1>1, <1>2, NormalIs DEF PInv, Normal
<1>4. DOMAIN req = DOMAIN Empty /\ req.uri \in Seq(Cells) /\ First \in Cells
  BY <1>1, CellIs DEF PInv, ParserType, ReqType
<1>5. Grows(Now, First, Then)
  BY <1>1, NowGrows
<1>6. consumed \in Nat
  BY DEF IInv, ConnexionType
<1>7. ASSUME ReadOne, Now.part \notin {"empty_lf", "body"}
      PROVE  /\ Here' = Then /\ Now' = Then /\ Then.part # "nothing" /\ Then.turn = Turn /\ ahead'
  <2>0. consumed' # consumed
    BY <1>6, <1>7 DEF ReadOne
  <2>1. ahead'
    BY <1>1, <2>0, Zenon
  <2> QED
    BY <1>1, <1>3, <1>7, <2>1, NextCell
<1>8. ASSUME consumed' = consumed
      PROVE  Here' = Here /\ Now' = Now /\ (ahead' <=> ahead)
  BY <1>1, <1>8, Stays
<1>9. CASE stage = "next_method"
  <2>1. NextMethodAt(req, Here, Now, ahead)
    BY <1>3, <1>9, NormalIs
  <2>2. /\ IsAsked(Now) /\ Now.part \in {"method", "method_end"}
        /\ req.method = Now.req.method /\ req.uri = <<>>
        /\ (Here.part # "nothing" => ahead)
    BY <2>1 DEF NextMethodAt
  <2>3. CASE Gather("method", IsToken(First))
    <3>1. ReadOne /\ stage' = "next_method"
      BY <1>9, <2>3 DEF Gather, Skip, Take
    <3>2. IsToken(First) /\ TookMethod(req', req, First)
      BY <1>4, <1>5, <2>2, <2>3, TakenIs, NextMethodMoves DEF Gather, Take
    <3>3. /\ IsAsked(Then) /\ Then.part \in {"method", "method_end"}
          /\ req'.method = Then.req.method /\ req'.uri = <<>>
      BY <1>5, <2>2, <3>2, NextMethodMoves
    <3>4. /\ Here' = Then /\ Now' = Then /\ Then.part # "nothing" /\ Then.turn = Turn /\ ahead'
      BY <1>7, <2>2, <3>1
    <3>5. NextMethodAt(req', Then, Then, ahead')
      BY <3>3, <3>4 DEF NextMethodAt
    <3> QED
      BY <1>1, <3>1, <3>4, <3>5 DEF NormalAt, RestsAt
  <2>4. CASE IsGathered("method", IsToken(First)) /\ stage' = "next_uri" /\ UNCHANGED <<connexion, req>>
    <3>1. consumed' = consumed
      BY <2>4 DEF connexion
    <3>2. NextUriAt(req, Now) /\ Now.part # "method"
      BY <1>5, <2>2, <2>4, NextMethodMoves DEF IsGathered
    <3>3. Here.part # "nothing" /\ ahead
      BY <2>2, <3>2, PlaceIs, BeginningIs DEF IsPlace
    <3> QED
      BY <1>1, <1>3, <1>8, <2>4, <3>1, <3>2, <3>3 DEF NormalAt, RestsAt
  <2> QED
    BY <1>9, <2>3, <2>4 DEF Poll
<1>10. CASE stage = "next_uri"
  <2>1. NextUriAt(req, Now) /\ ahead /\ Here.part # "nothing"
    BY <1>3, <1>10, NormalIs
  <2>2. IsAsked(Now) /\ Now.part \in InFirstLine
    BY <1>4, <1>5, <2>1, NextUriMoves
  <2>3. CASE Gather("uri", IsWord(First))
    <3>1. ReadOne /\ stage' = "next_uri"
      BY <1>10, <2>3 DEF Gather, Skip, Take
    <3>2. \/ First = " " /\ req.uri = <<>> /\ req' = req
          \/ IsWord(First) /\ TookUri(req', req, First)
      BY <1>4, <2>3, TakenIs DEF Gather, Skip, Take
    <3>3. NextUriAt(req', Then)
      BY <1>4, <1>5, <2>1, <3>2, NextUriMoves
    <3>4. /\ Here' = Then /\ Now' = Then /\ Then.part # "nothing" /\ Then.turn = Turn /\ ahead'
      BY <1>7, <2>2, <3>1 DEF InFirstLine
    <3> QED
      BY <1>1, <3>1, <3>3, <3>4 DEF NormalAt, RestsAt
  <2>4. CASE ~Gather("uri", IsWord(First))
    <3>1. consumed' = consumed /\ stage' \in {"checkpoint", "loop"}
          /\ (stage' = "loop" => sess' = NoSession)
      BY <1>10, <2>4 DEF Poll, connexion
    <3>2. BetweenAt(Here, Now, ahead)
      BY <2>1, <2>2 DEF BetweenAt
    <3> QED
      BY <1>1, <1>3, <1>8, <2>1, <3>1, <3>2 DEF NormalAt, RestsAt
  <2> QED
    BY <2>3, <2>4
<1> QED
  BY <1>1, <1>9, <1>10 DEF Polling

LEMMA PollFailsNormal == ASSUME IInv, PInv, PollFails PROVE Normal'
<1> SUFFICES ASSUME ~cancelled', etat' = "connected" PROVE NormalAt'
  BY DEF Normal
<1>1. /\ stage \in Polling /\ UNCHANGED <<req, answers, cancelled, ahead>> /\ Turn' = Turn
      /\ stage' = "loop" /\ sess' = NoSession
  BY DEF PollFails, Turn
<1>2. etat' = etat /\ consumed' = consumed
  BY ConnexionStays DEF PollFails, connexion
<1>3. NormalAt /\ Now.turn = Turn
  BY <1>1, <1>2, NormalIs DEF PInv, Normal
<1>4. Here' = Here /\ Now' = Now
  BY <1>2, Stays
<1>5. BetweenAt(Here, Now, ahead) /\ (~ahead => req = Empty)
  <2>1. CASE stage = "next_method"
    BY <1>3, <2>1, NormalIs DEF NextMethodAt, BetweenAt, InFirstLine
  <2>2. CASE stage = "next_uri"
    BY <1>3, <2>2, NormalIs DEF NextUriAt, BetweenAt, InFirstLine
  <2> QED
    BY <1>1, <2>1, <2>2 DEF Polling
<1> QED
  BY <1>1, <1>3, <1>4, <1>5 DEF NormalAt, RestsAt

LEMMA GetRequestNormal == ASSUME IInv, PInv, GetRequest PROVE Normal'
<1> SUFFICES ASSUME ~cancelled', etat' = "connected" PROVE NormalAt'
  BY DEF Normal
<1>1. /\ stage = "checkpoint" /\ UNCHANGED <<answers, cancelled, ahead>> /\ Turn' = Turn
      /\ ~cancelled
  BY DEF GetRequest, Turn
<1>2. stage' = "method" /\ req' = Empty /\ UNCHANGED connexion
  BY <1>1 DEF GetRequest, Reset
<1>3. NormalAt /\ consumed' = consumed
  BY <1>1, <1>2 DEF PInv, Normal, connexion
<1>4. Here' = Here /\ Now' = Now /\ Now.turn = Turn /\ BetweenAt(Here, Now, ahead)
  BY <1>1, <1>3, Stays, NormalIs
<1>5. ASSUME ~ahead PROVE MethodAt(Empty, Now)
  <2>1. Now = Beginning(Here.turn + 1)
    BY <1>4, <1>5, PlaceIs DEF IsPlace, BetweenAt
  <2> QED
    BY <2>1, BeginningIs DEF MethodAt, Agrees
<1>6. ASSUME ahead PROVE MethodLate(Empty, Now, consumed) /\ Here.part # "nothing"
  BY <1>4, <1>6, BeginningIs DEF MethodLate, BetweenAt, IsLeft, InFirstLine
<1> QED
  BY <1>1, <1>2, <1>3, <1>4, <1>5, <1>6 DEF NormalAt, StartsAt

(* The server stands before the next request once it has answered one.       *)
LEMMA AnsweredNormal ==
    ASSUME IInv, PInv, NormalAt, stage \in {"serve", "refuse"}, NEW ans, SendAnswer(ans),
           etat' = "connected"
    PROVE  NormalAt'
<1>1. /\ answers' = Append(answers, ans) /\ req' = Empty /\ ahead' = FALSE
      /\ UNCHANGED connexion /\ stage' = "loop"
  BY DEF SendAnswer, Reset
<1>2. Here.turn = Turn /\ Here.part = "nothing"
  BY NormalIs
<1>3. Now = Beginning(Turn + 1) /\ consumed' = consumed
  BY <1>1, <1>2, PlaceIs DEF IsPlace, connexion
<1>4. Turn' = Turn + 1
  BY <1>1 DEF PInv, ParserType, Turn
<1>5. Here' = Here /\ Now' = Now /\ Now.turn = Turn' /\ IsAsked(Now)
  BY <1>3, <1>4, Stays, BeginningIs
<1>6. ~ahead'
  BY <1>1
<1> QED
  BY <1>1, <1>2, <1>5, <1>6 DEF NormalAt, RestsAt, BetweenAt

LEMMA ServeNormal == ASSUME IInv, PInv, Serve PROVE Normal'
<1> SUFFICES ASSUME ~cancelled', etat' = "connected" PROVE NormalAt'
  BY DEF Normal
<1>1. SendAnswer(req.uri) /\ stage = "serve"
  BY DEF Serve, Reset
<1>2. ~cancelled /\ etat = "connected"
  BY <1>1 DEF SendAnswer, Reset, connexion
<1> QED
  BY <1>1, <1>2, AnsweredNormal DEF PInv, Normal

LEMMA RefuseNormal == ASSUME IInv, PInv, Refuse PROVE Normal'
<1> SUFFICES ASSUME ~cancelled', etat' = "connected" PROVE NormalAt'
  BY DEF Normal
<1>1. SendAnswer(<<>>) /\ stage = "refuse"
  BY DEF Refuse, Reset
<1>2. ~cancelled /\ etat = "connected"
  BY <1>1 DEF SendAnswer, Reset, connexion
<1> QED
  BY <1>1, <1>2, AnsweredNormal DEF PInv, Normal

(* The client, the network, and nothing.                                     *)
LEMMA OutsideNormal ==
    ASSUME IInv, PInv, Send \/ HangUp \/ FillBuffer \/ UNCHANGED vars
    PROVE  Normal'
<1>1. UNCHANGED <<stage, parser>> /\ consumed' = consumed /\ etat' = etat
  BY DEF Send, HangUp, FillBuffer, SendOne, ClientCloses, Receive, vars, connexion
<1>2. UNCHANGED <<stage, cont, req, answered, sess, cancelled, ahead, answers>>
  BY <1>1 DEF parser
<1>3. IsSplit => IsSplit'
  <2>1. CASE FillBuffer
    BY <2>1 DEF FillBuffer, Receive, HasRoom, IsSplit, Unread, IInv, ConnexionType
  <2>2. CASE Send \/ HangUp \/ UNCHANGED vars
    BY <2>2 DEF Send, HangUp, SendOne, ClientCloses, read, vars, connexion, IsSplit, Unread, First
  <2> QED
    BY <2>1, <2>2
<1>4. Here' = Here /\ Now' = Now /\ Turn' = Turn
  BY <1>1, <1>2, Stays DEF Turn
<1>5. NormalAt => NormalAt'
  BY <1>1, <1>2, <1>3, <1>4 DEF NormalAt
<1> QED
  BY <1>1, <1>2, <1>5 DEF PInv, Normal

LEMMA NormalStep == ASSUME IInv, PInv, [Next]_vars PROVE Normal'
<1>1. CASE ReadRequest
  BY <1>1, ReadMethodNormal, ReadUriNormal, ReadVersionNormal, SkipLineNormal, IsEmptyLineNormal,
     ReadKeyNormal, SkipOverNormal, ReadValueNormal, ReadFoldNormal, ReadBodyNormal DEF ReadRequest
<1>2. CASE Cancel
  BY <1>2 DEF Cancel, Normal
<1>3. CASE Over \/ UNCHANGED vars
  BY <1>3, OutsideNormal DEF Over
<1>4. CASE Send \/ HangUp \/ FillBuffer
  BY <1>4, OutsideNormal
<1>5. CASE EndReached \/ Loop \/ Poll \/ PollFails \/ GetRequest \/ Serve \/ Refuse
  BY <1>5, EndReachedNormal, LoopNormal, PollNormal, PollFailsNormal, GetRequestNormal,
     ServeNormal, RefuseNormal
<1> QED
  BY <1>1, <1>2, <1>3, <1>4, <1>5 DEF Next, Server

-----------------------------------------------------------------------------
(* The types of what the parser holds.                                       *)
LEMMA TypeStep ==
    ASSUME IInv, ParserType, [Next]_vars
    PROVE  ParserType'
<1> DEFINE Fields == {"method", "uri", "version", "key", "value", "attributes", "body"}
<1>0. DOMAIN Empty = Fields /\ DOMAIN req = Fields
  BY DEF ParserType, ReqType, Empty
<1>1. ASSUME UNCHANGED req PROVE ReqType'
  BY <1>1 DEF ParserType, ReqType
<1>2. ASSUME req' = Empty PROVE ReqType'
  BY <1>0, <1>2 DEF ReqType, Empty
<1>3. ASSUME NEW f \in Fields, NEW c, req' = [req EXCEPT ![f] = Append(@, c)],
             c \in Cells \/ f \in {"value", "body"}
      PROVE  ReqType'
  <2>1. DOMAIN req' = Fields
    BY <1>0, <1>3
  <2>2. \A g \in Fields \ {f} : req'[g] = req[g]
    BY <1>0, <1>3
  <2>3. req'[f] = Append(req[f], c)
    BY <1>0, <1>3
  <2>4. ASSUME NEW g \in {"method", "uri", "version", "key"} PROVE req'[g] \in Seq(Cells)
    <3>1. req[g] \in Seq(Cells) /\ g \in Fields
      BY DEF ParserType, ReqType
    <3>2. CASE g = f
      BY <1>3, <2>3, <3>1, <3>2
    <3>3. CASE g # f
      BY <2>2, <3>1, <3>3
    <3> QED
      BY <3>2, <3>3
  <2> QED
    BY <1>0, <2>1, <2>4 DEF ReqType
<1>4. ASSUME Returned PROVE ReqType'
  <2>1. \/ req' = [req EXCEPT !.key = <<>>, !.value = <<>>]
        \/ req' = [req EXCEPT !.attributes = [k \in DOMAIN @ \cup {req.key} |->
                                                IF k \in DOMAIN @ THEN @[k] ELSE req.value]]
        \/ UNCHANGED req
    BY <1>4 DEF Returned, AddAttribute
  <2>2. CASE req' = [req EXCEPT !.key = <<>>, !.value = <<>>]
    BY <1>0, <2>2 DEF ParserType, ReqType
  <2>3. CASE req' = [req EXCEPT !.attributes = [k \in DOMAIN @ \cup {req.key} |->
                                                IF k \in DOMAIN @ THEN @[k] ELSE req.value]]
    <3>1. PICK a : req' = [req EXCEPT !.attributes = a]
      BY <2>3
    <3> QED
      BY <1>0, <3>1 DEF ParserType, ReqType
  <2> QED
    BY <1>1, <2>1, <2>2, <2>3
<1>5. Unread > 0 => First \in Cells
  BY CellIs
<1>6. cont \in {"header", "fold", "body"} /\ stage \in Stages
  BY DEF ParserType
<1>7. ASSUME Returned PROVE cont' \in {"header", "fold", "body"}
  BY <1>6, <1>7 DEF Returned
<1>8. ASSUME Returned, stage \in Reading PROVE stage' \in Stages
  <2>1. stage \in {"line", "line_cr"} => stage' = cont
    BY <1>8 DEF Returned
  <2>2. cont \in Stages
    BY <1>6 DEF Stages, Reading
  <2>3. stage \notin {"line", "line_cr"} =>
          stage' \in {"uri", "version", "line", "dropped", "key", "colon", "space", "value",
                      "fold", "header", "over", "serve", "refuse"}
    BY <1>8 DEF Returned, Reading
  <2>4. {"uri", "version", "line", "dropped", "key", "colon", "space", "value",
         "fold", "header", "over", "serve", "refuse"} \subseteq Stages
    BY DEF Stages, Reading, Ends
  <2> QED
    BY <2>1, <2>2, <2>3, <2>4
<1>10. CASE ReadRequest
  <2>1. UNCHANGED answers
    BY <1>10 DEF ReadRequest, ReadMethod, ReadUri, ReadVersion, SkipLine, IsEmptyLine, ReadKey,
                 SkipOver, ReadValue, ReadFold, ReadBody, Aside
  <2>2. stage \in Reading
    BY <1>10 DEF ReadRequest, ReadMethod, ReadUri, ReadVersion, SkipLine, IsEmptyLine, ReadKey,
                 SkipOver, ReadValue, ReadFold, ReadBody, Reading
  <2>3. \/ Returned
        \/ Unread > 0 /\ (Skip \/ (\E f \in Fields : Take(f)))
        \/ UNCHANGED req /\ cont' \in {"header", "fold", "body"} /\ stage' \in Stages
        \/ stage = "folded" /\ req' = [req EXCEPT !["value"] = Append(@, " ")] /\ cont' = cont /\ stage' = "value"
    <3> USE DEF Enough, ReturnedOrThrown
    <3>1. {"line_cr", "line", "body", "folded", "space", "value"} \subseteq Stages /\ cont \in Stages
      BY <1>6 DEF Stages, Reading
    <3>2. CASE ReadMethod \/ ReadUri \/ ReadVersion \/ ReadKey
      BY <3>2 DEF ReadMethod, ReadUri, ReadVersion, ReadKey, Gather
    <3>3. CASE SkipLine
      BY <1>6, <3>1, <3>3 DEF SkipLine, SkipTo
    <3>4. CASE IsEmptyLine
      BY <3>1, <3>4 DEF IsEmptyLine
    <3>5. CASE SkipOver
      BY <1>6, <3>1, <3>5 DEF SkipOver, SkipTo
    <3>6. CASE ReadValue
      BY <3>1, <3>6 DEF ReadValue
    <3>7. CASE ReadFold
      BY <1>6, <3>1, <3>7 DEF ReadFold, SkipTo
    <3>8. CASE ReadBody
      BY <3>8 DEF ReadBody
    <3> QED
      BY <1>10, <3>2, <3>3, <3>4, <3>5, <3>6, <3>7, <3>8 DEF ReadRequest
  <2>4. CASE Returned
    BY <1>4, <1>7, <1>8, <2>1, <2>2, <2>4 DEF ParserType
  <2>5. CASE Unread > 0 /\ (Skip \/ (\E f \in Fields : Take(f)))
    <3>1. CASE Skip
      BY <1>1, <2>1, <3>1 DEF ParserType, Skip
    <3>2. ASSUME NEW f \in Fields, Take(f) PROVE ParserType'
      BY <1>3, <1>5, <2>1, <2>5, <3>2 DEF ParserType, Take
    <3> QED
      BY <2>5, <3>1, <3>2
  <2>6. CASE UNCHANGED req /\ cont' \in {"header", "fold", "body"} /\ stage' \in Stages
    BY <1>1, <2>1, <2>6 DEF ParserType
  <2>7. CASE stage = "folded" /\ req' = [req EXCEPT !["value"] = Append(@, " ")] /\ cont' = cont /\ stage' = "value"
    BY <1>3, <2>1, <2>7 DEF ParserType, Stages, Reading
  <2> QED
    BY <2>3, <2>4, <2>5, <2>6, <2>7
<1>11. CASE EndReached \/ Cancel
  <2>1. UNCHANGED answers
    BY <1>11 DEF EndReached, Cancel, Aside
  <2>2. \/ Returned /\ stage \in Reading
        \/ UNCHANGED <<req, cont>> /\ stage' \in {stage, "dropped", "loop"}
    BY <1>11 DEF EndReached, Cancel
  <2>3. stage' \in Stages
    BY <1>6, <1>8, <2>2 DEF Stages, Ends
  <2> QED
    BY <1>1, <1>4, <1>7, <2>1, <2>2, <2>3 DEF ParserType
<1>12. CASE Poll
  <2>1. UNCHANGED answers /\ Unread > 0
    BY <1>12 DEF Poll, Enough
  <2>2. \/ Skip \/ (\E f \in Fields : Take(f))
        \/ UNCHANGED <<req, cont>> /\ stage' \in {"next_uri", "checkpoint", "loop"}
    BY <1>12 DEF Poll, Gather
  <2>3. CASE Skip
    BY <1>1, <2>1, <2>3 DEF ParserType, Skip
  <2>4. ASSUME NEW f \in Fields, Take(f) PROVE ParserType'
    BY <1>3, <1>5, <2>1, <2>4 DEF ParserType, Take
  <2>5. CASE UNCHANGED <<req, cont>> /\ stage' \in {"next_uri", "checkpoint", "loop"}
    BY <1>1, <2>1, <2>5 DEF ParserType, Stages, Polling
  <2> QED
    BY <2>2, <2>3, <2>4, <2>5
<1>13. CASE Loop \/ PollFails
  <2>1. UNCHANGED <<req, cont, answers>> /\ stage' \in {"over", "checkpoint", "bug", "next_method", "loop"}
    BY <1>13 DEF Loop, PollFails
  <2> QED
    BY <1>1, <2>1 DEF ParserType, Stages, Polling, Ends
<1>14. CASE GetRequest
  <2>1. /\ UNCHANGED <<cont, answers>> /\ stage' \in {"over", "method", "bug"}
        /\ req' = Empty \/ req' = req
    BY <1>14 DEF GetRequest
  <2> QED
    BY <1>1, <1>2, <2>1 DEF ParserType, Stages, Reading, Ends
<1>15. CASE Serve \/ Refuse
  <2>1. /\ cont' = cont /\ stage' \in {"loop", "failed", "bug"}
        /\ req' = Empty \/ req' = req
        /\ answers' \in {answers, Append(answers, req.uri), Append(answers, <<>>)}
    BY <1>15 DEF Serve, Refuse, SendAnswer
  <2>2. <<>> \in Seq(Cells) /\ req.uri \in Seq(Cells)
    BY DEF ParserType, ReqType
  <2>3. PICK S : S = Seq(Cells)
    OBVIOUS
  <2>4. answers \in Seq(S) /\ <<>> \in S /\ req.uri \in S
    BY <2>2, <2>3 DEF ParserType
  <2>5. Append(answers, req.uri) \in Seq(S) /\ Append(answers, <<>>) \in Seq(S)
    BY <2>4
  <2>6. answers' \in Seq(Seq(Cells))
    BY <2>1, <2>3, <2>4, <2>5
  <2> QED
    BY <1>1, <1>2, <2>1, <2>6 DEF ParserType, Stages, Ends
<1>16. CASE Send \/ HangUp \/ FillBuffer \/ Over \/ UNCHANGED vars
  <2>1. UNCHANGED <<stage, parser>>
    BY <1>16 DEF Send, HangUp, FillBuffer, Over, vars
  <2> QED
    BY <1>1, <2>1 DEF ParserType, parser
<1> QED
  BY <1>10, <1>11, <1>12, <1>13, <1>14, <1>15, <1>16 DEF Next, Server

-----------------------------------------------------------------------------
(* Past the first line, a request that is to be supported stays so.          *)
FirstStages == {"method", "uri", "version"}

LEMMA TakeKeeps ==
    ASSUME DOMAIN req = DOMAIN Empty, NEW f \in {"key", "value", "body"}, NEW c,
           req' = [req EXCEPT ![f] = Append(@, c)]
    PROVE  Keeps(req', req)
BY DEF Empty, Keeps

LEMMA ReturnedKeeps ==
    ASSUME ParserType, Returned, stage \in Reading
    PROVE  /\ Keeps(req', req)
           /\ stage \notin FirstStages => stage' \notin FirstStages
           /\ stage \notin {"body", "version", "key"} => stage' \in Reading
           /\ stage' \in Reading \cup {"dropped", "over", "serve", "refuse"}
<1>0. DOMAIN req = DOMAIN Empty
  BY DEF ParserType, ReqType
<1>1. Keeps(req', req)
  <2>1. CASE stage = "header"
    <3>1. req' = [req EXCEPT !.key = <<>>, !.value = <<>>]
      BY <2>1 DEF Returned
    <3> QED
      BY <1>0, <3>1 DEF Keeps, Empty
  <2>2. CASE stage \in {"fold", "folded"}
    <3>1. AddAttribute
      BY <2>2 DEF Returned
    <3> QED
      BY <1>0, <3>1, AddAttributeIs
  <2>3. CASE stage \notin {"header", "fold", "folded"}
    BY <2>3 DEF Returned, Keeps
  <2> QED
    BY <2>1, <2>2, <2>3
<1>2. cont \in {"header", "fold", "body"}
  BY DEF ParserType
<1>3. stage \in {"line", "line_cr"} => stage' = cont
  BY DEF Returned
<1>4. stage \notin {"line", "line_cr"} =>
         /\ stage \notin FirstStages => stage' \notin FirstStages
         /\ stage \notin {"body", "version", "key"} => stage' \in Reading
         /\ stage' \in Reading \cup {"dropped", "over", "serve", "refuse"}
  BY DEF Returned, Reading, FirstStages
<1> QED
  BY <1>1, <1>2, <1>3, <1>4 DEF Reading, FirstStages

LEMMA CutKept ==
    ASSUME Cut, Keeps(req', req), stage \in Reading \ FirstStages, stage' \notin FirstStages,
           UNCHANGED <<cancelled, ahead>>, etat' = "connected" => etat = "connected"
    PROVE  Cut'
BY DEF Cut, CutAt, IsGood, Keeps, FirstStages

(* Past the first line, what a function of the parser does to the request.   *)
LEMMA LateReads ==
    ASSUME ParserType,
           SkipLine \/ IsEmptyLine \/ ReadKey \/ SkipOver \/ ReadValue \/ ReadFold \/ ReadBody
    PROVE  /\ Keeps(req', req) /\ stage \in Reading \ FirstStages /\ stage' \notin FirstStages
           /\ UNCHANGED <<cancelled, ahead>> /\ (etat' = "connected" => etat = "connected")
<1>1. stage \in Reading \ FirstStages /\ UNCHANGED <<cancelled, ahead>>
  BY DEF SkipLine, IsEmptyLine, ReadKey, SkipOver, ReadValue, ReadFold, ReadBody, Aside,
         Reading, FirstStages
<1>2. \/ ReturnedOrThrown
      \/ \E f \in {"key", "value", "body"} : Take(f)
      \/ /\ UNCHANGED req /\ etat' = etat
         /\ stage' \in {stage, "line", "line_cr", "space", "value", "folded", cont}
      \/ /\ req' = [req EXCEPT !["value"] = Append(@, " ")]
         /\ stage' = "value" /\ UNCHANGED connexion
  <2> USE DEF Skip, SkipTo, ReadOne, connexion
  <2>1. CASE SkipLine
    BY <2>1 DEF SkipLine
  <2>2. CASE IsEmptyLine
    BY <2>2 DEF IsEmptyLine
  <2>3. CASE ReadKey
    BY <2>3 DEF ReadKey, Gather
  <2>4. CASE SkipOver
    BY <2>4 DEF SkipOver
  <2>5. CASE ReadValue
    BY <2>5 DEF ReadValue
  <2>6. CASE ReadFold
    BY <2>6 DEF ReadFold
  <2>7. CASE ReadBody
    BY <2>7 DEF ReadBody
  <2> QED
    BY <2>1, <2>2, <2>3, <2>4, <2>5, <2>6, <2>7
<1>3. DOMAIN req = DOMAIN Empty /\ cont \in {"header", "fold", "body"}
  BY DEF ParserType, ReqType
<1>4. CASE ReturnedOrThrown
  <2>1. etat' = "connected" => etat = "connected"
    BY <1>4 DEF ReturnedOrThrown, Reset, connexion
  <2> QED
    BY <1>1, <1>4, <2>1, ReturnedKeeps DEF ReturnedOrThrown
<1>5. ASSUME NEW f \in {"key", "value", "body"}, Take(f)
      PROVE  Keeps(req', req) /\ stage' \notin FirstStages /\ etat' = etat
  BY <1>1, <1>3, <1>5, TakeKeeps DEF Take, ReadOne
<1>6. CASE /\ UNCHANGED req /\ etat' = etat
           /\ stage' \in {stage, "line", "line_cr", "space", "value", "folded", cont}
  BY <1>1, <1>3, <1>6 DEF Keeps, FirstStages
<1>7. CASE /\ req' = [req EXCEPT !["value"] = Append(@, " ")]
           /\ stage' = "value" /\ UNCHANGED connexion
  BY <1>1, <1>3, <1>7, TakeKeeps DEF FirstStages, connexion
<1> QED
  BY <1>1, <1>2, <1>4, <1>5, <1>6, <1>7

(* The first line.                                                           *)
LEMMA ReadMethodCut == ASSUME IInv, PInv, ReadMethod PROVE Cut'
<1> SUFFICES ASSUME cancelled', ~ahead', etat' = "connected" PROVE CutAt(stage', req', Now')
  BY DEF Cut
<1>1. Unread > 0 /\ stage = "method" /\ UNCHANGED <<cancelled, ahead>>
  BY DEF ReadMethod, Enough, Aside
<1>2. etat' = etat
  BY <1>1 DEF ReadMethod, Gather, Skip, Take, ReadOne, ReturnedOrThrown, Returned, connexion
<1>3. MethodCut(req, Now) /\ Now.part \notin {"empty_lf", "body"}
  BY <1>1, <1>2 DEF PInv, Cut, CutAt, Reading, MethodCut
<1>4. Grows(Now, First, Then) /\ DOMAIN req = DOMAIN Empty
  BY <1>1, NowGrows DEF PInv, ParserType, ReqType
<1>5. CASE Gather("method", IsToken(First))
  <2>1. IsToken(First) /\ Take("method")
    BY <1>3, <1>4, <1>5, MethodCutMoves DEF Gather
  <2>2. ReadOne /\ stage' = "method" /\ TookMethod(req', req, First)
    BY <1>1, <1>4, <2>1, TakenIs DEF Take
  <2>3. MethodCut(req', Then)
    BY <1>3, <1>4, <2>1, <2>2, MethodCutMoves
  <2>4. Now' = Then
    BY <1>1, <1>3, <2>2, NextCell
  <2> QED
    BY <2>2, <2>3, <2>4 DEF CutAt
<1>6. CASE IsGathered("method", IsToken(First)) /\ ReturnedOrThrown
  <2>1. stage' = "uri" /\ req' = req /\ UNCHANGED connexion
    BY <1>1, <1>6 DEF ReturnedOrThrown, Returned
  <2>2. UriCut(req, Now)
    BY <1>3, <1>4, <1>6, MethodCutMoves DEF IsGathered
  <2>3. Now' = Now
    BY <2>1, Stays DEF connexion
  <2> QED
    BY <2>1, <2>2, <2>3 DEF CutAt
<1> QED
  BY <1>5, <1>6 DEF ReadMethod

LEMMA ReadUriCut == ASSUME IInv, PInv, ReadUri PROVE Cut'
<1> SUFFICES ASSUME cancelled', ~ahead', etat' = "connected" PROVE CutAt(stage', req', Now')
  BY DEF Cut
<1>1. Unread > 0 /\ stage = "uri" /\ UNCHANGED <<cancelled, ahead>>
  BY DEF ReadUri, Enough, Aside
<1>2. etat' = etat
  BY <1>1 DEF ReadUri, Gather, Skip, Take, ReadOne, ReturnedOrThrown, Returned, connexion
<1>3. UriCut(req, Now) /\ Now.part \notin {"empty_lf", "body"}
  BY <1>1, <1>2 DEF PInv, Cut, CutAt, Reading, UriCut
<1>4. /\ Grows(Now, First, Then) /\ DOMAIN req = DOMAIN Empty
      /\ req.uri \in Seq(Cells) /\ First \in Cells
  BY <1>1, NowGrows, CellIs DEF PInv, ParserType, ReqType
<1>5. CASE Gather("uri", IsWord(First))
  <2>1. ReadOne /\ stage' = "uri"
    BY <1>1, <1>5 DEF Gather, Skip, Take
  <2>2. \/ First = " " /\ req.uri = <<>> /\ req' = req
        \/ IsWord(First) /\ TookUri(req', req, First)
    BY <1>4, <1>5, TakenIs DEF Gather, Skip, Take
  <2>3. UriCut(req', Then)
    BY <1>3, <1>4, <2>2, UriCutMoves
  <2>4. Now' = Then
    BY <1>1, <1>3, <2>1, NextCell
  <2> QED
    BY <2>1, <2>3, <2>4 DEF CutAt
<1>6. CASE IsGathered("uri", IsWord(First)) /\ ReturnedOrThrown
  <2>1. stage' = "version" /\ req' = req /\ UNCHANGED connexion
    BY <1>1, <1>6 DEF ReturnedOrThrown, Returned
  <2>2. VersionCut(req, Now)
    BY <1>3, <1>4, <1>6, UriCutMoves DEF IsGathered
  <2>3. Now' = Now
    BY <2>1, Stays DEF connexion
  <2> QED
    BY <2>1, <2>2, <2>3 DEF CutAt
<1> QED
  BY <1>5, <1>6 DEF ReadUri

LEMMA ReadVersionCut == ASSUME IInv, PInv, ReadVersion PROVE Cut'
<1> SUFFICES ASSUME cancelled', ~ahead', etat' = "connected", stage' \in Reading
             PROVE  CutAt(stage', req', Now')
  BY DEF Cut
<1>1. Unread > 0 /\ stage = "version" /\ UNCHANGED <<cancelled, ahead>>
  BY DEF ReadVersion, Enough, Aside
<1>2. etat' = etat
  BY <1>1 DEF ReadVersion, Gather, Skip, Take, ReadOne, ReturnedOrThrown, Reset, connexion
<1>3. VersionCut(req, Now) /\ Now.part \notin {"empty_lf", "body"}
  BY <1>1, <1>2 DEF PInv, Cut, CutAt, Reading, VersionCut
<1>4. /\ Grows(Now, First, Then) /\ DOMAIN req = DOMAIN Empty
      /\ req.version \in Seq(Cells) /\ First \in Cells
  BY <1>1, NowGrows, CellIs DEF PInv, ParserType, ReqType
<1>5. CASE Gather("version", IsWord(First))
  <2>1. ReadOne /\ stage' = "version"
    BY <1>1, <1>5 DEF Gather, Skip, Take
  <2>2. \/ First = " " /\ req.version = <<>> /\ req' = req
        \/ IsWord(First) /\ TookVersion(req', req, First)
    BY <1>4, <1>5, TakenIs DEF Gather, Skip, Take
  <2>3. VersionCut(req', Then)
    BY <1>3, <1>4, <2>2, VersionCutMoves
  <2>4. Now' = Then
    BY <1>1, <1>3, <2>1, NextCell
  <2> QED
    BY <2>1, <2>3, <2>4 DEF CutAt
<1>6. CASE IsGathered("version", IsWord(First)) /\ ReturnedOrThrown
  <2>1. req' = req /\ stage' \in {"line", "dropped"}
        /\ (stage' = "line" => req.version \in {<<>>, Version})
    BY <1>1, <1>6 DEF ReturnedOrThrown, Returned
  <2>2. stage' = "line" => IsGood(req)
    BY <1>3, <1>4, <1>6, <2>1, VersionCutMoves DEF IsGathered
  <2> QED
    BY <2>1, <2>2 DEF CutAt, Reading
<1> QED
  BY <1>5, <1>6 DEF ReadVersion

LEMMA EndReachedCut == ASSUME IInv, PInv, EndReached PROVE Cut'
<1> SUFFICES ASSUME etat' = "connected" PROVE Cut'
  BY DEF Cut
<1>1. UNCHANGED <<ahead, cancelled>> /\ NeedsData /\ stage \in Reading
  BY DEF EndReached, Aside
<1>2. stage' # "dropped" /\ NoMoreData
  BY DEF EndReached, Reset
<1>3. etat = "connected" /\ ~HasRoom
  BY <1>2, ConnexionStays
<1>4. stage \in {"header", "value"}
  BY <1>1, <1>3, EndIsSplit
<1>5. Returned
  BY <1>2, <1>4 DEF EndReached, Throws
<1>6. stage \notin FirstStages
  BY <1>4 DEF FirstStages
<1> QED
  BY <1>1, <1>3, <1>5, <1>6, ReturnedKeeps, CutKept DEF PInv

(* The request that was being read when the thread was asked to end is the   *)
(* one that is sent.                                                         *)
LEMMA CancelCut == ASSUME IInv, PInv, Cancel PROVE Cut'
<1> SUFFICES ASSUME ~ahead', etat' = "connected", stage' \in Reading
             PROVE  CutAt(stage', req', Now')
  BY DEF Cut
<1>1. ~cancelled /\ ~ahead /\ stage' # "dropped"
  BY DEF Cancel, Reading
<1>2. UNCHANGED connexion
  BY <1>1 DEF Cancel
<1>3. NormalAt /\ Now' = Now
  BY <1>1, <1>2, Stays DEF PInv, Normal, connexion
<1>4. \/ UNCHANGED <<stage, req>>
      \/ stage \in Reading /\ ~Throws(TRUE) /\ Returned
  BY DEF Cancel, Reading
<1>5. stage \in Reading
  BY <1>4
<1>6. Now.part # "method" => IsRight(Now)
  BY PlaceIs DEF IsPlace, Beginning
<1>7. stage = "method" => MethodAt(req, Now)
  BY <1>1, <1>3, NormalIs
<1>8. stage = "uri" => UriAt(req, Now)
  BY <1>1, <1>3, NormalIs
<1>9. stage = "version" => VersionAt(req, Now)
  BY <1>1, <1>3, NormalIs
<1>10. ASSUME stage = "method" PROVE MethodCut(req, Now) /\ UriCut(req, Now)
  BY <1>6, <1>7, <1>10 DEF MethodAt, MethodCut, UriCut, IsAsked, IsBlank, Agrees, InFirstLine, IsRight
<1>11. ASSUME stage = "uri" PROVE UriCut(req, Now) /\ (req.uri # <<>> => VersionCut(req, Now))
  BY <1>6, <1>8, <1>11 DEF UriAt, UriCut, VersionCut, IsAsked, Agrees, InFirstLine, IsRight
<1>12. ASSUME stage = "version"
       PROVE  VersionCut(req, Now) /\ (req.version = Version => IsGood(req))
  <2>1. Now.part \in {"uri_end", "version", "line_cr"} /\ Agrees(req, Now.req)
    BY <1>9, <1>12 DEF VersionAt
  <2>2. req.method \in Methods /\ (Now.part = "line_cr" => req.version # <<>>)
    BY <1>6, <2>1, RequestsAssumption DEF IsRight, Agrees
  <2> QED
    BY <2>1, <2>2 DEF VersionCut, IsGood
<1>13. ASSUME stage \notin FirstStages PROVE IsGood(req)
  <2>1. CASE stage = "body"
    <3>1. Here.part \in {"body", "nothing"} /\ IsJudged(req, Here, ahead) /\ IsRight(Here)
      BY <1>3, <2>1, BodyRead DEF PInv
    <3>2. Agrees(req, Here.req) /\ Here.req.method \in Methods /\ Here.req.version = Version
      BY <1>1, <3>1 DEF IsRight, IsJudged
    <3> QED
      BY <3>2 DEF Agrees, IsGood
  <2>2. CASE stage # "body"
    <3>1. InHeaders \/ SplitAt(stage, req, ahead)
      BY <1>3, <1>5, <1>13, <2>2, HeadersAre DEF Reading, FirstStages
    <3> QED
      BY <1>1, <3>1, HeadersGood DEF SplitAt
  <2> QED
    BY <2>1, <2>2
<1>14. CASE UNCHANGED <<stage, req>>
  BY <1>3, <1>10, <1>11, <1>12, <1>13, <1>14 DEF CutAt, FirstStages
<1>15. CASE stage \in Reading /\ ~Throws(TRUE) /\ Returned
  <2>1. Keeps(req', req) /\ (stage \notin FirstStages => stage' \notin FirstStages)
    BY <1>15, ReturnedKeeps DEF PInv
  <2>2. CASE stage \notin FirstStages
    BY <1>13, <2>1, <2>2 DEF CutAt, FirstStages, IsGood, Keeps
  <2>3. CASE stage = "method"
    <3>1. stage' = "uri" /\ req' = req
      BY <1>15, <2>3 DEF Returned
    <3> QED
      BY <1>3, <1>10, <2>3, <3>1 DEF CutAt
  <2>4. CASE stage = "uri"
    <3>1. stage' = "version" /\ req' = req /\ req.uri # <<>>
      BY <1>15, <2>4 DEF Returned, Throws
    <3> QED
      BY <1>3, <1>11, <2>4, <3>1 DEF CutAt
  <2>5. CASE stage = "version"
    <3>1. stage' = "line" /\ req' = req /\ req.version = Version
      BY <1>1, <1>15, <2>5 DEF Returned, Throws
    <3> QED
      BY <1>3, <1>12, <2>5, <3>1 DEF CutAt
  <2> QED
    BY <2>2, <2>3, <2>4, <2>5 DEF FirstStages
<1> QED
  BY <1>4, <1>14, <1>15

LEMMA CutStep == ASSUME IInv, PInv, [Next]_vars PROVE Cut'
<1>1. CASE ReadRequest
  <2>1. CASE SkipLine \/ IsEmptyLine \/ ReadKey \/ SkipOver \/ ReadValue \/ ReadFold \/ ReadBody
    BY <2>1, LateReads, CutKept DEF PInv
  <2> QED
    BY <1>1, <2>1, ReadMethodCut, ReadUriCut, ReadVersionCut DEF ReadRequest
<1>2. CASE EndReached \/ Cancel
  BY <1>2, EndReachedCut, CancelCut
<1>3. CASE Loop \/ Poll \/ PollFails \/ Serve \/ Refuse
  <2>1. stage' \notin Reading
    <3>1. CASE Loop
      BY <3>1 DEF Loop, Reading
    <3>2. CASE Poll
      BY <3>2 DEF Poll, Gather, Skip, Take, Reading, Polling
    <3>3. CASE PollFails
      BY <3>3 DEF PollFails, Reading
    <3>4. CASE Serve \/ Refuse
      BY <3>4 DEF Serve, Refuse, SendAnswer, Reading
    <3> QED
      BY <1>3, <3>1, <3>2, <3>3, <3>4
  <2> QED
    BY <2>1 DEF Cut
<1>4. CASE GetRequest
  <2>1. cancelled' => stage' = "over"
    BY <1>4 DEF GetRequest
  <2> QED
    BY <2>1 DEF Cut, Reading
<1>5. CASE Send \/ HangUp \/ FillBuffer \/ Over \/ UNCHANGED vars
  <2>1. UNCHANGED <<stage, parser>> /\ consumed' = consumed /\ etat' = etat
    BY <1>5 DEF Send, HangUp, FillBuffer, Over, SendOne, ClientCloses, Receive, vars, connexion
  <2>2. UNCHANGED <<stage, req, cancelled, ahead>> /\ Now' = Now
    BY <2>1, Stays DEF parser
  <2> QED
    BY <2>1, <2>2 DEF PInv, Cut
<1> QED
  BY <1>1, <1>2, <1>3, <1>4, <1>5 DEF Next, Server

-----------------------------------------------------------------------------
(* Why a request may not be parsed, or not be answered by a session.         *)
LEMMA ReadRequestIs ==
    ASSUME ReadRequest, ParserType
    PROVE  /\ stage \in Reading /\ UNCHANGED <<answered, cancelled, ahead, answers, peer>>
           /\ stage' \in Reading \cup {"dropped", "over", "serve", "refuse"}
           /\ stage' # "dropped" => etat' = etat
           /\ sess' = IF stage' \in Ends THEN NoSession ELSE sess
           /\ stage' \in {"over", "serve", "refuse"} => stage = "body" /\ BodyIsRead /\ Returned /\ UNCHANGED connexion
           /\ stage' = "dropped" =>
                /\ UNCHANGED <<buffer, already_read>> /\ stage \in {"version", "key", "body"}
                /\ stage = "version" => /\ ReadVersion /\ IsGathered("version", IsWord(First))
                                        /\ req.version \notin {<<>>, Version}
                /\ stage = "key" => ReadKey /\ IsGathered("key", IsToken(First)) /\ req.key = <<>>
                /\ stage = "body" => BodyIsRead /\ HasNoLength
<1>1. stage \in Reading /\ Aside
  BY DEF ReadRequest, ReadMethod, ReadUri, ReadVersion, SkipLine, IsEmptyLine, ReadKey,
         SkipOver, ReadValue, ReadFold, ReadBody, Reading
<1>2. cont \in Reading
  BY DEF ParserType, Reading
<1>3. \/ /\ stage' \in {stage, "line", "line_cr", "space", "value", "folded", cont}
         /\ UNCHANGED peer /\ etat' = etat
      \/ /\ ReturnedOrThrown
         /\ stage = "version" => ReadVersion /\ IsGathered("version", IsWord(First))
         /\ stage = "key" => ReadKey /\ IsGathered("key", IsToken(First))
         /\ stage = "body" => BodyIsRead
  <2> USE DEF Skip, SkipTo, Take, ReadOne, connexion, Gather
  <2>1. CASE ReadMethod
    BY <2>1 DEF ReadMethod
  <2>2. CASE ReadUri
    BY <2>2 DEF ReadUri
  <2>3. CASE ReadVersion
    BY <2>3 DEF ReadVersion
  <2>4. CASE SkipLine
    BY <2>4 DEF SkipLine
  <2>5. CASE IsEmptyLine
    BY <2>5 DEF IsEmptyLine
  <2>6. CASE ReadKey
    BY <2>6 DEF ReadKey
  <2>7. CASE SkipOver
    BY <2>7 DEF SkipOver
  <2>8. CASE ReadValue
    BY <2>8 DEF ReadValue
  <2>9. CASE ReadFold
    BY <2>9 DEF ReadFold
  <2>10. CASE ReadBody
    BY <2>10 DEF ReadBody
  <2> QED
    BY <2>1, <2>2, <2>3, <2>4, <2>5, <2>6, <2>7, <2>8, <2>9, <2>10 DEF ReadRequest
<1>4. CASE /\ stage' \in {stage, "line", "line_cr", "space", "value", "folded", cont}
           /\ UNCHANGED peer /\ etat' = etat
  <2>1. stage' \in Reading
    BY <1>1, <1>2, <1>4 DEF Reading
  <2> QED
    BY <1>1, <1>4, <2>1 DEF Reading, Aside
<1>5. CASE /\ ReturnedOrThrown
           /\ stage = "version" => ReadVersion /\ IsGathered("version", IsWord(First))
           /\ stage = "key" => ReadKey /\ IsGathered("key", IsToken(First))
           /\ stage = "body" => BodyIsRead
  <2>1. UNCHANGED <<peer, buffer, already_read>> /\ (stage' # "dropped" => UNCHANGED connexion)
    BY <1>5 DEF ReturnedOrThrown, Reset, read, connexion
  <2>2. Returned
    BY <1>5 DEF ReturnedOrThrown
  <2>3. stage' \in Reading \cup {"dropped", "over", "serve", "refuse"}
    BY <1>1, <2>2, ReturnedKeeps
  <2>4. stage \notin {"body"} => stage' \notin {"over", "serve", "refuse"}
    BY <1>1, <1>2, <2>2 DEF Returned, Reading
  <2>5. stage' = "dropped" =>
           /\ stage \in {"version", "key", "body"}
           /\ stage = "version" => req.version \notin {<<>>, Version}
           /\ stage = "key" => req.key = <<>>
           /\ stage = "body" => HasNoLength
    BY <1>1, <1>2, <2>2 DEF Returned, Reading
  <2>6. stage' # "dropped" => etat' = etat
    BY <2>1 DEF connexion
  <2> QED
    BY <1>1, <1>5, <2>1, <2>2, <2>3, <2>4, <2>5, <2>6 DEF Aside, Reading
<1> QED
  BY <1>3, <1>4, <1>5

(* A request is dropped only where a line was cut.                           *)
LEMMA NotDropped ==
    ASSUME IInv, PInv, NormalAt, ReadRequest, stage' = "dropped"
    PROVE  IsSplit'
<1>1. /\ UNCHANGED <<buffer, already_read>> /\ stage \in {"version", "key", "body"}
      /\ stage = "version" => /\ ReadVersion /\ IsGathered("version", IsWord(First))
                              /\ req.version \notin {<<>>, Version}
      /\ stage = "key" => ReadKey /\ IsGathered("key", IsToken(First)) /\ req.key = <<>>
      /\ stage = "body" => BodyIsRead /\ HasNoLength
  BY ReadRequestIs DEF PInv
<1>2. stage # "body"
  BY <1>1, BodyRead
<1>3. stage # "version"
  <2> SUFFICES ASSUME stage = "version" PROVE FALSE
    OBVIOUS
  <2>1. Unread > 0 /\ ~IsWord(First) /\ (First = " " => req.version # <<>>)
    BY <1>1 DEF ReadVersion, Enough, IsGathered
  <2>2. Grows(Now, First, Then)
    BY <2>1, NowGrows
  <2>3. CASE ahead
    <3>1. VersionLate(req, Now)
      BY <2>3, NormalIs
    <3> QED
      BY <1>1, <2>1, <2>2, <3>1, VersionLateMoves
  <2>4. CASE ~ahead
    <3>1. VersionAt(req, Now)
      BY <2>4, NormalIs
    <3> QED
      BY <1>1, <2>1, <2>2, <3>1, VersionMoves DEF IsGood
  <2> QED
    BY <2>3, <2>4
<1>4. stage = "key"
  BY <1>1, <1>2, <1>3
<1>5. Unread > 0 /\ ~IsToken(First) /\ req.key = <<>>
  BY <1>1, <1>4 DEF ReadKey, Enough, IsGathered
<1>6. ~InHeaders
  <2> SUFFICES ASSUME InHeaders PROVE FALSE
    OBVIOUS
  <2>1. KeyAt(req, Now)
    BY <1>4, InHeadersAre
  <2> QED
    BY <1>5, <2>1, NowGrows, KeyMoves
<1>7. IsSplit
  BY <1>4, <1>6, HeadersAre
<1> QED
  BY <1>1, <1>7 DEF IsSplit, Unread, First

LEMMA ReadRequestReasons == ASSUME IInv, PInv, ReadRequest PROVE Reasons'
<1>1. /\ stage \in Reading /\ UNCHANGED <<answered, cancelled, ahead, answers, peer>>
      /\ stage' \in Reading \cup {"dropped", "over", "serve", "refuse"}
      /\ stage' # "dropped" => etat' = etat
      /\ sess' = IF stage' \in Ends THEN NoSession ELSE sess
      /\ stage' \in {"over", "serve", "refuse"} =>
            stage = "body" /\ BodyIsRead /\ Returned /\ UNCHANGED connexion
  BY ReadRequestIs DEF PInv
<1>2. /\ stage \in Reading /\ sess # NoSession => ahead
      /\ stage \in Reading /\ etat # "connected" => peer = "closed"
  BY DEF PInv, Reasons
<1>3. stage' \in {"serve", "refuse"} => etat = "connected"
                                       /\ (stage' = "refuse" => ~IsSupported)
  BY <1>1 DEF Returned
<1>4. ASSUME stage' = "refuse" PROVE ahead
  <2> SUFFICES ASSUME ~ahead PROVE FALSE
    OBVIOUS
  <2>1. CASE cancelled
    <3>1. IsGood(req)
      BY <1>1, <1>3, <1>4, <2>1 DEF PInv, Cut, CutAt
    <3> QED
      BY <1>3, <1>4, <3>1 DEF IsGood, IsSupported
  <2>2. CASE ~cancelled
    <3>1. NormalAt
      BY <1>3, <1>4, <2>2 DEF PInv, Normal
    <3>2. IsJudged(req, Here, ahead) /\ IsRight(Here) /\ Here.part = "nothing"
      BY <1>1, <1>4, <3>1, BodyRead
    <3> QED
      BY <1>3, <1>4, <3>2 DEF IsRight, IsJudged, Agrees, IsSupported
  <2> QED
    BY <2>1, <2>2
<1>5. ASSUME stage' = "dropped" PROVE cancelled \/ peer = "closed" \/ IsSplit'
  BY <1>1, <1>2, <1>5, NotDropped DEF PInv, Normal
<1>6. stage' \notin {"loop", "checkpoint", "bug"} \cup Polling
  BY <1>1 DEF Reading, Polling
<1>7. /\ stage' \in Reading => stage' \notin Ends \cup {"checkpoint", "serve", "refuse"}
      /\ stage' \in {"serve", "refuse"} => stage' \notin Ends
  BY DEF Reading, Ends
<1>8. RefusedForAReason'
  BY <1>1, <1>4, <1>5, <1>6 DEF RefusedForAReason
<1>9. stage' \in {"checkpoint", "serve", "refuse"} \cup Polling => etat' = "connected"
  BY <1>1, <1>3, <1>6
<1>10. stage' \in Reading \cup {"checkpoint", "serve", "refuse"} /\ sess' # NoSession => ahead'
  BY <1>1, <1>2
<1>11. stage' \in Reading /\ etat' # "connected" => peer' = "closed"
  BY <1>1, <1>2, <1>7 DEF Ends
<1> QED
  BY <1>6, <1>8, <1>9, <1>10, <1>11 DEF Reasons

LEMMA EndReachedReasons == ASSUME IInv, PInv, EndReached PROVE Reasons'
<1>1. /\ stage \in Reading /\ UNCHANGED <<answered, cancelled, ahead, answers>> /\ NeedsData /\ IsOver
      /\ sess' = IF stage' \in Ends THEN NoSession ELSE sess
      /\ peer' = peer /\ UNCHANGED <<buffer, already_read>>
  BY DEF EndReached, Aside, Reset, NoMoreData, read
<1>2. /\ sess # NoSession => ahead
      /\ etat # "connected" => peer = "closed"
  BY <1>1 DEF PInv, Reasons
<1>3. stage' \in Reading \cup {"dropped"} /\ (~Throws(FALSE) => Returned)
  <2>1. CASE Throws(FALSE)
    BY <2>1 DEF EndReached
  <2>2. CASE ~Throws(FALSE)
    <3>1. Returned /\ stage # "body"
      BY <2>2 DEF EndReached, Throws
    <3>2. cont \in Reading
      BY DEF PInv, ParserType, Reading
    <3> QED
      BY <1>1, <3>1, <3>2 DEF Returned, Reading
  <2> QED
    BY <2>1, <2>2
<1>4. HasRoom => peer = "closed"
  BY <1>1, <1>2 DEF IsOver
<1>5. ASSUME stage' = "dropped" PROVE peer' = "closed"
  <2> SUFFICES ASSUME ~HasRoom PROVE FALSE
    BY <1>1, <1>4
  <2>1. stage \in {"header", "value"}
    BY <1>1, EndIsSplit
  <2> QED
    BY <1>3, <1>5, <2>1 DEF Throws, Returned
<1>6. etat' # "connected" /\ stage' \in Reading => peer' = "closed"
  <2>1. stage' \in Reading => NoMoreData
    BY DEF EndReached, Reading
  <2> QED
    BY <1>1, <1>2, <1>4, <2>1 DEF NoMoreData
<1>7. stage' \notin {"loop", "checkpoint", "serve", "refuse", "bug"} \cup Polling
  BY <1>3 DEF Reading, Polling
<1>8. RefusedForAReason'
  BY <1>5, <1>7 DEF RefusedForAReason
<1>9. stage' \in Reading /\ sess' # NoSession => ahead'
  BY <1>1, <1>2
<1> QED
  BY <1>6, <1>7, <1>8, <1>9 DEF Reasons

LEMMA CancelReasons == ASSUME IInv, PInv, Cancel PROVE Reasons'
<1>1. /\ cancelled' /\ UNCHANGED <<answered, ahead, answers>> /\ stage \notin Ends
      /\ sess' = IF stage' \in Ends THEN NoSession ELSE sess
  BY DEF Cancel
<1>2. CASE UNCHANGED <<connexion, stage, req>>
  <2>1. UNCHANGED <<stage, req, etat, peer>>
    BY <1>2 DEF connexion
  <2>2. sess' = sess /\ stage' \notin {"dropped", "bug"}
    BY <1>1, <2>1 DEF Ends
  <2>3. (stage' = "refuse") => ahead'
    BY <1>1, <2>1 DEF PInv, Reasons, RefusedForAReason
  <2>4. RefusedForAReason'
    BY <2>2, <2>3 DEF RefusedForAReason
  <2> QED
    BY <1>1, <2>1, <2>2, <2>4 DEF PInv, Reasons
<1>3. CASE ~UNCHANGED <<connexion, stage, req>>
  <2>1. /\ stage \in Reading
        /\ \/ stage' = "loop" /\ Throws(TRUE)
           \/ ~Throws(TRUE) /\ Returned
        /\ stage' # "dropped" => UNCHANGED connexion
    BY <1>3 DEF Cancel
  <2>2. stage' \in Reading \cup {"dropped", "loop"}
    <3>1. CASE stage' = "loop"
      BY <3>1
    <3>2. CASE ~Throws(TRUE) /\ Returned
      <4>1. stage # "body"
        BY <3>2 DEF Throws
      <4>2. cont \in Reading
        BY DEF PInv, ParserType, Reading
      <4> QED
        BY <2>1, <3>2, <4>1, <4>2 DEF Returned, Reading
    <3> QED
      BY <2>1, <3>1, <3>2
  <2>3. (sess # NoSession => ahead) /\ (etat # "connected" => peer = "closed")
    BY <2>1 DEF PInv, Reasons
  <2>4. stage' \notin {"checkpoint", "serve", "refuse", "bug"} \cup Polling
    BY <2>2 DEF Reading, Polling
  <2>5. RefusedForAReason'
    BY <1>1, <2>4 DEF RefusedForAReason
  <2>6. sess' # NoSession => ahead'
    BY <1>1, <2>3
  <2>7. stage' \in Reading => UNCHANGED <<etat, peer>>
    BY <2>1 DEF connexion, Reading
  <2> QED
    BY <1>1, <2>3, <2>4, <2>5, <2>6, <2>7 DEF Reasons
<1> QED
  BY <1>2, <1>3

LEMMA LoopReasons == ASSUME IInv, PInv, Loop \/ PollFails \/ GetRequest PROVE Reasons'
<1> USE DEF PInv, Reasons, RefusedForAReason
<1>1. CASE Loop
  <2>1. UNCHANGED <<req, answered, cancelled, ahead>> /\ stage = "loop"
    BY <1>1 DEF Loop
  <2>2. CASE stage' = "over"
    BY <2>2 DEF Reading, Polling
  <2>3. CASE stage' = "checkpoint"
    <3>1. etat' = "connected" /\ sess' = NoSession
      BY <1>1, <2>3 DEF Loop, connexion, Ends
    <3> QED
      BY <2>1, <2>3, <3>1 DEF Reading, Polling
  <2>4. CASE stage' = "bug"
    <3>1. ~answered /\ sess # NoSession
      BY <1>1, <2>4 DEF Loop
    <3> QED
      BY <2>1, <2>4, <3>1 DEF Reading, Polling
  <2>5. CASE stage' = "next_method"
    <3>1. answered /\ sess # NoSession /\ sess' = sess /\ etat = "connected" /\ etat' = "connected"
      BY <1>1, <2>5 DEF Loop, connexion, Ends
    <3> QED
      BY <2>1, <2>5, <3>1 DEF Reading, Polling
  <2> QED
    BY <1>1, <2>2, <2>3, <2>4, <2>5 DEF Loop
<1>2. CASE PollFails
  <2>1. UNCHANGED <<answered, cancelled, ahead>> /\ stage \in Polling /\ stage' = "loop" /\ sess' = NoSession
    BY <1>2 DEF PollFails
  <2> QED
    BY <2>1 DEF Reading, Polling
<1>3. CASE GetRequest
  <2>1. UNCHANGED <<cancelled, ahead>> /\ stage = "checkpoint"
    BY <1>3 DEF GetRequest
  <2>2. CASE cancelled
    <3>1. stage' = "over"
      BY <1>3, <2>2 DEF GetRequest
    <3> QED
      BY <3>1 DEF Reading, Polling
  <2>3. CASE ~cancelled
    <3>1. stage' = "method" /\ UNCHANGED connexion
      BY <1>3, <2>1, <2>3 DEF GetRequest
    <3>2. sess' = sess /\ etat' = "connected"
      BY <1>3, <2>1, <3>1 DEF GetRequest, Ends, connexion
    <3> QED
      BY <2>1, <3>1, <3>2 DEF Reading, Polling
  <2> QED
    BY <2>2, <2>3
<1> QED
  BY <1>1, <1>2, <1>3

LEMMA PollReasons == ASSUME IInv, PInv, Poll PROVE Reasons'
<1>1. /\ stage \in Polling /\ UNCHANGED <<answered, cancelled, answers>>
      /\ ahead' = (ahead \/ consumed' # consumed)
      /\ sess' = IF stage' = "loop" THEN NoSession ELSE sess
  BY DEF Poll
<1>2. /\ answered /\ sess # NoSession /\ etat = "connected"
      /\ ~ahead => req.uri = <<>>
  BY <1>1 DEF PInv, Reasons
<1>3. etat' = etat
  BY DEF Poll, Gather, Skip, Take, ReadOne, connexion
<1>4. consumed \in Nat
  BY DEF IInv, ConnexionType
<1>5. stage' \in Polling \cup {"checkpoint", "loop"}
  BY DEF Poll, Gather, Skip, Take, Polling
<1>6. ReadOne \/ (UNCHANGED <<connexion, req>>)
  BY DEF Poll, Gather, Skip, Take
<1>7. ReadOne => ahead'
  <2>1. ReadOne => consumed' # consumed
    BY <1>4 DEF ReadOne
  <2> QED
    BY <1>1, <2>1, Zenon
<1>8. ahead => ahead'
  BY <1>1, Zenon
<1>9. ~ahead' => req.uri = <<>> /\ req' = req
  BY <1>2, <1>6, <1>7, <1>8
<1>10. stage' = "checkpoint" => ahead'
  <2> SUFFICES ASSUME stage' = "checkpoint", ~ahead' PROVE FALSE
    OBVIOUS
  <2>1. SessionOf(req.uri) = sess
    BY <1>1 DEF Poll, Polling, Gather, Skip, Take
  <2>2. SessionOf(<<>>) = NoSession
    BY DEF SessionOf
  <2> QED
    BY <1>2, <1>9, <2>1, <2>2
<1>11. RefusedForAReason'
  BY <1>5 DEF RefusedForAReason, Polling
<1>12. stage' \notin Reading \cup {"serve", "refuse"}
  BY <1>5 DEF Reading, Polling
<1>13. stage' = "loop" => sess' = NoSession
  BY <1>1
<1>14. stage' \in Polling => sess' # NoSession
  BY <1>1, <1>2 DEF Polling
<1> QED
  BY <1>1, <1>2, <1>3, <1>5, <1>9, <1>10, <1>11, <1>12, <1>13, <1>14 DEF Reasons

LEMMA AnswerReasons ==
    ASSUME NEW ans, SendAnswer(ans)
    PROVE  Reasons'
<1>1. stage' = "loop" /\ answered' = TRUE
  BY DEF SendAnswer
<1>2. \/ req' = Empty
      \/ etat' = "not_connected"
  BY DEF SendAnswer, Reset
<1>3. etat' = "connected" => req'.uri = <<>>
  BY <1>2 DEF Empty
<1> QED
  BY <1>1, <1>3 DEF Reasons, RefusedForAReason, Reading, Polling

LEMMA ServeReasons == ASSUME IInv, PInv, Serve \/ Refuse PROVE Reasons'
<1>1. CASE \E ans : SendAnswer(ans)
  BY <1>1, AnswerReasons
<1>2. CASE Reset /\ stage' = "loop" /\ answered' = TRUE
  BY <1>2 DEF Reset, Reasons, RefusedForAReason, Reading, Polling
<1>3. CASE stage = "serve" /\ stage' \in {"failed", "bug"} /\ UNCHANGED <<cancelled, ahead>>
           /\ (stage' = "bug" => sess # NoSession)
  <2>1. stage' = "bug" => ahead /\ etat = "connected"
    BY <1>3 DEF PInv, Reasons
  <2>2. ASSUME stage' = "bug" PROVE cancelled
    <3> SUFFICES ASSUME ~cancelled PROVE FALSE
      OBVIOUS
    <3>1. NormalAt
      BY <2>1, <2>2 DEF PInv, Normal
    <3> QED
      BY <1>3, <2>1, <2>2, <3>1, NormalIs
  <2>3. RefusedForAReason'
    BY <1>3, <2>1, <2>2 DEF RefusedForAReason
  <2> QED
    BY <1>3, <2>3 DEF Reasons, Reading, Polling
<1> QED
  BY <1>1, <1>2, <1>3 DEF Serve, Refuse

LEMMA OutsideReasons ==
    ASSUME IInv, PInv, Send \/ HangUp \/ FillBuffer \/ UNCHANGED vars
    PROVE  Reasons'
<1>1. UNCHANGED <<stage, parser>> /\ etat' = etat /\ (peer = "closed" => peer' = "closed")
  BY DEF Send, HangUp, FillBuffer, SendOne, ClientCloses, Receive, vars, connexion
<1>2. UNCHANGED <<stage, cont, req, answered, sess, cancelled, ahead, answers>>
  BY <1>1 DEF parser
<1>3. stage = "dropped" /\ IsSplit => IsSplit'
  <2>1. CASE FillBuffer
    BY <2>1 DEF FillBuffer, NeedsData, Reading, Polling
  <2>2. CASE Send \/ HangUp \/ UNCHANGED vars
    BY <2>2 DEF Send, HangUp, SendOne, ClientCloses, read, vars, connexion, IsSplit, Unread, First
  <2> QED
    BY <2>1, <2>2
<1>4. RefusedForAReason'
  BY <1>1, <1>2, <1>3 DEF PInv, Reasons, RefusedForAReason
<1> QED
  BY <1>1, <1>2, <1>4 DEF PInv, Reasons

LEMMA ReasonsStep == ASSUME IInv, PInv, [Next]_vars PROVE Reasons'
<1>1. CASE ReadRequest
  BY <1>1, ReadRequestReasons
<1>2. CASE EndReached \/ Cancel
  BY <1>2, EndReachedReasons, CancelReasons
<1>3. CASE Loop \/ Poll \/ PollFails \/ GetRequest \/ Serve \/ Refuse
  BY <1>3, LoopReasons, PollReasons, ServeReasons
<1>4. CASE Send \/ HangUp \/ FillBuffer \/ Over \/ UNCHANGED vars
  BY <1>4, OutsideReasons DEF Over
<1> QED
  BY <1>1, <1>2, <1>3, <1>4 DEF Next, Server

-----------------------------------------------------------------------------
(* Each answer is the one of the request of its turn.                        *)
LEMMA AnswersKept ==
    ASSUME Answers, UNCHANGED answers, cancelled => cancelled'
    PROVE  Answers'
BY DEF Answers

LEMMA AnswersAppend ==
    ASSUME PInv, NEW ans, ~cancelled => ans \in {<<>>, Requests[Turn].uri},
           answers' = Append(answers, ans), cancelled' = cancelled
    PROVE  Answers'
<1>1. PICK S : S = Seq(Cells)
  OBVIOUS
<1>2. answers \in Seq(S)
  BY <1>1 DEF PInv, ParserType
<1>3. SUFFICES ASSUME ~cancelled, NEW i \in DOMAIN answers'
               PROVE  answers'[i] \in {<<>>, Requests[i].uri}
  BY DEF Answers
<1>4. i \in 1..(Len(answers) + 1)
  BY <1>2, <1>3
<1>5. CASE i = Len(answers) + 1
  <2>1. answers'[i] = ans /\ i = Turn
    BY <1>2, <1>5 DEF Turn
  <2> QED
    BY <1>3, <2>1
<1>6. CASE i # Len(answers) + 1
  <2>1. i \in DOMAIN answers /\ answers'[i] = answers[i]
    BY <1>2, <1>4, <1>6
  <2> QED
    BY <1>3, <2>1 DEF PInv, Answers
<1> QED
  BY <1>5, <1>6

LEMMA ServedIs ==
    ASSUME IInv, PInv, stage = "serve", ~cancelled
    PROVE  LET r == Requests[Turn]
           IN /\ req.method = r.method /\ req.uri = r.uri
              /\ req.attributes = r.attributes /\ req.body = r.body
<1>1. NormalAt
  BY DEF PInv, Reasons, Normal
<1>2. /\ Here.turn = Turn /\ Here.part = "nothing"
      /\ BodyAt(req, Here) /\ Agrees(req, Here.req)
  BY <1>1, NormalIs
<1>3. Turn # 0
  BY DEF PInv, ParserType, Turn
<1>4. IsRight(Here)
  BY <1>2, <1>3, PlaceIs DEF IsPlace
<1> QED
  BY <1>2, <1>4 DEF IsRight, BodyAt, Agrees

LEMMA AnswersStep == ASSUME IInv, PInv, [Next]_vars PROVE Answers'
<1>0. Answers
  BY DEF PInv
<1>1. CASE ReadRequest
  <2>1. UNCHANGED <<answers, cancelled>>
    BY <1>1, ReadRequestIs DEF PInv
  <2> QED
    BY <1>0, <2>1, AnswersKept
<1>2. CASE EndReached \/ Cancel \/ Loop \/ Poll \/ PollFails \/ GetRequest
  <2>1. UNCHANGED answers
    BY <1>2 DEF EndReached, Aside, Cancel, Loop, Poll, PollFails, GetRequest
  <2>2. cancelled => cancelled'
    <3>1. CASE Cancel
      BY <3>1 DEF Cancel
    <3>2. CASE EndReached \/ Loop \/ Poll \/ PollFails \/ GetRequest
      BY <3>2 DEF EndReached, Aside, Loop, Poll, PollFails, GetRequest
    <3> QED
      BY <1>2, <3>1, <3>2
  <2> QED
    BY <1>0, <2>1, <2>2, AnswersKept
<1>3. CASE Serve
  <2>1. /\ cancelled' = cancelled /\ stage = "serve"
        /\ answers' = Append(answers, req.uri) \/ answers' = answers
    BY <1>3 DEF Serve, SendAnswer
  <2>2. ~cancelled => req.uri \in {<<>>, Requests[Turn].uri}
    BY <2>1, ServedIs
  <2> QED
    BY <1>0, <2>1, <2>2, AnswersAppend, AnswersKept
<1>4. CASE Refuse
  <2>1. /\ cancelled' = cancelled
        /\ answers' = Append(answers, <<>>) \/ answers' = answers
    BY <1>4 DEF Refuse, SendAnswer
  <2> QED
    BY <1>0, <2>1, AnswersAppend, AnswersKept
<1>5. CASE Send \/ HangUp \/ FillBuffer \/ Over \/ UNCHANGED vars
  <2>1. UNCHANGED <<answers, cancelled>>
    BY <1>5 DEF Send, HangUp, FillBuffer, Over, vars, parser
  <2> QED
    BY <1>0, <2>1, AnswersKept
<1> QED
  BY <1>1, <1>2, <1>3, <1>4, <1>5 DEF Next, Server

-----------------------------------------------------------------------------
LEMMA InitPInv == Init => PInv
<1> SUFFICES ASSUME Init PROVE PInv
  OBVIOUS
<1>1. /\ stage = "loop" /\ cont = "header" /\ req = Empty /\ answered /\ sess = NoSession
      /\ ~cancelled /\ ~ahead /\ answers = <<>> /\ consumed = 0 /\ etat = "connected"
  BY DEF Init, InitConnexion
<1>2. IInv
  BY InitIInv
<1>3. ParserType
  <2>1. PICK S : S = Seq(Cells)
    OBVIOUS
  <2>2. answers \in Seq(S)
    BY <1>1
  <2>3. <<>> \in Seq(Cells)
    OBVIOUS
  <2>4. ReqType
    BY <1>1, <2>3 DEF ReqType, Empty
  <2> QED
    BY <1>1, <2>1, <2>2, <2>4 DEF ParserType, Stages
<1>4. Here.turn = 0 /\ Here.part = "nothing"
  BY <1>1, RequestsAssumption DEF Here
<1>5. Now = Beginning(Here.turn + 1)
  BY <1>2, <1>4, PlaceIs DEF IsPlace
<1>6. Turn = 1
  BY <1>1 DEF Turn
<1>7. BetweenAt(Here, Now, ahead) /\ Now.turn = Turn
  BY <1>1, <1>4, <1>5, <1>6, BeginningIs DEF BetweenAt
<1>8. NormalAt
  BY <1>1, <1>7 DEF NormalAt, RestsAt
<1>9. Reasons
  BY <1>1 DEF Reasons, RefusedForAReason, Reading, Polling, Empty
<1>10. Answers
  BY <1>1 DEF Answers
<1> QED
  BY <1>1, <1>3, <1>8, <1>9, <1>10 DEF PInv, Normal, Cut

LEMMA PInvStep == ASSUME IInv, PInv, [Next]_vars PROVE PInv'
BY TypeStep, NormalStep, CutStep, ReasonsStep, AnswersStep DEF PInv

LEMMA PInvIsEnough == ASSUME IInv, PInv PROVE AnsweredAsSent
<1>1. ServedIsSent
  BY ServedIs DEF ServedIsSent, Turn
<1>2. ASSUME ~cancelled, stage = "loop", etat = "connected", ~ahead
      PROVE  consumed = EndOf(Len(answers))
  <2>1. NormalAt
    BY <1>2 DEF PInv, Normal
  <2>2. Now.turn = Turn /\ Here.part = "nothing"
    BY <1>2, <2>1, NormalIs DEF BetweenAt
  <2>3. /\ Now = Beginning(Here.turn + 1) /\ Here.turn \in Nat
        /\ consumed = IF Here.turn = 0 THEN 0 ELSE Requests[Here.turn].last
    BY <2>2, PlaceIs DEF IsPlace
  <2>4. Here.turn = Len(answers)
    BY <2>2, <2>3, BeginningIs DEF Turn, PInv, ParserType
  <2> QED
    BY <2>3, <2>4 DEF EndOf
<1>3. AnswersInStep
  BY <1>2 DEF PInv, Answers, AnswersInStep
<1> QED
  BY <1>1, <1>3 DEF AnsweredAsSent, PInv, Reasons

(* Whatever the requests, the pieces they come in and the buffer they come   *)
(* to, a request that is served is the one the client sent in that turn,     *)
(* whole; the answers follow the requests one by one; and a request is       *)
(* refused, dropped or ends with a bug only for a reason that is not in it   *)
(* (server::inherited_run, parser::get_request, request::read).              *)
THEOREM RequestsAnsweredAsSent == Spec => []AnsweredAsSent
<1>1. Init => IInv /\ PInv
  BY InitIInv, InitPInv
<1>2. IInv /\ PInv /\ [Next]_vars => IInv' /\ PInv'
  <2>1. ASSUME IInv, [Next]_vars PROVE IInv'
    <3>1. CASE Next
      BY <2>1, <3>1, OnlyMoves, MovesKeep
    <3>2. CASE UNCHANGED vars
      BY <2>1, <3>2, MovesKeep DEF vars, Moves
    <3> QED
      BY <2>1, <3>1, <3>2
  <2> QED
    BY <2>1, PInvStep
<1>3. IInv /\ PInv => AnsweredAsSent
  BY PInvIsEnough
<1> QED
  BY <1>1, <1>2, <1>3, PTL DEF Spec

=============================================================================
