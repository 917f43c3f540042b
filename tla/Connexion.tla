----------------------------- MODULE Connexion -----------------------------
(* The buffered connection of class proto_connexion, over the socket of      *)
(* class connexion, on which a client sends Stream. What is sent is cut in   *)
(* packets anywhere: the program may look at the socket between any two      *)
(* cells of the stream. A cell stands for one byte or for several that no    *)
(* function of the parser tells apart.                                       *)
EXTENDS Naturals, Sequences

CONSTANTS
    Stream,     \* what the client would send, a sequence of cells
    BufferSize  \* proto_connexion::buffer_size

Cells == {Stream[k] : k \in DOMAIN Stream}

ASSUME StreamAssumption == Stream \in Seq(Cells)

ASSUME BufferAssumption == BufferSize \in Nat \ {0}

CR == "cr"
LF == "lf"

VARIABLES
    sent,         \* number of cells the client has sent
    peer,         \* the client's end of the connection
    received,     \* number of cells the socket has delivered
    etat,         \* proto_connexion::etat
    buffer,       \* proto_connexion::buffer, its first data_size cells
    already_read, \* proto_connexion::already_read
    consumed      \* history: number of cells read_one has returned

connexion == <<sent, peer, received, etat, buffer, already_read, consumed>>
read == <<buffer, already_read, received>>

-----------------------------------------------------------------------------
InitConnexion ==
    /\ sent = 0 /\ peer = "open" /\ received = 0
    /\ etat = "connected"
    /\ buffer = <<>> /\ already_read = 0
    /\ consumed = 0

(* What read_test_first, and read_one, give.                                 *)
First == buffer[already_read + 1]

Second == buffer[already_read + 2]

Unread == Len(buffer) - already_read

(* Mutant: the cells already read are not dropped from the buffer.           *)
KeptAll == buffer

(* What fill_buffer moves to the start of the buffer.                        *)
Kept == SubSeq(buffer, already_read + 1, Len(buffer))

Room == BufferSize - Len(Kept)

(* Mutant: a buffer that was read to its end is still full.                  *)
HasPlace == Len(buffer) < BufferSize

(* fill_buffer does nothing otherwise. Data that was read makes no room as   *)
(* long as the buffer is full and some of it is unread.                      *)
HasRoom == Len(buffer) < BufferSize \/ already_read = Len(buffer)

(* recv would give neither data nor the end of the stream.                   *)
SocketIsEmpty == received = sent /\ peer = "open"

(* A recv would block, or tell there is nothing to be read.                  *)
WouldBlock == etat = "connected" /\ HasRoom /\ SocketIsEmpty

(* fill_buffer, when the socket has something: what is unread moves to the   *)
(* start of the buffer and recv fills the place left.                        *)
Receive ==
    /\ etat = "connected" /\ HasRoom
    /\ received < sent
    /\ LET size == IF sent - received < Room THEN sent - received ELSE Room
       IN /\ buffer' = Kept \o SubSeq(Stream, received + 1, received + size)
          /\ received' = received + size
    /\ already_read' = 0
    /\ UNCHANGED <<sent, peer, etat, consumed>>

(* fill_buffer would bring nothing: the buffer is full, the connection is    *)
(* closed, or recv would tell the end of the stream.                         *)
IsOver == etat # "connected" \/ ~HasRoom \/ (received = sent /\ peer = "closed")

(* read_one and the others throw. At the end of the stream fermeture()       *)
(* closes the connection.                                                    *)
NoMoreData ==
    /\ IsOver
    /\ etat' = IF HasRoom THEN "not_connected" ELSE etat
    /\ UNCHANGED <<sent, peer, read, consumed>>

(* read_one, a cell being in the buffer.                                     *)
ReadOne ==
    /\ already_read' = already_read + 1
    /\ consumed' = consumed + 1
    /\ UNCHANGED <<sent, peer, received, etat, buffer>>

(* The connection object is deleted.                                         *)
Reset ==
    /\ etat' = "not_connected"
    /\ UNCHANGED <<sent, peer, read, consumed>>

-----------------------------------------------------------------------------
(* The client.                                                               *)
SendOne ==
    /\ peer = "open" /\ sent < Len(Stream)
    /\ sent' = sent + 1
    /\ UNCHANGED <<peer, read, etat, consumed>>

ClientCloses ==
    /\ peer = "open"
    /\ peer' = "closed"
    /\ UNCHANGED <<sent, read, etat, consumed>>

-----------------------------------------------------------------------------
(* However the stream is cut and the buffer moved, what is left in it is the *)
(* part of the stream that follows what the parser has read: nothing is      *)
(* lost, read twice or out of order (proto_connexion::fill_buffer).          *)
BufferIsStream ==
    /\ received = consumed + Unread
    /\ \A k \in 1..Unread :
          buffer[already_read + k] = Stream[consumed + k]
=============================================================================
