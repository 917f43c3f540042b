-------------------------------- MODULE Login --------------------------------
(* What a server thread makes of the credentials in a request: the classes   *)
(* challenge, base64 and authentication_cli, and the member ignore_auth that *)
(* has the browser ask its user again, as HTTP has no way to forget them.    *)
(* A text is a sequence of bytes.                                            *)
EXTENDS Naturals, SequencesExt

CONSTANTS
    User,      \* the name the program accepts
    Password,  \* the password, as given to authentication_cli
    Typed,     \* bound: the passwords that the user may type
    Nothing    \* no credentials, no page

VARIABLE login

Colon == 58

(* The command line and the user give texts without a null byte, and the     *)
(* name is "admin" (main).                                                   *)
Bytes == 1..255

ASSUME LoginAssumption ==
    /\ User \in Seq(Bytes \ {Colon}) /\ Password \in Seq(Bytes)
    /\ Typed \subseteq Seq(Bytes)
    /\ Nothing \notin Seq(Nat) /\ Nothing \notin {"webdar", "challenge"}

(* Code of the character "=" in base64, whose value is zero.                 *)
Equal == 64

-----------------------------------------------------------------------------
(* base64. A character is given by its value; a byte has 8 bits. A browser   *)
(* sends no other character: value64 would throw.                            *)
Byte(n) == n % 256

Value64(c) == IF c = Equal THEN 0 ELSE c

(* The four characters make three bytes, also when the last are "=".         *)
Convert(a, b, c, d) ==
    LET v1 == Value64(a)  v2 == Value64(b)  v3 == Value64(c)  v4 == Value64(d)
    IN  <<Byte(v1 * 4 + v2 \div 16),
          Byte((v2 % 16) * 16 + v3 \div 4),
          Byte((v3 % 4) * 64 + v4)>>

(* complement: the "=" that the browser left out.                            *)
Complement(t) ==
    LET alone == Len(t) % 4
    IN  t \o [k \in 1..(IF alone = 0 THEN 0 ELSE 4 - alone) |-> Equal]

Decode(text) ==
    LET t == Complement(text)
    IN  FlattenSeq([k \in 1..(Len(t) \div 4) |->
            Convert(t[4 * k - 3], t[4 * k - 2], t[4 * k - 1], t[4 * k])])

-----------------------------------------------------------------------------
(* webdar_tools_split_in_two, at the first colon.                            *)
Halves(text) ==
    LET size == CHOOSE k \in 0..Len(text) :
                   /\ Colon \notin ToSet(SubSeq(text, 1, k))
                   /\ k < Len(text) => text[k + 1] = Colon
    IN  <<SubSeq(text, 1, size), SubSeq(text, size + 2, Len(text))>>

(* c_str, as strcmp reads it: up to the first null byte. The bytes that      *)
(* Convert makes of "=" are null.                                            *)
CString(text) ==
    LET size == CHOOSE k \in 0..Len(text) :
                   /\ 0 \notin ToSet(SubSeq(text, 1, k))
                   /\ k < Len(text) => text[k + 1] = 0
    IN  SubSeq(text, 1, size)

ValidCredentials(user, credential) ==
    CString(user) = CString(User) /\ CString(credential) = CString(Password)

(* header: Nothing, or the text of "Authorization: Basic".                   *)
IsAnAuthoritativeRequest(header) ==
    /\ header # Nothing
    /\ LET in == Halves(Decode(header)) IN ValidCredentials(in[1], in[2])

-----------------------------------------------------------------------------
(* External: the base64 text a browser sends, with or without its "=".       *)
Sextets(s) ==
    LET at(k) == IF k \in DOMAIN s THEN s[k] ELSE 0
        block(k) == <<at(3 * k - 2) \div 4,
                      (at(3 * k - 2) % 4) * 16 + at(3 * k - 1) \div 16,
                      (at(3 * k - 1) % 16) * 4 + at(3 * k) \div 64,
                      at(3 * k) % 64>>
        all == FlattenSeq([k \in 1..((Len(s) + 2) \div 3) |-> block(k)])
    IN  SubSeq(all, 1, (4 * Len(s) + 2) \div 3)

Headers(word) ==
    IF word = Nothing THEN {Nothing}
    ELSE LET text == Sextets(User \o <<Colon>> \o word)
         IN  {text, Complement(text)}

-----------------------------------------------------------------------------
(* word: what the browser sends; refused: the challenges it was answered     *)
(* since it connected or its user was disconnected; page: what it shows.     *)
LoginInit ==
    \E basic \in BOOLEAN :
        login = [default_basic_auth |-> basic, ignore_auth |-> "steady",
                 connected |-> FALSE, word |-> Nothing, refused |-> 0,
                 page |-> Nothing]

(* A new connection, so a new server thread.                                 *)
NewServer ==
    login' = [login EXCEPT
        !.connected = TRUE, !.refused = 0, !.page = Nothing,
        !.ignore_auth = IF login.default_basic_auth THEN "no" ELSE "steady"]

(* Mutant: the credentials of the first request are not ignored only once.   *)
AskForCredentialsAgain ==
    login' = [login EXCEPT !.page = "challenge", !.refused = @ + 1]

(* challenge::give_answer, after which the credentials count.                *)
AskForCredentials ==
    login' = [login EXCEPT !.page = "challenge", !.ignore_auth = "no",
                           !.refused = @ + 1]

(* A request for a page, from a browser that shows anything but a challenge  *)
(* it did not answer.                                                        *)
Ask ==
    /\ login.connected /\ login.page # "challenge"
    /\ \E header \in Headers(login.word) :
          IF login.ignore_auth = "redir"
          THEN login' = [login EXCEPT !.page = "disconnected",
                                      !.ignore_auth = "steady"]
          ELSE IF ~IsAnAuthoritativeRequest(header)
                     \/ login.ignore_auth = "steady"
               THEN AskForCredentials
               ELSE login' = [login EXCEPT !.page = "webdar"]

(* The browser asks its user, and sends the request again.                   *)
AnswerChallenge ==
    /\ login.page = "challenge" /\ login.refused < 3
    /\ \E word \in Typed :
          login' = [login EXCEPT !.word = word, !.page = Nothing]

(* The button of class html_disconnect, which is hidden otherwise. The page  *)
(* that is answered redirects the browser at once.                           *)
Disconnect ==
    /\ login.page = "webdar" /\ ~login.default_basic_auth
    /\ login' = [login EXCEPT !.ignore_auth = "redir", !.page = "redirected",
                              !.refused = 0]

IsLoggedIn == login.page = "webdar"

LoginNext == NewServer \/ Ask \/ AnswerChallenge \/ Disconnect

-----------------------------------------------------------------------------
(* Who types the right password reaches the pages, whatever its length makes *)
(* of the end of the base64 text, after two challenges at most on a          *)
(* connection (one for nothing sent or for -w no, none more), and nobody     *)
(* else does (challenge.cpp:60-76, base64.cpp:62, authentication.hpp:74).    *)
RightPasswordIsEnough ==
    /\ login.page = "webdar" => login.word = Password
    /\ login.page = "challenge" /\ login.refused > 1 => login.word # Password
=============================================================================
