------------------------------- MODULE Webdar -------------------------------
(* The start of the program (main in webdar.cpp): the command line, the      *)
(* pool, the libraries, and a listener for each address asked for, until the *)
(* threads of ServerPool run by themselves. A signal may come meanwhile.     *)
EXTENDS ServerPool, SequencesExt

CONSTANT Commands  \* bound: the command lines, sequences of options

(* An option is its letter and its argument. That of -l is a text in which   *)
(* "1" is a digit, a port is the number of its digits, "4" and "." are parts *)
(* of an IPv4 address and "n" a part of a name.                              *)
VARIABLE start

Digit == "1"

DefaultPort == 0

Local == [interface |-> <<"4", ".", "4">>, port |-> DefaultPort]

Launched == [phase |-> "up", cmd |-> <<>>, ecoute |-> <<>>, ciphered |-> FALSE,
             max_srv |-> MaxServer, sockets |-> <<>>]

-----------------------------------------------------------------------------
(* webdar_tools_split_in_two: the second part is empty also when sep is not  *)
(* met, or met last.                                                         *)
SplitInTwo(sep, text) ==
    LET before == {k \in 0..Len(text) : sep \notin ToSet(SubSeq(text, 1, k))}
        size == CHOOSE k \in before : \A j \in before : j <= k
    IN  <<SubSeq(text, 1, size), SubSeq(text, size + 2, Len(text))>>

(* webdar_tools_split_by: what follows the last separator, unless empty.     *)
SplitBy(sep, text) ==
    LET seps == SetToSortSeq({k \in DOMAIN text : text[k] = sep}, <)
        cuts == <<0>> \o seps \o <<Len(text) + 1>>
        parts == [k \in 1..Len(seps) + 1 |->
                     SubSeq(text, cuts[k] + 1, cuts[k + 1] - 1)]
    IN  IF Last(parts) = <<>> THEN Front(parts) ELSE parts

(* webdar_tools_convert_to_int: what follows the digits is not looked at.    *)
IsPort(text) == text # <<>> /\ Head(text) = Digit

ToPort(text) ==
    LET all == {k \in 0..Len(text) : ToSet(SubSeq(text, 1, k)) \subseteq {Digit}}
    IN  CHOOSE k \in all : \A j \in all : j <= k

(* The item has a "]": an IPv6 address, then a port if anything follows.     *)
ReadBracketed(item) ==
    LET in == SplitInTwo("]", item)
        open == SplitInTwo("[", in[1])
        after == SplitInTwo(":", in[2])
    IN  IF open[1] # <<>> \/ open[2] = <<>> THEN {}
        ELSE IF in[2] = <<>> THEN {[interface |-> open[2], port |-> DefaultPort]}
        ELSE IF Len(in[1]) < 4 \/ after[1] # <<>> \/ ~IsPort(after[2]) THEN {}
        ELSE {[interface |-> open[2], port |-> ToPort(after[2])]}

ReadPlain(item) ==
    LET cut == SplitInTwo(":", item)
    IN  IF cut[2] = <<>>
        THEN IF Last(item) = ":" THEN {}
             ELSE {[interface |-> item, port |-> DefaultPort]}
        ELSE IF ~IsPort(cut[2]) \/ cut[1] = <<>> THEN {}
        ELSE {[interface |-> cut[1], port |-> ToPort(cut[2])]}

(* The body of the loop of add_item_to_list: nothing when it throws.         *)
ReadItem(item) ==
    IF item = <<>> THEN {}
    ELSE IF "]" \in ToSet(item) THEN ReadBracketed(item)
    ELSE ReadPlain(item)

(* add_item_to_list: the addresses of a former -l are forgotten.             *)
AddItemToList(parsed, text) ==
    LET items == SplitBy(",", text)
    IN  IF \E k \in DOMAIN items : ReadItem(items[k]) = {}
        THEN [parsed EXCEPT !.fails = TRUE]
        ELSE [parsed EXCEPT !.ecoute =
                 [k \in DOMAIN items |-> CHOOSE a \in ReadItem(items[k]) : TRUE]]

(* The body of the loop of parse_cmd. An option that is not known is ignored,*)
(* -h and -V leave the program.                                              *)
ReadOption(parsed, option) ==
    LET name == option[1]
        arg == option[2]
    IN  CASE parsed.fails -> parsed
          [] name = "l" -> AddItemToList(parsed, arg)
          [] name \in {"C", "K"} -> [parsed EXCEPT ![name] = arg # <<>>,
                                                   !.fails = arg = <<>>]
          [] name = "m" -> IF IsPort(arg) THEN [parsed EXCEPT !.max = MaxServer]
                           ELSE IF arg = <<"0">> THEN [parsed EXCEPT !.max = 0]
                           ELSE [parsed EXCEPT !.fails = TRUE]
          [] name = "b" -> [parsed EXCEPT !.background = TRUE]
          [] name = "w" -> [parsed EXCEPT !.fails = arg \notin {<<"yes">>, <<"no">>}]
          [] name \in {"h", "V"} -> [parsed EXCEPT !.fails = TRUE]
          [] OTHER -> parsed

Parsed(cmd) ==
    FoldLeft(ReadOption,
             [ecoute |-> <<>>, C |-> FALSE, K |-> FALSE, max |-> MaxServer,
              background |-> FALSE, fails |-> FALSE], cmd)

(* There are listeners enough for what the command lines ask for.            *)
ASSUME ListenersAssumption ==
    /\ IsFiniteSet(Listeners) /\ Listeners = 1..Cardinality(Listeners)
    /\ 1 \in Listeners
    /\ \A cmd \in Commands : \E n \in 0..Cardinality(Listeners) :
          DOMAIN Parsed(cmd).ecoute = 1..n

-----------------------------------------------------------------------------
all == <<vars, start>>

WebdarInit ==
    /\ Init
    /\ \E cmd \in Commands :
          start = [Launched EXCEPT !.phase = "parse", !.cmd = cmd]

(* The process leaves before anything was created.                           *)
ExitAtOnce ==
    /\ main' = "over"
    /\ UNCHANGED <<verrou, max_server, peers, dying_ones, server, pool, listener,
                   told, status, start>>

(* parse_cmd; a daemon is not supported.                                     *)
ParseCmd ==
    LET parsed == Parsed(start.cmd)
    IN  /\ Up /\ start.phase = "parse"
        /\ IF parsed.fails \/ parsed.background THEN ExitAtOnce
           ELSE /\ start' = [start EXCEPT
                     !.phase = "create", !.max_srv = parsed.max,
                     !.ciphered = parsed.C /\ parsed.K,
                     !.ecoute = IF parsed.ecoute = <<>> THEN <<Local>>
                                ELSE parsed.ecoute]
                /\ UNCHANGED vars

(* The pool, which refuses to have no server; its thread runs.               *)
CreatePool ==
    /\ Up /\ start.phase = "create"
    /\ IF start.max_srv < 1 THEN ExitAtOnce
       ELSE /\ start' = [start EXCEPT !.phase = "init", !.cmd = <<>>]
            /\ UNCHANGED vars

(* An exception in main: the listeners that were launched are cancelled and  *)
(* joined, those that were not are none, then the pool is cancelled.         *)
LeaveMain(launched) ==
    /\ main' = "catch"
    /\ told' = Listeners
    /\ listener' = [l \in Listeners |-> IF l <= launched THEN listener[l] ELSE "gone"]
    /\ start' = Launched
    /\ UNCHANGED <<verrou, max_server, peers, dying_ones, server, pool, status>>

(* main is not in the signal handler.                                        *)
InMain == Up /\ main = "join"

(* static_object_library::init and libdar_init; when they throw the pool is  *)
(* cancelled by its destructor.                                              *)
InitLibraries ==
    /\ InMain /\ start.phase = "init"
    /\ \/ start' = [start EXCEPT !.phase = "launch"] /\ UNCHANGED vars
       \/ LeaveMain(0)

Started == DOMAIN start.sockets

AllLaunched == Started = DOMAIN start.ecoute

Next1 == Len(start.sockets) + 1

(* The text names an address, of one family or the other.                    *)
IsAddress(interface) == "n" \notin ToSet(interface)

(* Mutant: the context that was given to the first listener is not made anew.*)
CipheredOnce(k) == start.ciphered /\ k = 1

IsCiphered(k) == start.ciphered

(* The context is made, and moved to a listener that binds its socket; no    *)
(* two sockets have the same address.                                        *)
LaunchListener ==
    LET address == start.ecoute[Next1]
    IN  /\ InMain /\ start.phase = "launch" /\ ~AllLaunched
        /\ \/ /\ IsAddress(address.interface)
              /\ \A k \in Started : start.sockets[k].address # address
              /\ start' = [start EXCEPT !.sockets = Append(@,
                     [address |-> address, ciphered |-> IsCiphered(Next1)])]
              /\ UNCHANGED vars
           \/ LeaveMain(Len(start.sockets))

(* From the pool to the last listener: main then goes straight to its wait,  *)
(* and what happens in between could happen there.                           *)
Starting == start.phase = "init" \/ (start.phase = "launch" /\ ~AllLaunched)

(* close_all_listeners: the handler knows the listeners launched so far, and *)
(* cancels the pool (LockToCancel, CancelPool); main then goes on. Before    *)
(* there is a pool the handler has nothing to do.                            *)
SignalWhileStarting ==
    /\ InMain /\ Starting
    /\ max_server > 0 \/ ~(Started \subseteq told)
    /\ told' = Started
    /\ main' = "stop"
    /\ UNCHANGED <<verrou, max_server, peers, dying_ones, server, pool, listener,
                   status, start>>

(* main waits for its listeners, then for the pool. Those launched after a   *)
(* signal were not cancelled by it.                                          *)
WaitForListeners ==
    /\ InMain /\ start.phase = "launch" /\ AllLaunched
    /\ listener' = [l \in Listeners |-> IF l \in Started THEN listener[l] ELSE "gone"]
    /\ start' = Launched
    /\ UNCHANGED <<verrou, max_server, peers, dying_ones, server, pool, told,
                   main, status>>

StartProgram ==
    ParseCmd \/ CreatePool \/ InitLibraries \/ LaunchListener \/ WaitForListeners

(* The threads that exist go their way meanwhile.                            *)
Threads ==
    /\ UNCHANGED start
    /\ \/ Starting /\ (PoolThread \/ SpuriousWakeUp)
       \/ /\ Starting
          /\ \/ \E l \in Started : Listener(l)
             \/ \E c \in Objects : Server(c)
             \/ LockToCancel \/ CancelPool
       \/ (start.phase = "up" \/ ~Up) /\ Next

WebdarNext == StartProgram \/ SignalWhileStarting \/ Threads

WebdarSpec == WebdarInit /\ [][WebdarNext]_all

(* The fairness of ServerPool: what happens to its threads does not wait for *)
(* the end of the start, but for the pool to be created.                     *)
WebdarFairSpec == WebdarSpec /\ Fairness

-----------------------------------------------------------------------------
(* What the command line asks for. The man page (webdar.1:22-30) writes      *)
(* addresses as an interface, an IPv6 one in brackets, and a port or none.   *)
Port(n) == [k \in 1..n |-> Digit]

Spell(a) ==
    (IF ":" \in ToSet(a.interface) THEN <<"[">> \o a.interface \o <<"]">>
     ELSE a.interface)
    \o (IF a.port = DefaultPort THEN <<>> ELSE <<":">> \o Port(a.port))

CommaList(texts) ==
    FlattenSeq([k \in DOMAIN texts |-> IF k = 1 THEN texts[k]
                                       ELSE <<",">> \o texts[k]])

SpellAll(as) == CommaList([k \in DOMAIN as |-> Spell(as[k])])

(* What the program takes without looking at it: anything behind the digits  *)
(* of a port (webdar_tools.cpp:83-94), which a user would not call asking    *)
(* for that port, and a comma behind the last address (96-117).              *)
Unread(a, rest) ==
    \/ rest = <<>>
    \/ a.port # DefaultPort /\ Head(rest) # Digit /\ "," \notin ToSet(rest)

Pieces(text) == {SubSeq(text, i, j) : i \in DOMAIN text, j \in 0..Len(text)}

Spells(text, as) ==
    \E rest \in [DOMAIN as -> Pieces(text)] :
        /\ \A k \in DOMAIN as : Unread(as[k], rest[k])
        /\ LET said == CommaList([k \in DOMAIN as |-> Spell(as[k]) \o rest[k]])
           IN  text \in {said, said \o <<",">>}

(* The options of this name in the command line.                             *)
Given(cmd, name) == {k \in DOMAIN cmd : cmd[k][1] = name}

(* No address at all is as no -l.                                            *)
Asked(cmd, as) ==
    LET last == {k \in Given(cmd, "l") : /\ cmd[k][2] # <<>>
                                         /\ \A j \in Given(cmd, "l") : j <= k}
    IN  IF last = {} THEN as = <<Local>>
        ELSE \A k \in last : Spells(cmd[k][2], as)

(* The program listens where the last -l says, all of it but what is Unread, *)
(* else on the local address, with TLS on every socket when a certificate    *)
(* and a key were given and on none otherwise, or does not start: whatever   *)
(* the order of the options, and although the context is moved to each       *)
(* listener in turn (webdar.cpp:342, 363, 592, 606-701).                     *)
StartsAsAsked ==
    /\ start.phase = "create" =>
          /\ Asked(start.cmd, start.ecoute)
          /\ start.ciphered <=>
                Given(start.cmd, "C") # {} /\ Given(start.cmd, "K") # {}
    /\ start.phase = "launch" /\ AllLaunched =>
          \A k \in Started : /\ start.sockets[k].address = start.ecoute[k]
                             /\ start.sockets[k].ciphered = start.ciphered
=============================================================================
