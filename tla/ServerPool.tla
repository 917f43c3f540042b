----------------------------- MODULE ServerPool -----------------------------
(* The pool of server threads (class server_pool) with the peering that      *)
(* links it to its servers (class reference), the listener threads that ask  *)
(* it for new servers, and the main thread that stops everything.            *)
(*                                                                           *)
(* verrou is the mutex and condition of the pool. The pool thread keeps it   *)
(* while it joins a server, a listener between its test and its insertion.   *)
(* A server that ends removes itself from the peers of the pool WITHOUT it   *)
(* (reference::break_peer_with), and only then takes it to be recycled.      *)
EXTENDS Naturals, FiniteSets, Sequences

CONSTANTS
    Objects,     \* bound: the server objects that may exist at a time
    Listeners,   \* the listener threads, in the order they are launched in
    MaxServer,   \* pool_size, given to the constructor
    Pool, Main,  \* the two other threads that take verrou
    Nobody

ASSUME PoolAssumption ==
    /\ IsFiniteSet(Objects)
    /\ Listeners \subseteq Nat
    /\ MaxServer \in Nat \ {0}
    /\ {Pool, Main, Nobody} \cap (Listeners \cup Objects) = {}
    /\ Pool # Main /\ Nobody \notin {Pool, Main}

VARIABLES
    verrou,      \* who holds it
    max_server,  \* server_pool::max_server, zero once the pool is cancelled
    peers,       \* reference::peers of the pool
    dying_ones,  \* server_pool::dying_ones
    server,      \* the thread of each server object
    pool,        \* the thread of the pool
    listener,    \* the thread of each listener
    told,        \* the listeners that were cancelled
    main,        \* the main thread
    status       \* "undefined" once peers was modified by two threads at once

vars == <<verrou, max_server, peers, dying_ones, server, pool, listener, told,
          main, status>>

(* none: no object. stillborn: the thread of the object could not be run.    *)
(* leaving: the object left the peers. over, failed, bug: the thread ended   *)
(* normally, with an exception, with a bug exception.                        *)
ServerStates == {"none", "stillborn", "running", "cancelled", "leaving", "over",
                 "failed", "bug"}

PoolStates == {"start", "loop", "waiting", "woken", "over", "bug"}

(* gone: the object was joined and deleted.                                  *)
ListenerStates == {"accept", "enter", "insert", "over", "failed", "gone"}

(* joined: the last of taches is null. stuck: for ever in catch (...).       *)
MainStates == {"join", "joined", "stop", "catch", "stuck", "join_pool", "over"}

Init ==
    /\ verrou = Nobody
    /\ max_server = MaxServer
    /\ peers = {}
    /\ dying_ones = <<>>
    /\ server = [c \in Objects |-> "none"]
    /\ pool = "start"
    /\ listener = [l \in Listeners |-> "accept"]
    /\ told = {}
    /\ main = "join"
    /\ status = "up"

-----------------------------------------------------------------------------
(* Nothing is followed once the process ended or main is stuck.              *)
Up == status = "up" /\ main \notin {"over", "stuck"}

Free == {c \in Objects : server[c] = "none"}

Dying == {dying_ones[i] : i \in DOMAIN dying_ones}

(* condition::signal, which wakes the pool thread up if it waits.            *)
Signal == pool' = IF pool = "waiting" THEN "woken" ELSE pool

PoolIsRunning == pool \notin {"over", "bug"}

(* Mutant: one server too many.                                              *)
Overfull == Cardinality(peers) > max_server

IsFull == Cardinality(peers) >= max_server

-----------------------------------------------------------------------------
(* A new connection: run_new_server first checks, without verrou, that the   *)
(* pool thread runs. If not it throws, and the listener thread ends.         *)
Accept(l) ==
    /\ Up /\ listener[l] = "accept"
    /\ l \notin told
    /\ listener' = [listener EXCEPT ![l] =
                       IF PoolIsRunning THEN "enter" ELSE "failed"]
    /\ UNCHANGED <<verrou, max_server, peers, dying_ones, server, pool, told,
                   main, status>>

(* run_new_server, inside verrou: the pool may be full, and there may be no  *)
(* memory for one more object, which ends the listener thread.               *)
Enter(l) ==
    /\ Up /\ listener[l] = "enter"
    /\ verrou = Nobody
    /\ \/ /\ IsFull
          /\ listener' = [listener EXCEPT ![l] = "accept"]
          /\ UNCHANGED verrou
       \/ /\ ~IsFull /\ Free # {}
          /\ listener' = [listener EXCEPT ![l] = "insert"]
          /\ verrou' = l
       \/ /\ ~IsFull
          /\ listener' = [listener EXCEPT ![l] = "failed"]
          /\ UNCHANGED verrou
    /\ UNCHANGED <<max_server, peers, dying_ones, server, pool, told, main,
                   status>>

(* peer_with and run: when the thread cannot be run the object stays among   *)
(* the peers, and the listener thread ends with the exception.               *)
Insert(l) ==
    /\ Up /\ listener[l] = "insert"
    /\ \E c \in Free :
          /\ peers' = peers \cup {c}
          /\ \/ /\ server' = [server EXCEPT ![c] = "running"]
                /\ listener' = [listener EXCEPT ![l] = "accept"]
             \/ /\ server' = [server EXCEPT ![c] = "stillborn"]
                /\ listener' = [listener EXCEPT ![l] = "failed"]
    /\ verrou' = Nobody
    /\ UNCHANGED <<max_server, dying_ones, pool, told, main, status>>

(* The cancelled listener leaves accept().                                   *)
EndListener(l) ==
    /\ Up /\ listener[l] = "accept"
    /\ l \in told
    /\ listener' = [listener EXCEPT ![l] = "over"]
    /\ UNCHANGED <<verrou, max_server, peers, dying_ones, server, pool, told,
                   main, status>>

-----------------------------------------------------------------------------
(* end_all_peers, first half: the server leaves the peers of the pool, and   *)
(* whoever reads or modifies them at that time may meet anything.            *)
LeavePeers(c) ==
    /\ Up /\ server[c] \in {"running", "cancelled"}
    /\ server' = [server EXCEPT ![c] = "leaving"]
    /\ peers' = peers \ {c}
    /\ status' \in {"up"} \cup IF verrou # Nobody THEN {"undefined"} ELSE {}
    /\ UNCHANGED <<verrou, max_server, dying_ones, pool, listener, told, main>>

(* Mutant: the pool thread is not told.                                      *)
PushSilently(c) == dying_ones' = Append(dying_ones, c) /\ UNCHANGED pool

(* broken_peering_from, inside verrou.                                       *)
PushDying(c) == dying_ones' = Append(dying_ones, c) /\ Signal

(* end_all_peers, second half, and the end of the thread.                    *)
EndServer(c) ==
    /\ Up /\ server[c] = "leaving"
    /\ verrou = Nobody
    /\ PushDying(c)
    /\ \E end \in {"over", "failed", "bug"} : server' = [server EXCEPT ![c] = end]
    /\ UNCHANGED <<verrou, max_server, peers, listener, told, main, status>>

-----------------------------------------------------------------------------
(* The pool thread takes verrou, at its start or back from the condition.    *)
PoolLocks ==
    /\ Up /\ pool \in {"start", "woken"}
    /\ verrou = Nobody
    /\ verrou' = Pool
    /\ pool' = "loop"
    /\ UNCHANGED <<max_server, peers, dying_ones, server, listener, told, main,
                   status>>

(* A condition variable may return from its wait without a signal.           *)
SpuriousWakeUp ==
    /\ Up /\ pool = "waiting"
    /\ pool' = "woken"
    /\ UNCHANGED <<verrou, max_server, peers, dying_ones, server, listener,
                   told, main, status>>

Recycle(c) ==
    /\ server' = [server EXCEPT ![c] = "none"]
    /\ dying_ones' = Tail(dying_ones)

(* Joining the first of dying_ones: a bug exception ends the pool thread,    *)
(* another is reported and the same server is joined again, which returns at *)
(* once: the exception is not thrown twice.                                  *)
JoinDying ==
    LET c == Head(dying_ones)
    IN  /\ Up /\ pool = "loop"
        /\ dying_ones # <<>>
        /\ \/ server[c] = "over"
              /\ Recycle(c)
              /\ UNCHANGED <<pool, verrou>>
           \/ server[c] = "failed"
              /\ server' = [server EXCEPT ![c] = "over"]
              /\ UNCHANGED <<pool, verrou, dying_ones>>
           \/ server[c] = "bug"
              /\ server' = [server EXCEPT ![c] = "over"]
              /\ pool' = "bug"
              /\ verrou' = Nobody
              /\ UNCHANGED dying_ones
        /\ UNCHANGED <<max_server, peers, listener, told, main, status>>

(* Nothing left to join: the pool thread waits for its condition, or ends    *)
(* when it was cancelled and it has no peer.                                 *)
PoolWaitsOrEnds ==
    /\ Up /\ pool = "loop"
    /\ dying_ones = <<>>
    /\ pool' = IF max_server > 0 \/ peers # {} THEN "waiting" ELSE "over"
    /\ verrou' = Nobody
    /\ UNCHANGED <<max_server, peers, dying_ones, server, listener, told, main,
                   status>>

-----------------------------------------------------------------------------
(* The listeners that main still has (taches), and the last of them.         *)
Taches == {l \in Listeners : listener[l] # "gone"}

Back == CHOOSE l \in Taches : \A k \in Taches : k <= l

(* main waits for the last listener, and deletes it when it ended.           *)
JoinListener ==
    /\ Up /\ main = "join"
    /\ Taches # {} /\ listener[Back] = "over"
    /\ listener' = [listener EXCEPT ![Back] = "gone"]
    /\ main' = "joined"
    /\ UNCHANGED <<verrou, max_server, peers, dying_ones, server, pool, told, status>>

(* The null pointer leaves taches; with no listener left main waits for the  *)
(* pool.                                                                     *)
PopListener ==
    /\ Up /\ main = "joined"
    /\ main' = IF Taches = {} THEN "join_pool" ELSE "join"
    /\ UNCHANGED <<verrou, max_server, peers, dying_ones, server, pool, listener,
                   told, status>>

(* close_all_listeners, run by the main thread for a signal (no libdar job   *)
(* is running): the listeners are cancelled first. A second signal would do  *)
(* the same again, and is left out.                                          *)
StopListeners ==
    /\ Up /\ main = "join"
    /\ max_server > 0 \/ ~(Taches \subseteq told)
    /\ told' = told \cup Taches
    /\ main' = "stop"
    /\ UNCHANGED <<verrou, max_server, peers, dying_ones, server, pool, listener,
                   status>>

(* The same when a pointer of taches is null: the handler throws before it   *)
(* cancels the pool. The process ends unless main catches what the handler   *)
(* throws: then its loop never gets past the null pointer.                   *)
SignalMeetsNull ==
    /\ Up /\ main \in {"joined", "catch"} /\ verrou # Main
    /\ told' = Listeners
    /\ main' \in {"over"} \cup IF main = "joined" THEN {"stuck"} ELSE {}
    /\ UNCHANGED <<verrou, max_server, peers, dying_ones, server, pool, listener,
                   status>>

(* The last listener ended with an exception: the others are cancelled and   *)
(* joined by their destructor. main does not see the failure of another.     *)
CatchFailure ==
    /\ Up /\ main = "join"
    /\ Taches # {} /\ listener[Back] = "failed"
    /\ told' = Listeners
    /\ main' = "catch"
    /\ UNCHANGED <<verrou, max_server, peers, dying_ones, server, pool, listener,
                   status>>

(* cancel_all_servers.                                                       *)
CancelServers ==
    server' = [c \in Objects |-> IF c \in peers /\ server[c] = "running"
                                 THEN "cancelled" ELSE server[c]]

(* Mutant: the pool thread is not woken up.                                  *)
StopSilently == CancelServers /\ max_server' = 0 /\ UNCHANGED pool

(* signaled_inherited_cancel, once it has verrou.                            *)
StopPool == CancelServers /\ max_server' = 0 /\ Signal

(* pool->cancel(): cancel_all_servers reads the peers.                       *)
LockToCancel ==
    /\ Up
    /\ \/ main = "stop"
       \/ main = "catch" /\ \A l \in Listeners : listener[l] \in {"over", "failed", "gone"}
    /\ verrou = Nobody
    /\ verrou' = Main
    /\ UNCHANGED <<max_server, peers, dying_ones, server, pool, listener, told,
                   main, status>>

CancelPool ==
    /\ Up /\ verrou = Main
    /\ StopPool
    /\ verrou' = Nobody
    /\ main' = IF main = "stop" THEN "join" ELSE "join_pool"
    /\ UNCHANGED <<peers, dying_ones, listener, told, status>>

(* The listeners then the pool are joined, and the process ends.             *)
Finish ==
    /\ Up /\ main = "join_pool"
    /\ \A l \in Listeners : listener[l] \in {"over", "failed", "gone"}
    /\ ~PoolIsRunning
    /\ main' = "over"
    /\ UNCHANGED <<verrou, max_server, peers, dying_ones, server, pool, listener,
                   told, status>>

Over == ~Up /\ UNCHANGED vars

-----------------------------------------------------------------------------
Listener(l) == Accept(l) \/ Enter(l) \/ Insert(l) \/ EndListener(l)

Server(c) == LeavePeers(c) \/ EndServer(c)

PoolThread == PoolLocks \/ JoinDying \/ PoolWaitsOrEnds

MainThread ==
    JoinListener \/ PopListener \/ StopListeners \/ SignalMeetsNull \/ CatchFailure
    \/ LockToCancel \/ CancelPool \/ Finish

Next ==
    \/ \E l \in Listeners : Listener(l)
    \/ \E c \in Objects : Server(c)
    \/ PoolThread \/ SpuriousWakeUp \/ MainThread \/ Over

Spec == Init /\ [][Next]_vars

(* Threads are scheduled and verrou is eventually granted to a thread that   *)
(* keeps asking for it; a server thread that is cancelled ends; nothing says *)
(* when connections come or end, nor that the process is asked to stop.      *)
Fairness ==
    /\ \A l \in Listeners : /\ SF_vars(Enter(l)) /\ WF_vars(Insert(l))
                            /\ WF_vars(EndListener(l))
    /\ \A c \in Objects : /\ WF_vars(server[c] = "cancelled" /\ LeavePeers(c))
                          /\ SF_vars(EndServer(c))
    /\ SF_vars(PoolLocks) /\ WF_vars(JoinDying) /\ WF_vars(PoolWaitsOrEnds)
    /\ SF_vars(LockToCancel) /\ WF_vars(CancelPool) /\ WF_vars(Finish)

FairSpec == Spec /\ Fairness

-----------------------------------------------------------------------------
TypeOK ==
    /\ verrou \in {Nobody, Pool, Main} \cup Listeners
    /\ max_server \in {0, MaxServer}
    /\ peers \in SUBSET Objects
    /\ dying_ones \in Seq(Objects)
    /\ server \in [Objects -> ServerStates]
    /\ pool \in PoolStates
    /\ listener \in [Listeners -> ListenerStates]
    /\ told \in SUBSET Listeners
    /\ main \in MainStates
    /\ status \in {"up", "undefined"}

(* Whatever the number of listeners and the order in which connections come  *)
(* and end, the pool never has more servers than it was allowed, and never   *)
(* gets a new one once it was cancelled (server_pool.cpp:121, 216).          *)
PeersBounded ==
    /\ Cardinality(peers) <= MaxServer
    /\ max_server = 0 => \A c \in peers : server[c] # "running"

(* An object is the pool's in one way at a time: as a peer while its thread  *)
(* runs, once in dying_ones when it ended, in none while its thread passes   *)
(* from one to the other. No object is deleted twice or while listed.        *)
TrackedOnce ==
    /\ peers = {c \in Objects : server[c] \in {"stillborn", "running", "cancelled"}}
    /\ Dying = {c \in Objects : server[c] \in {"over", "failed", "bug"}}
    /\ \A i, j \in DOMAIN dying_ones : i # j => dying_ones[i] # dying_ones[j]

(* A server that ended is deleted, unless the pool thread has ended itself.  *)
DyingIsDeleted ==
    \A c \in Objects :
        server[c] \in {"over", "failed", "bug"} ~>
            server[c] = "none" \/ ~PoolIsRunning \/ ~Up

(* Once a signal or a failure asks for the end the thread of the pool ends,  *)
(* whoever signals, locks or leaves first, unless an object whose thread     *)
(* could not be run stays among its peers for ever (server_pool.cpp:129,     *)
(* 146), or main ends or is stuck by the null pointer of the listener it has *)
(* just joined (webdar.cpp:724).                                             *)
CancelledPoolEnds ==
    max_server = 0 \/ main \in {"stop", "catch"} ~>
        ~PoolIsRunning \/ ~Up \/ \E c \in peers : server[c] = "stillborn"

=============================================================================
