---------------------------- MODULE WebdarProofs ----------------------------
(* Proofs about what runs from the command line on (ServerPool, Webdar) and  *)
(* about the pages that a user meets once logged in (Pages): for any size of *)
(* the pool, any number of listeners and of server objects, any command      *)
(* lines, any credentials, archives, tabs and configurations.                *)
(*                                                                           *)
(* What a fold computes is proved by induction on the length of a sequence   *)
(* (NatSets), once the function that the fold chooses is known to exist      *)
(* (FoldExists).                                                             *)
EXTENDS Webdar, Pages, SequenceTheorems, FiniteSetTheorems, FunctionTheorems, TLAPS

-----------------------------------------------------------------------------
(* The pool, its servers and its listeners.                                  *)

(* A listener between its test and its insertion holds verrou, so that the   *)
(* place it found is still there: servers may only have left meanwhile.      *)
InsertShape ==
    \A l \in Listeners :
        listener[l] = "insert" =>
            /\ verrou = l
            /\ Cardinality(peers) < max_server

(* The pool thread holds verrou while it walks through dying_ones, and the   *)
(* main thread while it cancels the servers.                                 *)
HolderShape ==
    /\ pool = "loop" => verrou = Pool
    /\ verrou = Main => main \in {"stop", "catch"}

IInv == TypeOK /\ InsertShape /\ HolderShape /\ PeersBounded /\ TrackedOnce

-----------------------------------------------------------------------------
LEMMA PeersFinite ==
    ASSUME TypeOK
    PROVE  IsFiniteSet(peers) /\ Cardinality(peers) \in Nat
BY PoolAssumption, FS_Subset, FS_CardinalityType DEF TypeOK

(* One more and one less in dying_ones.                                      *)
LEMMA AppendDying ==
    ASSUME TypeOK, NEW c \in Objects, c \notin Dying,
           \A i, j \in DOMAIN dying_ones : i # j => dying_ones[i] # dying_ones[j],
           dying_ones' = Append(dying_ones, c)
    PROVE  /\ dying_ones' \in Seq(Objects)
           /\ Dying' = Dying \cup {c}
           /\ \A i, j \in DOMAIN dying_ones' :
                 i # j => dying_ones'[i] # dying_ones'[j]
<1>1. /\ DOMAIN dying_ones = 1..Len(dying_ones)
      /\ DOMAIN dying_ones' = 1..(Len(dying_ones) + 1)
      /\ Len(dying_ones) \in Nat
      /\ \A i \in 1..Len(dying_ones) : dying_ones'[i] = dying_ones[i]
      /\ dying_ones'[Len(dying_ones) + 1] = c
  BY DEF TypeOK
<1> QED
  BY <1>1 DEF TypeOK, Dying

LEMMA TailDying ==
    ASSUME TypeOK, dying_ones # <<>>,
           \A i, j \in DOMAIN dying_ones : i # j => dying_ones[i] # dying_ones[j],
           dying_ones' = Tail(dying_ones)
    PROVE  /\ Head(dying_ones) \in Dying
           /\ dying_ones' \in Seq(Objects)
           /\ Dying' = Dying \ {Head(dying_ones)}
           /\ \A i, j \in DOMAIN dying_ones' :
                 i # j => dying_ones'[i] # dying_ones'[j]
<1>1. /\ DOMAIN dying_ones = 1..Len(dying_ones)
      /\ DOMAIN dying_ones' = 1..(Len(dying_ones) - 1)
      /\ Len(dying_ones) \in Nat \ {0}
      /\ \A i \in 1..(Len(dying_ones) - 1) : dying_ones'[i] = dying_ones[i + 1]
      /\ Head(dying_ones) = dying_ones[1]
  BY DEF TypeOK
<1>2. /\ Head(dying_ones) \in Dying
      /\ dying_ones' \in Seq(Objects)
  BY <1>1 DEF TypeOK, Dying
<1>3. Dying' = Dying \ {Head(dying_ones)}
  <2>1. ASSUME NEW i \in 1..(Len(dying_ones) - 1)
        PROVE  dying_ones'[i] \in Dying /\ dying_ones'[i] # Head(dying_ones)
    BY <1>1 DEF Dying
  <2>2. ASSUME NEW i \in DOMAIN dying_ones, dying_ones[i] # Head(dying_ones)
        PROVE  dying_ones[i] \in Dying'
    <3>1. i - 1 \in DOMAIN dying_ones' /\ dying_ones'[i - 1] = dying_ones[i]
      BY <1>1, <2>2
    <3> QED
      BY <3>1 DEF Dying
  <2> QED
    BY <1>1, <2>1, <2>2 DEF Dying
<1>4. \A i, j \in DOMAIN dying_ones' : i # j => dying_ones'[i] # dying_ones'[j]
  BY <1>1
<1> QED
  BY <1>2, <1>3, <1>4

-----------------------------------------------------------------------------
LEMMA IInvInit == Init => IInv
<1> SUFFICES ASSUME Init PROVE IInv
  OBVIOUS
<1>1. TypeOK
  BY PoolAssumption
  DEF Init, TypeOK, ServerStates, PoolStates, ListenerStates, MainStates
<1>2. PeersBounded /\ InsertShape /\ HolderShape
  BY PoolAssumption, FS_EmptySet
  DEF Init, PeersBounded, InsertShape, HolderShape
<1>3. TrackedOnce
  BY DEF Init, TrackedOnce, Dying
<1> QED
  BY <1>1, <1>2, <1>3 DEF IInv

(* Steps that touch neither the servers nor the two collections.             *)
LEMMA QuietStep ==
    ASSUME IInv, TypeOK', InsertShape', HolderShape',
           UNCHANGED <<max_server, peers, dying_ones, server>>
    PROVE  IInv'
<1>1. PeersBounded' /\ TrackedOnce'
  BY DEF IInv, PeersBounded, TrackedOnce, Dying
<1> QED
  BY <1>1 DEF IInv

LEMMA ListenerStep ==
    ASSUME IInv, NEW l \in Listeners, Listener(l)
    PROVE  IInv'
<1> USE PoolAssumption DEF Up
<1>0. TypeOK
  BY DEF IInv
<1>1. CASE Accept(l)
  <2>1. TypeOK' /\ InsertShape' /\ HolderShape'
    BY <1>1 DEF IInv, TypeOK, InsertShape, HolderShape, Accept, ListenerStates
  <2> QED
    BY <1>1, <2>1, QuietStep DEF Accept
<1>2. CASE Enter(l)
  <2>1. TypeOK'
    BY <1>2 DEF IInv, TypeOK, Enter, ListenerStates
  <2>2. HolderShape'
    BY <1>2 DEF IInv, HolderShape, Enter
  <2>3. InsertShape'
    <3>1. CASE listener' = [listener EXCEPT ![l] = "insert"]
      <4>1. ~IsFull /\ verrou' = l /\ verrou = Nobody
        BY <1>0, <1>2, <3>1 DEF Enter, TypeOK
      <4>2. \A k \in Listeners : listener[k] # "insert"
        BY <4>1 DEF IInv, InsertShape
      <4>3. Cardinality(peers) < max_server
        BY <1>0, <4>1, PeersFinite DEF IsFull, TypeOK
      <4> QED
        BY <1>0, <1>2, <3>1, <4>1, <4>2, <4>3 DEF InsertShape, Enter, TypeOK
    <3>2. CASE listener' # [listener EXCEPT ![l] = "insert"]
      BY <1>0, <1>2, <3>2 DEF IInv, InsertShape, Enter, TypeOK
    <3> QED
      BY <3>1, <3>2
  <2> QED
    BY <1>2, <2>1, <2>2, <2>3, QuietStep DEF Enter
<1>3. CASE Insert(l)
  <2>1. PICK c \in Free :
           /\ peers' = peers \cup {c}
           /\ \/ /\ server' = [server EXCEPT ![c] = "running"]
                 /\ listener' = [listener EXCEPT ![l] = "accept"]
              \/ /\ server' = [server EXCEPT ![c] = "stillborn"]
                 /\ listener' = [listener EXCEPT ![l] = "failed"]
    BY <1>3 DEF Insert
  <2>2. c \in Objects /\ c \notin peers /\ c \notin Dying
    BY <1>0, <2>1 DEF Free, IInv, TrackedOnce, TypeOK
  <2>3. verrou = l /\ Cardinality(peers) < max_server
    BY <1>3 DEF Insert, IInv, InsertShape
  <2>4. max_server = MaxServer
    BY <1>0, <2>3, PeersFinite DEF TypeOK
  <2>5. TypeOK'
    BY <1>0, <1>3, <2>1, <2>2 DEF TypeOK, Insert, ServerStates, ListenerStates
  <2>6. HolderShape'
    BY <1>3, <2>3 DEF IInv, HolderShape, Insert
  <2>7. InsertShape'
    BY <1>0, <1>3, <2>1, <2>3 DEF IInv, InsertShape, TypeOK
  <2>8. PeersBounded'
    <3>1. Cardinality(peers') = Cardinality(peers) + 1
      BY <1>0, <2>1, <2>2, PeersFinite, FS_AddElement
    <3> QED
      BY <1>0, <1>3, <2>3, <2>4, <3>1, PeersFinite
      DEF IInv, PeersBounded, Insert, TypeOK
  <2>9. TrackedOnce'
    BY <1>0, <1>3, <2>1, <2>2 DEF IInv, TrackedOnce, Insert, Dying, TypeOK
  <2> QED
    BY <2>5, <2>6, <2>7, <2>8, <2>9 DEF IInv
<1>4. CASE EndListener(l)
  <2>1. TypeOK' /\ InsertShape' /\ HolderShape'
    BY <1>4
    DEF IInv, TypeOK, InsertShape, HolderShape, EndListener, ListenerStates
  <2> QED
    BY <1>4, <2>1, QuietStep DEF EndListener
<1> QED
  BY <1>1, <1>2, <1>3, <1>4 DEF Listener

LEMMA ServerStep ==
    ASSUME IInv, NEW c \in Objects, Server(c)
    PROVE  IInv'
<1> USE PoolAssumption DEF Up
<1>0. TypeOK
  BY DEF IInv
<1>1. CASE LeavePeers(c)
  <2>1. c \in peers /\ c \notin Dying
    BY <1>0, <1>1 DEF IInv, TrackedOnce, LeavePeers
  <2>2. Cardinality(peers') = Cardinality(peers) - 1
    BY <1>0, <1>1, <2>1, PeersFinite, FS_RemoveElement DEF LeavePeers
  <2>3. TypeOK'
    BY <1>0, <1>1 DEF TypeOK, LeavePeers, ServerStates
  <2>4. InsertShape' /\ HolderShape' /\ PeersBounded'
    BY <1>0, <1>1, <2>2, PeersFinite
    DEF IInv, InsertShape, HolderShape, PeersBounded, LeavePeers, TypeOK
  <2>5. TrackedOnce'
    BY <1>0, <1>1, <2>1 DEF IInv, TrackedOnce, LeavePeers, Dying, TypeOK
  <2> QED
    BY <2>3, <2>4, <2>5 DEF IInv
<1>2. CASE EndServer(c)
  <2>0. PICK end \in {"over", "failed", "bug"} : server' = [server EXCEPT ![c] = end]
    BY <1>2 DEF EndServer
  <2>1. c \notin peers /\ c \notin Dying
    BY <1>0, <1>2 DEF IInv, TrackedOnce, EndServer
  <2>2. /\ dying_ones' \in Seq(Objects)
        /\ Dying' = Dying \cup {c}
        /\ \A i, j \in DOMAIN dying_ones' :
              i # j => dying_ones'[i] # dying_ones'[j]
    BY <1>0, <1>2, <2>1, AppendDying
    DEF EndServer, PushDying, IInv, TrackedOnce
  <2>3. pool' \in PoolStates /\ (pool' = "loop" => pool = "loop")
    BY <1>0, <1>2 DEF EndServer, PushDying, Signal, TypeOK, PoolStates
  <2>4. TypeOK'
    BY <1>0, <1>2, <2>0, <2>2, <2>3 DEF TypeOK, EndServer, ServerStates
  <2>5. InsertShape' /\ HolderShape' /\ PeersBounded'
    BY <1>0, <1>2, <2>0, <2>1, <2>3
    DEF IInv, InsertShape, HolderShape, PeersBounded, EndServer, TypeOK
  <2>6. TrackedOnce'
    BY <1>0, <1>2, <2>0, <2>1, <2>2 DEF IInv, TrackedOnce, EndServer, TypeOK
  <2> QED
    BY <2>4, <2>5, <2>6 DEF IInv
<1> QED
  BY <1>1, <1>2 DEF Server

LEMMA PoolStep ==
    ASSUME IInv, PoolThread \/ SpuriousWakeUp
    PROVE  IInv'
<1> USE PoolAssumption DEF Up
<1>0. TypeOK
  BY DEF IInv
<1>1. CASE PoolLocks \/ SpuriousWakeUp \/ PoolWaitsOrEnds
  <2>1. TypeOK' /\ InsertShape' /\ HolderShape'
    BY <1>1
    DEF IInv, TypeOK, InsertShape, HolderShape, PoolLocks, SpuriousWakeUp,
        PoolWaitsOrEnds, PoolStates
  <2> QED
    BY <1>1, <2>1, QuietStep DEF PoolLocks, SpuriousWakeUp, PoolWaitsOrEnds
<1>2. CASE JoinDying
  <2> PICK c : c = Head(dying_ones)
    OBVIOUS
  <2>0. c \in Objects /\ c \in Dying /\ c \notin peers
    BY <1>0, <1>2 DEF JoinDying, TypeOK, Dying, IInv, TrackedOnce
  <2>1. UNCHANGED <<max_server, peers, listener, main>> /\ verrou = Pool
    BY <1>2 DEF JoinDying, IInv, HolderShape
  <2>2. \A l \in Listeners : listener[l] # "insert"
    BY <2>1 DEF IInv, InsertShape
  <2>3. CASE server[c] = "over" /\ Recycle(c) /\ UNCHANGED <<pool, verrou>>
    <3>1. /\ dying_ones' \in Seq(Objects)
          /\ Dying' = Dying \ {c}
          /\ \A i, j \in DOMAIN dying_ones' :
                i # j => dying_ones'[i] # dying_ones'[j]
      BY <1>0, <1>2, <2>3, TailDying DEF JoinDying, Recycle, IInv, TrackedOnce
    <3>2. server' = [server EXCEPT ![c] = "none"]
      BY <2>3 DEF Recycle
    <3>3. TypeOK'
      BY <1>0, <1>2, <2>0, <2>1, <2>3, <3>1, <3>2
      DEF TypeOK, JoinDying, ServerStates
    <3>4. InsertShape' /\ HolderShape' /\ PeersBounded'
      BY <1>0, <2>0, <2>1, <2>2, <2>3, <3>2
      DEF IInv, InsertShape, HolderShape, PeersBounded, TypeOK
    <3>5. TrackedOnce'
      BY <1>0, <2>0, <2>1, <3>1, <3>2 DEF IInv, TrackedOnce, TypeOK
    <3> QED
      BY <3>3, <3>4, <3>5 DEF IInv
  <2>4. CASE /\ server[c] \in {"failed", "bug"}
             /\ server' = [server EXCEPT ![c] = "over"]
             /\ UNCHANGED dying_ones
             /\ \/ UNCHANGED <<pool, verrou>>
                \/ pool' = "bug" /\ verrou' = Nobody
    <3>1. TypeOK'
      BY <1>0, <1>2, <2>1, <2>4
      DEF TypeOK, JoinDying, ServerStates, PoolStates
    <3>2. InsertShape' /\ HolderShape' /\ PeersBounded'
      BY <1>0, <2>0, <2>1, <2>2, <2>4
      DEF IInv, InsertShape, HolderShape, PeersBounded, TypeOK
    <3>3. TrackedOnce'
      BY <1>0, <2>0, <2>1, <2>4 DEF IInv, TrackedOnce, Dying, TypeOK
    <3> QED
      BY <3>1, <3>2, <3>3 DEF IInv
  <2> QED
    BY <1>2, <2>3, <2>4 DEF JoinDying
<1> QED
  BY <1>1, <1>2 DEF PoolThread

LEMMA MainStep ==
    ASSUME IInv, MainThread
    PROVE  IInv'
<1> USE PoolAssumption DEF Up
<1>0. TypeOK
  BY DEF IInv
<1>1. CASE \/ PopListener \/ StopListeners \/ SignalMeetsNull \/ CatchFailure
           \/ LockToCancel \/ Finish
  <2>0. /\ verrou' \in {verrou, Main} /\ (verrou' # verrou => verrou = Nobody)
        /\ main' \in MainStates /\ told' \in SUBSET Listeners
        /\ verrou' = Main => main' \in {"stop", "catch"}
        /\ UNCHANGED <<max_server, peers, dying_ones, server, pool, listener, status>>
    BY <1>0, <1>1
    DEF IInv, TypeOK, HolderShape, PopListener, StopListeners, SignalMeetsNull,
        CatchFailure, LockToCancel, Finish, MainStates, Taches
  <2>1. TypeOK' /\ InsertShape' /\ HolderShape'
    BY <1>0, <2>0 DEF IInv, TypeOK, InsertShape, HolderShape
  <2> QED
    BY <1>1, <2>1, QuietStep
    DEF PopListener, StopListeners, SignalMeetsNull, CatchFailure, LockToCancel, Finish
<1>3. CASE JoinListener
  <2>1. PICK b : b = Back
    OBVIOUS
  <2>2. listener' = [listener EXCEPT ![b] = "gone"] /\ main = "join" /\ main' = "joined"
        /\ UNCHANGED <<verrou, max_server, peers, dying_ones, server, pool, told, status>>
    BY <1>3, <2>1 DEF JoinListener
  <2>3. TypeOK' /\ InsertShape' /\ HolderShape'
    BY <2>2 DEF IInv, TypeOK, InsertShape, HolderShape, MainStates, ListenerStates
  <2> QED
    BY <2>2, <2>3, QuietStep
<1>2. CASE CancelPool
  <2>1. /\ max_server' = 0 /\ verrou' = Nobody /\ main' \in {"join", "join_pool"}
        /\ server' = [c \in Objects |-> IF c \in peers /\ server[c] = "running"
                                        THEN "cancelled" ELSE server[c]]
        /\ UNCHANGED <<peers, dying_ones, listener, told, status>>
        /\ verrou = Main
    BY <1>2 DEF CancelPool, StopPool, CancelServers
  <2>2. pool' \in PoolStates /\ (pool' = "loop" => pool = "loop")
    BY <1>0, <1>2 DEF CancelPool, StopPool, Signal, TypeOK, PoolStates
  <2>3. \A l \in Listeners : listener[l] # "insert"
    BY <2>1 DEF IInv, InsertShape
  <2>4. \A c \in Objects : server'[c] \in ServerStates
    BY <1>0, <2>1 DEF TypeOK, ServerStates
  <2>5. TypeOK'
    BY <1>0, <2>1, <2>2, <2>4 DEF TypeOK, MainStates
  <2>6. InsertShape' /\ HolderShape' /\ PeersBounded'
    BY <1>0, <2>1, <2>2, <2>3
    DEF IInv, InsertShape, HolderShape, PeersBounded, TypeOK
  <2>7. TrackedOnce'
    BY <1>0, <2>1 DEF IInv, TrackedOnce, Dying, TypeOK
  <2> QED
    BY <2>5, <2>6, <2>7 DEF IInv
<1> QED
  BY <1>1, <1>2, <1>3 DEF MainThread

LEMMA IInvStep == IInv /\ [Next]_vars => IInv'
<1> SUFFICES ASSUME IInv, [Next]_vars PROVE IInv'
  OBVIOUS
<1>1. CASE UNCHANGED vars
  <2>1. TypeOK' /\ InsertShape' /\ HolderShape'
    BY <1>1 DEF IInv, TypeOK, InsertShape, HolderShape, vars
  <2> QED
    BY <1>1, <2>1, QuietStep DEF vars
<1> QED
  BY <1>1, ListenerStep, ServerStep, PoolStep, MainStep DEF Next, Over

LEMMA Invariance == Spec => []IInv
BY IInvInit, IInvStep, PTL DEF Spec

(* The variables keep their types.                                           *)
THEOREM TypeCorrect == Spec => []TypeOK
<1>1. IInv => TypeOK
  BY DEF IInv
<1> QED
  BY <1>1, Invariance, PTL

(* The test and the insertion of run_new_server are one critical section:    *)
(* no number of listeners gets the pool over its size, and none gets a       *)
(* server from a pool that was cancelled.                                    *)
THEOREM PeersStayBounded == Spec => []PeersBounded
<1>1. IInv => PeersBounded
  BY DEF IInv
<1> QED
  BY <1>1, Invariance, PTL

(* Every object is known to the pool in exactly one way, and is listed for   *)
(* deletion at most once.                                                    *)
THEOREM ObjectsTrackedOnce == Spec => []TrackedOnce
<1>1. IInv => TrackedOnce
  BY DEF IInv
<1> QED
  BY <1>1, Invariance, PTL

-----------------------------------------------------------------------------
(* The start of the program: what main does besides ServerPool.              *)

(* Nobody is in the pool before there is one.                                *)
NobodyYet == start.phase \in {"parse", "create"} => verrou = Nobody

StartFields == {"phase", "cmd", "ecoute", "ciphered", "max_srv", "sockets"}

(* The sockets that may be opened: those asked for, ciphered as all are.     *)
Asks == [address : {start.ecoute[k] : k \in Nat}, ciphered : {start.ciphered}]

StartShape ==
    /\ start = [f \in StartFields |-> start[f]]
    /\ start.phase = "parse" => start.cmd \in Commands
    /\ \E n \in 0..Cardinality(Listeners) : DOMAIN start.ecoute = 1..n
    /\ start.sockets \in Seq(Asks)
    /\ Started \subseteq DOMAIN start.ecoute
    /\ \A k \in Started : start.sockets[k].address = start.ecoute[k]
    /\ start.phase # "launch" => start.sockets = <<>>

StartInv == IInv /\ NobodyYet /\ StartShape

(* Exceptions and the ends of the program leave the pool as it is.           *)
LEMMA MainLeaves ==
    ASSUME IInv, verrou # Main,
           main' \in MainStates, told' \in SUBSET Listeners,
           listener' \in [Listeners -> ListenerStates],
           \A l \in Listeners : listener'[l] = "insert" => listener[l] = "insert",
           UNCHANGED <<verrou, max_server, peers, dying_ones, server, pool, status>>
    PROVE  IInv'
<1>1. TypeOK'
  BY DEF IInv, TypeOK
<1>2. InsertShape' /\ HolderShape'
  BY DEF IInv, InsertShape, HolderShape
<1> QED
  BY <1>1, <1>2, QuietStep

LEMMA StartedAreListeners ==
    ASSUME StartShape
    PROVE  Started \subseteq Listeners
<1>1. Cardinality(Listeners) \in Nat
  BY ListenersAssumption, FS_CardinalityType
<1>2. DOMAIN start.ecoute \subseteq Listeners
  BY <1>1, ListenersAssumption DEF StartShape
<1> QED
  BY <1>2 DEF StartShape

LEMMA StartStep ==
    ASSUME IInv, NobodyYet, StartShape, StartProgram \/ SignalWhileStarting
    PROVE  IInv'
<1> USE DEF Up, MainStates
<1>0. TypeOK
  BY DEF IInv
<1>1. CASE UNCHANGED vars
  BY <1>1, IInvStep
<1>2. CASE ExitAtOnce /\ start.phase \in {"parse", "create"}
  <2>1. verrou # Main
    BY <1>2, PoolAssumption DEF NobodyYet
  <2> QED
    BY <1>0, <1>2, <2>1, MainLeaves DEF ExitAtOnce, TypeOK
<1>3. ASSUME InMain, NEW n, LeaveMain(n) PROVE IInv'
  <2>1. verrou # Main
    BY <1>3 DEF InMain, IInv, HolderShape
  <2>2. listener' \in [Listeners -> ListenerStates]
    BY <1>0, <1>3 DEF LeaveMain, TypeOK, ListenerStates
  <2>3. \A l \in Listeners : listener'[l] = "insert" => listener[l] = "insert"
    BY <1>0, <1>3 DEF LeaveMain, TypeOK
  <2> QED
    BY <1>3, <2>1, <2>2, <2>3, MainLeaves DEF LeaveMain
<1>4. CASE WaitForListeners
  <2>1. verrou # Main
    BY <1>4 DEF WaitForListeners, InMain, IInv, HolderShape
  <2>2. listener' \in [Listeners -> ListenerStates]
    BY <1>0, <1>4 DEF WaitForListeners, TypeOK, ListenerStates
  <2>3. \A l \in Listeners : listener'[l] = "insert" => listener[l] = "insert"
    BY <1>0, <1>4 DEF WaitForListeners, TypeOK
  <2>4. main' \in MainStates /\ told' \in SUBSET Listeners
    BY <1>0, <1>4 DEF WaitForListeners, TypeOK
  <2> QED
    BY <1>4, <2>1, <2>2, <2>3, <2>4, MainLeaves DEF WaitForListeners
<1>5. CASE SignalWhileStarting
  <2>1. verrou # Main
    BY <1>5 DEF SignalWhileStarting, InMain, IInv, HolderShape
  <2>2. told' \in SUBSET Listeners
    BY <1>5, StartedAreListeners DEF SignalWhileStarting
  <2> QED
    BY <1>0, <1>5, <2>1, <2>2, MainLeaves DEF SignalWhileStarting, TypeOK
<1>6. CASE StartProgram
  <2>1. UNCHANGED vars
        \/ (ExitAtOnce /\ start.phase \in {"parse", "create"})
        \/ (InMain /\ \E n : LeaveMain(n)) \/ WaitForListeners
    BY <1>6 DEF StartProgram, ParseCmd, CreatePool, InitLibraries, LaunchListener
  <2> QED
    BY <1>1, <1>2, <1>3, <1>4, <2>1
<1> QED
  BY <1>5, <1>6

LEMMA ThreadsStep ==
    ASSUME IInv, StartShape, Threads
    PROVE  IInv'
<1>1. CASE PoolThread \/ SpuriousWakeUp
  BY <1>1, PoolStep
<1>2. CASE \E l \in Started : Listener(l)
  <2>1. PICK l \in Started : Listener(l)
    BY <1>2
  <2> QED
    BY <2>1, StartedAreListeners, ListenerStep
<1>3. CASE \E c \in Objects : Server(c)
  BY <1>3, ServerStep
<1>4. CASE LockToCancel \/ CancelPool
  BY <1>4, MainStep DEF MainThread
<1>5. CASE Next
  BY <1>5, IInvStep
<1> QED
  BY <1>1, <1>2, <1>3, <1>4, <1>5 DEF Threads

LEMMA NobodyYetKept ==
    ASSUME NobodyYet, StartShape, WebdarNext
    PROVE  NobodyYet'
<1>1. start = [f \in StartFields |-> start[f]]
  BY DEF StartShape
<1>2. CASE ParseCmd
  <2>1. verrou' = verrou /\ start.phase = "parse"
    BY <1>2 DEF ParseCmd, ExitAtOnce, vars
  <2> QED
    BY <2>1 DEF NobodyYet
<1>3. CASE CreatePool
  <2>1. verrou' = verrou /\ start.phase = "create"
    BY <1>3 DEF CreatePool, ExitAtOnce, vars
  <2> QED
    BY <2>1 DEF NobodyYet
<1>4. ASSUME start'.phase \notin {"parse", "create"} PROVE NobodyYet'
  BY <1>4 DEF NobodyYet
<1>5. CASE InitLibraries
  <2>1. start' = [start EXCEPT !.phase = "launch"] \/ start' = Launched
    BY <1>5 DEF InitLibraries, LeaveMain
  <2> QED
    BY <1>1, <1>4, <2>1 DEF StartFields, Launched
<1>6. CASE LaunchListener
  <2>1. start.phase = "launch"
    BY <1>6 DEF LaunchListener
  <2>2. start' = Launched \/ \E q : start' = [start EXCEPT !.sockets = q]
    BY <1>6 DEF LaunchListener, LeaveMain
  <2> QED
    BY <1>1, <1>4, <2>1, <2>2 DEF StartFields, Launched
<1>7. CASE WaitForListeners
  <2>1. start' = Launched
    BY <1>7 DEF WaitForListeners
  <2> QED
    BY <1>4, <2>1 DEF Launched
<1>8. CASE SignalWhileStarting
  BY <1>4, <1>8 DEF SignalWhileStarting, Starting
<1>9. CASE Threads
  <2>1. CASE Starting \/ start.phase = "up"
    BY <1>4, <1>9, <2>1 DEF Threads, Starting
  <2>2. CASE ~Up /\ Next
    <3>1. UNCHANGED verrou
      BY <2>2
      DEF Next, Listener, Accept, Enter, Insert, EndListener, Server, LeavePeers, EndServer,
          PoolThread, PoolLocks, JoinDying, PoolWaitsOrEnds, SpuriousWakeUp, MainThread,
          JoinListener, PopListener, StopListeners, SignalMeetsNull, CatchFailure,
          LockToCancel, CancelPool, Finish, Over, vars
    <3> QED
      BY <1>9, <3>1 DEF Threads, NobodyYet
  <2> QED
    BY <1>9, <2>1, <2>2 DEF Threads
<1> QED
  BY <1>2, <1>3, <1>5, <1>6, <1>7, <1>8, <1>9 DEF WebdarNext, StartProgram

(* The start of main keeps its shape: a socket is added behind the others.   *)
LEMMA StartShapeKept ==
    ASSUME StartShape, WebdarNext
    PROVE  StartShape'
<1>1. start = [f \in StartFields |-> start[f]]
  BY DEF StartShape
<1>2. Cardinality(Listeners) \in Nat /\ 0 \in 0..Cardinality(Listeners)
      /\ 1 \in 0..Cardinality(Listeners)
  BY ListenersAssumption, FS_CardinalityType
<1>3. CASE UNCHANGED start
  <2> PICK A : A = Asks
    OBVIOUS
  <2>1. Asks' = A
    BY <1>3 DEF Asks
  <2>2. Started' = Started
    BY <1>3 DEF Started
  <2>3. start'.sockets \in Seq(Asks')
    BY <1>3, <2>1 DEF StartShape
  <2>4. /\ start' = [f \in StartFields |-> start'[f]]
        /\ start'.phase = "parse" => start'.cmd \in Commands
        /\ start'.phase # "launch" => start'.sockets = <<>>
    BY <1>1, <1>3 DEF StartShape
  <2>5. \E n \in 0..Cardinality(Listeners) : DOMAIN start'.ecoute = 1..n
    BY <1>3 DEF StartShape
  <2>6. Started' \subseteq DOMAIN start'.ecoute
        /\ \A k \in Started' : start'.sockets[k].address = start'.ecoute[k]
    BY <1>3, <2>2 DEF StartShape
  <2> QED
    BY <2>3, <2>4, <2>5, <2>6 DEF StartShape
<1>4. ASSUME NEW new, start' = new, new = [f \in StartFields |-> new[f]],
             \E n \in 0..Cardinality(Listeners) : DOMAIN new.ecoute = 1..n,
             new.sockets = <<>>, new.phase # "parse"
      PROVE  StartShape'
  <2>1. Started' = 1..0
    BY <1>4 DEF Started
  <2>2. Started' = {}
    BY <2>1
  <2> PICK A : A = Asks'
    OBVIOUS
  <2>3. <<>> \in Seq(A)
    OBVIOUS
  <2>4. start'.sockets \in Seq(Asks')
    BY <1>4, <2>3, Zenon
  <2>5. /\ start' = [f \in StartFields |-> start'[f]]
        /\ start'.phase # "parse" /\ start'.sockets = <<>>
    BY <1>4
  <2>6. \E n \in 0..Cardinality(Listeners) : DOMAIN start'.ecoute = 1..n
    BY <1>4
  <2> QED
    BY <2>2, <2>4, <2>5, <2>6 DEF StartShape
<1>5. ASSUME start' = Launched PROVE StartShape'
  <2>1. PICK new : new = Launched
    OBVIOUS
  <2>2. DOMAIN <<>> = 1..0
    OBVIOUS
  <2>3. new = [f \in StartFields |-> new[f]] /\ new.phase = "up" /\ new.sockets = <<>>
        /\ new.ecoute = <<>>
    BY <2>1 DEF Launched, StartFields
  <2> QED
    BY <1>2, <1>4, <1>5, <2>1, <2>2, <2>3
<1>6. CASE ParseCmd /\ start' # start
  <2>1. PICK parsed : parsed = Parsed(start.cmd)
    OBVIOUS
  <2>2. PICK list : list = IF parsed.ecoute = <<>> THEN <<Local>> ELSE parsed.ecoute
    OBVIOUS
  <2>3. start' = [start EXCEPT !.phase = "create", !.max_srv = parsed.max,
                               !.ciphered = parsed.C /\ parsed.K, !.ecoute = list]
        /\ start.phase = "parse" /\ start.cmd \in Commands
    BY <1>6, <2>1, <2>2 DEF ParseCmd, ExitAtOnce, StartShape
  <2>4. \E n \in 0..Cardinality(Listeners) : DOMAIN list = 1..n
    <3>1. DOMAIN <<Local>> = 1..1
      OBVIOUS
    <3> QED
      BY <1>2, <2>1, <2>2, <2>3, <3>1, ListenersAssumption
  <2>5. start.sockets = <<>>
    BY <2>3 DEF StartShape
  <2>6. PICK new : new = start'
    OBVIOUS
  <2>7. new.ecoute = list /\ new.sockets = <<>> /\ new.phase = "create"
        /\ new = [f \in StartFields |-> new[f]]
    BY <1>1, <2>3, <2>5, <2>6 DEF StartFields
  <2> QED
    BY <1>4, <2>4, <2>6, <2>7
<1>7. CASE CreatePool /\ start' # start
  <2>1. start' = [start EXCEPT !.phase = "init", !.cmd = <<>>] /\ start.phase = "create"
    BY <1>7 DEF CreatePool, ExitAtOnce
  <2>2. PICK new : new = start'
    OBVIOUS
  <2>3. new.ecoute = start.ecoute /\ new.sockets = <<>> /\ new.phase = "init"
        /\ new = [f \in StartFields |-> new[f]]
    BY <1>1, <2>1, <2>2 DEF StartFields, StartShape
  <2> QED
    BY <1>4, <2>2, <2>3 DEF StartShape
<1>8. CASE InitLibraries /\ start' # Launched
  <2>1. start' = [start EXCEPT !.phase = "launch"] /\ start.phase = "init"
    BY <1>8 DEF InitLibraries, LeaveMain
  <2>2. PICK new : new = start'
    OBVIOUS
  <2>3. new.ecoute = start.ecoute /\ new.sockets = <<>> /\ new.phase = "launch"
        /\ new = [f \in StartFields |-> new[f]]
    BY <1>1, <2>1, <2>2 DEF StartFields, StartShape
  <2> QED
    BY <1>4, <2>2, <2>3 DEF StartShape
<1>9. CASE LaunchListener /\ start' # Launched
  <2>1. PICK one : one = [address |-> start.ecoute[Next1], ciphered |-> start.ciphered]
    OBVIOUS
  <2> PICK A : A = Asks
    OBVIOUS
  <2>0. PICK sockets \in Seq(A) : sockets = start.sockets
    BY DEF StartShape
  <2>2. PICK n \in Nat : n = Len(start.sockets) /\ Started = 1..n /\ Next1 = n + 1
    <3>1. Len(sockets) \in Nat /\ DOMAIN sockets = 1..Len(sockets)
      BY <2>0
    <3> QED
      BY <2>0, <3>1 DEF Started, Next1
  <2>3. one \in Asks
    BY <2>1, <2>2 DEF Asks
  <2>4. PICK q \in Seq(A) : /\ q = Append(start.sockets, one)
                             /\ DOMAIN q = 1..(n + 1) /\ q[n + 1] = one
                             /\ \A k \in 1..n : q[k] = start.sockets[k]
    <3>1. PICK q : q = Append(sockets, one)
      OBVIOUS
    <3>2. /\ q \in Seq(A) /\ Len(q) = n + 1 /\ q[n + 1] = one
          /\ \A k \in 1..n : q[k] = sockets[k]
      BY <2>0, <2>2, <2>3, <3>1, AppendProperties
    <3> QED
      BY <2>0, <2>2, <3>1, <3>2
  <2>5. start' = [start EXCEPT !.sockets = q] /\ start.phase = "launch"
    BY <1>9, <2>1, <2>4 DEF LaunchListener, LeaveMain, IsCiphered
  <2>6. /\ start'.sockets = q /\ start'.ecoute = start.ecoute /\ start'.phase = "launch"
        /\ start'.ciphered = start.ciphered
        /\ start' = [f \in StartFields |-> start'[f]]
    BY <1>1, <2>5 DEF StartFields
  <2>7. Asks' = Asks
    BY <2>6 DEF Asks
  <2>9. Started' = 1..(n + 1)
    BY <2>4, <2>6 DEF Started
  <2>10. 1..(n + 1) \subseteq DOMAIN start.ecoute
    <3>1. PICK m \in 0..Cardinality(Listeners) : DOMAIN start.ecoute = 1..m
      BY DEF StartShape
    <3>2. 1..n \subseteq 1..m /\ n # m /\ m \in Nat
      BY <1>2, <1>5, <1>9, <2>2, <3>1 DEF StartShape, LaunchListener, AllLaunched, LeaveMain
    <3>3. n < m
      BY <3>2
    <3> QED
      BY <2>2, <3>1, <3>2, <3>3
  <2>11. \A k \in 1..(n + 1) : q[k].address = start.ecoute[k]
    <3>1. \A k \in 1..n : start.sockets[k].address = start.ecoute[k]
      BY <2>2 DEF StartShape
    <3> QED
      BY <2>1, <2>2, <2>4, <3>1
  <2>12. q \in Seq(Asks')
    BY <2>0, <2>7
  <2>13. DOMAIN start'.ecoute = DOMAIN start.ecoute /\ Cardinality(Listeners)' = Cardinality(Listeners)
    BY <2>6
  <2> QED
    BY <2>6, <2>9, <2>10, <2>11, <2>12, <2>13 DEF StartShape
<1> QED
  BY <1>3, <1>5, <1>6, <1>7, <1>8, <1>9
  DEF WebdarNext, StartProgram, WaitForListeners, SignalWhileStarting, Threads,
      ParseCmd, CreatePool, ExitAtOnce

(* The listeners that were launched are those that the command line asks     *)
(* for, in its order, and have TLS all or none of them.                      *)
SocketsAgree ==
    start.phase = "launch" /\ AllLaunched =>
        \A k \in Started : /\ start.sockets[k].address = start.ecoute[k]
                           /\ start.sockets[k].ciphered = start.ciphered

LEMMA ShapeAgrees == StartShape => SocketsAgree
<1> SUFFICES ASSUME StartShape, NEW k \in Started
             PROVE  /\ start.sockets[k].address = start.ecoute[k]
                    /\ start.sockets[k].ciphered = start.ciphered
  BY DEF SocketsAgree
<1>1. PICK A : A = Asks
  OBVIOUS
<1>2. start.sockets \in Seq(A)
  BY <1>1 DEF StartShape
<1>3. start.sockets[k] \in Asks
  BY <1>1, <1>2 DEF Started
<1> QED
  BY <1>3 DEF StartShape, Asks

LEMMA StartInvInit == WebdarInit => StartInv
<1> SUFFICES ASSUME WebdarInit PROVE StartInv
  OBVIOUS
<1>1. PICK cmd \in Commands : start = [Launched EXCEPT !.phase = "parse", !.cmd = cmd]
  BY DEF WebdarInit
<1>2. /\ start = [f \in StartFields |-> start[f]] /\ start.cmd = cmd /\ start.phase = "parse"
      /\ start.ecoute = <<>> /\ start.sockets = <<>>
  BY <1>1 DEF StartFields, Launched
<1>3. DOMAIN <<>> = 1..0
  OBVIOUS
<1>4. Started = {} /\ 0 \in 0..Cardinality(Listeners)
  BY <1>2, <1>3, ListenersAssumption, FS_CardinalityType DEF Started
<1>5. StartShape
  <2>1. PICK A : A = Asks
    OBVIOUS
  <2>2. start.sockets \in Seq(Asks)
    <3>1. <<>> \in Seq(A)
      OBVIOUS
    <3> QED
      BY <1>2, <2>1, <3>1, Zenon
  <2>3. \E n \in 0..Cardinality(Listeners) : DOMAIN start.ecoute = 1..n
    BY <1>2, <1>3, <1>4
  <2> QED
    BY <1>2, <1>4, <2>2, <2>3 DEF StartShape
<1>6. IInv /\ NobodyYet
  BY IInvInit DEF WebdarInit, NobodyYet, Init
<1> QED
  BY <1>5, <1>6 DEF StartInv

LEMMA StartInvStep == StartInv /\ [WebdarNext]_all => StartInv'
<1> SUFFICES ASSUME StartInv, [WebdarNext]_all PROVE StartInv'
  OBVIOUS
<1>1. IInv /\ NobodyYet /\ StartShape
  BY DEF StartInv
<1>2. CASE UNCHANGED all
  <2>1. UNCHANGED vars /\ UNCHANGED <<start, verrou>>
    BY <1>2 DEF all, vars
  <2>2. IInv'
    BY <1>1, <2>1, IInvStep
  <2>3. NobodyYet' /\ StartShape'
    BY <1>1, <2>1 DEF NobodyYet, StartShape, Started, Asks
  <2> QED
    BY <2>2, <2>3 DEF StartInv
<1>3. CASE WebdarNext
  <2>1. IInv'
    BY <1>1, <1>3, StartStep, ThreadsStep DEF WebdarNext
  <2>2. NobodyYet' /\ StartShape'
    BY <1>1, <1>3, NobodyYetKept, StartShapeKept
  <2> QED
    BY <2>1, <2>2 DEF StartInv
<1> QED
  BY <1>2, <1>3

LEMMA StartInvariance == WebdarSpec => []StartInv
BY StartInvInit, StartInvStep, PTL DEF WebdarSpec

(* From the command line on, the pool is never over its size nor given a     *)
(* server once cancelled, also when a signal or an exception comes while the *)
(* listeners are being launched (main, close_all_listeners).                 *)
THEOREM PeersBoundedFromTheStart == WebdarSpec => []PeersBounded
<1>1. StartInv => PeersBounded
  BY DEF StartInv, IInv
<1> QED
  BY <1>1, StartInvariance, PTL

(* From the command line on, each server object is known to the pool in one  *)
(* way and listed for deletion once at most.                                 *)
THEOREM ObjectsTrackedFromTheStart == WebdarSpec => []TrackedOnce
<1>1. StartInv => TrackedOnce
  BY DEF StartInv, IInv
<1> QED
  BY <1>1, StartInvariance, PTL

(* Each listener that main launches is bound to the address asked for at its *)
(* place, with a context of its own if and only if the first one has, which  *)
(* moves away from main each time it is given (main, listener::init).        *)
THEOREM SocketsAsAsked == WebdarSpec => []SocketsAgree
<1>1. StartInv => SocketsAgree
  BY ShapeAgrees DEF StartInv
<1> QED
  BY <1>1, StartInvariance, PTL

(* Induction: the least number that is not in S has a predecessor that is.  *)
LEMMA NatSets ==
    ASSUME NEW S \in SUBSET Nat, 0 \in S, \A n \in S : n + 1 \in S
    PROVE  S = Nat
<1> SUFFICES ASSUME Nat \ S # {} PROVE FALSE
  OBVIOUS
<1>0. PICK R : R = OpToRel(<, Nat)
  OBVIOUS
<1>1. \A x, y \in Nat : x < y => <<x, y>> \in R
  BY <1>0 DEF OpToRel
<1>2. IsWellFoundedOn(R, Nat)
  BY <1>0, NatLessThanWellFounded
<1>3. PICK T : T = Nat \ S
  OBVIOUS
<1>4. T \subseteq Nat /\ T # {}
  BY <1>3
<1>5. PICK m \in T : \A y \in T : ~ (<<y, m>> \in R)
  BY <1>2, <1>4, WFMin
<1>6. m # 0 /\ m - 1 \in Nat /\ m - 1 < m /\ m = (m - 1) + 1
  BY <1>3, <1>5
<1>7. m - 1 \in S
  BY <1>1, <1>3, <1>5, <1>6
<1> QED
  BY <1>3, <1>5, <1>6, <1>7

LEMMA MaxIs ==
    ASSUME NEW n \in Nat, NEW s \in SUBSET (1..n), n \in s
    PROVE  Max(s) = n
<1>1. \A y \in s : n >= y
  OBVIOUS
<1>2. \A x \in s : (\A y \in s : x >= y) => x = n
  OBVIOUS
<1> QED
  BY <1>1, <1>2 DEF Max

LEMMA MaxIn ==
    ASSUME NEW n \in Nat
    PROVE  \A s \in SUBSET (1..n) : s # {} => Max(s) \in s /\ Max(s) \in 1..n
<1>1. PICK S : S = {m \in Nat : \A s \in SUBSET (1..m) : s # {} => Max(s) \in s}
  OBVIOUS
<1>2. 0 \in S
  <2>1. \A s \in SUBSET (1..0) : s = {}
    OBVIOUS
  <2> QED
    BY <1>1, <2>1
<1>3. ASSUME NEW m \in S PROVE m + 1 \in S
  <2> SUFFICES ASSUME NEW s \in SUBSET (1..(m + 1)), s # {} PROVE Max(s) \in s
    BY <1>1, <1>3
  <2>0. m \in Nat
    BY <1>1
  <2>1. CASE m + 1 \in s
    BY <2>0, <2>1, MaxIs
  <2>2. CASE m + 1 \notin s
    BY <1>1, <2>0, <2>2
  <2> QED
    BY <2>1, <2>2
<1>4. n \in S
  BY <1>1, <1>2, <1>3, NatSets
<1> QED
  BY <1>1, <1>4

(* A fold over what is before n: the function that MapThenFoldSet makes.     *)
IsFold(it, T, base, H, n) ==
    /\ it \in [SUBSET (1..n) -> T]
    /\ \A s \in SUBSET (1..n) :
          it[s] = IF s = {} THEN base ELSE H[Max(s), it[s \ {Max(s)}]]

Folds(T, base, H, n) == \E it : IsFold(it, T, base, H, n)

LEMMA FoldNothing ==
    ASSUME NEW T, NEW base \in T, NEW H
    PROVE  Folds(T, base, H, 0)
<1>1. PICK it : it = [s \in SUBSET (1..0) |-> base]
  OBVIOUS
<1>2. \A s \in SUBSET (1..0) : s = {}
  OBVIOUS
<1>3. it \in [SUBSET (1..0) -> T]
  BY <1>1
<1>4. \A s \in SUBSET (1..0) : it[s] = base
  BY <1>1
<1> QED
  BY <1>2, <1>3, <1>4 DEF Folds, IsFold

LEMMA FoldOneMore ==
    ASSUME NEW m \in Nat, NEW n \in Nat, m + 1 <= n,
           NEW T, NEW base \in T, NEW H \in [(1..n) \X T -> T], Folds(T, base, H, m)
    PROVE  Folds(T, base, H, m + 1)
<1>1. PICK it : IsFold(it, T, base, H, m)
  BY DEF Folds
<1>2. PICK new : new = [s \in SUBSET (1..(m + 1)) |->
                          IF m + 1 \in s THEN H[m + 1, it[s \ {m + 1}]] ELSE it[s]]
  OBVIOUS
<1>3. \A s \in SUBSET (1..(m + 1)) : s \ {m + 1} \in SUBSET (1..m) /\ (m + 1 \notin s => s \in SUBSET (1..m))
  OBVIOUS
<1>4. \A s \in SUBSET (1..m) : it[s] \in T
  BY <1>1 DEF IsFold
<1>5. m + 1 \in 1..n
  OBVIOUS
<1>6. \A s \in SUBSET (1..(m + 1)) : new[s] \in T
  <2> SUFFICES ASSUME NEW s \in SUBSET (1..(m + 1)) PROVE new[s] \in T
    OBVIOUS
  <2>1. CASE m + 1 \in s
    <3>1. it[s \ {m + 1}] \in T
      BY <1>3, <1>4
    <3>2. <<m + 1, it[s \ {m + 1}]>> \in (1..n) \X T
      BY <3>1, <1>5
    <3>3. H[m + 1, it[s \ {m + 1}]] \in T
      BY <3>2
    <3> QED
      BY <1>2, <2>1, <3>3
  <2>2. CASE m + 1 \notin s
    BY <1>2, <1>3, <1>4, <2>2
  <2> QED
    BY <2>1, <2>2
<1>7. new \in [SUBSET (1..(m + 1)) -> T]
  BY <1>2, <1>6
<1>8. ASSUME NEW s \in SUBSET (1..(m + 1))
      PROVE  new[s] = IF s = {} THEN base ELSE H[Max(s), new[s \ {Max(s)}]]
  <3>1. CASE m + 1 \in s
    <4>1. Max(s) = m + 1
      BY <3>1, MaxIs
    <4>2. s \ {m + 1} \in SUBSET (1..(m + 1)) /\ m + 1 \notin s \ {m + 1}
      OBVIOUS
    <4>3. new[s \ {m + 1}] = it[s \ {m + 1}]
      BY <1>2, <4>2
    <4>4. new[s] = H[m + 1, it[s \ {m + 1}]]
      BY <1>2, <3>1
    <4> QED
      BY <3>1, <4>1, <4>3, <4>4
  <3>2. CASE m + 1 \notin s
    <4>1. s \in SUBSET (1..m) /\ new[s] = it[s]
      BY <1>2, <1>3, <3>2
    <4>2. CASE s = {}
      BY <1>1, <4>1, <4>2 DEF IsFold
    <4>3. CASE s # {}
      <5>2. s \ {Max(s)} \in SUBSET (1..(m + 1)) /\ m + 1 \notin s \ {Max(s)}
        BY <3>2
      <5>3. new[s \ {Max(s)}] = it[s \ {Max(s)}]
        BY <1>2, <5>2
      <5>4. it[s] = H[Max(s), it[s \ {Max(s)}]]
        BY <1>1, <4>1, <4>3 DEF IsFold
      <5> QED
        BY <4>1, <4>3, <5>3, <5>4
    <4> QED
      BY <4>2, <4>3
  <3> QED
    BY <3>1, <3>2
<1>9. IsFold(new, T, base, H, m + 1)
  BY <1>7, <1>8 DEF IsFold
<1> QED
  BY <1>9 DEF Folds

LEMMA FoldExists ==
    ASSUME NEW n \in Nat, NEW T, NEW base \in T, NEW H \in [(1..n) \X T -> T]
    PROVE  Folds(T, base, H, n)
<1>1. PICK S : S = {m \in Nat : m <= n => Folds(T, base, H, m)}
  OBVIOUS
<1>2. 0 \in S
  BY <1>1, FoldNothing
<1>3. ASSUME NEW m \in S PROVE m + 1 \in S
  <2>0. m \in Nat
    BY <1>1
  <2>1. CASE m + 1 <= n
    BY <1>1, <2>0, <2>1, FoldOneMore
  <2> QED
    BY <1>1, <2>0, <2>1
<1>4. n \in S
  BY <1>1, <1>2, <1>3, NatSets
<1> QED
  BY <1>1, <1>4

(* The first numbers, which a fold adds one by one.                         *)
LEMMA Segment ==
    ASSUME NEW n \in Nat, NEW k \in 1..n
    PROVE  /\ 1..k \in SUBSET (1..n) /\ 1..k # {} /\ Max(1..k) = k
           /\ (1..k) \ {k} = 1..(k - 1) /\ 1..(k - 1) \in SUBSET (1..n)
<1>1. k \in Nat /\ k \in 1..k /\ 1..k \in SUBSET (1..k)
  OBVIOUS
<1>2. PICK s \in SUBSET (1..k) : s = 1..k
  BY <1>1
<1>3. Max(s) = k
  BY <1>1, <1>2, MaxIs
<1>4. Max(1..k) = k
  BY <1>2, <1>3
<1>5. 1..k \in SUBSET (1..n) /\ 1..k # {}
  BY <1>1
<1>6. (1..k) \ {k} = 1..(k - 1)
  OBVIOUS
<1>7. 1..(k - 1) \in SUBSET (1..n)
  OBVIOUS
<1> QED
  BY <1>4, <1>5, <1>6, <1>7

(* What is so of base, and of each step, is so of the whole.                 *)
LEMMA UpTo ==
    ASSUME NEW n \in Nat, NEW P, 0 \in P, \A k \in 1..n : k - 1 \in P => k \in P
    PROVE  \A k \in 0..n : k \in P
<1>1. PICK S : S = {m \in Nat : m <= n => m \in P}
  OBVIOUS
<1>2. 0 \in S
  BY <1>1
<1>3. ASSUME NEW m \in S PROVE m + 1 \in S
  <2>1. m \in Nat /\ (m <= n => m \in P)
    BY <1>1
  <2>2. CASE m + 1 <= n
    <3>1. m + 1 \in 1..n /\ (m + 1) - 1 = m /\ m <= n
      BY <2>1, <2>2
    <3>2. m + 1 \in P
      BY <2>1, <3>1
    <3> QED
      BY <1>1, <2>1, <3>2
  <2> QED
    BY <1>1, <2>1, <2>2
<1>4. S = Nat
  BY <1>1, <1>2, <1>3, NatSets
<1> QED
  BY <1>1, <1>4

(* A sequence element by element.                                           *)
LEMMA Prefix ==
    ASSUME NEW S, NEW seq \in Seq(S), NEW k \in 0..Len(seq)
    PROVE  /\ SubSeq(seq, 1, k) \in Seq(S) /\ Len(SubSeq(seq, 1, k)) = k
           /\ \A i \in 1..k : SubSeq(seq, 1, k)[i] = seq[i]
           /\ k = Len(seq) => SubSeq(seq, 1, k) = seq
<1>1. SubSeq(seq, 1, k) \in Seq(S)
  OBVIOUS
<1>2. Len(SubSeq(seq, 1, k)) = k
  OBVIOUS
<1>3. \A i \in 1..k : SubSeq(seq, 1, k)[i] = seq[i]
  OBVIOUS
<1>4. SubSeq(seq, 1, Len(seq)) = seq
  BY SubSeqFull
<1> QED
  BY <1>1, <1>2, <1>3, <1>4

LEMMA PrefixNext ==
    ASSUME NEW S, NEW seq \in Seq(S), NEW k \in 1..Len(seq)
    PROVE  Append(SubSeq(seq, 1, k - 1), seq[k]) = SubSeq(seq, 1, k)
<1>0. k \in 0..Len(seq) /\ k - 1 \in 0..Len(seq) /\ k \in 1..k
  OBVIOUS
<1>1. PICK a \in Seq(S) : a = SubSeq(seq, 1, k - 1) /\ Len(a) = k - 1 /\ \A i \in 1..(k - 1) : a[i] = seq[i]
  BY <1>0, Prefix
<1>2. PICK b \in Seq(S) : b = SubSeq(seq, 1, k) /\ Len(b) = k /\ \A i \in 1..k : b[i] = seq[i]
  BY <1>0, Prefix
<1>3. PICK c \in Seq(S) : c = Append(a, seq[k])
  <2>1. seq[k] \in S
    OBVIOUS
  <2> QED
    BY <2>1, AppendProperties
<1>4. Len(c) = k /\ \A i \in 1..k : c[i] = seq[i]
  BY <1>1, <1>3, AppendProperties
<1>5. c = b
  BY <1>2, <1>4, SeqEqual
<1> QED
  BY <1>1, <1>2, <1>3, <1>5

LEMMA Lengths ==
    ASSUME NEW S, NEW seq \in Seq(S)
    PROVE  /\ Len(seq) > 0 => seq # <<>>
           /\ Len(seq) = 1 => seq = <<seq[1]>>
<1>1. Len(seq) > 0 => seq # <<>>
  OBVIOUS
<1>2. ASSUME Len(seq) = 1 PROVE seq = <<seq[1]>>
  <2>1. PICK one \in Seq(S) : one = <<seq[1]>>
    BY <1>2
  <2>2. Len(one) = 1 /\ one[1] = seq[1]
    BY <2>1
  <2> QED
    BY <1>2, <2>1, <2>2, SeqEqual
<1> QED
  BY <1>1, <1>2

Starts(z, S, seq, k) == z \in Seq(S) /\ Len(z) = k /\ \A i \in 1..k : z[i] = seq[i]

LEMMA PrefixIs ==
    ASSUME NEW S, NEW seq \in Seq(S), NEW k \in 0..Len(seq)
    PROVE  Starts(SubSeq(seq, 1, k), S, seq, k)
BY Prefix DEF Starts

EndsAt(z, S, seq, m) ==
    /\ z \in Seq(S) /\ Len(z) = Len(seq) - m + 1
    /\ \A i \in 1..(Len(seq) - m + 1) : z[i] = seq[m + i - 1]

LEMMA SuffixIs ==
    ASSUME NEW S, NEW seq \in Seq(S), NEW m \in 1..(Len(seq) + 1)
    PROVE  EndsAt(SubSeq(seq, m, Len(seq)), S, seq, m)
<1>1. SubSeq(seq, m, Len(seq)) \in Seq(S)
  OBVIOUS
<1>2. Len(SubSeq(seq, m, Len(seq))) = Len(seq) - m + 1
  OBVIOUS
<1>3. \A i \in 1..(Len(seq) - m + 1) : SubSeq(seq, m, Len(seq))[i] = seq[m + i - 1]
  OBVIOUS
<1> QED
  BY <1>1, <1>2, <1>3, Zenon DEF EndsAt

-----------------------------------------------------------------------------
(* Texts and credentials.                                                    *)

(* FlattenSeq puts the sequences one behind the other.                       *)
InSteps(whole, seqs, n) ==
    \E f : /\ whole = f[n] /\ f[1] = seqs[1]
           /\ \A k \in 2..n : f[k] = f[k - 1] \o seqs[k]

LEMMA FlattenSteps ==
    ASSUME NEW T, NEW seqs \in Seq(Seq(T)), NEW n \in Nat \ {0}, n = Len(seqs)
    PROVE  InSteps(FlattenSeq(seqs), seqs, n)
<1>1. \A k \in 1..n : seqs[k] \in Seq(T)
  OBVIOUS
<1>2. <<>> \in Seq(T)
  OBVIOUS
<1>3. PICK H : H = [p \in (1..n) \X Seq(T) |-> p[2] \o seqs[p[1]]]
  OBVIOUS
<1>4. H \in [(1..n) \X Seq(T) -> Seq(T)]
  <2>1. \A p \in (1..n) \X Seq(T) : p[1] \in 1..n /\ p[2] \in Seq(T)
    OBVIOUS
  <2>2. \A p \in (1..n) \X Seq(T) : p[2] \o seqs[p[1]] \in Seq(T)
    BY <1>1, <2>1, ConcatProperties
  <2> QED
    BY <1>3, <2>2
<1>5. \A k \in 1..n, t \in Seq(T) : H[k, t] = t \o seqs[k]
  BY <1>3
<1>6. PICK it : IsFold(it, Seq(T), <<>>, H, n)
  BY <1>2, <1>4, FoldExists DEF Folds
<1>7. PICK g : g = [k \in 1..n |-> it[1..k]]
  OBVIOUS
<1>8. \A k \in 1..n : g[k] = it[1..(k - 1)] \o seqs[k]
  <2> SUFFICES ASSUME NEW k \in 1..n PROVE g[k] = it[1..(k - 1)] \o seqs[k]
    OBVIOUS
  <2>1. /\ 1..k \in SUBSET (1..n) /\ 1..k # {} /\ Max(1..k) = k
        /\ (1..k) \ {k} = 1..(k - 1) /\ 1..(k - 1) \in SUBSET (1..n)
    BY Segment
  <2>2. it[1..k] = H[Max(1..k), it[(1..k) \ {Max(1..k)}]]
    BY <1>6, <2>1 DEF IsFold
  <2>3. it[1..(k - 1)] \in Seq(T)
    BY <1>6, <2>1 DEF IsFold
  <2> QED
    BY <1>5, <1>7, <2>1, <2>2, <2>3
<1>9. g[1] = seqs[1]
  <2>1. 1..(1 - 1) = {} /\ {} \in SUBSET (1..n)
    OBVIOUS
  <2>2. it[{}] = <<>>
    BY <1>6, <2>1 DEF IsFold
  <2>3. 1 \in 1..n
    OBVIOUS
  <2>4. g[1] = <<>> \o seqs[1]
    BY <1>8, <2>1, <2>2, <2>3
  <2> QED
    BY <1>1, <2>3, <2>4, ConcatEmptySeq
<1>10. \A k \in 1..n : k # 1 => g[k] = g[k - 1] \o seqs[k]
  <2>1. \A k \in 1..n : k # 1 => k - 1 \in 1..n
    OBVIOUS
  <2> QED
    BY <1>7, <1>8, <2>1
<1>11. g = [i \in 1..n |-> IF i = 1 THEN seqs[i] ELSE g[i - 1] \o seqs[i]]
  BY <1>7, <1>9, <1>10
<1> DEFINE F == CHOOSE f : f = [i \in 1..Len(seqs) |-> IF i = 1 THEN seqs[i] ELSE f[i - 1] \o seqs[i]]
<1>12. F = [i \in 1..Len(seqs) |-> IF i = 1 THEN seqs[i] ELSE F[i - 1] \o seqs[i]]
  BY <1>11
<1>13. FlattenSeq(seqs) = F[Len(seqs)]
  BY DEF FlattenSeq
<1> HIDE DEF F
<1>14. F[1] = seqs[1] /\ \A k \in 2..n : F[k] = F[k - 1] \o seqs[k]
  <2>1. PICK g1 : g1 = F
    OBVIOUS
  <2>2. \A i \in 1..n : g1[i] = IF i = 1 THEN seqs[i] ELSE g1[i - 1] \o seqs[i]
    BY <1>12, <2>1, Zenon
  <2>3. g1[1] = seqs[1]
    BY <2>2
  <2>4. \A k \in 2..n : k \in 1..n /\ k # 1
    OBVIOUS
  <2>5. \A k \in 2..n : g1[k] = g1[k - 1] \o seqs[k]
    BY <2>2, <2>4, Zenon
  <2> QED
    BY <2>1, <2>3, <2>5, Zenon
<1> QED
  BY <1>13, <1>14, Zenon DEF InSteps

(* In blocks of one length, an element is found by its number.               *)
AreBlocks(whole, T, seqs, c) ==
    /\ whole \in Seq(T) /\ Len(whole) = c * Len(seqs)
    /\ \A k \in 1..Len(seqs), j \in 1..c : whole[c * (k - 1) + j] = seqs[k][j]

LEMMA FlattenBlocks ==
    ASSUME NEW T, NEW c \in {3, 4}, NEW seqs \in Seq(Seq(T)),
           \A k \in 1..Len(seqs) : Len(seqs[k]) = c
    PROVE  AreBlocks(FlattenSeq(seqs), T, seqs, c)
<1>1. PICK n \in Nat : n = Len(seqs)
  OBVIOUS
<1>2. CASE n = 0
  <2>1. FlattenSeq(seqs) = seqs
    BY <1>1, <1>2, Zenon DEF FlattenSeq
  <2>2. seqs = <<>>
    BY <1>1, <1>2, EmptySeq
  <2>3. seqs \in Seq(T)
    BY <2>2, EmptySeq
  <2>4. Len(seqs) = c * Len(seqs) /\ 1..Len(seqs) = {}
    BY <1>1, <1>2
  <2> QED
    BY <2>1, <2>3, <2>4, Zenon DEF AreBlocks
<1>3. CASE n > 0
  <2>1. PICK f : /\ FlattenSeq(seqs) = f[n] /\ f[1] = seqs[1]
                 /\ \A k \in 2..n : f[k] = f[k - 1] \o seqs[k]
    <3>1. n \in Nat \ {0}
      BY <1>3
    <3>2. InSteps(FlattenSeq(seqs), seqs, n)
      BY <1>1, <3>1, FlattenSteps, Zenon
    <3> QED
      BY <3>2 DEF InSteps
  <2> DEFINE Blocks(m) == /\ f[m] \in Seq(T) /\ Len(f[m]) = c * m
                          /\ \A k \in 1..m, j \in 1..c : f[m][c * (k - 1) + j] = seqs[k][j]
  <2> HIDE DEF Blocks
  <2>2. PICK P : P = {m \in Nat : m > 0 => Blocks(m)}
    OBVIOUS
  <2>3. 0 \in P
    BY <2>2
  <2>4. ASSUME NEW m \in 1..n, m - 1 \in P PROVE m \in P
    <3>1. seqs[m] \in Seq(T) /\ Len(seqs[m]) = c
      BY <1>1
    <3>2. CASE m = 1
      <4>1. \A k \in 1..1, j \in 1..c : c * (k - 1) + j = j /\ k = 1
        OBVIOUS
      <4>2. Blocks(1)
        BY <2>1, <3>1, <3>2, <4>1 DEF Blocks
      <4> QED
        BY <2>2, <3>2, <4>2
    <3>3. CASE m # 1
      <4>1. Blocks(m - 1) /\ m \in 2..n
        BY <2>2, <2>4, <3>3
      <4>2. PICK a \in Seq(T) : a = f[m - 1] /\ Len(a) = c * (m - 1)
                /\ \A k \in 1..(m - 1), j \in 1..c : a[c * (k - 1) + j] = seqs[k][j]
        BY <4>1 DEF Blocks
      <4>3. PICK b \in Seq(T) : b = seqs[m] /\ Len(b) = c
        BY <3>1
      <4>4. PICK z \in Seq(T) : z = a \o b /\ f[m] = z
        BY <2>1, <4>1, <4>2, <4>3, ConcatProperties
      <4>5. /\ Len(z) = Len(a) + Len(b)
            /\ \A i \in 1..(Len(a) + Len(b)) : z[i] = IF i <= Len(a) THEN a[i] ELSE b[i - Len(a)]
        BY <4>4, ConcatProperties
      <4>6. Len(z) = c * m
        <5>1. CASE c = 3
          BY <4>2, <4>3, <4>5, <5>1
        <5>2. CASE c = 4
          BY <4>2, <4>3, <4>5, <5>2
        <5> QED
          BY <5>1, <5>2
      <4>7. ASSUME NEW k \in 1..m, NEW j \in 1..c PROVE z[c * (k - 1) + j] = seqs[k][j]
        <5>1. PICK i \in Nat : i = c * (k - 1) + j
          OBVIOUS
        <5>0. i \in 1..(Len(a) + Len(b)) => z[i] = IF i <= Len(a) THEN a[i] ELSE b[i - Len(a)]
          BY <4>5
        <5>2. CASE k = m
          <6>1. i \in 1..(Len(a) + Len(b)) /\ ~(i <= Len(a)) /\ i - Len(a) = j
            BY <4>2, <4>3, <5>1, <5>2
          <6> QED
            BY <4>3, <4>5, <5>1, <5>2, <6>1
        <5>3. CASE k # m
          <6>1. k \in 1..(m - 1)
            BY <5>3
          <6>2. i \in 1..(c * (m - 1)) /\ c * (m - 1) \in Nat
            <7>1. CASE c = 3
              BY <5>1, <6>1, <7>1
            <7>2. CASE c = 4
              BY <5>1, <6>1, <7>2
            <7> QED
              BY <7>1, <7>2
          <6>3. i \in 1..(Len(a) + Len(b)) /\ i <= Len(a)
            BY <4>2, <4>3, <6>2
          <6>4. z[i] = a[i]
            BY <5>0, <6>3
          <6> QED
            BY <4>2, <5>1, <6>1, <6>4
        <5> QED
          BY <5>2, <5>3
      <4>8. Blocks(m)
        BY <4>4, <4>6, <4>7 DEF Blocks
      <4> QED
        BY <2>2, <4>8
    <3> QED
      BY <3>2, <3>3
  <2>5. n \in P
    <3>1. \A k \in 0..n : k \in P
      BY ONLY n \in Nat, <2>3, <2>4, UpTo
    <3> QED
      BY <3>1
  <2>6. Blocks(n)
    BY <1>3, <2>2, <2>5
  <2> QED
    BY <1>1, <2>1, <2>6 DEF Blocks, AreBlocks
<1> QED
  BY <1>1, <1>2, <1>3

(* The bytes that the base64 text stands for, and null ones behind them.     *)
At(s, k) == IF k \in DOMAIN s THEN s[k] ELSE 0

Block(s, k) ==
    <<At(s, 3 * k - 2) \div 4,
      (At(s, 3 * k - 2) % 4) * 16 + At(s, 3 * k - 1) \div 16,
      (At(s, 3 * k - 1) % 16) * 4 + At(s, 3 * k) \div 64,
      At(s, 3 * k) % 64>>

LEMMA BytesAreNumbers ==
    ASSUME NEW s \in Seq(Bytes)
    PROVE  s \in Seq(Nat) /\ \A i \in 1..Len(s) : s[i] \in 1..255
<1>1. \A i \in 1..Len(s) : s[i] \in Bytes
  OBVIOUS
<1>2. \A i \in 1..Len(s) : s[i] \in 1..255
  BY <1>1, Zenon DEF Bytes
<1>3. \A i \in 1..Len(s) : s[i] \in Nat
  <2>1. \A x \in 1..255 : x \in Nat
    OBVIOUS
  <2> QED
    BY <1>2, <2>1, Zenon
<1>4. s = [i \in 1..Len(s) |-> s[i]] /\ Len(s) \in Nat
  OBVIOUS
<1>5. [i \in 1..Len(s) |-> s[i]] \in Seq(Nat)
  BY <1>3, <1>4
<1> QED
  BY <1>2, <1>4, <1>5, Zenon

LEMMA AtIsByte ==
    ASSUME NEW s \in Seq(Bytes), NEW k
    PROVE  At(s, k) \in 0..255
<1>1. \A i \in DOMAIN s : s[i] \in 1..255
  <2>1. \A i \in DOMAIN s : s[i] \in Bytes
    OBVIOUS
  <2> QED
    BY <2>1, Zenon DEF Bytes
<1> QED
  BY <1>1 DEF At

LEMMA BlockType ==
    ASSUME NEW s \in Seq(Bytes), NEW k \in Nat
    PROVE  /\ Block(s, k) \in Seq(Nat) /\ Len(Block(s, k)) = 4
           /\ \A j \in 1..4 : Block(s, k)[j] \in 0..63
<1>1. PICK a \in 0..255, b \in 0..255, c \in 0..255 :
         a = At(s, 3 * k - 2) /\ b = At(s, 3 * k - 1) /\ c = At(s, 3 * k)
  BY AtIsByte
<1>2. PICK v1, v2, v3, v4 : /\ v1 = a \div 4 /\ v2 = (a % 4) * 16 + b \div 16
                            /\ v3 = (b % 16) * 4 + c \div 64 /\ v4 = c % 64
  OBVIOUS
<1>3. v1 \in 0..63 /\ v2 \in 0..63 /\ v3 \in 0..63 /\ v4 \in 0..63
  BY <1>2
<1>4. Block(s, k) = <<v1, v2, v3, v4>>
  BY <1>1, <1>2, Zenon DEF Block
<1>5. \A j \in 1..4 : j = 1 \/ j = 2 \/ j = 3 \/ j = 4
  OBVIOUS
<1>6. PICK z \in Seq(Nat) : z = <<v1, v2, v3, v4>>
  <2>1. v1 \in Nat /\ v2 \in Nat /\ v3 \in Nat /\ v4 \in Nat
    BY <1>3
  <2>2. <<v1, v2, v3, v4>> \in Seq(Nat)
    BY <2>1
  <2> QED
    BY <2>2, Zenon
<1>7. Len(z) = 4 /\ z[1] = v1 /\ z[2] = v2 /\ z[3] = v3 /\ z[4] = v4
  BY <1>6
<1> QED
  BY <1>3, <1>4, <1>5, <1>6, <1>7

(* Three bytes and the four characters for them.                            *)
Recomposed(v1, v2, v3, v4, a, b, c) ==
    /\ Byte(v1 * 4 + v2 \div 16) = a
    /\ Byte((v2 % 16) * 16 + v3 \div 4) = b
    /\ Byte((v3 % 4) * 64 + v4) = c

LEMMA ConvertBack ==
    ASSUME NEW a \in 0..255, NEW b \in 0..255, NEW c \in 0..255,
           NEW v1, v1 = a \div 4, NEW v2, v2 = (a % 4) * 16 + b \div 16,
           NEW v3, v3 = (b % 16) * 4 + c \div 64, NEW v4, v4 = c % 64
    PROVE  Recomposed(v1, v2, v3, v4, a, b, c)
<1>1. v1 \in 0..63 /\ v2 \in 0..63 /\ v3 \in 0..63 /\ v4 \in 0..63
  OBVIOUS
<1>2. v2 \div 16 = a % 4 /\ v2 % 16 = b \div 16 /\ v3 \div 4 = b % 16 /\ v3 % 4 = c \div 64
  OBVIOUS
<1>3. /\ (a \div 4) * 4 + (a % 4) = a /\ (b \div 16) * 16 + (b % 16) = b
      /\ (c \div 64) * 64 + (c % 64) = c
  OBVIOUS
<1> QED
  BY <1>1, <1>2, <1>3 DEF Byte, Recomposed

(* How long the text is, without and with its "=".                          *)
Pad(k) == IF k % 4 = 0 THEN 0 ELSE 4 - (k % 4)

SizesFit(l, b, k) ==
    /\ b \in Nat /\ k \in Nat /\ k <= 4 * b /\ l <= 3 * b
    /\ k + Pad(k) = 4 * b
    /\ k < 4 * b => l < 3 * b
    /\ k < 4 * b - 1 => l < 3 * b - 1
    /\ k > 4 * b - 3 \/ b = 0

LEMMA Sizes ==
    ASSUME NEW l \in Nat, NEW b, b = (l + 2) \div 3, NEW k, k = (4 * l + 2) \div 3
    PROVE  SizesFit(l, b, k)
<1>1. PICK m \in Nat : l = 3 * m \/ l = 3 * m + 1 \/ l = 3 * m + 2
  <2>1. l \div 3 \in Nat /\ (l = 3 * (l \div 3) \/ l = 3 * (l \div 3) + 1 \/ l = 3 * (l \div 3) + 2)
    OBVIOUS
  <2> QED
    BY <2>1
<1>2. CASE l = 3 * m
  <2>1. b = m /\ k = 4 * m
    BY <1>2
  <2> QED
    BY <1>2, <2>1 DEF SizesFit, Pad
<1>3. CASE l = 3 * m + 1
  <2>1. b = m + 1 /\ k = 4 * m + 2
    BY <1>3
  <2> QED
    BY <1>3, <2>1 DEF SizesFit, Pad
<1>4. CASE l = 3 * m + 2
  <2>1. b = m + 1 /\ k = 4 * m + 3
    BY <1>4
  <2> QED
    BY <1>4, <2>1 DEF SizesFit, Pad
<1> QED
  BY <1>1, <1>2, <1>3, <1>4

LEMMA SextetsAre ==
    ASSUME NEW s \in Seq(Bytes), NEW b, b = (Len(s) + 2) \div 3,
           NEW k, k = (4 * Len(s) + 2) \div 3
    PROVE  /\ Sextets(s) \in Seq(Nat) /\ Len(Sextets(s)) = k
           /\ \A i \in 1..b, j \in 1..4 :
                 4 * (i - 1) + j <= k => Sextets(s)[4 * (i - 1) + j] = Block(s, i)[j]
<1>1. Len(s) \in Nat
  OBVIOUS
<1>2. b \in Nat /\ k \in Nat /\ k <= 4 * b
  BY <1>1, Sizes DEF SizesFit
<1>3. PICK blocks : blocks = [i \in 1..b |-> Block(s, i)]
  OBVIOUS
<1>4. \A i \in 1..b : Block(s, i) \in Seq(Nat) /\ Len(Block(s, i)) = 4
  BY <1>2, BlockType
<1>5. blocks \in Seq(Seq(Nat)) /\ Len(blocks) = b /\ \A i \in 1..b : blocks[i] = Block(s, i)
  BY <1>2, <1>3, <1>4
<1>6. PICK whole : whole = FlattenSeq(blocks)
  OBVIOUS
<1>7. /\ whole \in Seq(Nat) /\ Len(whole) = 4 * b
      /\ \A i \in 1..b, j \in 1..4 : whole[4 * (i - 1) + j] = Block(s, i)[j]
  <2>1. /\ FlattenSeq(blocks) \in Seq(Nat) /\ Len(FlattenSeq(blocks)) = 4 * Len(blocks)
        /\ \A i \in 1..Len(blocks), j \in 1..4 : FlattenSeq(blocks)[4 * (i - 1) + j] = blocks[i][j]
    <3>1. PICK c : c = 4
      OBVIOUS
    <3>2. c \in {3, 4} /\ \A i \in 1..Len(blocks) : Len(blocks[i]) = c
      BY <1>4, <1>5, <3>1
    <3>3. AreBlocks(FlattenSeq(blocks), Nat, blocks, c)
      BY <1>5, <3>2, FlattenBlocks, Zenon
    <3> QED
      BY <3>1, <3>3, Zenon DEF AreBlocks
  <2> QED
    BY <1>5, <1>6, <2>1
<1>8. Sextets(s) = SubSeq(whole, 1, k)
  BY <1>3, <1>6, Zenon DEF Sextets, Block, At
<1>9. k \in 0..Len(whole)
  BY <1>2, <1>7
<1>10. PICK z \in Seq(Nat) : z = SubSeq(whole, 1, k) /\ Len(z) = k /\ \A i \in 1..k : z[i] = whole[i]
  <2>1. PICK z : z = SubSeq(whole, 1, k)
    OBVIOUS
  <2>2. whole \in Seq(Nat)
    BY <1>7
  <2>3. Starts(SubSeq(whole, 1, k), Nat, whole, k)
    BY <1>9, <2>2, PrefixIs, Zenon
  <2> QED
    BY <2>1, <2>3, Zenon DEF Starts
<1>11. ASSUME NEW i \in 1..b, NEW j \in 1..4, 4 * (i - 1) + j <= k
       PROVE  z[4 * (i - 1) + j] = Block(s, i)[j]
  <2>1. 4 * (i - 1) + j \in 1..k
    BY <1>2, <1>11
  <2> QED
    BY <1>7, <1>10, <2>1
<1> QED
  BY <1>8, <1>10, <1>11

Completed(t, text, b) ==
    /\ t \in Seq(Nat) /\ Len(t) = 4 * b
    /\ \A i \in 1..(4 * b) : t[i] = IF i <= Len(text) THEN text[i] ELSE Equal

LEMMA ComplementIs ==
    ASSUME NEW text \in Seq(Nat), NEW b \in Nat,
           Len(text) + Pad(Len(text)) = 4 * b
    PROVE  Completed(Complement(text), text, b)
<1>1. PICK p : p = IF Len(text) % 4 = 0 THEN 0 ELSE 4 - (Len(text) % 4)
  OBVIOUS
<1>2. p \in Nat /\ Len(text) + p = 4 * b
  BY <1>1 DEF Pad
<1>3. PICK pad : pad = [k \in 1..p |-> Equal]
  OBVIOUS
<1>4. pad \in Seq(Nat) /\ Len(pad) = p /\ \A i \in 1..p : pad[i] = Equal
  BY <1>2, <1>3 DEF Equal
<1>5. Complement(text) = text \o pad
  BY <1>1, <1>3, Zenon DEF Complement
<1>6. PICK z : z = text \o pad
  OBVIOUS
<1>7. /\ z \in Seq(Nat) /\ Len(z) = Len(text) + Len(pad)
      /\ \A i \in 1..(Len(text) + Len(pad)) :
            z[i] = IF i <= Len(text) THEN text[i] ELSE pad[i - Len(text)]
  BY <1>4, <1>6, ConcatProperties
<1>8. ASSUME NEW i \in 1..(4 * b) PROVE z[i] = IF i <= Len(text) THEN text[i] ELSE Equal
  <2>0. PICK n \in Nat : n = Len(text)
    OBVIOUS
  <2>1. i \in 1..(n + p) /\ (~(i <= n) => i - n \in 1..p)
    BY <1>2, <2>0
  <2> QED
    BY <1>4, <1>7, <2>0, <2>1
<1> QED
  BY <1>2, <1>4, <1>5, <1>6, <1>7, <1>8 DEF Completed

LEMMA ComplementOnce ==
    ASSUME NEW text \in Seq(Nat), NEW b \in Nat, Len(text) = 4 * b
    PROVE  Complement(text) = text
<1>1. Len(text) % 4 = 0
  OBVIOUS
<1>2. PICK t : t = Complement(text)
  OBVIOUS
<1>3. Completed(t, text, b)
  <2>1. Len(text) + Pad(Len(text)) = 4 * b
    BY <1>1 DEF Pad
  <2> QED
    BY <1>2, <2>1, ComplementIs, Zenon
<1>4. t \in Seq(Nat) /\ Len(t) = Len(text) /\ \A i \in 1..Len(t) : t[i] = text[i]
  BY <1>3 DEF Completed
<1> QED
  BY <1>2, <1>4, SeqEqual

(* The value of each character of a text with its "=" is that of its block.  *)
Encoded(t, s, b) ==
    /\ t \in Seq(Nat) /\ Len(t) = 4 * b
    /\ \A i \in 1..b, j \in 1..4 : Value64(t[4 * (i - 1) + j]) = Block(s, i)[j]

LEMMA HeaderIsEncoded ==
    ASSUME NEW s \in Seq(Bytes), NEW b, b = (Len(s) + 2) \div 3,
           NEW text, text \in {Sextets(s), Complement(Sextets(s))}
    PROVE  b \in Nat /\ Encoded(Complement(text), s, b)
<1>0. PICK l \in Nat : l = Len(s)
  OBVIOUS
<1>1. PICK k : k = (4 * l + 2) \div 3
  OBVIOUS
<1>2. /\ b \in Nat /\ k \in Nat /\ k <= 4 * b /\ l <= 3 * b
      /\ k + Pad(k) = 4 * b
      /\ k < 4 * b => l < 3 * b
      /\ k < 4 * b - 1 => l < 3 * b - 1
      /\ k > 4 * b - 3 \/ b = 0
  BY <1>0, <1>1, Sizes DEF SizesFit
<1>3. PICK six : six = Sextets(s)
  OBVIOUS
<1>4. /\ six \in Seq(Nat) /\ Len(six) = k
      /\ \A i \in 1..b, j \in 1..4 : 4 * (i - 1) + j <= k => six[4 * (i - 1) + j] = Block(s, i)[j]
  BY <1>0, <1>1, <1>3, SextetsAre
<1>5. PICK t : t = Complement(six)
  OBVIOUS
<1>6. Completed(t, six, b)
  BY <1>2, <1>4, <1>5, ComplementIs
<1>7. t \in Seq(Nat) /\ Len(t) = 4 * b /\ \A i \in 1..(4 * b) : t[i] = IF i <= k THEN six[i] ELSE Equal
  BY <1>4, <1>6 DEF Completed
<1>8. Complement(t) = t
  BY <1>2, <1>7, ComplementOnce
<1>9. Complement(text) = t
  BY <1>3, <1>5, <1>8
<1>10. ASSUME NEW i \in 1..b, NEW j \in 1..4
       PROVE  Value64(t[4 * (i - 1) + j]) = Block(s, i)[j]
  <2>1. PICK n \in 1..(4 * b) : n = 4 * (i - 1) + j
    BY <1>2
  <2>2. CASE n <= k
    <3>1. t[n] = Block(s, i)[j]
      BY <1>4, <1>7, <2>1, <2>2
    <3>2. Block(s, i)[j] \in 0..63
      <4>1. i \in Nat
        BY <1>2
      <4> QED
        BY <4>1, BlockType
    <3>3. t[n] # Equal
      <4>1. PICK x \in 0..63 : x = Block(s, i)[j]
        BY <3>2
      <4>2. x # Equal
        BY DEF Equal
      <4> QED
        BY <3>1, <4>1, <4>2, Zenon
    <3> QED
      BY <2>1, <3>1, <3>3 DEF Value64
  <2>3. CASE n > k
    <3>1. t[n] = Equal
      BY <1>2, <1>7, <2>1, <2>3
    <3>2. Value64(t[n]) = 0
      BY <3>1 DEF Value64
    <3>3. i = b /\ (j = 4 \/ (j = 3 /\ k < 4 * b - 1))
      BY <1>2, <2>1, <2>3
    <3>4. At(s, 3 * b) = 0
      <4>1. l < 3 * b
        BY <1>2, <2>1, <2>3
      <4> QED
        BY <1>0, <4>1 DEF At
    <3>5. CASE j = 4
      <4>1. Block(s, b)[4] = At(s, 3 * b) % 64
        BY Zenon DEF Block
      <4>2. Block(s, b)[4] = 0
        <5>1. Block(s, b)[4] = At(s, 3 * b) % 64
          BY DEF Block
        <5> QED
          BY <3>4, <5>1
      <4> QED
        BY <2>1, <3>2, <3>3, <3>5, <4>2
    <3>6. CASE j = 3 /\ k < 4 * b - 1
      <4>1. At(s, 3 * b - 1) = 0
        <5>1. l < 3 * b - 1
          BY <1>2, <3>6
        <5> QED
          BY <1>0, <5>1 DEF At
      <4>2. Block(s, b)[3] = (At(s, 3 * b - 1) % 16) * 4 + At(s, 3 * b) \div 64
        BY DEF Block
      <4>3. Block(s, b)[3] = 0
        BY <3>4, <4>1, <4>2
      <4> QED
        BY <2>1, <3>2, <3>3, <3>6, <4>3
    <3> QED
      BY <3>3, <3>5, <3>6
  <2> QED
    BY <1>2, <2>1, <2>2, <2>3
<1> QED
  BY <1>2, <1>7, <1>9, <1>10 DEF Encoded

Decoded(d, s, b) ==
    /\ d \in Seq(Nat) /\ Len(d) = 3 * b
    /\ \A i \in 1..(3 * b) : d[i] = At(s, i)

LEMMA DecodeIs ==
    ASSUME NEW s \in Seq(Bytes), NEW b \in Nat, NEW text, Encoded(Complement(text), s, b)
    PROVE  Decoded(Decode(text), s, b)
<1>1. PICK t : t = Complement(text)
  OBVIOUS
<1>2. t \in Seq(Nat) /\ Len(t) = 4 * b /\ \A i \in 1..b, j \in 1..4 : Value64(t[4 * (i - 1) + j]) = Block(s, i)[j]
  BY <1>1 DEF Encoded
<1>3. Len(t) \div 4 = b
  BY <1>2
<1>4. PICK threes : threes = [k \in 1..b |-> Convert(t[4 * k - 3], t[4 * k - 2], t[4 * k - 1], t[4 * k])]
  OBVIOUS
<1>5. Decode(text) = FlattenSeq(threes)
  BY <1>1, <1>3, <1>4, Zenon DEF Decode
<1>6. ASSUME NEW k \in 1..b
      PROVE  Convert(t[4 * k - 3], t[4 * k - 2], t[4 * k - 1], t[4 * k])
               = <<At(s, 3 * k - 2), At(s, 3 * k - 1), At(s, 3 * k)>>
  <2>1. /\ 4 * (k - 1) + 1 = 4 * k - 3 /\ 4 * (k - 1) + 2 = 4 * k - 2
        /\ 4 * (k - 1) + 3 = 4 * k - 1 /\ 4 * (k - 1) + 4 = 4 * k
    OBVIOUS
  <2>2. PICK v1, v2, v3, v4 :
           /\ v1 = Value64(t[4 * k - 3]) /\ v2 = Value64(t[4 * k - 2])
           /\ v3 = Value64(t[4 * k - 1]) /\ v4 = Value64(t[4 * k])
    OBVIOUS
  <2>3. 1 \in 1..4 /\ 2 \in 1..4 /\ 3 \in 1..4 /\ 4 \in 1..4
    OBVIOUS
  <2>4. v1 = Block(s, k)[1] /\ v2 = Block(s, k)[2] /\ v3 = Block(s, k)[3] /\ v4 = Block(s, k)[4]
    BY <1>2, <2>1, <2>2, <2>3
  <2>5. PICK x \in 0..255, y \in 0..255, z \in 0..255 :
           x = At(s, 3 * k - 2) /\ y = At(s, 3 * k - 1) /\ z = At(s, 3 * k)
    BY AtIsByte
  <2>6. Block(s, k) = <<x \div 4, (x % 4) * 16 + y \div 16, (y % 16) * 4 + z \div 64, z % 64>>
    BY <2>5, Zenon DEF Block
  <2>7. /\ v1 = x \div 4 /\ v2 = (x % 4) * 16 + y \div 16
        /\ v3 = (y % 16) * 4 + z \div 64 /\ v4 = z % 64
    BY <2>4, <2>6
  <2>8. Recomposed(v1, v2, v3, v4, x, y, z)
    BY <2>7, ConvertBack, Zenon
  <2>9. Convert(t[4 * k - 3], t[4 * k - 2], t[4 * k - 1], t[4 * k])
          = <<Byte(v1 * 4 + v2 \div 16), Byte((v2 % 16) * 16 + v3 \div 4), Byte((v3 % 4) * 64 + v4)>>
    BY <2>2, Zenon DEF Convert
  <2> QED
    BY <2>5, <2>8, <2>9, Zenon DEF Recomposed
<1>7. ASSUME NEW k \in 1..b
      PROVE  /\ threes[k] \in Seq(Nat) /\ Len(threes[k]) = 3
             /\ \A j \in 1..3 : threes[k][j] = At(s, 3 * (k - 1) + j)
  <2>1. PICK x, y, z : x = At(s, 3 * k - 2) /\ y = At(s, 3 * k - 1) /\ z = At(s, 3 * k)
    OBVIOUS
  <2>2. x \in Nat /\ y \in Nat /\ z \in Nat
    <3>1. x \in 0..255 /\ y \in 0..255 /\ z \in 0..255
      BY <2>1, AtIsByte
    <3> QED
      BY <3>1
  <2>3. threes[k] = <<x, y, z>>
    BY <1>4, <1>6, <2>1
  <2>4. 3 * (k - 1) + 1 = 3 * k - 2 /\ 3 * (k - 1) + 2 = 3 * k - 1 /\ 3 * (k - 1) + 3 = 3 * k
    OBVIOUS
  <2>5. PICK w \in Seq(Nat) : w = <<x, y, z>> /\ Len(w) = 3 /\ w[1] = x /\ w[2] = y /\ w[3] = z
    <3>1. PICK w : w = <<x, y, z>>
      OBVIOUS
    <3>2. w \in Seq(Nat)
      BY <2>2, <3>1
    <3>3. Len(w) = 3 /\ w[1] = x /\ w[2] = y /\ w[3] = z
      BY <3>1
    <3> QED
      BY <3>1, <3>2, <3>3, Zenon
  <2>6. \A j \in 1..3 : j = 1 \/ j = 2 \/ j = 3
    OBVIOUS
  <2>7. \A j \in 1..3 : w[j] = At(s, 3 * (k - 1) + j)
    BY <2>1, <2>4, <2>5, <2>6
  <2> QED
    BY <2>3, <2>5, <2>7
<1>8. threes \in Seq(Seq(Nat)) /\ Len(threes) = b
  BY <1>4, <1>7
<1>9. PICK d : d = Decode(text)
  OBVIOUS
<1>10. /\ d \in Seq(Nat) /\ Len(d) = 3 * b
       /\ \A k \in 1..b, j \in 1..3 : d[3 * (k - 1) + j] = threes[k][j]
  <2>1. PICK c : c = 3
    OBVIOUS
  <2>2. c \in {3, 4} /\ \A k \in 1..Len(threes) : Len(threes[k]) = c
    BY <1>7, <1>8, <2>1
  <2>3. AreBlocks(FlattenSeq(threes), Nat, threes, c)
    BY <1>8, <2>2, FlattenBlocks, Zenon
  <2> QED
    BY <1>5, <1>8, <1>9, <2>1, <2>3, Zenon DEF AreBlocks
<1>11. ASSUME NEW i \in 1..(3 * b) PROVE d[i] = At(s, i)
  <2>1. PICK k \in 1..b, j \in 1..3 : i = 3 * (k - 1) + j
    <3>1. PICK k \in Int : k = (i + 2) \div 3
      OBVIOUS
    <3>2. k \in 1..b /\ i - 3 * (k - 1) \in 1..3 /\ i = 3 * (k - 1) + (i - 3 * (k - 1))
      BY <3>1
    <3> QED
      BY <3>2
  <2> QED
    BY <1>7, <1>10, <2>1
<1> QED
  BY <1>9, <1>10, <1>11 DEF Decoded

(* The first place of a byte, where there is one, cuts a text.               *)
CutsAt(text, v, k) ==
    /\ v \notin ToSet(SubSeq(text, 1, k))
    /\ k < Len(text) => text[k + 1] = v

LEMMA CutIs ==
    ASSUME NEW text \in Seq(Nat), NEW v, NEW m \in 0..Len(text),
           \A i \in 1..m : text[i] # v, m < Len(text) => text[m + 1] = v
    PROVE  (CHOOSE k \in 0..Len(text) : CutsAt(text, v, k)) = m
<1>1. ASSUME NEW k \in 0..Len(text)
      PROVE  v \notin ToSet(SubSeq(text, 1, k)) <=> \A i \in 1..k : text[i] # v
  <2>1. Starts(SubSeq(text, 1, k), Nat, text, k)
    BY PrefixIs, Zenon
  <2>2. PICK z \in Seq(Nat) : z = SubSeq(text, 1, k) /\ Len(z) = k /\ \A i \in 1..k : z[i] = text[i]
    BY <2>1, Zenon DEF Starts
  <2>3. ToSet(z) = {z[i] : i \in 1..k}
    <3>1. DOMAIN z = 1..k
      BY <2>2
    <3> QED
      BY <3>1, Zenon DEF ToSet
  <2>4. v \notin ToSet(z) <=> \A i \in 1..k : text[i] # v
    BY <2>2, <2>3
  <2> QED
    BY <2>2, <2>4
<1>2. CutsAt(text, v, m)
  BY <1>1 DEF CutsAt
<1>3. ASSUME NEW k \in 0..Len(text), CutsAt(text, v, k) PROVE k = m
  <2>1. (\A i \in 1..k : text[i] # v) /\ (k < Len(text) => text[k + 1] = v)
    BY <1>1, <1>3 DEF CutsAt
  <2>2. PICK n \in Nat : n = Len(text)
    OBVIOUS
  <2>3. CASE k < m
    <3>1. k < n /\ k + 1 \in 1..m
      BY <2>2, <2>3
    <3> QED
      BY <2>1, <2>2, <3>1
  <2>4. CASE m < k
    <3>1. m < n /\ m + 1 \in 1..k
      BY <2>2, <2>4
    <3> QED
      BY <2>1, <2>2, <3>1
  <2> QED
    BY <2>3, <2>4
<1> QED
  BY <1>2, <1>3

LEMMA HalvesAre ==
    ASSUME NEW text \in Seq(Nat), NEW m \in 0..Len(text),
           \A i \in 1..m : text[i] # Colon, m < Len(text) => text[m + 1] = Colon
    PROVE  Halves(text) = <<SubSeq(text, 1, m), SubSeq(text, m + 2, Len(text))>>
<1>1. (CHOOSE k \in 0..Len(text) : CutsAt(text, Colon, k)) = m
  BY CutIs
<1> QED
  BY <1>1, Zenon DEF Halves, CutsAt

LEMMA CStringIs ==
    ASSUME NEW text \in Seq(Nat), NEW word \in Seq(Bytes), Len(word) <= Len(text),
           \A i \in 1..Len(word) : text[i] = word[i],
           Len(word) < Len(text) => text[Len(word) + 1] = 0
    PROVE  CString(text) = word
<1>1. PICK m \in 0..Len(text) : m = Len(word)
  OBVIOUS
<1>2. \A i \in 1..m : word[i] # 0
  <2>1. \A x \in 1..255 : x # 0
    OBVIOUS
  <2>2. \A i \in 1..m : word[i] \in 1..255
    BY <1>1, BytesAreNumbers, Zenon
  <2> QED
    BY <2>1, <2>2, Zenon
<1>3. (CHOOSE k \in 0..Len(text) : CutsAt(text, 0, k)) = m
  <2>1. (\A i \in 1..m : text[i] # 0) /\ (m < Len(text) => text[m + 1] = 0)
    BY <1>1, <1>2
  <2> QED
    BY <2>1, CutIs
<1>4. CString(text) = SubSeq(text, 1, m)
  BY <1>3, Zenon DEF CString, CutsAt
<1>5. Starts(SubSeq(text, 1, m), Nat, text, m)
  BY PrefixIs, Zenon
<1>6. PICK z \in Seq(Nat) : z = SubSeq(text, 1, m) /\ Len(z) = m /\ \A i \in 1..m : z[i] = text[i]
  BY <1>5, Zenon DEF Starts
<1>7. word \in Seq(Nat)
  BY BytesAreNumbers
<1>8. z = word
  BY <1>1, <1>6, <1>7, SeqEqual
<1> QED
  BY <1>4, <1>6, <1>8

-----------------------------------------------------------------------------
(* Who is let in.                                                            *)
Sent(word) == User \o <<Colon>> \o word

SentText(s, word, u, w) ==
    /\ s \in Seq(Bytes) /\ Len(s) = u + 1 + w
    /\ \A i \in 1..u : s[i] = User[i]
    /\ s[u + 1] = Colon
    /\ \A i \in 1..w : s[u + 1 + i] = word[i]

LEMMA SentIs ==
    ASSUME NEW word \in Seq(Bytes), NEW u \in Nat, u = Len(User), NEW w \in Nat, w = Len(word)
    PROVE  SentText(Sent(word), word, u, w)
<1>1. User \in Seq(Bytes) /\ <<Colon>> \in Seq(Bytes) /\ Len(<<Colon>>) = 1 /\ <<Colon>>[1] = Colon
  BY LoginAssumption DEF Bytes, Colon
<1>2. PICK a \in Seq(Bytes) : a = User \o <<Colon>>
  BY <1>1, ConcatProperties
<1>3. Len(a) = u + 1 /\ (\A i \in 1..u : a[i] = User[i]) /\ a[u + 1] = Colon
  BY <1>1, <1>2, ConcatProperties
<1>4. PICK b \in Seq(Bytes) : b = a \o word
  BY ConcatProperties
<1>5. Len(b) = u + 1 + w /\ (\A i \in 1..(u + 1) : b[i] = a[i]) /\ (\A i \in 1..w : b[u + 1 + i] = word[i])
  <2>1. /\ Len(b) = Len(a) + Len(word)
        /\ \A i \in 1..(Len(a) + Len(word)) : b[i] = IF i <= Len(a) THEN a[i] ELSE word[i - Len(a)]
    BY <1>4, ConcatProperties
  <2>2. Len(a) = u + 1 /\ Len(word) = w
    BY <1>3
  <2>3. \A i \in 1..w : u + 1 + i \in 1..(u + 1 + w) /\ ~(u + 1 + i <= u + 1) /\ u + 1 + i - (u + 1) = i
    OBVIOUS
  <2>4. \A i \in 1..(u + 1) : i \in 1..(u + 1 + w) /\ i <= u + 1
    OBVIOUS
  <2>5. \A i \in 1..(u + 1 + w) : b[i] = IF i <= u + 1 THEN a[i] ELSE word[i - (u + 1)]
    BY <2>1, <2>2
  <2>6. \A i \in 1..(u + 1) : b[i] = a[i]
    BY <2>4, <2>5
  <2>7. ASSUME NEW i \in 1..w PROVE b[u + 1 + i] = word[i]
    <3>1. PICK j \in 1..(u + 1 + w) : j = u + 1 + i /\ ~(j <= u + 1) /\ j - (u + 1) = i
      BY <2>3
    <3> QED
      BY <2>5, <3>1
  <2> QED
    BY <2>1, <2>2, <2>6, <2>7
<1>6. Sent(word) = b
  BY <1>2, <1>4 DEF Sent
<1> QED
  BY <1>1, <1>3, <1>5, <1>6 DEF SentText

LEMMA NothingIsNoText ==
    ASSUME NEW word \in Seq(Bytes)
    PROVE  word # Nothing
<1>1. word \in Seq(Nat)
  BY BytesAreNumbers
<1>2. Nothing \notin Seq(Nat)
  BY LoginAssumption
<1> QED
  BY <1>1, <1>2, Zenon

LEMMA HeaderTells ==
    ASSUME NEW word \in Seq(Bytes), NEW header \in Headers(word)
    PROVE  IsAnAuthoritativeRequest(header) <=> word = Password
<1>1. PICK u \in Nat, w \in Nat : u = Len(User) /\ w = Len(word)
  BY LoginAssumption
<1>2. PICK s \in Seq(Bytes) : s = Sent(word)
  <2>1. SentText(Sent(word), word, u, w)
    BY <1>1, SentIs, Zenon
  <2> QED
    BY <2>1, Zenon DEF SentText
<1>3. /\ Len(s) = u + 1 + w
      /\ \A i \in 1..u : s[i] = User[i]
      /\ s[u + 1] = Colon
      /\ \A i \in 1..w : s[u + 1 + i] = word[i]
  <2>1. SentText(Sent(word), word, u, w)
    BY <1>1, SentIs, Zenon
  <2> QED
    BY <1>2, <2>1, Zenon DEF SentText
<1>4. word # Nothing
  BY NothingIsNoText
<1>5. header \in {Sextets(s), Complement(Sextets(s))}
  BY <1>2, <1>4, Zenon DEF Headers, Sent
<1>6. PICK b : b = (Len(s) + 2) \div 3
  OBVIOUS
<1>7. b \in Nat /\ Encoded(Complement(header), s, b)
  BY <1>5, <1>6, HeaderIsEncoded
<1>8. PICK d : d = Decode(header)
  OBVIOUS
<1>9. d \in Seq(Nat) /\ Len(d) = 3 * b /\ \A i \in 1..(3 * b) : d[i] = At(s, i)
  BY <1>7, <1>8, DecodeIs DEF Decoded
<1>10. u + 1 + w <= 3 * b
  BY <1>3, <1>6
<1>11. User \in Seq(Bytes) /\ Password \in Seq(Bytes) /\ (\A i \in 1..u : User[i] \in Bytes \ {Colon})
  <2>1. User \in Seq(Bytes \ {Colon}) /\ Password \in Seq(Bytes)
    BY LoginAssumption
  <2>2. \A i \in 1..u : User[i] \in Bytes \ {Colon}
    BY <1>1, <2>1
  <2>3. User = [i \in 1..u |-> User[i]]
    BY <1>1, <2>1
  <2>4. [i \in 1..u |-> User[i]] \in Seq(Bytes)
    BY <2>2
  <2> QED
    BY <2>1, <2>2, <2>3, <2>4, Zenon
<1>12. (\A i \in 1..u : d[i] = User[i]) /\ d[u + 1] = Colon /\ u < Len(d)
  BY <1>1, <1>2, <1>3, <1>9, <1>10 DEF At
<1>13. \A i \in 1..w : d[u + 1 + i] = word[i]
  BY <1>1, <1>2, <1>3, <1>9, <1>10 DEF At
<1>14. u + 1 + w < Len(d) => d[u + 1 + w + 1] = 0
  BY <1>1, <1>2, <1>3, <1>9, <1>10 DEF At
<1>15. Halves(d) = <<SubSeq(d, 1, u), SubSeq(d, u + 2, Len(d))>>
  <2>1. u \in 0..Len(d) /\ \A i \in 1..u : d[i] # Colon
    BY <1>9, <1>10, <1>11, <1>12
  <2> QED
    BY <1>9, <1>12, <2>1, HalvesAre
<1>16. PICK x, y : x = SubSeq(d, 1, u) /\ y = SubSeq(d, u + 2, Len(d))
  OBVIOUS
<1>17. x \in Seq(Nat) /\ Len(x) = u /\ \A i \in 1..u : x[i] = User[i]
  <2>1. u \in 0..Len(d)
    BY <1>9, <1>10
  <2>2. Starts(SubSeq(d, 1, u), Nat, d, u)
    BY <1>9, <2>1, PrefixIs, Zenon
  <2> QED
    BY <1>12, <1>16, <2>2 DEF Starts
<1>18. y \in Seq(Nat) /\ Len(y) = 3 * b - u - 1 /\ \A i \in 1..(3 * b - u - 1) : y[i] = d[u + 1 + i]
  <2>1. PICK m \in 1..(Len(d) + 1) : m = u + 2
    BY <1>7, <1>9, <1>10
  <2>2. EndsAt(SubSeq(d, m, Len(d)), Nat, d, m)
    BY <1>9, SuffixIs
  <2>3. y = SubSeq(d, m, Len(d))
    BY <1>16, <2>1
  <2>4. y \in Seq(Nat) /\ Len(y) = Len(d) - m + 1 /\ \A i \in 1..(Len(d) - m + 1) : y[i] = d[m + i - 1]
    BY <2>2, <2>3, Zenon DEF EndsAt
  <2>5. Len(d) - m + 1 = 3 * b - u - 1
    BY <1>7, <1>9, <2>1
  <2>6. \A i \in 1..(3 * b - u - 1) : m + i - 1 = u + 1 + i
    BY <2>1
  <2> QED
    BY <2>4, <2>5, <2>6
<1>19. CString(x) = User
  BY <1>1, <1>11, <1>17, CStringIs
<1>20. CString(y) = word
  <2>1. w <= Len(y) /\ \A i \in 1..w : y[i] = word[i]
    BY <1>7, <1>10, <1>13, <1>18
  <2>2. w < Len(y) => y[w + 1] = 0
    <3>1. w < Len(y) => w + 1 \in 1..(3 * b - u - 1) /\ u + 1 + w < Len(d) /\ u + 1 + (w + 1) = u + 1 + w + 1
      BY <1>7, <1>9, <1>18
    <3> QED
      BY <1>14, <1>18, <3>1
  <2> QED
    BY <1>1, <1>18, <2>1, <2>2, CStringIs
<1>21. CString(User) = User /\ CString(Password) = Password
  <2>1. ASSUME NEW z \in Seq(Bytes) PROVE CString(z) = z
    <3>1. z \in Seq(Nat)
      BY BytesAreNumbers
    <3>2. Len(z) <= Len(z) /\ ~(Len(z) < Len(z))
      OBVIOUS
    <3> QED
      BY <3>1, <3>2, CStringIs
  <2> QED
    BY <1>11, <2>1
<1>22. header # Nothing
  <2>1. Encoded(Complement(header), s, b)
    BY <1>7
  <2>2. header \in Seq(Nat)
    <3>1. Sextets(s) \in Seq(Nat)
      BY <1>6, SextetsAre
    <3>2. Complement(Sextets(s)) \in Seq(Nat)
      <4>1. Encoded(Complement(Sextets(s)), s, b)
        BY <1>6, HeaderIsEncoded
      <4> QED
        BY <4>1 DEF Encoded
    <3> QED
      BY <1>5, <3>1, <3>2
  <2> QED
    BY <2>2, LoginAssumption
<1>23. IsAnAuthoritativeRequest(header) <=> ValidCredentials(x, y)
  <2>1. PICK in : in = Halves(d)
    OBVIOUS
  <2>2. in[1] = x /\ in[2] = y
    BY <1>15, <1>16, <2>1
  <2> QED
    BY <1>8, <1>22, <2>1, <2>2, Zenon DEF IsAnAuthoritativeRequest
<1> QED
  BY <1>19, <1>20, <1>21, <1>23 DEF ValidCredentials

(* What the server thread and the browser remember.                          *)
LoginInv ==
    /\ login \in [default_basic_auth : BOOLEAN, ignore_auth : {"no", "steady", "redir"},
                  connected : BOOLEAN, word : Typed \cup {Nothing}, refused : Nat,
                  page : {Nothing, "challenge", "webdar", "disconnected", "redirected"}]
    /\ login.page = "webdar" => login.word = Password
    /\ login.page = "challenge" /\ login.refused > 1 => login.word # Password
    /\ login.ignore_auth # "no" => login.refused = 0

LEMMA LoginInitially == LoginInit => LoginInv
BY LoginAssumption DEF LoginInit, LoginInv

LEMMA AskedAgain ==
    LoginInv /\ AskForCredentials /\ (login.refused = 0 \/ login.word # Password) => LoginInv'
<1> SUFFICES ASSUME LoginInv, AskForCredentials, login.refused = 0 \/ login.word # Password
             PROVE  LoginInv'
  OBVIOUS
<1>1. PICK n \in Nat : n = login.refused
  BY DEF LoginInv
<1>2. login' = [login EXCEPT !.page = "challenge", !.ignore_auth = "no", !.refused = n + 1]
  BY <1>1 DEF AskForCredentials
<1>3. n + 1 \in Nat /\ (n + 1 > 1 => n # 0)
  BY <1>1
<1>4. /\ login'.page = "challenge" /\ login'.ignore_auth = "no" /\ login'.refused = n + 1
      /\ login'.word = login.word
  BY <1>2 DEF LoginInv
<1>5. login' \in [default_basic_auth : BOOLEAN, ignore_auth : {"no", "steady", "redir"},
                  connected : BOOLEAN, word : Typed \cup {Nothing}, refused : Nat,
                  page : {Nothing, "challenge", "webdar", "disconnected", "redirected"}]
  BY <1>2, <1>3 DEF LoginInv
<1> QED
  BY <1>1, <1>3, <1>4, <1>5 DEF LoginInv

LEMMA LoginStep == LoginInv /\ (LoginNext \/ UNCHANGED login) => LoginInv'
<1> SUFFICES ASSUME LoginInv, LoginNext \/ UNCHANGED login PROVE LoginInv'
  OBVIOUS
<1>1. CASE NewServer
  BY <1>1, LoginAssumption DEF NewServer, LoginInv
<1>2. CASE Ask
  <2>1. PICK header \in Headers(login.word) :
          IF login.ignore_auth = "redir"
          THEN login' = [login EXCEPT !.page = "disconnected",
                                      !.ignore_auth = "steady"]
          ELSE IF ~IsAnAuthoritativeRequest(header)
                     \/ login.ignore_auth = "steady"
               THEN AskForCredentials
               ELSE login' = [login EXCEPT !.page = "webdar"]
    BY <1>2 DEF Ask
  <2>2. IsAnAuthoritativeRequest(header) <=> login.word = Password
    <3>1. CASE login.word = Nothing
      <4>1. header = Nothing
        BY <2>1, <3>1 DEF Headers
      <4>2. Password # Nothing
        BY LoginAssumption, NothingIsNoText
      <4> QED
        BY <3>1, <4>1, <4>2 DEF IsAnAuthoritativeRequest
    <3>2. CASE login.word # Nothing
      <4>1. login.word \in Seq(Bytes)
        BY <3>2, LoginAssumption DEF LoginInv
      <4> QED
        BY <4>1, HeaderTells
    <3> QED
      BY <3>1, <3>2
  <2>3. CASE login.ignore_auth = "redir"
    <3>1. login' = [login EXCEPT !.page = "disconnected", !.ignore_auth = "steady"]
      BY <2>1, <2>3
    <3> QED
      BY <2>3, <3>1 DEF LoginInv
  <2>4. CASE login.ignore_auth = "steady"
    <3>1. AskForCredentials
      BY <2>1, <2>4
    <3> QED
      BY <2>4, <3>1, AskedAgain DEF LoginInv
  <2>5. CASE login.ignore_auth = "no" /\ login.word # Password
    <3>1. AskForCredentials
      BY <2>1, <2>2, <2>5
    <3> QED
      BY <2>5, <3>1, AskedAgain
  <2>6. CASE login.ignore_auth = "no" /\ login.word = Password
    <3>1. login' = [login EXCEPT !.page = "webdar"]
      BY <2>1, <2>2, <2>6
    <3> QED
      BY <2>6, <3>1 DEF LoginInv
  <2> QED
    BY <2>3, <2>4, <2>5, <2>6 DEF LoginInv
<1>3. CASE AnswerChallenge
  BY <1>3, LoginAssumption DEF AnswerChallenge, LoginInv
<1>4. CASE Disconnect
  BY <1>4 DEF Disconnect, LoginInv
<1>5. CASE UNCHANGED login
  BY <1>5 DEF LoginInv
<1> QED
  BY <1>1, <1>2, <1>3, <1>4, <1>5 DEF LoginNext

(* Any user name without a colon and any password, of any length and bytes,  *)
(* sent as a browser does, are those that the server compares: the right ones*)
(* open the pages, no others do (challenge::is_an_authoritative_request,     *)
(* base64::decode), whatever was typed and refused before.                   *)
THEOREM TheRightPasswordIsEnough == PagesSpec => []RightPasswordIsEnough
<1>1. PagesInit => LoginInv
  BY LoginInitially DEF PagesInit
<1>2. LoginInv /\ [PagesNext]_pages => LoginInv'
  <2> SUFFICES ASSUME LoginInv, [PagesNext]_pages PROVE LoginInv'
    OBVIOUS
  <2>1. CASE LoginNext \/ UNCHANGED login
    BY <2>1, LoginStep
  <2>2. CASE login' = [login EXCEPT !.connected = FALSE, !.page = Nothing]
    BY <2>2, LoginAssumption DEF LoginInv
  <2> QED
    BY <2>1, <2>2 DEF PagesNext, LogIn, ReadArchives, ReadOptions, SetLibrary, pages
<1>3. LoginInv => RightPasswordIsEnough
  BY DEF LoginInv, RightPasswordIsEnough
<1> QED
  BY <1>1, <1>2, <1>3, PTL DEF PagesSpec

-----------------------------------------------------------------------------
(* The tabs and the sections.                                                *)

(* An aiguille of sections from R whose active one is one it has.            *)
Groups(R) ==
    {g \in [order : Seq(R), active : Nat, shown : SUBSET R] :
        g.active <= Len(g.order)}

GroupOf(order, active, shown) == [order |-> order, active |-> active, shown |-> shown]

TabsOf(content, m, lit) == [content |-> content, mode |-> m, lit |-> lit]

LEMMA AddSectionIs ==
    ASSUME NEW a, NEW b, NEW c, NEW name
    PROVE  AddSection(GroupOf(a, b, c), name) = GroupOf(Append(a, name), b, c)
BY DEF AddSection, GroupOf

(* The tabs before the new one is selected.                                  *)
Before(added) == IF Len(added.order) = 1 THEN SetActive(added, 1) ELSE added

LEMMA AddTabIs ==
    ASSUME NEW c, NEW m, NEW l, NEW tag, NEW added, added = AddSection(c, tag),
           NEW content, content = Before(added), NEW last, last = Len(added.order),
           NEW active, active = content.active
    PROVE  AddTab(TabsOf(c, m, l), tag)
             = SetMode(SetMode(TabsOf(content, m, l), last), active)
<1>1. PICK t : t = TabsOf(c, m, l)
  OBVIOUS
<1>2. [t EXCEPT !.content = content] = TabsOf(content, m, l)
  BY <1>1 DEF TabsOf
<1>3. t.content = c
  BY <1>1 DEF TabsOf
<1>4. AddTab(t, tag) = SetMode(SetMode([t EXCEPT !.content = content], last), active)
  BY <1>3 DEF AddTab, Before
<1> QED
  BY <1>1, <1>2, <1>4, Zenon

(* set_active_section leaves an aiguille with that section active.           *)
LEMMA SetActiveType ==
    ASSUME NEW R, NEW g \in Groups(R), NEW n \in 0..Len(g.order)
    PROVE  /\ SetActive(g, n) \in Groups(R)
           /\ SetActive(g, n).order = g.order /\ SetActive(g, n).active = n
<1>1. /\ g \in [order : Seq(R), active : Nat, shown : SUBSET R]
      /\ g.active <= Len(g.order) /\ g.order \in Seq(R) /\ Len(g.order) \in Nat
  BY DEF Groups
<1>2. \A k \in 0..Len(g.order) : k # NoActive => g.order[k] \in R
  BY <1>1 DEF NoActive
<1>3. ASSUME NEW h \in [order : Seq(R), active : Nat, shown : SUBSET R],
             h.order = g.order, NEW k \in 0..Len(g.order), NEW b \in BOOLEAN
      PROVE  /\ SetVisibility(h, k, b) \in [order : Seq(R), active : Nat, shown : SUBSET R]
             /\ SetVisibility(h, k, b).order = g.order
  <2>1. CASE k = NoActive
    BY <1>3, <2>1 DEF SetVisibility
  <2>2. CASE k # NoActive
    <3>1. h.order[k] \in R
      BY <1>2, <1>3, <2>2
    <3>2. PICK s \in SUBSET R : s = IF b THEN h.shown \cup {h.order[k]} ELSE h.shown \ {h.order[k]}
      BY <3>1
    <3>3. SetVisibility(h, k, b) = [h EXCEPT !.shown = s]
      BY <2>2, <3>2 DEF SetVisibility
    <3> QED
      BY <1>3, <3>3
  <2> QED
    BY <2>1, <2>2
<1>4. CASE g.active = n
  BY <1>1, <1>4 DEF SetActive
<1>5. CASE g.active # n
  <2>1. g.active \in 0..Len(g.order)
    BY <1>1
  <2>2. PICK h \in [order : Seq(R), active : Nat, shown : SUBSET R] :
           h = SetVisibility(SetVisibility(g, g.active, FALSE), n, TRUE) /\ h.order = g.order
    BY <1>1, <1>3, <2>1
  <2>3. SetActive(g, n) = [h EXCEPT !.active = n]
    BY <1>5, <2>2 DEF SetActive
  <2>4. n \in Nat /\ n <= Len(g.order)
    BY <1>1
  <2> QED
    BY <2>2, <2>3, <2>4 DEF Groups
<1> QED
  BY <1>4, <1>5

(* It shows that section and nothing else, if it showed the one before.      *)
LEMMA SetActiveAgrees ==
    ASSUME NEW R, NEW g \in Groups(R), NEW n \in 0..Len(g.order), Agrees(g)
    PROVE  SetActive(g, n) =
             [order |-> g.order, active |-> n,
              shown |-> IF n = NoActive THEN {} ELSE {g.order[n]}]
<1>1. /\ g \in [order : Seq(R), active : Nat, shown : SUBSET R]
      /\ g.shown = IF g.active = NoActive THEN {} ELSE {g.order[g.active]}
      /\ g = [order |-> g.order, active |-> g.active, shown |-> g.shown]
  BY DEF Groups, Agrees
<1>2. CASE g.active = n
  BY <1>1, <1>2 DEF SetActive
<1>3. CASE g.active # n
  <2>1. PICK h : h = [order |-> g.order, active |-> g.active, shown |-> {}]
    OBVIOUS
  <2>2. SetVisibility(g, g.active, FALSE) = h
    <3>1. CASE g.active = NoActive
      BY <1>1, <2>1, <3>1 DEF SetVisibility
    <3>2. CASE g.active # NoActive
      <4>1. SetVisibility(g, g.active, FALSE) = [g EXCEPT !.shown = {}]
        BY <1>1, <3>2 DEF SetVisibility
      <4> QED
        BY <1>1, <2>1, <4>1
    <3> QED
      BY <3>1, <3>2
  <2>3. PICK s : s = IF n = NoActive THEN {} ELSE {g.order[n]}
    OBVIOUS
  <2>4. SetVisibility(h, n, TRUE) = [order |-> g.order, active |-> g.active, shown |-> s]
    BY <2>1, <2>3 DEF SetVisibility
  <2>5. SetActive(g, n) = [SetVisibility(h, n, TRUE) EXCEPT !.active = n]
    BY <1>3, <2>2 DEF SetActive
  <2>6. [[order |-> g.order, active |-> g.active, shown |-> s] EXCEPT !.active = n]
           = [order |-> g.order, active |-> n, shown |-> s]
    OBVIOUS
  <2>7. SetActive(g, n) = [order |-> g.order, active |-> n, shown |-> s]
    <3>1. SetActive(g, n) = [[order |-> g.order, active |-> g.active, shown |-> s] EXCEPT !.active = n]
      BY ONLY <2>4, <2>5, Zenon
    <3> QED
      BY ONLY <3>1, <2>6, Zenon
  <2> QED
    BY <2>3, <2>7
<1> QED
  BY <1>2, <1>3

TabSets ==
    [content : Groups(Range(Tabs)), mode : Nat, lit : SUBSET Nat]

LEMMA SetModeType ==
    ASSUME NEW t \in TabSets, NEW n \in 0..Len(t.content.order)
    PROVE  SetMode(t, n) \in TabSets /\ SetMode(t, n).content.order = t.content.order
<1>1. t.content \in Groups(Range(Tabs)) /\ t.mode \in Nat /\ t.lit \in SUBSET Nat
  BY DEF TabSets
<1>2. Len(t.content.order) \in Nat
  BY <1>1 DEF Groups
<1>3. SetActive(t.content, n) \in Groups(Range(Tabs)) /\ SetActive(t.content, n).order = t.content.order
  BY <1>1, SetActiveType
<1>4. n \in Nat /\ (t.lit \ {t.mode}) \cup {n} \in SUBSET Nat
  BY <1>1, <1>2
<1> QED
  BY <1>1, <1>3, <1>4 DEF SetMode, TabSets

(* Any tab can be added to any set of tabs.                                  *)
LEMMA AddTabType ==
    ASSUME NEW t \in TabSets, NEW tag \in Range(Tabs)
    PROVE  AddTab(t, tag) \in TabSets
<1>1. t.content \in Groups(Range(Tabs)) /\ t.mode \in Nat /\ t.lit \in SUBSET Nat
  BY DEF TabSets
<1>2. PICK added : added = AddSection(t.content, tag)
  OBVIOUS
<1>3. /\ added \in Groups(Range(Tabs)) /\ added.active = t.content.active
      /\ Len(added.order) = Len(t.content.order) + 1
      /\ Len(t.content.order) \in Nat
  <2>1. /\ t.content \in [order : Seq(Range(Tabs)), active : Nat, shown : SUBSET Range(Tabs)]
        /\ t.content.active <= Len(t.content.order)
    BY <1>1 DEF Groups
  <2>2. /\ Append(t.content.order, tag) \in Seq(Range(Tabs))
        /\ Len(Append(t.content.order, tag)) = Len(t.content.order) + 1
        /\ Len(t.content.order) \in Nat
    BY <2>1
  <2>3. /\ added \in [order : Seq(Range(Tabs)), active : Nat, shown : SUBSET Range(Tabs)]
        /\ added.active = t.content.active /\ added.order = Append(t.content.order, tag)
    BY <1>2, <2>1, <2>2 DEF AddSection
  <2> QED
    BY <2>1, <2>2, <2>3 DEF Groups
<1>4. PICK last \in Nat : last = Len(added.order) /\ last >= 1
  BY <1>3
<1>5. PICK content : content = IF last = 1 THEN SetActive(added, 1) ELSE added
  OBVIOUS
<1>6. content \in Groups(Range(Tabs)) /\ content.order = added.order
  BY <1>3, <1>4, <1>5, SetActiveType
<1>7. PICK u \in TabSets : u = [t EXCEPT !.content = content]
  BY <1>6 DEF TabSets
<1>8. u.content = content
  BY <1>7 DEF TabSets
<1>9. last \in 0..Len(u.content.order)
  BY <1>4, <1>6, <1>8
<1>10. PICK v \in TabSets : v = SetMode(u, last) /\ v.content.order = added.order
  BY <1>6, <1>8, <1>9, SetModeType
<1>11. content.active \in 0..Len(v.content.order)
  BY <1>6, <1>10 DEF Groups
<1>12. SetMode(v, content.active) \in TabSets
  BY <1>11, SetModeType
<1>13. AddTab(t, tag) = SetMode(SetMode([t EXCEPT !.content = content], last), content.active)
  BY <1>2, <1>4, <1>5 DEF AddTab
<1> QED
  BY <1>7, <1>10, <1>12, <1>13

(* The tabs when the one of number m is shown.                               *)
AtTab(order, m) ==
    [content |-> [order |-> order, active |-> m, shown |-> {order[m]}],
     mode |-> m, lit |-> {m}]

LEMMA AtTabType ==
    ASSUME NEW order \in Seq(Range(Tabs)), NEW m \in 1..Len(order)
    PROVE  AtTab(order, m) \in TabSets /\ Agrees(AtTab(order, m).content)
<1>1. m \in Nat /\ Len(order) \in Nat /\ m <= Len(order) /\ order[m] \in Range(Tabs) /\ m # 0
  OBVIOUS
<1> QED
  BY <1>1 DEF AtTab, TabSets, Groups, Agrees, NoActive

LEMMA SetModeIs ==
    ASSUME NEW order \in Seq(Range(Tabs)), NEW m \in 1..Len(order), NEW n \in 1..Len(order)
    PROVE  SetMode(AtTab(order, m), n) = AtTab(order, n)
<1>1. CASE n = m
  BY <1>1 DEF SetMode, AtTab
<1>2. CASE n # m
  <2>1. PICK t \in TabSets : t = AtTab(order, m) /\ Agrees(t.content)
    BY AtTabType
  <2>2. t.content \in Groups(Range(Tabs)) /\ t.content.order = order /\ t.mode = m /\ t.lit = {m}
    BY <2>1 DEF TabSets, AtTab
  <2>3. n \in 0..Len(t.content.order) /\ n # NoActive
    BY <2>2 DEF NoActive
  <2>4. SetActive(t.content, n) = [order |-> order, active |-> n, shown |-> {order[n]}]
    BY <2>1, <2>2, <2>3, SetActiveAgrees
  <2>5. (t.lit \ {t.mode}) \cup {n} = {n}
    BY <2>2
  <2> QED
    BY <1>2, <2>1, <2>2, <2>4, <2>5 DEF SetMode, AtTab
<1> QED
  BY <1>1, <1>2

(* The first tab is shown, the others are added behind it.                   *)
LEMMA AddTabFirst ==
    ASSUME NEW tag \in Range(Tabs)
    PROVE  AddTab(NoTabs, tag) = AtTab(<<tag>>, 1)
<1>a. PICK none, one, empty : none = <<>> /\ one = <<tag>> /\ empty = {}
  OBVIOUS
<1>b. Append(none, tag) = one
  BY <1>a
<1>1. PICK g, added : g = GroupOf(none, 0, empty) /\ added = AddSection(g, tag)
  OBVIOUS
<1>2. added = GroupOf(one, 0, empty)
  BY ONLY <1>1, <1>b, AddSectionIs
<1>3. added \in Groups(Range(Tabs)) /\ Agrees(added) /\ Len(added.order) = 1
  <2>1. <<tag>> \in Seq(Range(Tabs)) /\ Len(<<tag>>) = 1
    OBVIOUS
  <2> QED
    BY <1>2, <1>a, <2>1 DEF Groups, Agrees, NoActive, GroupOf
<1>4. SetActive(added, 1) = GroupOf(<<tag>>, 1, {tag})
  <2>1. 1 \in 0..Len(added.order) /\ 1 # NoActive /\ added.order[1] = tag /\ added.order = <<tag>>
    BY <1>2, <1>3, <1>a DEF NoActive, GroupOf
  <2> QED
    BY <1>3, <2>1, SetActiveAgrees DEF GroupOf
<1>5. PICK content : content = GroupOf(<<tag>>, 1, {tag})
  OBVIOUS
<1>6. content = Before(added) /\ content.active = 1
  BY <1>3, <1>4, <1>5 DEF Before, GroupOf
<1>7. AddTab(NoTabs, tag) = SetMode(SetMode(TabsOf(content, 2, empty), 1), 1)
  <2>1. NoTabs = TabsOf(g, 2, empty)
    BY <1>a, <1>1 DEF NoTabs, NoSections, NoActive, GroupOf, TabsOf
  <2>2. AddTab(TabsOf(g, 2, empty), tag) = SetMode(SetMode(TabsOf(content, 2, empty), 1), 1)
    <3>1. PICK last, active, two : last = Len(added.order) /\ active = content.active /\ two = 2 /\ last = 1 /\ active = 1
      BY <1>3, <1>6
    <3>2. AddTab(TabsOf(g, two, empty), tag) = SetMode(SetMode(TabsOf(content, two, empty), last), active)
      BY ONLY <1>1, <3>1, <1>6, AddTabIs
    <3> QED
      BY <3>1, <3>2
  <2> QED
    BY <2>1, <2>2
<1>8. SetActive(content, 1) = content
  BY <1>5 DEF SetActive, GroupOf
<1>9. SetMode(TabsOf(content, 2, empty), 1) = TabsOf(content, 1, {1})
  <2>1. (empty \ {2}) \cup {1} = {1}
    BY <1>a
  <2>2. PICK one1 : one1 = {1}
    OBVIOUS
  <2>3. SetMode(TabsOf(content, 2, empty), 1) = TabsOf(content, 1, (empty \ {2}) \cup {1})
    BY <1>8 DEF SetMode, TabsOf
  <2> QED
    BY <2>1, <2>3
<1>10. SetMode(TabsOf(content, 1, {1}), 1) = TabsOf(content, 1, {1})
  BY DEF SetMode, TabsOf
<1>11. AddTab(NoTabs, tag) = TabsOf(content, 1, {1})
  BY <1>7, <1>9, <1>10
<1>12. <<tag>>[1] = tag
  OBVIOUS
<1> QED
  BY <1>5, <1>11, <1>12 DEF AtTab, TabsOf, GroupOf

LEMMA AddTabNext ==
    ASSUME NEW order \in Seq(Range(Tabs)), order # <<>>, NEW tag \in Range(Tabs)
    PROVE  AddTab(AtTab(order, 1), tag) = AtTab(Append(order, tag), 1)
<1>1. PICK longer \in Seq(Range(Tabs)) : longer = Append(order, tag)
  BY AppendProperties
<1>2. /\ Len(longer) \in Nat /\ Len(longer) = Len(order) + 1 /\ Len(longer) > 1
      /\ longer[1] = order[1]
  BY <1>1
<1>3. PICK first : first = {order[1]} /\ first = {longer[1]}
  BY <1>2
<1>4. PICK c : c = GroupOf(order, 1, first)
  OBVIOUS
<1>5. PICK added : added = AddSection(c, tag)
  OBVIOUS
<1>6. added = GroupOf(longer, 1, first)
  BY <1>1, <1>4, <1>5, AddSectionIs
<1>7. Len(added.order) # 1 /\ Len(added.order) = Len(longer) /\ added.active = 1
  BY <1>2, <1>6 DEF GroupOf
<1>8. AtTab(order, 1) = TabsOf(c, 1, {1})
  BY <1>3, <1>4 DEF AtTab, TabsOf, GroupOf
<1>9. AtTab(longer, 1) = TabsOf(added, 1, {1})
  BY <1>3, <1>6 DEF AtTab, TabsOf, GroupOf
<1>10. 1 \in 1..Len(longer) /\ Len(longer) \in 1..Len(longer)
  BY <1>2
<1>11. SetMode(SetMode(AtTab(longer, 1), Len(longer)), 1) = AtTab(longer, 1)
  BY <1>10, SetModeIs
<1>12. added = Before(added)
  BY <1>7 DEF Before
<1>13. AddTab(TabsOf(c, 1, {1}), tag) = SetMode(SetMode(TabsOf(added, 1, {1}), Len(longer)), 1)
  BY <1>5, <1>7, <1>12, AddTabIs
<1> QED
  BY <1>1, <1>8, <1>9, <1>11, <1>13

(* Adding the tabs one by one is a fold, whose value exists.                 *)
LEMMA AllTabsFold ==
    \E it : /\ it[{}] = NoTabs /\ AllTabs = it[1..Len(Tabs)]
            /\ \A k \in 1..Len(Tabs) : it[1..k] = AddTab(it[1..(k - 1)], Tabs[k])
<1>1. PICK n \in Nat : n = Len(Tabs) /\ DOMAIN Tabs = 1..n
  BY SectionsAssumption
<1>2. \A k \in 1..n : Tabs[k] \in Range(Tabs)
  BY <1>1 DEF Range
<1>3. NoTabs \in TabSets
  <2>1. NoSections \in Groups(Range(Tabs))
    <3>1. <<>> \in Seq(Range(Tabs)) /\ Len(<<>>) = 0
      OBVIOUS
    <3> QED
      BY <3>1 DEF NoSections, Groups, NoActive
  <2> QED
    BY <2>1 DEF NoTabs, TabSets
<1>4. PICK H : H = [p \in (1..n) \X TabSets |-> AddTab(p[2], Tabs[p[1]])]
  OBVIOUS
<1>5. H \in [(1..n) \X TabSets -> TabSets]
  <2>1. \A p \in (1..n) \X TabSets : p[1] \in 1..n /\ p[2] \in TabSets
    OBVIOUS
  <2>2. \A p \in (1..n) \X TabSets : AddTab(p[2], Tabs[p[1]]) \in TabSets
    BY <1>2, <2>1, AddTabType
  <2> QED
    BY <1>4, <2>2
<1>6. \A k \in 1..n, t \in TabSets : H[k, t] = AddTab(t, Tabs[k])
  BY <1>4
<1>7. PICK it : IsFold(it, TabSets, NoTabs, H, n)
  BY <1>3, <1>5, FoldExists DEF Folds
<1>8. it = [s \in SUBSET (1..n) |-> IF s = {} THEN NoTabs
                                   ELSE AddTab(it[s \ {Max(s)}], Tabs[Max(s)])]
  <2>1. \A s \in SUBSET (1..n) : s # {} =>
           Max(s) \in 1..n /\ s \ {Max(s)} \in SUBSET (1..n)
    BY MaxIn
  <2>2. \A s \in SUBSET (1..n) : s # {} => it[s] = AddTab(it[s \ {Max(s)}], Tabs[Max(s)])
    <3> SUFFICES ASSUME NEW s \in SUBSET (1..n), s # {}
                 PROVE  it[s] = AddTab(it[s \ {Max(s)}], Tabs[Max(s)])
      OBVIOUS
    <3>1. it[s] = H[Max(s), it[s \ {Max(s)}]]
      BY <1>7 DEF IsFold
    <3>2. Max(s) \in 1..n /\ it[s \ {Max(s)}] \in TabSets
      BY <1>7, <2>1 DEF IsFold
    <3> QED
      BY <1>6, <3>1, <3>2
  <2>3. \A s \in SUBSET (1..n) : s = {} => it[s] = NoTabs
    BY <1>7 DEF IsFold
  <2>4. it = [s \in SUBSET (1..n) |-> it[s]]
    BY <1>7 DEF IsFold
  <2> QED
    BY <2>2, <2>3, <2>4
<1> DEFINE I == CHOOSE it1 : it1 = [s \in SUBSET DOMAIN Tabs |-> IF s = {} THEN NoTabs
                               ELSE AddTab(it1[s \ {Max(s)}], Tabs[Max(s)])]
<1>9. I = [s \in SUBSET DOMAIN Tabs |-> IF s = {} THEN NoTabs
                               ELSE AddTab(I[s \ {Max(s)}], Tabs[Max(s)])]
  BY <1>1, <1>8
<1>10. AllTabs = I[DOMAIN Tabs]
  BY DEF AllTabs, FoldLeft, MapThenFoldSet
<1> HIDE DEF I
<1>11. I[{}] = NoTabs
  <2>1. {} \in SUBSET DOMAIN Tabs
    OBVIOUS
  <2> QED
    BY <1>9, <2>1
<1>12. ASSUME NEW k \in 1..n PROVE I[1..k] = AddTab(I[1..(k - 1)], Tabs[k])
  <2>1. /\ 1..k \in SUBSET DOMAIN Tabs /\ 1..k # {} /\ Max(1..k) = k
        /\ (1..k) \ {k} = 1..(k - 1)
    BY <1>1, Segment
  <2>2. I[1..k] = AddTab(I[(1..k) \ {Max(1..k)}], Tabs[Max(1..k)])
    BY <1>9, <2>1
  <2> QED
    BY <2>1, <2>2
<1> QED
  BY <1>1, <1>10, <1>11, <1>12

(* However many tabs there are, they are all there and the first is shown.   *)
LEMMA AllTabsShowFirst ==
    AllTabs = AtTab(Tabs, 1) /\ 1 \in 1..Len(Tabs)
<1>1. PICK it : /\ it[{}] = NoTabs /\ AllTabs = it[1..Len(Tabs)]
                /\ \A k \in 1..Len(Tabs) : it[1..k] = AddTab(it[1..(k - 1)], Tabs[k])
  BY AllTabsFold
<1>2. PICK n \in Nat : n = Len(Tabs) /\ DOMAIN Tabs = 1..n /\ Tabs \in Seq(Range(Tabs))
  BY SectionsAssumption
<1>3. n >= 1
  BY <1>2, SectionsAssumption DEF Range
<1>4. PICK P : P = {m \in Nat : 1 <= m => it[1..m] = AtTab(SubSeq(Tabs, 1, m), 1)}
  OBVIOUS
<1>5. 0 \in P
  BY <1>4
<1>6. ASSUME NEW k \in 1..n, k - 1 \in P PROVE k \in P
  <2>1. Tabs[k] \in Range(Tabs) /\ it[1..k] = AddTab(it[1..(k - 1)], Tabs[k])
    BY <1>1, <1>2 DEF Range
  <2>2. CASE k = 1
    <3>1. it[1..k] = AddTab(NoTabs, Tabs[1])
      <4>1. 1..(1 - 1) = {}
        OBVIOUS
      <4> QED
        BY <1>1, <2>1, <2>2, <4>1
    <3>2. SubSeq(Tabs, 1, 1) = <<Tabs[1]>>
      <4>1. PICK a \in Seq(Range(Tabs)) : a = SubSeq(Tabs, 1, 1) /\ Len(a) = 1 /\ a[1] = Tabs[1]
        <5>1. 1 \in 0..Len(Tabs) /\ 1 \in 1..1
          BY <1>2, <1>3
        <5> DEFINE p == SubSeq(Tabs, 1, 1)
        <5>2. p \in Seq(Range(Tabs)) /\ Len(p) = 1 /\ \A i \in 1..1 : p[i] = Tabs[i]
          BY <1>2, <5>1, Prefix
        <5> HIDE DEF p
        <5> QED
          BY <5>1, <5>2 DEF p
      <4>2. a = <<a[1]>>
        BY <4>1, Lengths
      <4> QED
        BY <4>1, <4>2
    <3>3. AddTab(NoTabs, Tabs[1]) = AtTab(<<Tabs[1]>>, 1)
      BY <2>1, <2>2, AddTabFirst
    <3> QED
      BY <1>4, <2>2, <3>1, <3>2, <3>3
  <2>3. CASE k # 1
    <3>1. PICK order \in Seq(Range(Tabs)) : order = SubSeq(Tabs, 1, k - 1) /\ order # <<>>
      <4>1. PICK order \in Seq(Range(Tabs)) : order = SubSeq(Tabs, 1, k - 1) /\ Len(order) = k - 1
        <5>1. k - 1 \in 0..Len(Tabs)
          BY <1>2
        <5> DEFINE p == SubSeq(Tabs, 1, k - 1)
        <5>2. p \in Seq(Range(Tabs)) /\ Len(p) = k - 1
          BY <1>2, <5>1, Prefix
        <5> HIDE DEF p
        <5> QED
          BY <5>2 DEF p
      <4>2. order # <<>>
        <5>1. k - 1 > 0
          BY <2>3
        <5> QED
          BY <4>1, <5>1, Lengths
      <4> QED
        BY <4>1, <4>2
    <3>2. it[1..(k - 1)] = AtTab(order, 1)
      BY <1>4, <1>6, <2>3, <3>1
    <3>3. AddTab(AtTab(order, 1), Tabs[k]) = AtTab(Append(order, Tabs[k]), 1)
      BY <2>1, <3>1, AddTabNext
    <3>4. Append(order, Tabs[k]) = SubSeq(Tabs, 1, k)
      BY <1>2, <3>1, PrefixNext
    <3> QED
      BY <1>4, <2>1, <3>2, <3>3, <3>4
  <2> QED
    BY <2>2, <2>3
<1>7. n \in P
  BY <1>3, <1>5, <1>6, UpTo
<1>8. SubSeq(Tabs, 1, n) = Tabs
  BY <1>2, Prefix
<1>9. it[1..n] = AtTab(Tabs, 1)
  BY <1>3, <1>4, <1>7, <1>8
<1> QED
  BY <1>1, <1>2, <1>3, <1>9

(* The four sections of html_options_read.                                   *)
Parts == Range(ReadSections)

PartSets == [switcher : Groups(Parts), visible : SUBSET Parts]

LEMMA ReadSectionsAre ==
    /\ ReadSections \in Seq(Parts) /\ Len(ReadSections) = 4 /\ DOMAIN ReadSections = 1..4
    /\ \A name \in Parts : \E i \in 1..4 : ReadSections[i] = name
    /\ \A i, j \in 1..4 : ReadSections[i] = ReadSections[j] => i = j
    /\ "ref_entrep" \in Parts
<1>1. Len(ReadSections) = 4 /\ DOMAIN ReadSections = 1..4
  BY DEF ReadSections
<1>2. \A i \in 1..4 : ReadSections[i] \in Parts
  BY <1>1 DEF Parts, Range
<1>3. ReadSections \in Seq(Parts)
  <2>1. ReadSections = [i \in 1..4 |-> ReadSections[i]]
    BY DEF ReadSections
  <2> QED
    BY <1>2, <2>1
<1>4. ReadSections[1] = "entrep" /\ ReadSections[2] = "opt" /\ ReadSections[3] = "extcat"
        /\ ReadSections[4] = "ref_entrep"
  BY DEF ReadSections
<1>5. \A i, j \in 1..4 : ReadSections[i] = ReadSections[j] => i = j
  <2>1. \A i \in 1..4 : i = 1 \/ i = 2 \/ i = 3 \/ i = 4
    OBVIOUS
  <2> QED
    BY <1>4, <2>1
<1>6. \A name \in Parts : \E i \in 1..4 : ReadSections[i] = name
  BY <1>1 DEF Parts, Range
<1> QED
  BY <1>1, <1>2, <1>3, <1>4, <1>5, <1>6

PartOf(order, v) == [switcher |-> GroupOf(order, 0, {}), visible |-> v]

LEMMA AddPartIs ==
    ASSUME NEW a, NEW v, NEW name
    PROVE  AddPart(PartOf(a, v), name) = PartOf(Append(a, name), v \cup {name})
<1>1. PICK empty : empty = {}
  OBVIOUS
<1>2. PICK u : u = [switcher |-> GroupOf(a, 0, empty), visible |-> v]
  OBVIOUS
<1>3. PICK g : g = u.switcher
  OBVIOUS
<1>4. AddSection(g, name) = GroupOf(Append(a, name), 0, empty)
  BY <1>2, <1>3, AddSectionIs
<1>5. AddPart(u, name) = [switcher |-> GroupOf(Append(a, name), 0, empty), visible |-> v \cup {name}]
  BY <1>2, <1>3, <1>4 DEF AddPart
<1> QED
  BY <1>1, <1>2, <1>5 DEF PartOf

LEMMA AddPartType ==
    ASSUME NEW u \in PartSets, NEW name \in Parts
    PROVE  AddPart(u, name) \in PartSets
<1>1. PICK g \in Groups(Parts), v \in SUBSET Parts : u.switcher = g /\ u.visible = v
  BY DEF PartSets
<1>2. /\ g.order \in Seq(Parts) /\ g.active \in Nat /\ g.shown \in SUBSET Parts
      /\ g = GroupOf(g.order, g.active, g.shown) /\ g.active <= Len(g.order)
  BY DEF Groups, GroupOf
<1>3. AddSection(g, name) = GroupOf(Append(g.order, name), g.active, g.shown)
  BY <1>2, AddSectionIs
<1>4. Append(g.order, name) \in Seq(Parts) /\ Len(Append(g.order, name)) = Len(g.order) + 1
  BY <1>2, AppendProperties
<1>5. AddSection(g, name) \in Groups(Parts)
  BY <1>2, <1>3, <1>4 DEF Groups, GroupOf
<1> QED
  BY <1>1, <1>5 DEF AddPart, PartSets

NoParts == [switcher |-> NoSections, visible |-> {}]

LEMMA UnrolledFold ==
    \E it : /\ it[{}] = NoParts /\ Unrolled = it[1..4]
            /\ \A k \in 1..4 : it[1..k] = AddPart(it[1..(k - 1)], ReadSections[k])
<1>1. PICK n \in Nat : n = 4 /\ DOMAIN ReadSections = 1..n
  BY ReadSectionsAre
<1>2. \A k \in 1..n : ReadSections[k] \in Parts
  BY <1>1 DEF Range, Parts
<1>3. NoParts \in PartSets
  <2>1. NoSections \in Groups(Parts)
    <3>1. <<>> \in Seq(Parts) /\ Len(<<>>) = 0
      OBVIOUS
    <3> QED
      BY <3>1 DEF NoSections, Groups, NoActive
  <2> QED
    BY <2>1 DEF NoParts, PartSets
<1>4. PICK H : H = [p \in (1..n) \X PartSets |-> AddPart(p[2], ReadSections[p[1]])]
  OBVIOUS
<1>5. H \in [(1..n) \X PartSets -> PartSets]
  <2>1. \A p \in (1..n) \X PartSets : p[1] \in 1..n /\ p[2] \in PartSets
    OBVIOUS
  <2>2. \A p \in (1..n) \X PartSets : AddPart(p[2], ReadSections[p[1]]) \in PartSets
    BY <1>2, <2>1, AddPartType
  <2> QED
    BY <1>4, <2>2
<1>6. \A k \in 1..n, u \in PartSets : H[k, u] = AddPart(u, ReadSections[k])
  BY <1>4
<1>7. PICK it : IsFold(it, PartSets, NoParts, H, n)
  BY <1>3, <1>5, FoldExists DEF Folds
<1>8. it = [s \in SUBSET (1..n) |-> IF s = {} THEN NoParts
                                   ELSE AddPart(it[s \ {Max(s)}], ReadSections[Max(s)])]
  <2>1. \A s \in SUBSET (1..n) : s # {} =>
           Max(s) \in 1..n /\ s \ {Max(s)} \in SUBSET (1..n)
    BY MaxIn
  <2>2. \A s \in SUBSET (1..n) : s # {} => it[s] = AddPart(it[s \ {Max(s)}], ReadSections[Max(s)])
    <3> SUFFICES ASSUME NEW s \in SUBSET (1..n), s # {}
                 PROVE  it[s] = AddPart(it[s \ {Max(s)}], ReadSections[Max(s)])
      OBVIOUS
    <3>1. it[s] = H[Max(s), it[s \ {Max(s)}]]
      BY <1>7 DEF IsFold
    <3>2. Max(s) \in 1..n /\ it[s \ {Max(s)}] \in PartSets
      BY <1>7, <2>1 DEF IsFold
    <3> QED
      BY <1>6, <3>1, <3>2
  <2>3. \A s \in SUBSET (1..n) : s = {} => it[s] = NoParts
    BY <1>7 DEF IsFold
  <2>4. it = [s \in SUBSET (1..n) |-> it[s]]
    BY <1>7 DEF IsFold
  <2> QED
    BY <2>2, <2>3, <2>4
<1> DEFINE I == CHOOSE it1 : it1 = [s \in SUBSET DOMAIN ReadSections |-> IF s = {} THEN NoParts
                               ELSE AddPart(it1[s \ {Max(s)}], ReadSections[Max(s)])]
<1>9. I = [s \in SUBSET DOMAIN ReadSections |-> IF s = {} THEN NoParts
                               ELSE AddPart(I[s \ {Max(s)}], ReadSections[Max(s)])]
  BY <1>1, <1>8
<1>10. Unrolled = I[DOMAIN ReadSections]
  BY DEF Unrolled, FoldLeft, MapThenFoldSet, NoParts
<1> HIDE DEF I
<1>11. I[{}] = NoParts
  <2>1. {} \in SUBSET DOMAIN ReadSections
    OBVIOUS
  <2> QED
    BY <1>9, <2>1
<1>12. ASSUME NEW k \in 1..n PROVE I[1..k] = AddPart(I[1..(k - 1)], ReadSections[k])
  <2>1. /\ 1..k \in SUBSET DOMAIN ReadSections /\ 1..k # {} /\ Max(1..k) = k
        /\ (1..k) \ {k} = 1..(k - 1)
    BY <1>1, Segment
  <2>2. I[1..k] = AddPart(I[(1..k) \ {Max(1..k)}], ReadSections[Max(1..k)])
    BY <1>9, <2>1
  <2> QED
    BY <2>1, <2>2
<1> QED
  BY <1>1, <1>10, <1>11, <1>12

LEMMA UnrolledIs ==
    Unrolled = PartOf(ReadSections, Parts)
<1>1. PICK it : /\ it[{}] = NoParts /\ Unrolled = it[1..4]
                /\ \A k \in 1..4 : it[1..k] = AddPart(it[1..(k - 1)], ReadSections[k])
  BY UnrolledFold
<1>2. PICK Seen : Seen = [k \in 0..4 |-> {ReadSections[i] : i \in 1..k}]
  OBVIOUS
<1> DEFINE Part(m) == PartOf(SubSeq(ReadSections, 1, m), Seen[m])
<1> HIDE DEF Part
<1>3. PICK P : P = {m \in Nat : m <= 4 => it[1..m] = Part(m)}
  OBVIOUS
<1>4. 0 \in P
  <2>1. 1..0 = {}
    OBVIOUS
  <2>2. SubSeq(ReadSections, 1, 0) = <<>>
    BY SubSeqEmpty
  <2>3. Seen[0] = {}
    BY <1>2, <2>1
  <2>4. NoParts = PartOf(<<>>, {})
    BY DEF NoParts, NoSections, NoActive, GroupOf, PartOf
  <2> QED
    BY <1>1, <1>3, <2>1, <2>2, <2>3, <2>4 DEF Part
<1>5. ASSUME NEW k \in 1..4, k - 1 \in P PROVE k \in P
  <2>1. PICK order : order = SubSeq(ReadSections, 1, k - 1)
    OBVIOUS
  <2>2. it[1..(k - 1)] = PartOf(order, Seen[k - 1])
    <3>1. it[1..(k - 1)] = Part(k - 1)
      BY <1>3, <1>5
    <3> QED
      BY <2>1, <3>1 DEF Part
  <2>3. it[1..k] = PartOf(Append(order, ReadSections[k]), Seen[k - 1] \cup {ReadSections[k]})
    <3>1. it[1..k] = AddPart(it[1..(k - 1)], ReadSections[k])
      BY <1>1
    <3>2. AddPart(PartOf(order, Seen[k - 1]), ReadSections[k])
            = PartOf(Append(order, ReadSections[k]), Seen[k - 1] \cup {ReadSections[k]})
      BY ONLY AddPartIs, Zenon
    <3> QED
      BY <2>2, <3>1, <3>2, Zenon
  <2>4. Append(order, ReadSections[k]) = SubSeq(ReadSections, 1, k)
    BY <2>1, ReadSectionsAre, PrefixNext
  <2>5. Seen[k - 1] \cup {ReadSections[k]} = Seen[k]
    <3>1. 1..k = (1..(k - 1)) \cup {k} /\ k \in 0..4 /\ k - 1 \in 0..4
      OBVIOUS
    <3> QED
      BY <1>2, <3>1
  <2> QED
    <3>1. it[1..k] = Part(k)
      BY <2>3, <2>4, <2>5, Zenon DEF Part
    <3> QED
      BY <1>3, <3>1
<1>6. 4 \in P
  BY <1>4, <1>5, UpTo
<1>7. SubSeq(ReadSections, 1, 4) = ReadSections
  BY ReadSectionsAre, Prefix
<1>8. Seen[4] = Parts
  BY <1>2, ReadSectionsAre DEF Parts, Range
<1>9. it[1..4] = PartOf(ReadSections, Parts)
  <2>1. it[1..4] = Part(4)
    BY <1>3, <1>6
  <2> QED
    BY <1>7, <1>8, <2>1, Zenon DEF Part
<1> QED
  BY <1>1, <1>9

-----------------------------------------------------------------------------
(* What a page of the tabs and of the sections is.                           *)
TabShown == \E m \in 1..Len(Tabs) : tabs = AtTab(Tabs, m)

PartShown ==
    /\ unroll \in PartSets /\ unroll.switcher.order = ReadSections
    /\ Agrees(unroll.switcher) /\ unroll.switcher.shown \subseteq unroll.visible
    /\ external \in BOOLEAN
    /\ "ref_entrep" \in unroll.visible <=> external

SectionsInv == TabShown /\ PartShown

LEMMA SectionNumIs ==
    ASSUME NEW g, g.order = ReadSections, NEW name \in Parts
    PROVE  SectionNum(g, name) \in 1..4 /\ ReadSections[SectionNum(g, name)] = name
BY ReadSectionsAre DEF SectionNum

LEMMA SetVisibleKeeps ==
    ASSUME NEW u \in PartSets, u.switcher.order = ReadSections, Agrees(u.switcher),
           u.switcher.shown \subseteq u.visible, NEW name \in Parts, NEW b \in BOOLEAN,
           NEW v, v = SectionSetVisible(u, name, b)
    PROVE  /\ v \in PartSets /\ v.switcher.order = ReadSections
           /\ Agrees(v.switcher) /\ v.switcher.shown \subseteq v.visible
           /\ name \in v.visible <=> b
<1>1. PICK g \in Groups(Parts) : g = u.switcher /\ g.order = ReadSections
  BY DEF PartSets
<1>2. PICK n \in 1..4 : n = SectionNum(g, name) /\ ReadSections[n] = name
  BY <1>1, SectionNumIs
<1>3. PICK s \in SUBSET Parts : s = IF b THEN u.visible \cup {name} ELSE u.visible \ {name}
  BY DEF PartSets
<1>4. name \in s <=> b
  BY <1>3
<1>5. CASE ~b /\ g.active = n
  <2>1. 0 \in 0..Len(g.order)
    BY <1>1, ReadSectionsAre
  <2>2. PICK h \in Groups(Parts) : h = SetActive(g, 0) /\ h.order = ReadSections
    BY <1>1, <2>1, SetActiveType
  <2>3. h.active = 0 /\ h.shown = {} /\ h.order = ReadSections
    BY <1>1, <2>1, <2>2, SetActiveAgrees DEF NoActive
  <2>4. v = [visible |-> s, switcher |-> h]
    BY <1>1, <1>2, <1>3, <1>5, <2>2 DEF SectionSetVisible, NoActive
  <2> QED
    BY <1>4, <2>2, <2>3, <2>4 DEF PartSets, Agrees, NoActive
<1>6. CASE b \/ g.active # n
  <2>1. v = [visible |-> s, switcher |-> g]
    BY <1>1, <1>2, <1>3, <1>6 DEF SectionSetVisible
  <2>2. g.shown \subseteq s
    <3>1. g.shown \subseteq u.visible
      BY <1>1
    <3>2. CASE b
      BY <1>3, <3>1, <3>2
    <3>3. CASE ~b
      <4>1. g.active \in 0..4
        <5>1. g.active \in Nat /\ g.active <= Len(g.order)
          BY DEF Groups
        <5> QED
          <6>1. Len(g.order) = 4
            BY <1>1, ReadSectionsAre
          <6>2. PICK a : a = g.active
            OBVIOUS
          <6>3. a \in Nat /\ a <= 4
            BY <5>1, <6>1, <6>2
          <6>4. a \in 0..4
            BY <6>3
          <6> QED
            BY <6>2, <6>4
      <4>2. name \notin g.shown
        BY <1>1, <1>2, <1>6, <3>3, <4>1, ReadSectionsAre DEF Agrees, NoActive
      <4> QED
        BY <1>3, <3>1, <3>3, <4>2
    <3> QED
      BY <3>2, <3>3
  <2> QED
    BY <1>1, <1>4, <2>1, <2>2 DEF PartSets
<1> QED
  BY <1>5, <1>6

LEMMA SectionsInitially == SectionsInit => SectionsInv
<1> SUFFICES ASSUME SectionsInit PROVE SectionsInv
  OBVIOUS
<1>1. TabShown
  BY AllTabsShowFirst DEF SectionsInit, TabShown
<1>2. Unrolled \in PartSets /\ Unrolled.switcher.order = ReadSections
        /\ Agrees(Unrolled.switcher) /\ Unrolled.switcher.shown \subseteq Unrolled.visible
  <2>1. GroupOf(ReadSections, 0, {}) \in Groups(Parts) /\ Agrees(GroupOf(ReadSections, 0, {}))
    BY ReadSectionsAre DEF GroupOf, Groups, Agrees, NoActive
  <2> QED
    BY <2>1, UnrolledIs DEF PartOf, PartSets, GroupOf
<1>3. external \in BOOLEAN /\ unroll = SectionSetVisible(Unrolled, "ref_entrep", external)
  BY DEF SectionsInit
<1>4. PartShown
  BY <1>2, <1>3, SetVisibleKeeps, ReadSectionsAre DEF PartShown
<1> QED
  BY <1>1, <1>4 DEF SectionsInv

LEMMA SectionsStep ==
    SectionsInv /\ (SectionsNext \/ UNCHANGED configure) => SectionsInv'
<1> SUFFICES ASSUME SectionsInv, SectionsNext \/ UNCHANGED configure PROVE SectionsInv'
  OBVIOUS
<1>0. TabShown /\ PartShown
  BY DEF SectionsInv
<1>1. ASSUME NEW n \in DOMAIN Tabs, ClickTab(n) PROVE SectionsInv'
  <2>1. Tabs \in Seq(Range(Tabs)) /\ DOMAIN Tabs = 1..Len(Tabs)
    BY SectionsAssumption
  <2>2. PICK m \in 1..Len(Tabs) : tabs = AtTab(Tabs, m)
    BY <1>0 DEF TabShown
  <2>3. tabs' = AtTab(Tabs, n)
    BY <1>1, <2>1, <2>2, SetModeIs DEF ClickTab
  <2>4. TabShown'
    BY <2>1, <2>3 DEF TabShown
  <2>5. PartShown'
    BY <1>0, <1>1 DEF ClickTab, PartShown
  <2> QED
    BY <2>4, <2>5 DEF SectionsInv
<1>2. ASSUME NEW n \in 0..4, n # NoActive => ReadSections[n] \in unroll.visible,
             unroll' = [unroll EXCEPT !.switcher = SetActive(@, n)], UNCHANGED <<tabs, external>>
      PROVE  SectionsInv'
  <2>1. PICK g \in Groups(Parts), v \in SUBSET Parts :
           unroll = [switcher |-> g, visible |-> v]
    BY <1>0 DEF PartShown, PartSets
  <2>2. g.order = ReadSections /\ Agrees(g) /\ n \in 0..Len(g.order)
    BY <1>0, <2>1, ReadSectionsAre DEF PartShown
  <2>3. PICK h \in Groups(Parts) : h = SetActive(g, n)
    BY <2>2, SetActiveType
  <2>4. h = [order |-> g.order, active |-> n,
             shown |-> IF n = NoActive THEN {} ELSE {g.order[n]}]
    BY <2>2, <2>3, SetActiveAgrees
  <2>5. unroll' = [switcher |-> h, visible |-> v]
    BY <1>2, <2>1, <2>3
  <2>6. /\ h.order = ReadSections /\ Agrees(h) /\ h.shown \subseteq v
    BY <1>2, <2>1, <2>2, <2>4 DEF Agrees
  <2>7. PartShown'
    BY <1>0, <1>2, <2>1, <2>5, <2>6 DEF PartShown, PartSets
  <2> QED
    BY <1>0, <1>2, <2>7 DEF SectionsInv, TabShown
<1>3. ASSUME NEW name \in Range(ReadSections), ClickTitle(name) PROVE SectionsInv'
  <2>1. PICK n \in 1..4 : n = SectionNum(unroll.switcher, name) /\ ReadSections[n] = name
    BY <1>0, SectionNumIs DEF PartShown, Parts
  <2>2. name \in unroll.visible
    BY <1>3 DEF ClickTitle, Button
  <2>3. unroll' = [unroll EXCEPT !.switcher = SetActive(@, n)] /\ UNCHANGED <<tabs, external>>
    BY <1>3, <1>0, <2>1 DEF ClickTitle, PartShown, PartSets
  <2>4. n \in 0..4
    OBVIOUS
  <2> QED
    BY <1>2, <2>1, <2>2, <2>3, <2>4
<1>4. ASSUME NEW name \in Range(ReadSections), ClickShrink(name) PROVE SectionsInv'
  <2>1. unroll' = [unroll EXCEPT !.switcher = SetActive(@, 0)] /\ UNCHANGED <<tabs, external>>
    BY <1>4 DEF ClickShrink, NoActive
  <2>2. 0 \in 0..4 /\ 0 = NoActive
    BY DEF NoActive
  <2> QED
    BY <1>2, <2>1, <2>2
<1>5. ASSUME NEW b \in BOOLEAN, SetExternal(b) PROVE SectionsInv'
  <2>1. PartShown'
    BY <1>0, <1>5, SetVisibleKeeps, ReadSectionsAre DEF SetExternal, PartShown
  <2> QED
    BY <1>0, <1>5, <2>1 DEF SetExternal, SectionsInv, TabShown
<1>6. CASE UNCHANGED configure
  BY <1>0, <1>6 DEF configure, SectionsInv, TabShown, PartShown
<1> QED
  BY <1>1, <1>3, <1>4, <1>5, <1>6 DEF SectionsNext, PostExternal, LoadRead

LEMMA SectionsInvIsEnough == SectionsInv => SectionsAgree
<1> SUFFICES ASSUME SectionsInv PROVE SectionsAgree
  OBVIOUS
<1>1. PICK m \in 1..Len(Tabs) : tabs = AtTab(Tabs, m)
  BY DEF SectionsInv, TabShown
<1>2. tabs.content = [order |-> Tabs, active |-> m, shown |-> {Tabs[m]}] /\ tabs.mode = m /\ tabs.lit = {m}
  BY <1>1 DEF AtTab
<1>3. m # NoActive
  BY SectionsAssumption DEF NoActive
<1> QED
  BY <1>2, <1>3 DEF SectionsInv, PartShown, SectionsAgree, Agrees

(* Whatever tabs are selected and titles clicked, the section that is active *)
(* is shown, and one at most is (html_aiguille, html_tabs, html_derouleur).  *)
THEOREM SectionsStayInStep == PagesSpec => []SectionsAgree
<1>1. PagesInit => SectionsInv
  BY SectionsInitially DEF PagesInit
<1>2. SectionsInv /\ [PagesNext]_pages => SectionsInv'
  BY SectionsStep DEF PagesNext, LogIn, ReadArchives, ReadOptions, SetLibrary, pages, configure
<1> QED
  BY <1>1, <1>2, SectionsInvIsEnough, PTL DEF PagesSpec

-----------------------------------------------------------------------------
(* The default configurations.                                               *)

(* Each one that is proposed uses only those proposed before it.             *)
First == {"no_compression", "full_from_diff"}

Made(k) == First \cup {Proposed[i] : i \in 1..k}

LEMMA ProposedAre ==
    /\ Len(Proposed) = 13 /\ DOMAIN Proposed = 1..13
    /\ Proposed[1] = "repo" /\ Proposed[2] = "compress" /\ Proposed[3] = "slicing"
    /\ Proposed[4] = "ciphering" /\ Proposed[5] = "over_policy" /\ Proposed[6] = "confread"
    /\ Proposed[7] = "confsave" /\ Proposed[8] = "conftest" /\ Proposed[9] = "confdiff"
    /\ Proposed[10] = "confisolate" /\ Proposed[11] = "confmerge"
    /\ Proposed[12] = "confrepair" /\ Proposed[13] = "confrest"
BY DEF Proposed

LEMMA NamesAre ==
    /\ Made(0) = First /\ Made(13) = Names
    /\ \A k \in 1..13 : Made(k) = Made(k - 1) \cup {Proposed[k]} /\ Made(k) \subseteq Names
    /\ \A k \in 1..13 : Proposed[k] \in Names
<1>1. Range(Proposed) = {Proposed[i] : i \in 1..13}
  BY ProposedAre, Zenon DEF Range
<1>2. 1..0 = {}
  OBVIOUS
<1>3. Made(0) = First
  BY <1>2 DEF Made
<1>4. Made(13) = Names
  BY <1>1 DEF Made, Names, First
<1>5. ASSUME NEW k \in 1..13
      PROVE  Made(k) = Made(k - 1) \cup {Proposed[k]} /\ Made(k) \subseteq Names
  <2>1. 1..k = (1..(k - 1)) \cup {k} /\ 1..k \subseteq 1..13
    OBVIOUS
  <2> QED
    BY <1>1, <2>1 DEF Made, Names, First
<1>6. ASSUME NEW k \in 1..13 PROVE Proposed[k] \in Names
  BY <1>1 DEF Names
<1> QED
  BY <1>3, <1>4, <1>5, <1>6

LEMMA UsesAreMade ==
    /\ UsesOf("no_compression") = {} /\ UsesOf("full_from_diff") = {}
    /\ \A k \in 1..13 : UsesOf(Proposed[k]) \subseteq Made(k - 1)
<1>1. UsesOf("no_compression") = {} /\ UsesOf("full_from_diff") = {}
  BY DEF UsesOf
<1> DEFINE U(k) == UsesOf(Proposed[k])
<1>2. U(1) = {} /\ U(2) = {} /\ U(3) = {} /\ U(4) = {} /\ U(5) = {}
  BY ProposedAre DEF UsesOf
<1>3. U(8) = {} /\ U(9) = {}
  BY ProposedAre DEF UsesOf
<1>4. U(6) = {"repo"}
  BY ProposedAre DEF UsesOf, ReadUses
<1>5. U(7) = {"repo", "compress", "no_compression", "slicing", "ciphering"}
  BY ProposedAre DEF UsesOf, CreateUses
<1>6. U(10) = {"repo", "slicing", "compress", "ciphering"}
  BY ProposedAre DEF UsesOf, IsolateUses
<1>7. U(11) = {"repo", "over_policy", "slicing", "ciphering"}
  BY ProposedAre DEF UsesOf, MergeUses
<1>8. U(12) = {"repo", "slicing", "ciphering"}
  BY ProposedAre DEF UsesOf, RepairUses
<1>9. U(13) = {"over_policy"}
  BY ProposedAre DEF UsesOf, ExtractUses
<1>10. ASSUME NEW k \in 6..13
       PROVE  {"repo", "compress", "slicing", "ciphering", "over_policy", "no_compression"} \subseteq Made(k - 1)
  <2>1. 1 \in 1..(k - 1) /\ 2 \in 1..(k - 1) /\ 3 \in 1..(k - 1) /\ 4 \in 1..(k - 1) /\ 5 \in 1..(k - 1)
    OBVIOUS
  <2> QED
    BY <2>1, ProposedAre DEF Made, First
<1> HIDE DEF U
<1>11. \A k \in 6..13 : U(k) \subseteq {"repo", "compress", "slicing", "ciphering", "over_policy", "no_compression"}
  <2>1. \A k \in 6..13 : k = 6 \/ k = 7 \/ k = 8 \/ k = 9 \/ k = 10 \/ k = 11 \/ k = 12 \/ k = 13
    OBVIOUS
  <2> QED
    BY <1>3, <1>4, <1>5, <1>6, <1>7, <1>8, <1>9, <2>1
<1>12. \A k \in 1..13 : k \in 6..13 \/ k = 1 \/ k = 2 \/ k = 3 \/ k = 4 \/ k = 5
  OBVIOUS
<1>13. \A k \in 1..13 : U(k) \subseteq Made(k - 1)
  BY <1>2, <1>10, <1>11, <1>12
<1> QED
  BY <1>1, <1>13 DEF U

LEMMA UsesAreNames ==
    \A n \in Names : UsesOf(n) \subseteq Names
<1>1. \A k \in 1..13 : UsesOf(Proposed[k]) \subseteq Names
  <2>1. \A k \in 1..13 : Made(k - 1) \subseteq Made(k)
    BY NamesAre
  <2> QED
    BY <2>1, NamesAre, UsesAreMade
<1>2. \A n \in Names : n \in First \/ \E k \in 1..13 : n = Proposed[k]
  BY NamesAre DEF Made
<1> QED
  BY <1>1, <1>2, UsesAreMade DEF First

-----------------------------------------------------------------------------
(* Libraries: functions from configurations to those they use.               *)
Libraries == UNION {[D -> SUBSET Names] : D \in SUBSET Names}

LEMMA PutIs ==
    ASSUME NEW s \in Libraries, NEW n \in Names, NEW uses \in SUBSET Names
    PROVE  /\ Put(s, n, uses) \in Libraries
           /\ DOMAIN Put(s, n, uses) = DOMAIN s \cup {n}
           /\ Put(s, n, uses)[n] = uses
           /\ \A m \in DOMAIN s : m # n => Put(s, n, uses)[m] = s[m]
<1>1. Put(s, n, uses) = [x \in DOMAIN s \cup {n} |-> IF x = n THEN uses ELSE s[x]]
  BY DEF Put
<1>2. PICK D \in SUBSET Names : s \in [D -> SUBSET Names]
  BY DEF Libraries
<1>3. Put(s, n, uses) \in [D \cup {n} -> SUBSET Names] /\ D \cup {n} \in SUBSET Names
  BY <1>1, <1>2
<1>4. Put(s, n, uses) \in Libraries
  BY <1>3, Zenon DEF Libraries
<1> QED
  BY <1>1, <1>4

LEMMA EmptyLibrary == <<>> \in Libraries /\ DOMAIN <<>> = {}
<1>1. DOMAIN <<>> = 1..0
  OBVIOUS
<1>2. DOMAIN <<>> = {}
  BY <1>1
<1>3. <<>> = [i \in {} |-> {}]
  BY <1>2
<1>4. [i \in {} |-> {}] \in [{} -> SUBSET Names]
  OBVIOUS
<1> QED
  BY <1>2, <1>3, <1>4 DEF Libraries

LibSets == [stored : Libraries, refused : BOOLEAN]

(* What is known once those of P were to be added to s.                      *)
Filled(lib, s, P) ==
    /\ lib \in LibSets
    /\ DOMAIN s \subseteq DOMAIN lib.stored
    /\ \A n \in DOMAIN s : lib.stored[n] = s[n]
    /\ \A n \in DOMAIN lib.stored \ DOMAIN s :
          lib.stored[n] = UsesOf(n) /\ UsesOf(n) \cap broken = {} /\ UsesOf(n) \subseteq DOMAIN lib.stored
    /\ lib.refused <=> \E n \in P \ DOMAIN s : UsesOf(n) \cap broken # {}
    /\ lib.refused \/ P \subseteq DOMAIN lib.stored

LEMMA AddDefaultType ==
    ASSUME NEW lib \in LibSets, NEW n \in Names
    PROVE  AddDefault(lib, n) \in LibSets
<1>1. lib.stored \in Libraries /\ lib.refused \in BOOLEAN
      /\ lib = [stored |-> lib.stored, refused |-> lib.refused]
  BY DEF LibSets
<1>2. UsesOf(n) \in SUBSET Names
  BY UsesAreNames
<1>3. PICK s \in Libraries : s = Put(lib.stored, n, UsesOf(n))
  BY <1>1, <1>2, PutIs
<1>4. AddDefault(lib, n) \in {lib, [lib EXCEPT !.stored = s], [lib EXCEPT !.refused = TRUE]}
  BY <1>3 DEF AddDefault
<1> QED
  BY <1>1, <1>4 DEF LibSets

LEMMA AddDefaultFills ==
    ASSUME NEW s \in Libraries, NEW P \in SUBSET Names, NEW lib, Filled(lib, s, P),
           NEW n \in Names, UsesOf(n) \subseteq P
    PROVE  Filled(AddDefault(lib, n), s, P \cup {n})
<1>1. lib.stored \in Libraries /\ lib.refused \in BOOLEAN
      /\ lib = [stored |-> lib.stored, refused |-> lib.refused]
  BY DEF LibSets, Filled
<1>2. CASE lib.refused \/ n \in DOMAIN lib.stored
  <2>1. AddDefault(lib, n) = lib
    BY <1>2 DEF AddDefault
  <2>2. lib.refused <=> \E m \in (P \cup {n}) \ DOMAIN s : UsesOf(m) \cap broken # {}
    BY <1>2 DEF Filled
  <2>3. lib.refused \/ P \cup {n} \subseteq DOMAIN lib.stored
    BY <1>2 DEF Filled
  <2> QED
    BY <2>1, <2>2, <2>3 DEF Filled
<1>3. CASE ~lib.refused /\ n \notin DOMAIN lib.stored /\ CanMake(lib, n)
  <2>1. PICK t \in Libraries : /\ t = Put(lib.stored, n, UsesOf(n))
                               /\ DOMAIN t = DOMAIN lib.stored \cup {n} /\ t[n] = UsesOf(n)
                               /\ \A m \in DOMAIN lib.stored : m # n => t[m] = lib.stored[m]
    <3>1. PICK old \in Libraries : old = lib.stored
      BY <1>1
    <3>2. PICK uses \in SUBSET Names : uses = UsesOf(n)
      BY UsesAreNames
    <3>3. PICK t : t = Put(old, n, uses)
      OBVIOUS
    <3>4. /\ t \in Libraries /\ DOMAIN t = DOMAIN old \cup {n} /\ t[n] = uses
          /\ \A m \in DOMAIN old : m # n => t[m] = old[m]
      BY <3>3, PutIs
    <3> QED
      BY <3>1, <3>2, <3>3, <3>4
  <2>2. AddDefault(lib, n) = [stored |-> t, refused |-> lib.refused]
    BY <1>1, <1>3, <2>1 DEF AddDefault
  <2>3. PICK new : new = [stored |-> t, refused |-> lib.refused]
    OBVIOUS
  <2>4. new \in LibSets /\ new.stored = t /\ new.refused = FALSE
    BY <1>1, <1>3, <2>1, <2>3 DEF LibSets
  <2>5. UsesOf(n) \cap broken = {} /\ UsesOf(n) \subseteq DOMAIN lib.stored
    BY <1>3 DEF CanMake
  <2>6. n \notin DOMAIN s /\ DOMAIN s \subseteq DOMAIN lib.stored
    BY <1>3 DEF Filled
  <2>7. \A m \in DOMAIN s : t[m] = s[m]
    BY <1>3, <2>1, <2>6 DEF Filled
  <2>8. \A m \in DOMAIN t \ DOMAIN s :
          t[m] = UsesOf(m) /\ UsesOf(m) \cap broken = {} /\ UsesOf(m) \subseteq DOMAIN t
    BY <1>3, <2>1, <2>5 DEF Filled
  <2>9. ~ \E m \in (P \cup {n}) \ DOMAIN s : UsesOf(m) \cap broken # {}
    BY <1>3, <2>5 DEF Filled
  <2>10. P \cup {n} \subseteq DOMAIN t
    BY <1>3, <2>1 DEF Filled
  <2>11. DOMAIN s \subseteq DOMAIN t
    BY <2>1, <2>6
  <2>12. Filled(new, s, P \cup {n})
    BY <2>4, <2>7, <2>8, <2>9, <2>10, <2>11 DEF Filled
  <2> QED
    BY <2>2, <2>3, <2>12
<1>4. CASE ~lib.refused /\ n \notin DOMAIN lib.stored /\ ~CanMake(lib, n)
  <2>1. AddDefault(lib, n) = [stored |-> lib.stored, refused |-> TRUE]
    BY <1>1, <1>4 DEF AddDefault
  <2>2. PICK new : new = [stored |-> lib.stored, refused |-> TRUE]
    OBVIOUS
  <2>3. new \in LibSets /\ new.stored = lib.stored /\ new.refused = TRUE
    BY <1>1, <2>2 DEF LibSets
  <2>4. UsesOf(n) \cap broken # {} /\ n \notin DOMAIN s
    BY <1>4 DEF CanMake, Filled
  <2>5. Filled(new, s, P \cup {n})
    BY <2>3, <2>4 DEF Filled
  <2> QED
    BY <2>1, <2>2, <2>5
<1> QED
  BY <1>1, <1>2, <1>3, <1>4

LEMMA ProposalsFold ==
    ASSUME NEW base \in LibSets
    PROVE  \E it : /\ it[{}] = base /\ FoldLeft(AddDefault, base, Proposed) = it[1..13]
                   /\ \A k \in 1..13 : it[1..k] = AddDefault(it[1..(k - 1)], Proposed[k])
<1>1. PICK n \in Nat : n = 13 /\ DOMAIN Proposed = 1..n
  BY ProposedAre
<1>2. \A k \in 1..n : Proposed[k] \in Names
  BY <1>1, NamesAre
<1>4. PICK H : H = [p \in (1..n) \X LibSets |-> AddDefault(p[2], Proposed[p[1]])]
  OBVIOUS
<1>5. H \in [(1..n) \X LibSets -> LibSets]
  <2>1. \A p \in (1..n) \X LibSets : p[1] \in 1..n /\ p[2] \in LibSets
    OBVIOUS
  <2>2. \A p \in (1..n) \X LibSets : AddDefault(p[2], Proposed[p[1]]) \in LibSets
    BY <1>2, <2>1, AddDefaultType
  <2> QED
    BY <1>4, <2>2
<1>6. \A k \in 1..n, t \in LibSets : H[k, t] = AddDefault(t, Proposed[k])
  BY <1>4
<1>7. PICK it : IsFold(it, LibSets, base, H, n)
  BY <1>5, FoldExists DEF Folds
<1>8. it = [s \in SUBSET (1..n) |-> IF s = {} THEN base
                                   ELSE AddDefault(it[s \ {Max(s)}], Proposed[Max(s)])]
  <2>1. \A s \in SUBSET (1..n) : s # {} =>
           Max(s) \in 1..n /\ s \ {Max(s)} \in SUBSET (1..n)
    BY MaxIn
  <2>2. \A s \in SUBSET (1..n) : s # {} => it[s] = AddDefault(it[s \ {Max(s)}], Proposed[Max(s)])
    <3> SUFFICES ASSUME NEW s \in SUBSET (1..n), s # {}
                 PROVE  it[s] = AddDefault(it[s \ {Max(s)}], Proposed[Max(s)])
      OBVIOUS
    <3>1. it[s] = H[Max(s), it[s \ {Max(s)}]]
      BY <1>7 DEF IsFold
    <3>2. Max(s) \in 1..n /\ it[s \ {Max(s)}] \in LibSets
      BY <1>7, <2>1 DEF IsFold
    <3> QED
      BY <1>6, <3>1, <3>2
  <2>3. \A s \in SUBSET (1..n) : s = {} => it[s] = base
    BY <1>7 DEF IsFold
  <2>4. it = [s \in SUBSET (1..n) |-> it[s]]
    BY <1>7 DEF IsFold
  <2> QED
    BY <2>2, <2>3, <2>4
<1> DEFINE I == CHOOSE it1 : it1 = [s \in SUBSET DOMAIN Proposed |-> IF s = {} THEN base
                               ELSE AddDefault(it1[s \ {Max(s)}], Proposed[Max(s)])]
<1>9. I = [s \in SUBSET DOMAIN Proposed |-> IF s = {} THEN base
                               ELSE AddDefault(I[s \ {Max(s)}], Proposed[Max(s)])]
  BY <1>1, <1>8
<1>10. FoldLeft(AddDefault, base, Proposed) = I[DOMAIN Proposed]
  BY DEF FoldLeft, MapThenFoldSet
<1> HIDE DEF I
<1>11. I[{}] = base
  <2>1. {} \in SUBSET DOMAIN Proposed
    OBVIOUS
  <2> QED
    BY <1>9, <2>1
<1>12. ASSUME NEW k \in 1..n PROVE I[1..k] = AddDefault(I[1..(k - 1)], Proposed[k])
  <2>1. /\ 1..k \in SUBSET DOMAIN Proposed /\ 1..k # {} /\ Max(1..k) = k
        /\ (1..k) \ {k} = 1..(k - 1)
    BY <1>1, Segment
  <2>2. I[1..k] = AddDefault(I[(1..k) \ {Max(1..k)}], Proposed[Max(1..k)])
    BY <1>9, <2>1
  <2> QED
    BY <2>1, <2>2
<1> QED
  BY <1>1, <1>10, <1>11, <1>12

(* Whatever the library holds, all that can be made is.                      *)
LEMMA DefaultsFill ==
    ASSUME NEW s \in Libraries
    PROVE  Filled(SetDefaultConfigs(s), s, Names)
<1>1. PICK lib \in LibSets : lib = [stored |-> s, refused |-> FALSE]
  BY DEF LibSets
<1>2. Filled(lib, s, {})
  BY <1>1 DEF Filled
<1>3. "no_compression" \in Names /\ "full_from_diff" \in Names /\ First \in SUBSET Names
  BY DEF Names, First
<1>4. PICK lib1 : lib1 = SetNoCompression(lib) /\ Filled(lib1, s, {"no_compression"})
  <2>1. Filled(AddDefault(lib, "no_compression"), s, {} \cup {"no_compression"})
    BY <1>2, <1>3, UsesAreMade, AddDefaultFills
  <2> QED
    BY <2>1 DEF SetNoCompression
<1>5. PICK base : base = SetFullFromDiff(lib1) /\ Filled(base, s, First)
  <2>1. {"no_compression"} \in SUBSET Names
    BY <1>3
  <2>2. Filled(AddDefault(lib1, "full_from_diff"), s, {"no_compression"} \cup {"full_from_diff"})
    BY <1>3, <1>4, <2>1, UsesAreMade, AddDefaultFills
  <2>3. {"no_compression"} \cup {"full_from_diff"} = First
    BY DEF First
  <2> QED
    BY <2>2, <2>3 DEF SetFullFromDiff
<1>6. base \in LibSets
  BY <1>5 DEF Filled
<1>7. PICK it : /\ it[{}] = base /\ FoldLeft(AddDefault, base, Proposed) = it[1..13]
                /\ \A k \in 1..13 : it[1..k] = AddDefault(it[1..(k - 1)], Proposed[k])
  BY <1>6, ProposalsFold
<1>8. PICK P : P = {k \in Nat : k <= 13 => Filled(it[1..k], s, Made(k))}
  OBVIOUS
<1>9. 0 \in P
  <2>1. 1..0 = {}
    OBVIOUS
  <2> QED
    BY <1>5, <1>7, <1>8, <2>1, NamesAre
<1>10. ASSUME NEW k \in 1..13, k - 1 \in P PROVE k \in P
  <2>1. Filled(it[1..(k - 1)], s, Made(k - 1))
    BY <1>8, <1>10
  <2>2. Made(k - 1) \in SUBSET Names
    BY NamesAre
  <2>3. Filled(AddDefault(it[1..(k - 1)], Proposed[k]), s, Made(k - 1) \cup {Proposed[k]})
    BY <2>1, <2>2, NamesAre, UsesAreMade, AddDefaultFills
  <2> QED
    <3>1. Filled(it[1..k], s, Made(k))
      BY <1>7, <2>3, NamesAre
    <3> QED
      BY <1>8, <3>1
<1>11. 13 \in P
  BY <1>9, <1>10, UpTo
<1>12. Filled(it[1..13], s, Names)
  BY <1>8, <1>11, NamesAre
<1> QED
  BY <1>1, <1>4, <1>5, <1>7, <1>12, Zenon DEF SetDefaultConfigs

(* What is stored uses what is stored.                                       *)
DefaultsInv ==
    /\ stored \in Libraries
    /\ \A n \in DOMAIN stored : stored[n] \subseteq DOMAIN stored
    /\ broken \subseteq DOMAIN stored

LEMMA FilledKeeps ==
    ASSUME NEW s \in Libraries, \A n \in DOMAIN s : s[n] \subseteq DOMAIN s,
           NEW lib, Filled(lib, s, Names)
    PROVE  /\ lib.stored \in Libraries /\ DOMAIN s \subseteq DOMAIN lib.stored
           /\ \A n \in DOMAIN lib.stored : lib.stored[n] \subseteq DOMAIN lib.stored
BY DEF Filled, LibSets

LEMMA FilesAre ==
    ASSUME NEW f \in Files
    PROVE  /\ f.stored \in Libraries /\ f.broken \subseteq DOMAIN f.stored
           /\ \A n \in DOMAIN f.stored : f.stored[n] \subseteq DOMAIN f.stored
<1>1. PICK s : s = f.stored
  OBVIOUS
<1>2. DOMAIN s \subseteq Names /\ s \in [DOMAIN s -> SUBSET DOMAIN s] /\ f.broken \subseteq DOMAIN s
  BY <1>1, DefaultsAssumption
<1>3. PICK D \in SUBSET Names : D = DOMAIN s
  BY <1>2
<1>4. s \in [D -> SUBSET Names] /\ \A n \in D : s[n] \subseteq D
  BY <1>2, <1>3
<1>5. s \in Libraries
  BY <1>4, Zenon DEF Libraries
<1> QED
  BY <1>1, <1>2, <1>3, <1>4, <1>5

LEMMA DefaultsInitially == DefaultsInit => DefaultsInv
<1> SUFFICES ASSUME DefaultsInit PROVE DefaultsInv
  OBVIOUS
<1>1. CASE broken = {} /\ stored = SetDefaultConfigs(<<>>).stored
  <2>1. PICK e \in Libraries : e = <<>> /\ DOMAIN e = {}
    BY EmptyLibrary
  <2>2. Filled(SetDefaultConfigs(e), e, Names)
    BY DefaultsFill
  <2> QED
    BY <1>1, <2>1, <2>2, FilledKeeps DEF DefaultsInv
<1>2. ASSUME NEW f \in Files, stored = f.stored /\ broken = f.broken PROVE DefaultsInv
  BY <1>2, FilesAre DEF DefaultsInv
<1> QED
  BY <1>1, <1>2 DEF DefaultsInit

LEMMA DefaultsStep == DefaultsInv /\ (DefaultsNext \/ UNCHANGED defaults) => DefaultsInv'
<1> SUFFICES ASSUME DefaultsInv, DefaultsNext \/ UNCHANGED defaults PROVE DefaultsInv'
  OBVIOUS
<1>0. /\ stored \in Libraries /\ broken \subseteq DOMAIN stored
      /\ \A n \in DOMAIN stored : stored[n] \subseteq DOMAIN stored
  BY DEF DefaultsInv
<1>1. ASSUME NEW n \in Names, NEW uses, SaveConfig(n, uses) PROVE DefaultsInv'
  <2>1. uses \in SUBSET Names /\ uses \subseteq DOMAIN stored
    BY <1>1, UsesAreNames DEF SaveConfig
  <2>2. stored' = Put(stored, n, uses) /\ broken' = broken \ {n}
    BY <1>1, Zenon DEF SaveConfig
  <2>3. /\ stored' \in Libraries /\ DOMAIN stored' = DOMAIN stored \cup {n}
        /\ stored'[n] = uses /\ \A m \in DOMAIN stored : m # n => stored'[m] = stored[m]
    BY <1>0, <2>1, <2>2, PutIs
  <2> QED
    BY <1>0, <2>1, <2>2, <2>3 DEF DefaultsInv
<1>2. ASSUME NEW n \in Names, DeleteConfig(n) PROVE DefaultsInv'
  <2>1. /\ stored' = [m \in DOMAIN stored \ {n} |-> stored[m]] /\ broken' = broken \ {n}
        /\ \A m \in DOMAIN stored : n \notin stored[m]
    BY <1>2 DEF DeleteConfig, Restrict
  <2>2. PICK D \in SUBSET Names : stored \in [D -> SUBSET Names]
    BY <1>0 DEF Libraries
  <2>3. stored' \in [D \ {n} -> SUBSET Names] /\ D \ {n} \in SUBSET Names
    BY <2>1, <2>2
  <2>4. stored' \in Libraries
    BY <2>3, Zenon DEF Libraries
  <2> QED
    BY <1>0, <2>1, <2>4 DEF DefaultsInv
<1>3. ASSUME NEW f \in Files, LoadConfigs(f) PROVE DefaultsInv'
  BY <1>3, FilesAre DEF LoadConfigs, DefaultsInv
<1>4. CASE ClearConfigs
  BY <1>4, EmptyLibrary DEF ClearConfigs, DefaultsInv
<1>5. CASE GenerateDefaults
  BY <1>0, <1>5, DefaultsFill, FilledKeeps DEF GenerateDefaults, DefaultsInv
<1>6. CASE UNCHANGED defaults
  BY <1>6 DEF defaults, DefaultsInv
<1> QED
  BY <1>1, <1>2, <1>3, <1>4, <1>5, <1>6 DEF DefaultsNext

LEMMA GeneratedAll ==
    DefaultsInv /\ GenerateDefaults =>
          /\ \A n \in DOMAIN stored : stored'[n] = stored[n]
          /\ \A n \in DOMAIN stored' : stored'[n] \subseteq DOMAIN stored'
          /\ refused' <=> \E n \in Names \ DOMAIN stored :
                              UsesOf(n) \cap broken # {}
          /\ refused' \/ DOMAIN stored' = Names
<1> SUFFICES ASSUME DefaultsInv, GenerateDefaults
             PROVE  /\ \A n \in DOMAIN stored : stored'[n] = stored[n]
                    /\ \A n \in DOMAIN stored' : stored'[n] \subseteq DOMAIN stored'
                    /\ refused' <=> \E n \in Names \ DOMAIN stored :
                                        UsesOf(n) \cap broken # {}
                    /\ refused' \/ DOMAIN stored' = Names
  OBVIOUS
<1>1. PICK lib : lib = SetDefaultConfigs(stored) /\ stored' = lib.stored /\ refused' = lib.refused
  BY DEF GenerateDefaults
<1>2. Filled(lib, stored, Names)
  BY <1>1, DefaultsFill DEF DefaultsInv
<1>3. /\ lib.stored \in Libraries
      /\ \A n \in DOMAIN lib.stored : lib.stored[n] \subseteq DOMAIN lib.stored
  BY <1>2, FilledKeeps DEF DefaultsInv
<1>4. DOMAIN lib.stored \subseteq Names
  BY <1>3 DEF Libraries
<1>5. lib.refused <=> \E n \in Names \ DOMAIN stored : UsesOf(n) \cap broken # {}
  BY <1>2 DEF Filled
<1>6. lib.refused \/ DOMAIN lib.stored = Names
  BY <1>2, <1>4 DEF Filled
<1>7. \A n \in DOMAIN stored : lib.stored[n] = stored[n]
  BY <1>2 DEF Filled
<1> QED
  BY <1>1, <1>3, <1>5, <1>6, <1>7

(* Asking for the defaults keeps what the user has and makes all that is     *)
(* missing, in an order that has what each one uses stored before it         *)
(* (html_bibliotheque::set_default_configs), whatever the library holds.     *)
THEOREM DefaultsAreComplete == PagesSpec => DefaultsComplete
<1>1. PagesInit => DefaultsInv
  BY DefaultsInitially DEF PagesInit
<1>2. DefaultsInv /\ [PagesNext]_pages => DefaultsInv'
  BY DefaultsStep DEF PagesNext, LogIn, ReadArchives, ReadOptions, SetLibrary, pages
<1>3. DefaultsInv /\ [PagesNext]_pages =>
        [GenerateDefaults =>
          /\ \A n \in DOMAIN stored : stored'[n] = stored[n]
          /\ \A n \in DOMAIN stored' : stored'[n] \subseteq DOMAIN stored'
          /\ refused' <=> \E n \in Names \ DOMAIN stored :
                              UsesOf(n) \cap broken # {}
          /\ refused' \/ DOMAIN stored' = Names]_defaults
  BY GeneratedAll
<1> QED
  BY <1>1, <1>2, <1>3, PTL DEF PagesSpec, DefaultsComplete

-----------------------------------------------------------------------------
(* The listing of an archive.                                                *)

(* Names of files.                                                           *)
Symbols == UNION {Range(d) : d \in Dirs}

NodeSet ==
    [info_read : BOOLEAN, has_sub : BOOLEAN, shrink : BOOLEAN, expand : BOOLEAN,
     nosubdir : BOOLEAN, for_subdirs : BOOLEAN, rows : Archives \cup {None},
     cut : {"no", "source", "reading", "making"}]

Trees == UNION {[D -> NodeSet] : D \in SUBSET Dirs}

(* The fields of a listing: its nodes, their children and parents, what the  *)
(* focus holds, the title, the calls left, and whether one has thrown.       *)
Listed(n, c, p, ad, ti, ca, th, bu) ==
    [nodes |-> n, children |-> c, parent |-> p, adopted |-> ad, title |-> ti,
     calls |-> ca, thrown |-> th, bug |-> bu]

IsTyped(n, c, p, ad, ti) ==
    /\ n \in Trees /\ c \in [Components -> Seq(Components)]
    /\ p \in [Components -> Components \cup {None}]
    /\ ad \in Components \cup {None} /\ ti \in Dirs \cup {None}

(* Each component is among the children of its parent, once.                 *)
IsForested(c, p) ==
    /\ \A o, q \in Components : o \in Range(c[q]) <=> p[o] = q
    /\ \A q \in Components : IsInjective(c[q])

(* A directory is there with those above it, which were read.                *)
IsGrown(n) ==
    /\ Root \in DOMAIN n
    /\ \A e \in Dirs, x \in Symbols :
          Append(e, x) \in DOMAIN n => e \in DOMAIN n /\ n[e].info_read

(* What is in the focus, and below a directory; what is not there is nowhere.*)
IsPlaced(n, c, p, ad) ==
    /\ c[Focus] = IF ad = None THEN <<>> ELSE <<ad>>
    /\ ad = None \/ \E e \in DOMAIN n : ad = Contents(e)
    /\ \A e \in Dirs : p[Contents(e)] \in {None, Focus}
    /\ \A e \in Dirs \ DOMAIN n : \A q \in PartsOf(e) : p[q] = None /\ c[q] = <<>>
    /\ \A e \in Dirs, o \in Components : p[o] = ForSubdirs(e) =>
          \E x \in Symbols : Append(e, x) \in DOMAIN n /\ o = Tree(Append(e, x))

(* The title is that of what the focus holds.                                *)
IsTitled(n, ad, ti) == ad = None \/ (ti \in DOMAIN n /\ ad = Contents(ti))

IsSound(n, c, p, ad, ti) ==
    /\ IsTyped(n, c, p, ad, ti) /\ IsForested(c, p) /\ IsGrown(n) /\ IsPlaced(n, c, p, ad)
    /\ IsTitled(n, ad, ti)

(* The first k subdirectories.                                               *)
FirstTrees(a, d, k) == [i \in 1..k |-> Tree(Append(d, Subdirs[a][d][i]))]

(* What is made of a directory is its first subdirectories.                  *)
IsPart(c, a, e) ==
    \E k \in 0..Len(Subdirs[a][e]) : c[ForSubdirs(e)] = FirstTrees(a, e, k)

IsWhole(c, a, e) == c[ForSubdirs(e)] = FirstTrees(a, e, Len(Subdirs[a][e]))

(* What holds of a directory also when libdar threw there.                   *)
IsOf(node, a) == node.rows \in {None, a}

(* The buttons of a directory.                                               *)
IsDrawn(node, a, d) ==
    /\ node.has_sub <=> Subdirs[a][d] # <<>>
    /\ node.nosubdir <=> Subdirs[a][d] = <<>>

IsOffered(node, a, d) ==
    /\ IsDrawn(node, a, d)
    /\ node.expand <=> Subdirs[a][d] # <<>> /\ ~node.shrink
    /\ node.shrink => node.for_subdirs /\ node.info_read

(* A directory that the listing of a shows as it is, but where libdar threw. *)
Shows(n, c, a, e) ==
    /\ e \in DOMAIN Subdirs[a] /\ IsOf(n[e], a) /\ IsPart(c, a, e)
    /\ \/ IsCut(n[e])
       \/ /\ IsOffered(n[e], a, e)
          /\ n[e].info_read => n[e].rows = a /\ IsWhole(c, a, e)

IsSeen(node) == node.info_read \/ IsCut(node)

AllShown(n, c, a, ad, ti) ==
    /\ \A e \in DOMAIN n : Shows(n, c, a, e)
    /\ ad = None => IsCut(n[Root])
    /\ ad # None => IsSeen(n[ti])

IsFresh(n) ==
    DOMAIN n = {Root} /\ ~n[Root].info_read /\ n[Root].has_sub /\ n[Root].rows = None

-----------------------------------------------------------------------------
(* What each operation does to the fields of a listing.                      *)
LEMMA FieldsAre ==
    ASSUME NEW n, NEW c, NEW p, NEW ad, NEW ti, NEW ca, NEW th, NEW bu, NEW l,
           l = Listed(n, c, p, ad, ti, ca, th, bu)
    PROVE  /\ l.nodes = n /\ l.children = c /\ l.parent = p /\ l.adopted = ad /\ l.title = ti
           /\ l.calls = ca /\ l.thrown = th /\ l.bug = bu
BY DEF Listed

LEMMA FlagIs ==
    ASSUME NEW n, NEW c, NEW p, NEW ad, NEW ti, NEW ca, NEW th, NEW bu, NEW l,
           l = Listed(n, c, p, ad, ti, ca, th, bu), NEW v
    PROVE  [l EXCEPT !.thrown = v] = Listed(n, c, p, ad, ti, ca, v, bu)
BY DEF Listed

Stopped(n, c, p, ad, ti, ca, bu) == Listed(n, c, p, ad, ti, ca, TRUE, bu)

LEMMA ThrownIs ==
    ASSUME NEW n, NEW c, NEW p, NEW ad, NEW ti, NEW ca, NEW th, NEW bu, NEW l,
           l = Listed(n, c, p, ad, ti, ca, th, bu)
    PROVE  Thrown(l) = Stopped(n, c, p, ad, ti, ca, bu)
<1>1. PICK yes : yes = TRUE
  OBVIOUS
<1>2. [l EXCEPT !.thrown = yes] = Listed(n, c, p, ad, ti, ca, yes, bu)
  BY FlagIs
<1> QED
  BY <1>1, <1>2 DEF Thrown, Stopped

Less(calls) == calls - 1

LEMMA SpentIs ==
    ASSUME NEW n, NEW c, NEW p, NEW ad, NEW ti, NEW ca, NEW th, NEW bu, NEW l,
           l = Listed(n, c, p, ad, ti, ca, th, bu), NEW left, left = Less(ca)
    PROVE  Spent(l) = Listed(n, c, p, ad, ti, left, th, bu)
<1>1. Spent(l) = [l EXCEPT !.calls = left]
  <2>1. l.calls = ca
    BY FieldsAre
  <2> QED
    BY <2>1 DEF Spent, Less
<1>2. [l EXCEPT !.calls = left] = Listed(n, c, p, ad, ti, left, th, bu)
  BY DEF Listed
<1> QED
  BY <1>1, <1>2

(* A node is changed.                                                        *)
With(n, d, node) == [n EXCEPT ![d] = node]

LEMMA WithIs ==
    ASSUME NEW n, NEW c, NEW p, NEW ad, NEW ti, NEW ca, NEW th, NEW bu, NEW l,
           l = Listed(n, c, p, ad, ti, ca, th, bu), NEW d, NEW node
    PROVE  [l EXCEPT !.nodes[d] = node] = Listed(With(n, d, node), c, p, ad, ti, ca, th, bu)
BY DEF Listed, With

Shrunk(node) == [node EXCEPT !.shrink = FALSE, !.expand = TRUE, !.for_subdirs = FALSE]

Hidden(node) == [node EXCEPT !.has_sub = FALSE, !.shrink = FALSE, !.expand = FALSE,
                             !.nosubdir = TRUE, !.for_subdirs = FALSE]

Opened(node) == [node EXCEPT !.shrink = TRUE, !.expand = FALSE]

LEMMA GoShrinkIs ==
    ASSUME NEW n, NEW c, NEW p, NEW ad, NEW ti, NEW ca, NEW th, NEW bu, NEW l,
           l = Listed(n, c, p, ad, ti, ca, th, bu), NEW d
    PROVE  GoShrink(l, d) = IF ~n[d].has_sub THEN l
                            ELSE Listed(With(n, d, Shrunk(n[d])), c, p, ad, ti, ca, th, bu)
<1>1. l.nodes = n
  BY FieldsAre
<1>2. PICK node : node = Shrunk(n[d])
  OBVIOUS
<1>3. GoShrink(l, d) = IF ~n[d].has_sub THEN l ELSE [l EXCEPT !.nodes[d] = node]
  BY <1>1, <1>2 DEF GoShrink, Shrunk
<1> QED
  BY <1>2, <1>3, WithIs

LEMMA GoHideIs ==
    ASSUME NEW n, NEW c, NEW p, NEW ad, NEW ti, NEW ca, NEW th, NEW bu, NEW l,
           l = Listed(n, c, p, ad, ti, ca, th, bu), NEW d
    PROVE  GoHide(l, d) = Listed(With(n, d, Hidden(n[d])), c, p, ad, ti, ca, th, bu)
<1>1. l.nodes = n
  BY FieldsAre
<1>2. PICK node : node = Hidden(n[d])
  OBVIOUS
<1>3. GoHide(l, d) = [l EXCEPT !.nodes[d] = node]
  BY <1>1, <1>2 DEF GoHide, Hidden
<1> QED
  BY <1>2, <1>3, WithIs

Source(a, d, node) ==
    IF HasSub(a, d) THEN [node EXCEPT !.nosubdir = FALSE] ELSE Hidden(node)

LEMMA SetSourceIs ==
    ASSUME NEW n, NEW c, NEW p, NEW ad, NEW ti, NEW ca, NEW th, NEW bu, NEW l,
           l = Listed(n, c, p, ad, ti, ca, th, bu), NEW a, NEW d, NEW left, left = Less(ca)
    PROVE  SetSource(l, a, d) =
             IF ca = 0 THEN Thrown(l)
             ELSE Listed(With(n, d, Source(a, d, n[d])), c, p, ad, ti, left, th, bu)
<1>1. PICK m : m = Listed(n, c, p, ad, ti, left, th, bu)
  OBVIOUS
<1>2. Spent(l) = m
  BY <1>1, SpentIs
<1>3. l.calls = ca
  BY FieldsAre
<1>4. m.nodes = n
  BY <1>1, FieldsAre
<1>5. CASE ca = 0
  BY <1>3, <1>5 DEF SetSource
<1>6. CASE ca # 0 /\ HasSub(a, d)
  <2>1. PICK node : node = [n[d] EXCEPT !.nosubdir = FALSE]
    OBVIOUS
  <2>2. SetSource(l, a, d) = [m EXCEPT !.nodes[d] = node]
    BY <1>2, <1>3, <1>4, <1>6, <2>1 DEF SetSource
  <2>3. [m EXCEPT !.nodes[d] = node] = Listed(With(n, d, node), c, p, ad, ti, left, th, bu)
    BY <1>1, WithIs
  <2>4. node = Source(a, d, n[d])
    BY <1>6, <2>1 DEF Source
  <2> QED
    BY <1>6, <2>2, <2>3, <2>4
<1>7. CASE ca # 0 /\ ~HasSub(a, d)
  <2>1. GoHide(m, d) = Listed(With(n, d, Hidden(n[d])), c, p, ad, ti, left, th, bu)
    BY <1>1, GoHideIs
  <2> QED
    BY <1>2, <1>3, <1>7, <2>1 DEF SetSource, Source
<1> QED
  BY <1>5, <1>6, <1>7

(* Adoption.                                                                 *)
Joined(c, q, o) == [c EXCEPT ![q] = Append(@, o)]

Parented(p, o, q) == [p EXCEPT ![o] = q]

CanAdopt(c, p, q, o) == o # q /\ o \notin Range(c[q]) /\ p[o] = None

LEMMA AdoptIs ==
    ASSUME NEW n, NEW c, NEW p, NEW ad, NEW ti, NEW ca, NEW th, NEW bu, NEW l,
           l = Listed(n, c, p, ad, ti, ca, th, bu), NEW q, NEW o, CanAdopt(c, p, q, o)
    PROVE  Adopt(l, q, o) = Listed(n, Joined(c, q, o), Parented(p, o, q), ad, ti, ca, th, bu)
<1>1. l.children = c /\ l.parent = p
  BY FieldsAre
<1>4. PICK one : one = Append(c[q], o)
  OBVIOUS
<1>5. [l EXCEPT !.children[q] = one, !.parent[o] = q]
        = Listed(n, [c EXCEPT ![q] = one], [p EXCEPT ![o] = q], ad, ti, ca, th, bu)
  <2>1. PICK cc : cc = [c EXCEPT ![q] = one]
    OBVIOUS
  <2>2. [l EXCEPT !.children[q] = one] = Listed(n, cc, p, ad, ti, ca, th, bu)
    BY <2>1 DEF Listed
  <2>3. PICK m : m = Listed(n, cc, p, ad, ti, ca, th, bu)
    OBVIOUS
  <2>4. [m EXCEPT !.parent[o] = q] = Listed(n, cc, [p EXCEPT ![o] = q], ad, ti, ca, th, bu)
    BY <2>3 DEF Listed
  <2>5. [l EXCEPT !.children[q] = one, !.parent[o] = q]
          = [[l EXCEPT !.children[q] = one] EXCEPT !.parent[o] = q]
    OBVIOUS
  <2> QED
    BY <2>1, <2>2, <2>3, <2>4, <2>5
<1>6. [l EXCEPT !.children[q] = Append(@, o), !.parent[o] = q]
        = [l EXCEPT !.children[q] = one, !.parent[o] = q]
  BY <1>1, <1>4
<1>7. [c EXCEPT ![q] = one] = Joined(c, q, o)
  BY <1>4 DEF Joined
<1> QED
  BY <1>1, <1>5, <1>6, <1>7 DEF Adopt, Fostered, Parented, CanAdopt

Quitted(c, q, o) == [c EXCEPT ![q] = Without(@, {o})]

CanForesake(c, p, q, o) == o \in Range(c[q]) /\ p[o] # None

LEMMA ForesakeIs ==
    ASSUME NEW n, NEW c, NEW p, NEW ad, NEW ti, NEW ca, NEW th, NEW bu, NEW l,
           l = Listed(n, c, p, ad, ti, ca, th, bu), NEW q, NEW o, CanForesake(c, p, q, o)
    PROVE  Foresake(l, q, o) = Listed(n, Quitted(c, q, o), Parented(p, o, None), ad, ti, ca, th, bu)
<1>1. l.children = c /\ l.parent = p
  BY FieldsAre
<1>4. PICK one : one = Without(c[q], {o})
  OBVIOUS
<1>5. [l EXCEPT !.children[q] = one, !.parent[o] = None]
        = Listed(n, [c EXCEPT ![q] = one], [p EXCEPT ![o] = None], ad, ti, ca, th, bu)
  <2>1. PICK cc : cc = [c EXCEPT ![q] = one]
    OBVIOUS
  <2>2. [l EXCEPT !.children[q] = one] = Listed(n, cc, p, ad, ti, ca, th, bu)
    BY <2>1 DEF Listed
  <2>3. PICK m : m = Listed(n, cc, p, ad, ti, ca, th, bu)
    OBVIOUS
  <2>4. [m EXCEPT !.parent[o] = None] = Listed(n, cc, [p EXCEPT ![o] = None], ad, ti, ca, th, bu)
    BY <2>3 DEF Listed
  <2>5. [l EXCEPT !.children[q] = one, !.parent[o] = None]
          = [[l EXCEPT !.children[q] = one] EXCEPT !.parent[o] = None]
    OBVIOUS
  <2> QED
    BY <2>1, <2>2, <2>3, <2>4, <2>5
<1>6. [l EXCEPT !.children[q] = Without(@, {o}), !.parent[o] = None]
        = [l EXCEPT !.children[q] = one, !.parent[o] = None]
  BY <1>1, <1>4
<1>7. [c EXCEPT ![q] = one] = Quitted(c, q, o)
  BY <1>4 DEF Quitted
<1> QED
  BY <1>1, <1>4, <1>5, <1>6, <1>7 DEF Foresake, Fostered, Parented, CanForesake

(* Without is what it says.                                                  *)
LEMMA WithoutFold ==
    ASSUME NEW T, NEW list \in Seq(T), NEW S
    PROVE  \E it : /\ it[{}] = <<>> /\ Without(list, S) = it[1..Len(list)]
                   /\ \A k \in 1..Len(list) :
                         it[1..k] = IF list[k] \in S THEN it[1..(k - 1)]
                                    ELSE Append(it[1..(k - 1)], list[k])
<1>1. PICK n \in Nat : n = Len(list) /\ DOMAIN list = 1..n
  OBVIOUS
<1>2. \A k \in 1..n : list[k] \in T
  BY <1>1
<1> DEFINE Step(kept, e) == IF e \in S THEN kept ELSE Append(kept, e)
<1>3. \A kept \in Seq(T), k \in 1..n : Step(kept, list[k]) \in Seq(T)
  BY <1>2
<1> HIDE DEF Step
<1>4. PICK H : H = [q \in (1..n) \X Seq(T) |-> Step(q[2], list[q[1]])]
  OBVIOUS
<1>5. H \in [(1..n) \X Seq(T) -> Seq(T)]
  <2>1. \A q \in (1..n) \X Seq(T) : q[1] \in 1..n /\ q[2] \in Seq(T)
    OBVIOUS
  <2>2. \A q \in (1..n) \X Seq(T) : Step(q[2], list[q[1]]) \in Seq(T)
    BY <1>3, <2>1
  <2> QED
    BY <1>4, <2>2
<1>6. \A k \in 1..n, t \in Seq(T) : H[k, t] = Step(t, list[k])
  BY <1>4
<1>7. <<>> \in Seq(T)
  OBVIOUS
<1>8. PICK it : IsFold(it, Seq(T), <<>>, H, n)
  BY <1>5, <1>7, FoldExists DEF Folds
<1>9. it = [s \in SUBSET (1..n) |-> IF s = {} THEN <<>>
                                   ELSE Step(it[s \ {Max(s)}], list[Max(s)])]
  <2>1. \A s \in SUBSET (1..n) : s # {} =>
           Max(s) \in 1..n /\ s \ {Max(s)} \in SUBSET (1..n)
    BY MaxIn
  <2>2. \A s \in SUBSET (1..n) : s # {} => it[s] = Step(it[s \ {Max(s)}], list[Max(s)])
    <3> SUFFICES ASSUME NEW s \in SUBSET (1..n), s # {}
                 PROVE  it[s] = Step(it[s \ {Max(s)}], list[Max(s)])
      OBVIOUS
    <3>1. it[s] = H[Max(s), it[s \ {Max(s)}]]
      BY <1>8 DEF IsFold
    <3>2. Max(s) \in 1..n /\ it[s \ {Max(s)}] \in Seq(T)
      BY <1>8, <2>1 DEF IsFold
    <3> QED
      BY <1>6, <3>1, <3>2
  <2>3. \A s \in SUBSET (1..n) : s = {} => it[s] = <<>>
    BY <1>8 DEF IsFold
  <2>4. it = [s \in SUBSET (1..n) |-> it[s]]
    BY <1>8 DEF IsFold
  <2> QED
    BY <2>2, <2>3, <2>4
<1> DEFINE I == CHOOSE it1 : it1 = [s \in SUBSET DOMAIN list |-> IF s = {} THEN <<>>
                               ELSE Step(it1[s \ {Max(s)}], list[Max(s)])]
<1>10. I = [s \in SUBSET DOMAIN list |-> IF s = {} THEN <<>>
                               ELSE Step(I[s \ {Max(s)}], list[Max(s)])]
  BY <1>1, <1>9
<1>11. Without(list, S) = I[DOMAIN list]
  BY DEF Without, FoldLeft, MapThenFoldSet, Step
<1> HIDE DEF I
<1>12. I[{}] = <<>>
  <2>1. {} \in SUBSET DOMAIN list
    OBVIOUS
  <2> QED
    BY <1>10, <2>1
<1>13. ASSUME NEW k \in 1..n PROVE I[1..k] = Step(I[1..(k - 1)], list[k])
  <2>1. /\ 1..k \in SUBSET DOMAIN list /\ 1..k # {} /\ Max(1..k) = k
        /\ (1..k) \ {k} = 1..(k - 1)
    BY <1>1, Segment
  <2>2. I[1..k] = Step(I[(1..k) \ {Max(1..k)}], list[Max(1..k)])
    BY <1>10, <2>1
  <2> QED
    BY <2>1, <2>2
<1> QED
  BY <1>1, <1>11, <1>12, <1>13 DEF Step

LEMMA AppendIs ==
    ASSUME NEW T, NEW s \in Seq(T), NEW e \in T
    PROVE  /\ Append(s, e) \in Seq(T) /\ Range(Append(s, e)) = Range(s) \cup {e}
           /\ IsInjective(s) /\ e \notin Range(s) => IsInjective(Append(s, e))
<1>1. PICK n \in Nat : n = Len(s) /\ DOMAIN s = 1..n
  OBVIOUS
<1>2. PICK t \in Seq(T) : /\ t = Append(s, e) /\ DOMAIN t = 1..(n + 1)
                          /\ t[n + 1] = e /\ \A k \in 1..n : t[k] = s[k]
  <2>1. PICK t : t = Append(s, e)
    OBVIOUS
  <2>2. t \in Seq(T) /\ Len(t) = n + 1 /\ t[n + 1] = e /\ \A k \in 1..n : t[k] = s[k]
    BY <1>1, <2>1, AppendProperties
  <2> QED
    BY <2>1, <2>2
<1>3. Range(t) = Range(s) \cup {e}
  <2>1. \A x : x \in Range(s) <=> \E k \in DOMAIN s : x = s[k]
    BY Zenon DEF Range
  <2>2. \A x : x \in Range(t) <=> \E k \in DOMAIN t : x = t[k]
    BY Zenon DEF Range
  <2>3. n + 1 \in 1..(n + 1) /\ \A k \in 1..(n + 1) : k \in 1..n \/ k = n + 1
    OBVIOUS
  <2>4. \A k \in 1..n : k \in 1..(n + 1)
    OBVIOUS
  <2> QED
    BY <1>1, <1>2, <2>1, <2>2, <2>3, <2>4
<1>4. ASSUME IsInjective(s), e \notin Range(s) PROVE IsInjective(t)
  <2>1. \A k \in 1..n : s[k] # e
    BY <1>1, <1>4 DEF Range
  <2>2. \A j, k \in 1..n : s[j] = s[k] => j = k
    BY <1>1, <1>4 DEF IsInjective
  <2>3. \A j, k \in 1..(n + 1) : t[j] = t[k] => j = k
    BY <1>2, <2>1, <2>2
  <2> QED
    BY <1>2, <2>3 DEF IsInjective
<1> QED
  BY <1>2, <1>3, <1>4

(* What is kept of the first elements of list.                               *)
IsKept(s, T, list, S, k) ==
    /\ s \in Seq(T)
    /\ \A e : e \in Range(s) <=> \E i \in 1..k : e = list[i] /\ e \notin S
    /\ IsInjective(list) => IsInjective(s)
    /\ Range(list) \cap S = {} => s = SubSeq(list, 1, k)
    /\ Range(list) \subseteq S => s = <<>>

LEMMA KeepNothing ==
    ASSUME NEW T, NEW list \in Seq(T), NEW S
    PROVE  IsKept(<<>>, T, list, S, 0)
<1>1. 1..0 = {} /\ <<>> \in Seq(T) /\ DOMAIN <<>> = 1..0
  OBVIOUS
<1>2. Range(<<>>) = {} /\ IsInjective(<<>>)
  BY <1>1 DEF Range, IsInjective
<1>3. SubSeq(list, 1, 0) = <<>>
  OBVIOUS
<1> QED
  BY <1>1, <1>2, <1>3 DEF IsKept

LEMMA KeepOneMore ==
    ASSUME NEW T, NEW list \in Seq(T), NEW S, NEW k \in 1..Len(list), NEW s,
           IsKept(s, T, list, S, k - 1)
    PROVE  IsKept(IF list[k] \in S THEN s ELSE Append(s, list[k]), T, list, S, k)
<1>1. PICK e \in T : e = list[k]
  OBVIOUS
<1>2. e \in Range(list) /\ k \in Nat /\ k - 1 \in Nat
  BY <1>1 DEF Range
<1>3. 1..k = (1..(k - 1)) \cup {k}
  OBVIOUS
<1>4. CASE e \in S
  BY <1>1, <1>2, <1>3, <1>4 DEF IsKept
<1>5. CASE e \notin S
  <2>1. PICK t : t = Append(s, e)
    OBVIOUS
  <2>2. s \in Seq(T) /\ \A x : x \in Range(s) <=> \E i \in 1..(k - 1) : x = list[i] /\ x \notin S
    BY DEF IsKept
  <2>3. /\ t \in Seq(T) /\ Range(t) = Range(s) \cup {e}
        /\ IsInjective(s) /\ e \notin Range(s) => IsInjective(t)
    BY <2>1, <2>2, AppendIs
  <2>4. \A x : x \in Range(t) <=> \E i \in 1..k : x = list[i] /\ x \notin S
    BY <1>1, <1>3, <1>5, <2>2, <2>3
  <2>5. ASSUME IsInjective(list) PROVE IsInjective(t)
    <3>1. \A i \in 1..(k - 1) : i \in DOMAIN list /\ k \in DOMAIN list /\ i # k
      OBVIOUS
    <3>2. \A i \in 1..(k - 1) : list[i] # e
      BY <1>1, <2>5, <3>1 DEF IsInjective
    <3> QED
      BY <2>2, <2>3, <2>5, <3>2 DEF IsKept
  <2>6. Append(SubSeq(list, 1, k - 1), list[k]) = SubSeq(list, 1, k)
    BY PrefixNext
  <2>7. Range(list) \cap S = {} => t = SubSeq(list, 1, k)
    BY <1>1, <2>1, <2>6 DEF IsKept
  <2>8. ~ (Range(list) \subseteq S)
    BY <1>2, <1>5
  <2>9. IsKept(t, T, list, S, k)
    BY <2>3, <2>4, <2>5, <2>7, <2>8 DEF IsKept
  <2> QED
    BY <1>1, <1>5, <2>1, <2>9
<1> QED
  BY <1>4, <1>5

LEMMA WithoutIs ==
    ASSUME NEW T, NEW list \in Seq(T), NEW S
    PROVE  /\ Without(list, S) \in Seq(T)
           /\ Range(Without(list, S)) = Range(list) \ S
           /\ IsInjective(list) => IsInjective(Without(list, S))
           /\ Range(list) \cap S = {} => Without(list, S) = list
           /\ Range(list) \subseteq S => Without(list, S) = <<>>
<1>1. PICK n \in Nat : n = Len(list) /\ DOMAIN list = 1..n
  OBVIOUS
<1>2. PICK it : /\ it[{}] = <<>> /\ Without(list, S) = it[1..n]
                /\ \A k \in 1..n : it[1..k] = IF list[k] \in S THEN it[1..(k - 1)]
                                              ELSE Append(it[1..(k - 1)], list[k])
  BY <1>1, WithoutFold
<1>3. PICK P : P = {k \in Nat : IsKept(it[1..k], T, list, S, k)}
  OBVIOUS
<1>4. 0 \in P
  <2>1. 1..0 = {}
    OBVIOUS
  <2> QED
    BY <1>2, <1>3, <2>1, KeepNothing
<1>5. \A k \in 1..n : k - 1 \in P => k \in P
  <2> SUFFICES ASSUME NEW k \in 1..n, k - 1 \in P PROVE k \in P
    OBVIOUS
  <2>1. IsKept(it[1..(k - 1)], T, list, S, k - 1)
    BY <1>3
  <2>2. IsKept(it[1..k], T, list, S, k)
    BY <1>1, <1>2, <2>1, KeepOneMore
  <2> QED
    BY <1>3, <2>2
<1>6. n \in 0..n
  OBVIOUS
<1>7. n \in P
  BY <1>4, <1>5, <1>6, UpTo
<1>8. PICK s : s = Without(list, S)
  OBVIOUS
<1>9. IsKept(s, T, list, S, n)
  BY <1>2, <1>3, <1>7, <1>8
<1>10. \A e : e \in Range(list) <=> \E i \in 1..n : e = list[i]
  BY <1>1, Zenon DEF Range
<1>11. Range(s) = Range(list) \ S
  BY <1>9, <1>10 DEF IsKept
<1>12. SubSeq(list, 1, n) = list
  BY <1>1, SubSeqFull
<1> QED
  BY <1>8, <1>9, <1>11, <1>12 DEF IsKept

(* The components of the page are not those of another directory.            *)
LEMMA PartsDiffer ==
    /\ Page # Focus
    /\ \A d, e : /\ Tree(d) = Tree(e) => d = e
                 /\ ForSubdirs(d) = ForSubdirs(e) => d = e
                 /\ Contents(d) = Contents(e) => d = e
                 /\ Tree(d) # ForSubdirs(e) /\ Tree(d) # Contents(e)
                 /\ ForSubdirs(d) # Contents(e)
    /\ \A d : /\ Tree(d) # Page /\ ForSubdirs(d) # Page /\ Contents(d) # Page
              /\ Tree(d) # Focus /\ ForSubdirs(d) # Focus /\ Contents(d) # Focus
<1>1. Page # Focus
  BY DEF Page, Focus
<1>2. ASSUME NEW d, NEW e
      PROVE  /\ Tree(d) = Tree(e) => d = e
             /\ ForSubdirs(d) = ForSubdirs(e) => d = e
             /\ Contents(d) = Contents(e) => d = e
             /\ Tree(d) # ForSubdirs(e) /\ Tree(d) # Contents(e)
             /\ ForSubdirs(d) # Contents(e)
  BY DEF Tree, ForSubdirs, Contents
<1>3. ASSUME NEW d
      PROVE  /\ Tree(d) # Page /\ ForSubdirs(d) # Page /\ Contents(d) # Page
             /\ Tree(d) # Focus /\ ForSubdirs(d) # Focus /\ Contents(d) # Focus
  BY DEF Tree, ForSubdirs, Contents, Page, Focus
<1> QED
  BY <1>1, <1>2, <1>3

LEMMA PartsAre ==
    /\ Page \in Components /\ Focus \in Components /\ None \notin Components
    /\ \A d \in Dirs : Tree(d) \in Components /\ ForSubdirs(d) \in Components
                       /\ Contents(d) \in Components
    /\ \A o \in Components : o = Page \/ o = Focus \/ \E d \in Dirs : o \in PartsOf(d)
    /\ \A d, o : o \in PartsOf(d) <=> o = Tree(d) \/ o = ForSubdirs(d) \/ o = Contents(d)
<1>1. None \notin Components
  BY ListingAssumption
<1>2. \A d, o : o \in PartsOf(d) <=> o = Tree(d) \/ o = ForSubdirs(d) \/ o = Contents(d)
  BY DEF PartsOf
<1>3. \A o : o \in Components <=> o = Page \/ o = Focus \/ \E d \in Dirs : o \in PartsOf(d)
  BY DEF Components
<1> QED
  BY <1>1, <1>2, <1>3

LEMMA DirsAre ==
    /\ \A d \in Dirs : d \in Seq(Symbols)
    /\ Root \in Seq(Symbols) /\ None \notin Dirs /\ None \notin Archives
<1>1. ASSUME NEW d \in Dirs PROVE d \in Seq(Symbols)
  <2>1. d \in Seq(Range(d))
    BY ListingAssumption
  <2>2. Range(d) \subseteq Symbols
    BY DEF Symbols
  <2> QED
    BY <2>1, <2>2
<1>2. Root \in Seq(Symbols)
  <2>1. PICK T : T = Symbols
    OBVIOUS
  <2>2. <<>> \in Seq(T)
    OBVIOUS
  <2> QED
    BY <2>1, <2>2 DEF Root
<1> QED
  BY <1>1, <1>2, ListingAssumption

LEMMA Paths ==
    /\ \A d, e \in Dirs, x, y \in Symbols : Append(d, x) = Append(e, y) => d = e /\ x = y
    /\ \A d \in Dirs, x \in Symbols : Append(d, x) # Root /\ Append(d, x) # d
<1>1. ASSUME NEW T, NEW d \in Seq(T), NEW e \in Seq(T), NEW x \in T, NEW y \in T,
             Append(d, x) = Append(e, y)
      PROVE  d = e /\ x = y
  <2>0. PICK f : f = Append(d, x)
    OBVIOUS
  <2>1. /\ f \in Seq(T) /\ Len(f) = Len(d) + 1 /\ f[Len(d) + 1] = x
        /\ \A i \in 1..Len(d) : f[i] = d[i]
    BY <2>0, AppendProperties
  <2>2. /\ f = Append(e, y) /\ Len(f) = Len(e) + 1 /\ f[Len(e) + 1] = y
        /\ \A i \in 1..Len(e) : f[i] = e[i]
    BY <1>1, <2>0, AppendProperties
  <2>3. Len(d) = Len(e)
    BY <2>1, <2>2
  <2>4. d = e
    BY <2>1, <2>2, <2>3, SeqEqual
  <2> QED
    BY <2>1, <2>2, <2>3, <2>4
<1>2. ASSUME NEW T, NEW d \in Seq(T), NEW x \in T PROVE Append(d, x) # <<>> /\ Append(d, x) # d
  <2>1. PICK f : f = Append(d, x)
    OBVIOUS
  <2>2. f # <<>> /\ Len(f) = Len(d) + 1 /\ Len(d) \in Nat
    BY <2>1, AppendProperties
  <2> QED
    BY <2>1, <2>2
<1> QED
  BY <1>1, <1>2, DirsAre DEF Root

(* What an archive holds.                                                    *)
LEMMA SubdirsAre ==
    ASSUME NEW a \in Archives, NEW d \in DOMAIN Subdirs[a]
    PROVE  /\ d \in Dirs /\ Root \in DOMAIN Subdirs[a]
           /\ Subdirs[a][d] \in Seq(Symbols) /\ IsInjective(Subdirs[a][d])
           /\ \A i \in DOMAIN Subdirs[a][d] :
                 /\ Subdirs[a][d][i] \in Symbols /\ Append(d, Subdirs[a][d][i]) \in DOMAIN Subdirs[a]
                 /\ Append(d, Subdirs[a][d][i]) \in Dirs
<1>1. \A e \in DOMAIN Subdirs[a] : e \in Dirs
  BY DEF Dirs
<1>2. PICK subs : subs = Subdirs[a][d]
  OBVIOUS
<1>3. subs \in Seq(Range(subs)) /\ IsInjective(subs) /\ \A x \in Range(subs) : Append(d, x) \in DOMAIN Subdirs[a]
  BY <1>2, ListingAssumption
<1>4. ASSUME NEW x \in Range(subs) PROVE x \in Symbols
  <2>1. Append(d, x) \in Dirs
    BY <1>1, <1>3
  <2>2. PICK T : T = Symbols \cup {x}
    OBVIOUS
  <2>3. d \in Seq(T) /\ x \in T
    <3>1. d \in Seq(Symbols)
      BY <1>1, DirsAre
    <3> QED
      BY <2>2, <3>1
  <2>4. x \in Range(Append(d, x))
    BY <2>3, AppendIs
  <2> QED
    BY <2>1, <2>4 DEF Symbols
<1>5. \A i \in DOMAIN subs : subs[i] \in Range(subs)
  BY DEF Range
<1>6. subs \in Seq(Symbols)
  BY <1>3, <1>4
<1> QED
  BY <1>1, <1>2, <1>3, <1>4, <1>5, <1>6, ListingAssumption

-----------------------------------------------------------------------------
(* Adopting keeps the forest.                                                *)
IsHome(c, p) ==
    /\ c \in [Components -> Seq(Components)] /\ p \in [Components -> Components \cup {None}]
    /\ IsForested(c, p)

IsOrphan(p, o) == p[o] = None

IsAdoption(c, p, q, o, cc, pp) ==
    /\ IsHome(cc, pp)
    /\ o \notin Range(c[q]) /\ cc[q] = Append(c[q], o) /\ pp[o] = q
    /\ \A r \in Components \ {q} : cc[r] = c[r]
    /\ \A r \in Components \ {o} : pp[r] = p[r]

LEMMA AdoptForest ==
    ASSUME NEW c, NEW p, IsHome(c, p), NEW q \in Components, NEW o \in Components, IsOrphan(p, o)
    PROVE  IsAdoption(c, p, q, o, Joined(c, q, o), Parented(p, o, q))
<1>0. None \notin Components
  BY PartsAre
<1>a. /\ c \in [Components -> Seq(Components)] /\ p \in [Components -> Components \cup {None}]
      /\ IsForested(c, p) /\ p[o] = None
  BY DEF IsHome, IsOrphan
<1>4. PICK cc : cc = Joined(c, q, o)
  OBVIOUS
<1>5. PICK pp : pp = Parented(p, o, q)
  OBVIOUS
<1>1. PICK list : list = Append(c[q], o)
  OBVIOUS
<1>2. o \notin Range(c[q])
  BY <1>0, <1>a DEF IsForested
<1>3. list \in Seq(Components) /\ Range(list) = Range(c[q]) \cup {o} /\ IsInjective(list)
  <2>1. c[q] \in Seq(Components) /\ IsInjective(c[q])
    BY <1>a DEF IsForested
  <2> QED
    BY <1>1, <1>2, <2>1, AppendIs
<1>6. cc = [c EXCEPT ![q] = list]
  BY <1>1, <1>4 DEF Joined
<1>7. /\ cc \in [Components -> Seq(Components)] /\ cc[q] = list
      /\ \A r \in Components \ {q} : cc[r] = c[r]
  BY <1>3, <1>6, <1>a
<1>8. /\ pp \in [Components -> Components \cup {None}] /\ pp[o] = q
      /\ \A r \in Components \ {o} : pp[r] = p[r]
  BY <1>a, <1>5 DEF Parented
<1>9. ASSUME NEW u \in Components, NEW r \in Components
      PROVE  u \in Range(cc[r]) <=> pp[u] = r
  <2>1. u \in Range(c[r]) <=> p[u] = r
    BY <1>a DEF IsForested
  <2>2. CASE r = q
    BY <1>3, <1>7, <1>8, <2>1, <2>2
  <2>3. CASE r # q
    <3>1. cc[r] = c[r]
      BY <1>7, <2>3
    <3>2. CASE u = o
      BY <1>0, <1>a, <1>8, <2>1, <2>3, <3>1, <3>2
    <3>3. CASE u # o
      BY <1>8, <2>1, <3>1, <3>3
    <3> QED
      BY <3>2, <3>3
  <2> QED
    BY <2>2, <2>3
<1>10. \A r \in Components : IsInjective(cc[r])
  <2>1. \A r \in Components : IsInjective(c[r])
    BY <1>a DEF IsForested
  <2> QED
    BY <1>3, <1>7, <2>1
<1>11. IsForested(cc, pp)
  BY <1>9, <1>10 DEF IsForested
<1> QED
  BY <1>1, <1>2, <1>4, <1>5, <1>7, <1>8, <1>11 DEF IsAdoption, IsHome

-----------------------------------------------------------------------------
(* A subdirectory is added.                                                  *)
Grown(n, sub, node) == [x \in DOMAIN n \cup {sub} |-> IF x = sub THEN node ELSE n[x]]

MadeNode(a, sub) == Source(a, sub, Shrunk(RootNode))

LEMMA GrownIs ==
    ASSUME NEW n, NEW sub, NEW node, NEW g, g = Grown(n, sub, node)
    PROVE  /\ DOMAIN g = DOMAIN n \cup {sub} /\ g[sub] = node
           /\ \A e \in DOMAIN n : e # sub => g[e] = n[e]
BY DEF Grown

LEMMA GrownAgain ==
    ASSUME NEW n, NEW sub, NEW node, NEW g, g = Grown(n, sub, node), NEW other
    PROVE  g[sub] = node /\ With(g, sub, other) = Grown(n, sub, other)
BY DEF With, Grown

LEMMA Throws ==
    ASSUME NEW n, NEW c, NEW p, NEW ad, NEW ti, NEW ca, NEW th, NEW bu, NEW l,
           l = Listed(n, c, p, ad, ti, ca, th, bu)
    PROVE  Thrown(l).thrown
BY DEF Thrown, Listed

Subbing(l, d, sub) == Adopt(Adopt(l, Tree(sub), ForSubdirs(sub)), ForSubdirs(d), Tree(sub))

Below(d, name) == Append(d, name)

LEMMA AddSubdirIs ==
    ASSUME NEW n, NEW c, NEW p, NEW ad, NEW ti, NEW ca, NEW th, NEW bu, NEW l,
           l = Listed(n, c, p, ad, ti, ca, th, bu), NEW a, NEW d, NEW name,
           NEW sub, sub = Below(d, name), NEW left, left = Less(ca)
    PROVE  AddSubdir(l, a, d, name) =
             IF th \/ ca = 0 THEN Thrown(l)
             ELSE Subbing(Listed(Grown(n, sub, MadeNode(a, sub)), c, p, ad, ti, left, th, bu), d, sub)
<1>1. l.nodes = n /\ l.thrown = th
  BY FieldsAre
<1>2. PICK root : root = RootNode
  OBVIOUS
<1>3. root.has_sub
  BY <1>2 DEF RootNode
<1>4. PICK g : g = Grown(n, sub, root)
  OBVIOUS
<1>5. g[sub] = root /\ \A other : With(g, sub, other) = Grown(n, sub, other)
  BY <1>4, GrownAgain
<1>6. PICK new : new = [l EXCEPT !.nodes = g]
  OBVIOUS
<1>7. new = Listed(g, c, p, ad, ti, ca, th, bu)
  BY <1>6 DEF Listed
<1>8. new = [l EXCEPT !.nodes = [x \in DOMAIN @ \cup {sub} |-> IF x = sub THEN RootNode ELSE @[x]]]
  BY <1>1, <1>2, <1>4, <1>6 DEF Grown
<1>9. PICK shrunk : shrunk = GoShrink(new, sub)
  OBVIOUS
<1>10. shrunk = Listed(Grown(n, sub, Shrunk(root)), c, p, ad, ti, ca, th, bu)
  <2>1. shrunk = Listed(With(g, sub, Shrunk(g[sub])), c, p, ad, ti, ca, th, bu)
    BY <1>3, <1>5, <1>7, <1>9, GoShrinkIs
  <2> QED
    BY <1>5, <2>1
<1>11. PICK h : h = Grown(n, sub, Shrunk(root))
  OBVIOUS
<1>12. h[sub] = Shrunk(root) /\ \A other : With(h, sub, other) = Grown(n, sub, other)
  BY <1>11, GrownAgain
<1>13. PICK made : made = SetSource(shrunk, a, sub)
  OBVIOUS
<1>14. made = IF ca = 0 THEN Thrown(shrunk)
              ELSE Listed(With(h, sub, Source(a, sub, h[sub])), c, p, ad, ti, left, th, bu)
  BY <1>10, <1>11, <1>13, SetSourceIs
<1>15. AddSubdir(l, a, d, name) =
          IF th \/ made.thrown THEN Thrown(l)
          ELSE Subbing(made, d, sub)
  BY <1>1, <1>8, <1>9, <1>13 DEF AddSubdir, Subbing, Below
<1>16. CASE ca = 0
  <2>0. shrunk = Listed(h, c, p, ad, ti, ca, th, bu) /\ made = Thrown(shrunk)
    BY <1>10, <1>11, <1>14, <1>16
  <2>2. made.thrown
    BY <2>0, Throws
  <2> QED
    BY <1>15, <1>16, <2>2
<1>17. CASE ca # 0
  <2>1. made = Listed(Grown(n, sub, MadeNode(a, sub)), c, p, ad, ti, left, th, bu)
    BY <1>2, <1>12, <1>14, <1>17 DEF MadeNode
  <2>2. made.thrown = th
    BY <2>1 DEF Listed
  <2> QED
    BY <1>15, <1>17, <2>1, <2>2
<1> QED
  BY <1>16, <1>17

LEMMA AddSubdirThrows ==
    ASSUME NEW n, NEW c, NEW p, NEW ad, NEW ti, NEW ca, NEW th, NEW bu, NEW l,
           l = Listed(n, c, p, ad, ti, ca, th, bu), NEW a, NEW d, NEW name,
           th \/ ca = 0
    PROVE  AddSubdir(l, a, d, name) = Thrown(l)
<1>1. PICK sub : sub = Below(d, name)
  OBVIOUS
<1>2. PICK left : left = Less(ca)
  OBVIOUS
<1> QED
  BY <1>1, <1>2, AddSubdirIs

LEMMA AddSubdirAdds ==
    ASSUME NEW n, NEW c, NEW p, NEW ad, NEW ti, NEW ca, NEW th, NEW bu, NEW l,
           l = Listed(n, c, p, ad, ti, ca, th, bu), NEW a, NEW d, NEW name,
           NEW sub, sub = Below(d, name), NEW left, left = Less(ca), ~th, ca # 0,
           NEW made, made = Listed(Grown(n, sub, MadeNode(a, sub)), c, p, ad, ti, left, th, bu)
    PROVE  AddSubdir(l, a, d, name) = Subbing(made, d, sub)
BY AddSubdirIs

(* The fields of a node.                                                     *)
LEMMA RootNodeIs ==
    /\ RootNode \in NodeSet
    /\ RootNode.has_sub /\ RootNode.nosubdir /\ ~RootNode.info_read
    /\ RootNode.rows = None
BY DEF RootNode, NodeSet

LEMMA ShrunkIs ==
    ASSUME NEW node \in NodeSet
    PROVE  /\ Shrunk(node) \in NodeSet
           /\ (Shrunk(node).info_read <=> node.info_read) /\ (Shrunk(node).has_sub <=> node.has_sub)
           /\ (Shrunk(node).nosubdir <=> node.nosubdir) /\ Shrunk(node).rows = node.rows
           /\ ~Shrunk(node).shrink /\ Shrunk(node).expand
           /\ (IsCut(Shrunk(node)) <=> IsCut(node))
BY DEF Shrunk, NodeSet, IsCut

LEMMA HiddenIs ==
    ASSUME NEW node \in NodeSet
    PROVE  /\ Hidden(node) \in NodeSet
           /\ (Hidden(node).info_read <=> node.info_read) /\ ~Hidden(node).has_sub
           /\ Hidden(node).nosubdir /\ Hidden(node).rows = node.rows
           /\ ~Hidden(node).shrink /\ ~Hidden(node).expand
           /\ (IsCut(Hidden(node)) <=> IsCut(node))
BY DEF Hidden, NodeSet, IsCut

LEMMA OpenedIs ==
    ASSUME NEW node \in NodeSet
    PROVE  /\ Opened(node) \in NodeSet
           /\ (Opened(node).info_read <=> node.info_read) /\ (Opened(node).has_sub <=> node.has_sub)
           /\ (Opened(node).nosubdir <=> node.nosubdir) /\ Opened(node).rows = node.rows
           /\ Opened(node).shrink /\ ~Opened(node).expand
           /\ (Opened(node).for_subdirs <=> node.for_subdirs)
           /\ (IsCut(Opened(node)) <=> IsCut(node))
BY DEF Opened, NodeSet, IsCut

LEMMA SourceIs ==
    ASSUME NEW node \in NodeSet, NEW a, NEW d, NEW s, s = Source(a, d, node)
    PROVE  /\ s \in NodeSet /\ (s.info_read <=> node.info_read) /\ s.rows = node.rows
           /\ (IsCut(s) <=> IsCut(node))
           /\ HasSub(a, d) => /\ (s.has_sub <=> node.has_sub) /\ ~s.nosubdir
                              /\ (s.shrink <=> node.shrink) /\ (s.expand <=> node.expand)
           /\ ~HasSub(a, d) => /\ ~s.has_sub /\ s.nosubdir
                               /\ ~s.shrink /\ ~s.expand
<1>1. CASE HasSub(a, d)
  <2>1. s = [node EXCEPT !.nosubdir = FALSE]
    BY <1>1 DEF Source
  <2>2. /\ s \in NodeSet /\ (s.info_read <=> node.info_read) /\ s.rows = node.rows
        /\ (s.has_sub <=> node.has_sub) /\ ~s.nosubdir /\ (s.shrink <=> node.shrink)
        /\ (s.expand <=> node.expand) /\ (IsCut(s) <=> IsCut(node))
    BY <2>1 DEF NodeSet, IsCut
  <2> QED
    BY <1>1, <2>2
<1>2. CASE ~HasSub(a, d)
  <2>1. s = Hidden(node)
    BY <1>2 DEF Source
  <2>2. /\ s \in NodeSet /\ (s.info_read <=> node.info_read) /\ ~s.has_sub
        /\ s.nosubdir /\ s.rows = node.rows /\ ~s.shrink /\ ~s.expand
        /\ (IsCut(s) <=> IsCut(node))
    BY <2>1, HiddenIs
  <2> QED
    BY <1>2, <2>2
<1> QED
  BY <1>1, <1>2

LEMMA MadeIs ==
    ASSUME NEW a, NEW sub
    PROVE  /\ MadeNode(a, sub) \in NodeSet /\ ~MadeNode(a, sub).info_read
           /\ ~MadeNode(a, sub).shrink /\ MadeNode(a, sub).rows = None
           /\ MadeNode(a, sub).has_sub <=> HasSub(a, sub)
           /\ MadeNode(a, sub).nosubdir <=> ~HasSub(a, sub)
           /\ MadeNode(a, sub).expand <=> HasSub(a, sub)
<1>1. PICK root \in NodeSet : /\ root = RootNode /\ root.has_sub
                              /\ root.nosubdir /\ ~root.info_read /\ root.rows = None
  BY RootNodeIs
<1>2. PICK node \in NodeSet : /\ node = Shrunk(root) /\ ~node.info_read
                              /\ node.has_sub /\ ~node.shrink
                              /\ node.expand /\ node.rows = None
  BY <1>1, ShrunkIs
<1>3. PICK made : made = Source(a, sub, node)
  OBVIOUS
<1>4. made \in NodeSet /\ ~made.info_read /\ made.rows = None
  BY <1>2, <1>3, SourceIs
<1>5. CASE HasSub(a, sub)
  <2>1. made.has_sub /\ ~made.nosubdir /\ ~made.shrink /\ made.expand
    BY <1>2, <1>3, <1>5, SourceIs
  <2> QED
    BY <1>1, <1>2, <1>3, <1>4, <1>5, <2>1 DEF MadeNode
<1>6. CASE ~HasSub(a, sub)
  <2>1. ~made.has_sub /\ made.nosubdir /\ ~made.shrink /\ ~made.expand
    BY <1>2, <1>3, <1>6, SourceIs
  <2> QED
    BY <1>1, <1>2, <1>3, <1>4, <1>6, <2>1 DEF MadeNode
<1> QED
  BY <1>5, <1>6

LEMMA TreesAre ==
    /\ \A n \in Trees : DOMAIN n \subseteq Dirs /\ \A e \in DOMAIN n : n[e] \in NodeSet
    /\ \A n \in Trees, sub \in Dirs, node \in NodeSet : Grown(n, sub, node) \in Trees
    /\ \A n \in Trees, node \in NodeSet : \A d \in DOMAIN n : With(n, d, node) \in Trees
<1>1. ASSUME NEW n \in Trees PROVE \E D \in SUBSET Dirs : n \in [D -> NodeSet]
  BY DEF Trees
<1>2. \A D \in SUBSET Dirs : \A n \in [D -> NodeSet] : n \in Trees
  BY DEF Trees
<1>3. ASSUME NEW n \in Trees PROVE DOMAIN n \subseteq Dirs /\ \A e \in DOMAIN n : n[e] \in NodeSet
  BY <1>1
<1>4. ASSUME NEW n \in Trees, NEW sub \in Dirs, NEW node \in NodeSet
      PROVE  Grown(n, sub, node) \in Trees
  <2>1. PICK D \in SUBSET Dirs : n \in [D -> NodeSet]
    BY <1>1
  <2>2. Grown(n, sub, node) \in [D \cup {sub} -> NodeSet]
    BY <2>1 DEF Grown
  <2> QED
    BY <1>2, <2>2
<1>5. ASSUME NEW n \in Trees, NEW node \in NodeSet, NEW d \in DOMAIN n
      PROVE  With(n, d, node) \in Trees
  <2>1. PICK D \in SUBSET Dirs : n \in [D -> NodeSet]
    BY <1>1
  <2>2. With(n, d, node) \in [D -> NodeSet]
    BY <2>1 DEF With
  <2> QED
    BY <1>2, <2>2
<1> QED
  BY <1>3, <1>4, <1>5

(* A directory whose subdirectory is not there yet.                          *)
IsLacking(n, c, p, ad, ti, a, d, sub) ==
    /\ IsSound(n, c, p, ad, ti)
    /\ d \in DOMAIN n /\ d \in DOMAIN Subdirs[a] /\ n[d].info_read
    /\ sub \notin DOMAIN n
    /\ \E i \in DOMAIN Subdirs[a][d] : sub = Append(d, Subdirs[a][d][i])

LEMMA SoundIs ==
    ASSUME NEW n, NEW c, NEW p, NEW ad, NEW ti, IsSound(n, c, p, ad, ti)
    PROVE  /\ n \in Trees /\ DOMAIN n \subseteq Dirs /\ Root \in DOMAIN n
           /\ \A e \in DOMAIN n : n[e] \in NodeSet
           /\ c \in [Components -> Seq(Components)]
           /\ p \in [Components -> Components \cup {None}]
           /\ ad \in Components \cup {None} /\ ti \in Dirs \cup {None}
           /\ IsForested(c, p)
BY TreesAre DEF IsSound, IsTyped, IsGrown

LEMMA LackingIs ==
    ASSUME NEW a \in Archives, NEW n, NEW c, NEW p, NEW ad, NEW ti, NEW d, NEW sub,
           IsLacking(n, c, p, ad, ti, a, d, sub)
    PROVE  /\ d \in Dirs /\ sub \in Dirs /\ sub \in DOMAIN Subdirs[a]
           /\ \E x \in Symbols : sub = Append(d, x)
           /\ sub # d /\ sub # Root
           /\ p[Tree(sub)] = None /\ p[ForSubdirs(sub)] = None
           /\ c[Tree(sub)] = <<>> /\ c[ForSubdirs(sub)] = <<>>
<1>1. d \in Dirs
  BY SubdirsAre DEF IsLacking
<1>2. PICK i \in DOMAIN Subdirs[a][d] : sub = Append(d, Subdirs[a][d][i])
  BY DEF IsLacking
<1>3. sub \in Dirs /\ sub \in DOMAIN Subdirs[a] /\ Subdirs[a][d][i] \in Symbols
  BY <1>2, SubdirsAre DEF IsLacking
<1>4. sub # d /\ sub # Root
  BY <1>1, <1>2, <1>3, Paths
<1>5. \A q \in PartsOf(sub) : p[q] = None /\ c[q] = <<>>
  BY <1>3 DEF IsLacking, IsSound, IsPlaced
<1> QED
  BY <1>1, <1>2, <1>3, <1>4, <1>5, PartsAre

(* The subdirectory is put with its own container in it.                     *)
Subbed(c, d, sub) == Joined(Joined(c, Tree(sub), ForSubdirs(sub)), ForSubdirs(d), Tree(sub))

Subparented(p, d, sub) == Parented(Parented(p, ForSubdirs(sub), Tree(sub)), Tree(sub), ForSubdirs(d))

LEMMA SubdirForest ==
    ASSUME NEW a \in Archives, NEW n, NEW c, NEW p, NEW ad, NEW ti, NEW d, NEW sub,
           IsLacking(n, c, p, ad, ti, a, d, sub),
           NEW cc, cc = Subbed(c, d, sub), NEW pp, pp = Subparented(p, d, sub)
    PROVE  /\ cc \in [Components -> Seq(Components)]
           /\ pp \in [Components -> Components \cup {None}]
           /\ IsForested(cc, pp)
           /\ cc[ForSubdirs(d)] = Append(c[ForSubdirs(d)], Tree(sub))
           /\ \A r \in Components : r # ForSubdirs(d) /\ r # Tree(sub) => cc[r] = c[r]
           /\ pp[Tree(sub)] = ForSubdirs(d) /\ pp[ForSubdirs(sub)] = Tree(sub)
           /\ \A r \in Components : r # Tree(sub) /\ r # ForSubdirs(sub) => pp[r] = p[r]
           /\ ForSubdirs(sub) \notin Range(c[Tree(sub)]) /\ p[ForSubdirs(sub)] = None
           /\ Tree(sub) \notin Range(Joined(c, Tree(sub), ForSubdirs(sub))[ForSubdirs(d)])
           /\ Parented(p, ForSubdirs(sub), Tree(sub))[Tree(sub)] = None
<1>1. /\ d \in Dirs /\ sub \in Dirs /\ sub # d
      /\ p[Tree(sub)] = None /\ p[ForSubdirs(sub)] = None
  BY LackingIs
<1>2. IsSound(n, c, p, ad, ti)
  BY DEF IsLacking
<1>3. /\ c \in [Components -> Seq(Components)]
      /\ p \in [Components -> Components \cup {None}] /\ IsForested(c, p)
  BY <1>2, SoundIs
<1>4. PICK t \in Components : t = Tree(sub)
  BY <1>1, PartsAre
<1>5. PICK u \in Components : u = ForSubdirs(sub)
  BY <1>1, PartsAre
<1>6. PICK v \in Components : v = ForSubdirs(d)
  BY <1>1, PartsAre
<1>7. t # u /\ t # v /\ u # v
  BY <1>1, <1>4, <1>5, <1>6, PartsDiffer
<1>8. PICK c1 : c1 = Joined(c, t, u)
  OBVIOUS
<1>9. PICK p1 : p1 = Parented(p, u, t)
  OBVIOUS
<1>10. IsHome(c, p) /\ IsOrphan(p, u) /\ p[t] = None
  BY <1>1, <1>3, <1>4, <1>5 DEF IsHome, IsOrphan
<1>a. IsAdoption(c, p, t, u, c1, p1)
  BY <1>8, <1>9, <1>10, AdoptForest
<1>11. /\ IsHome(c1, p1) /\ u \notin Range(c[t])
       /\ \A r \in Components \ {t} : c1[r] = c[r]
       /\ p1[u] = t
       /\ \A r \in Components \ {u} : p1[r] = p[r]
  BY <1>a DEF IsAdoption
<1>12. p1[t] = None
  BY <1>7, <1>10, <1>11
<1>13. cc = Joined(c1, v, t) /\ pp = Parented(p1, t, v)
  BY <1>4, <1>5, <1>6, <1>8, <1>9 DEF Subbed, Subparented
<1>b. IsOrphan(p1, t)
  BY <1>12 DEF IsOrphan
<1>c. IsAdoption(c1, p1, v, t, cc, pp)
  BY <1>11, <1>13, <1>b, AdoptForest
<1>14. /\ cc \in [Components -> Seq(Components)]
       /\ pp \in [Components -> Components \cup {None}] /\ IsForested(cc, pp)
       /\ t \notin Range(c1[v]) /\ cc[v] = Append(c1[v], t)
       /\ \A r \in Components \ {v} : cc[r] = c1[r]
       /\ pp[t] = v
       /\ \A r \in Components \ {t} : pp[r] = p1[r]
  BY <1>c DEF IsAdoption, IsHome
<1>15. cc[v] = Append(c[v], t)
  BY <1>7, <1>11, <1>14
<1>16. \A r \in Components : r # v /\ r # t => cc[r] = c[r]
  BY <1>11, <1>14
<1>17. pp[t] = v /\ pp[u] = t /\ \A r \in Components : r # t /\ r # u => pp[r] = p[r]
  BY <1>7, <1>11, <1>14
<1> QED
  BY <1>1, <1>4, <1>5, <1>6, <1>8, <1>9, <1>11, <1>12, <1>14, <1>15, <1>16, <1>17

LEMMA SubdirSound ==
    ASSUME NEW a \in Archives, NEW n, NEW c, NEW p, NEW ad, NEW ti, NEW d, NEW sub,
           IsLacking(n, c, p, ad, ti, a, d, sub),
           NEW nn, nn = Grown(n, sub, MadeNode(a, sub)),
           NEW cc, cc = Subbed(c, d, sub), NEW pp, pp = Subparented(p, d, sub)
    PROVE  IsSound(nn, cc, pp, ad, ti)
<1>1. /\ d \in Dirs /\ sub \in Dirs /\ sub # d /\ sub # Root
      /\ \E x \in Symbols : sub = Append(d, x)
      /\ p[Tree(sub)] = None /\ p[ForSubdirs(sub)] = None
  BY LackingIs
<1>2. IsSound(n, c, p, ad, ti) /\ d \in DOMAIN n /\ n[d].info_read /\ sub \notin DOMAIN n
  BY DEF IsLacking
<1>3. /\ n \in Trees /\ DOMAIN n \subseteq Dirs /\ Root \in DOMAIN n
      /\ ad \in Components \cup {None} /\ ti \in Dirs \cup {None}
  BY <1>2, SoundIs
<1>4. /\ cc \in [Components -> Seq(Components)]
      /\ pp \in [Components -> Components \cup {None}]
      /\ IsForested(cc, pp)
      /\ \A r \in Components : r # ForSubdirs(d) /\ r # Tree(sub) => cc[r] = c[r]
      /\ pp[Tree(sub)] = ForSubdirs(d) /\ pp[ForSubdirs(sub)] = Tree(sub)
      /\ \A r \in Components : r # Tree(sub) /\ r # ForSubdirs(sub) => pp[r] = p[r]
  BY SubdirForest
<1>5. DOMAIN nn = DOMAIN n \cup {sub} /\ \A e \in DOMAIN n : nn[e] = n[e]
  <2>1. PICK node : node = MadeNode(a, sub)
    OBVIOUS
  <2>2. nn = Grown(n, sub, node)
    BY <2>1
  <2>3. /\ DOMAIN nn = DOMAIN n \cup {sub}
        /\ \A e \in DOMAIN n : e # sub => nn[e] = n[e]
    BY <2>2 DEF Grown
  <2> QED
    BY <1>2, <2>3
<1>6. nn \in Trees
  BY <1>1, <1>3, MadeIs, TreesAre
<1>7. IsTyped(nn, cc, pp, ad, ti)
  BY <1>3, <1>4, <1>6 DEF IsTyped
<1>8. ASSUME NEW e \in Dirs, NEW x \in Symbols, Append(e, x) \in DOMAIN nn
      PROVE  e \in DOMAIN nn /\ nn[e].info_read
  <2>1. CASE Append(e, x) = sub
    <3>1. e = d
      BY <1>1, <2>1, Paths
    <3> QED
      BY <1>2, <1>5, <3>1
  <2>2. CASE Append(e, x) \in DOMAIN n
    <3>1. e \in DOMAIN n /\ n[e].info_read
      BY <1>2, <2>2 DEF IsSound, IsGrown
    <3> QED
      BY <1>5, <3>1
  <2> QED
    BY <1>5, <1>8, <2>1, <2>2
<1>9. IsGrown(nn)
  BY <1>3, <1>5, <1>8 DEF IsGrown
<1>10. IsPlaced(n, c, p, ad)
  BY <1>2 DEF IsSound
<1>11. cc[Focus] = IF ad = None THEN <<>> ELSE <<ad>>
  <2>1. cc[Focus] = c[Focus]
    BY <1>4, PartsAre, PartsDiffer
  <2> QED
    BY <1>10, <2>1 DEF IsPlaced
<1>12. ad = None \/ \E e \in DOMAIN nn : ad = Contents(e)
  BY <1>5, <1>10 DEF IsPlaced
<1>13. \A e \in Dirs : pp[Contents(e)] \in {None, Focus}
  <2>1. \A e \in Dirs : pp[Contents(e)] = p[Contents(e)]
    BY <1>4, PartsAre, PartsDiffer
  <2> QED
    BY <1>10, <2>1 DEF IsPlaced
<1>14. ASSUME NEW e \in Dirs \ DOMAIN nn, NEW q \in PartsOf(e)
       PROVE  pp[q] = None /\ cc[q] = <<>>
  <2>1. e \in Dirs /\ e \notin DOMAIN n /\ e # sub /\ e # d
    BY <1>2, <1>5
  <2>2. p[q] = None /\ c[q] = <<>>
    BY <1>10, <2>1 DEF IsPlaced
  <2>3. q \in Components /\ q # Tree(sub) /\ q # ForSubdirs(sub) /\ q # ForSubdirs(d)
    BY <1>14, <2>1, PartsAre, PartsDiffer
  <2> QED
    BY <1>4, <2>2, <2>3
<1>15. ASSUME NEW e \in Dirs, NEW o \in Components, pp[o] = ForSubdirs(e)
       PROVE  \E x \in Symbols : Append(e, x) \in DOMAIN nn /\ o = Tree(Append(e, x))
  <2>1. CASE o = Tree(sub)
    <3>1. e = d
      BY <1>4, <1>15, <2>1, PartsDiffer
    <3> QED
      BY <1>1, <1>5, <2>1, <3>1
  <2>2. o # ForSubdirs(sub)
    BY <1>4, <1>15, PartsDiffer
  <2>3. CASE o # Tree(sub)
    <3>1. p[o] = ForSubdirs(e)
      BY <1>4, <1>15, <2>2, <2>3
    <3>2. \E x \in Symbols : Append(e, x) \in DOMAIN n /\ o = Tree(Append(e, x))
      BY <1>10, <3>1 DEF IsPlaced
    <3> QED
      BY <1>5, <3>2
  <2> QED
    BY <2>1, <2>3
<1>16. IsPlaced(nn, cc, pp, ad)
  BY <1>11, <1>12, <1>13, <1>14, <1>15 DEF IsPlaced
<1>17. IsTitled(nn, ad, ti)
  BY <1>2, <1>5 DEF IsSound, IsTitled
<1> QED
  BY <1>4, <1>7, <1>9, <1>16, <1>17 DEF IsSound

LEMMA ShowsSame ==
    ASSUME NEW n, NEW c, NEW nn, NEW cc, NEW a, NEW e,
           nn[e] = n[e], cc[ForSubdirs(e)] = c[ForSubdirs(e)], Shows(n, c, a, e)
    PROVE  Shows(nn, cc, a, e)
<1>1. (IsPart(cc, a, e) <=> IsPart(c, a, e)) /\ (IsWhole(cc, a, e) <=> IsWhole(c, a, e))
  BY DEF IsPart, IsWhole
<1>2. PICK node : node = n[e] /\ node = nn[e]
  OBVIOUS
<1> QED
  BY <1>1, <1>2 DEF Shows

LEMMA MoreTrees ==
    ASSUME NEW a \in Archives, NEW d \in DOMAIN Subdirs[a], NEW k \in 1..Len(Subdirs[a][d]),
           NEW t, t = Tree(Append(d, Subdirs[a][d][k]))
    PROVE  Append(FirstTrees(a, d, k - 1), t) = FirstTrees(a, d, k)
<1>1. d \in Dirs /\ Subdirs[a][d] \in Seq(Symbols)
  BY SubdirsAre
<1>2. PICK m \in Nat : m = Len(Subdirs[a][d]) /\ DOMAIN Subdirs[a][d] = 1..m /\ k \in 1..m
  BY <1>1
<1>3. \A i \in 1..m : Tree(Append(d, Subdirs[a][d][i])) \in Components
  BY <1>2, SubdirsAre, PartsAre
<1>4. PICK f : f = [i \in 1..m |-> Tree(Append(d, Subdirs[a][d][i]))]
  OBVIOUS
<1>5. PICK T : T = Components
  OBVIOUS
<1>6. \A i \in 1..m : f[i] \in T
  BY <1>3, <1>4, <1>5
<1>7. FirstTrees(a, d, k - 1) = [i \in 1..(k - 1) |-> f[i]]
  BY <1>2, <1>4 DEF FirstTrees
<1>8. FirstTrees(a, d, k) = [i \in 1..k |-> f[i]]
  BY <1>2, <1>4 DEF FirstTrees
<1>9. t = f[k]
  BY <1>2, <1>4
<1>10. PICK s : s = [i \in 1..(k - 1) |-> f[i]]
  OBVIOUS
<1>11. PICK r : r = [i \in 1..k |-> f[i]]
  OBVIOUS
<1>12. s \in Seq(T) /\ Len(s) = k - 1 /\ \A i \in 1..(k - 1) : s[i] = f[i]
  BY <1>2, <1>6, <1>10
<1>13. r \in Seq(T) /\ Len(r) = k /\ \A i \in 1..k : r[i] = f[i]
  BY <1>2, <1>6, <1>11
<1>14. f[k] \in T
  BY <1>2, <1>6
<1>15. PICK q : q = Append(s, f[k])
  OBVIOUS
<1>16. q \in Seq(T) /\ Len(q) = k /\ q[k] = f[k] /\ \A i \in 1..(k - 1) : q[i] = f[i]
  BY <1>12, <1>14, <1>15, AppendProperties
<1>17. \A i \in 1..k : q[i] = r[i]
  BY <1>13, <1>16
<1>18. q = r
  BY <1>13, <1>16, <1>17, SeqEqual
<1> QED
  BY <1>7, <1>8, <1>9, <1>10, <1>11, <1>15, <1>18

LEMMA NoTrees ==
    ASSUME NEW a \in Archives, NEW d \in DOMAIN Subdirs[a]
    PROVE  FirstTrees(a, d, 0) = <<>> /\ 0 \in 0..Len(Subdirs[a][d])
<1>1. Subdirs[a][d] \in Seq(Symbols)
  BY SubdirsAre
<1>2. 1..0 = {}
  OBVIOUS
<1> QED
  BY <1>1, <1>2 DEF FirstTrees

(* The first k subdirectories of d are there, besides what was known; the    *)
(* other directories of the tree are shown as they are.                      *)
IsMore(n, known) == \A e \in DOMAIN known : e \in DOMAIN n /\ n[e] = known[e]

IsFilled(n, c, p, ad, ti, a, d, known, k) ==
    /\ IsSound(n, c, p, ad, ti)
    /\ IsMore(n, known)
    /\ \A i \in DOMAIN Subdirs[a][d] : Append(d, Subdirs[a][d][i]) \in DOMAIN n <=> i <= k
    /\ c[ForSubdirs(d)] = FirstTrees(a, d, k)
    /\ \A e \in DOMAIN n \ {d} : Shows(n, c, a, e)

IsKnown(known, d) == d \in DOMAIN known /\ known[d].info_read

LEMMA FillOneMore ==
    ASSUME NEW a \in Archives, NEW d \in DOMAIN Subdirs[a], NEW k \in 1..Len(Subdirs[a][d]),
           NEW n, NEW c, NEW p, NEW ad, NEW ti, NEW known, IsKnown(known, d),
           IsFilled(n, c, p, ad, ti, a, d, known, k - 1),
           NEW sub, sub = Append(d, Subdirs[a][d][k])
    PROVE  /\ IsLacking(n, c, p, ad, ti, a, d, sub)
           /\ IsFilled(Grown(n, sub, MadeNode(a, sub)), Subbed(c, d, sub), Subparented(p, d, sub),
                       ad, ti, a, d, known, k)
<1>1. /\ IsSound(n, c, p, ad, ti) /\ d \in DOMAIN n /\ n[d].info_read
      /\ c[ForSubdirs(d)] = FirstTrees(a, d, k - 1)
      /\ \A e \in DOMAIN n \ {d} : Shows(n, c, a, e)
  BY DEF IsFilled, IsMore, IsKnown
<1>2. PICK m \in Nat : m = Len(Subdirs[a][d]) /\ DOMAIN Subdirs[a][d] = 1..m /\ k \in 1..m
  <2>1. Subdirs[a][d] \in Seq(Symbols)
    BY SubdirsAre
  <2> QED
    BY <2>1
<1>3. \A i \in 1..m : Append(d, Subdirs[a][d][i]) \in DOMAIN n <=> i <= k - 1
  BY <1>2 DEF IsFilled
<1>4. sub \notin DOMAIN n
  BY <1>2, <1>3
<1>5. IsLacking(n, c, p, ad, ti, a, d, sub)
  BY <1>1, <1>2, <1>4 DEF IsLacking
<1>6. PICK nn : nn = Grown(n, sub, MadeNode(a, sub))
  OBVIOUS
<1>7. PICK cc : cc = Subbed(c, d, sub)
  OBVIOUS
<1>8. PICK pp : pp = Subparented(p, d, sub)
  OBVIOUS
<1>9. IsSound(nn, cc, pp, ad, ti)
  BY <1>5, <1>6, <1>7, <1>8, SubdirSound
<1>10. d \in Dirs /\ sub \in Dirs /\ sub \in DOMAIN Subdirs[a] /\ sub # d /\ DOMAIN n \subseteq Dirs
  BY <1>1, <1>5, LackingIs, SoundIs
<1>11. /\ DOMAIN nn = DOMAIN n \cup {sub} /\ nn[sub] = MadeNode(a, sub)
       /\ \A e \in DOMAIN n : nn[e] = n[e]
  BY <1>4, <1>6 DEF Grown
<1>12. /\ cc[ForSubdirs(d)] = Append(c[ForSubdirs(d)], Tree(sub))
       /\ \A r \in Components : r # ForSubdirs(d) /\ r # Tree(sub) => cc[r] = c[r]
  BY <1>5, <1>7, <1>8, SubdirForest
<1>13. cc[ForSubdirs(d)] = FirstTrees(a, d, k)
  BY <1>1, <1>12, MoreTrees
<1>14. ASSUME NEW i \in 1..m
       PROVE  Append(d, Subdirs[a][d][i]) \in DOMAIN nn <=> i <= k
  <2>1. Append(d, Subdirs[a][d][i]) = sub <=> i = k
    <3>1. Subdirs[a][d][i] \in Symbols /\ Subdirs[a][d][k] \in Symbols /\ IsInjective(Subdirs[a][d])
      BY <1>2, SubdirsAre
    <3>2. Subdirs[a][d][i] = Subdirs[a][d][k] => i = k
      BY <1>2, <3>1 DEF IsInjective
    <3> QED
      BY <1>10, <3>1, <3>2, Paths
  <2> QED
    BY <1>2, <1>3, <1>11, <2>1
<1>15. ASSUME NEW e \in DOMAIN nn \ {d} PROVE Shows(nn, cc, a, e)
  <2>1. CASE e \in DOMAIN n
    <3>1. Shows(n, c, a, e) /\ e \in Dirs
      BY <1>1, <1>10, <2>1
    <3>2. cc[ForSubdirs(e)] = c[ForSubdirs(e)]
      BY <1>12, <3>1, PartsAre, PartsDiffer
    <3> QED
      BY <1>11, <2>1, <3>1, <3>2, ShowsSame
  <2>2. CASE e = sub
    <3>1. PICK made : made = nn[sub]
      OBVIOUS
    <3>2. /\ ~made.info_read /\ ~made.shrink /\ (made.has_sub <=> HasSub(a, sub))
          /\ (made.nosubdir <=> ~HasSub(a, sub)) /\ (made.expand <=> HasSub(a, sub))
          /\ made.rows = None
      BY <1>11, <3>1, MadeIs
    <3>3. cc[ForSubdirs(sub)] = <<>>
      <4>1. c[ForSubdirs(sub)] = <<>>
        BY <1>5, LackingIs
      <4>2. ForSubdirs(sub) \in Components /\ ForSubdirs(sub) # ForSubdirs(d)
            /\ ForSubdirs(sub) # Tree(sub)
        BY <1>10, PartsAre, PartsDiffer
      <4> QED
        BY <1>12, <4>1, <4>2
    <3>4. IsPart(cc, a, sub)
      BY <1>10, <3>3, NoTrees DEF IsPart
    <3>5. IsOffered(made, a, sub) /\ IsOf(made, a)
      BY <3>2 DEF IsOffered, IsDrawn, HasSub, IsOf
    <3> QED
      BY <1>10, <2>2, <3>1, <3>2, <3>4, <3>5 DEF Shows
  <2> QED
    BY <1>11, <2>1, <2>2
<1>16. IsMore(nn, known)
  <2>1. IsMore(n, known)
    BY DEF IsFilled
  <2> QED
    BY <1>11, <2>1 DEF IsMore
<1>17. IsFilled(nn, cc, pp, ad, ti, a, d, known, k)
  BY <1>2, <1>9, <1>13, <1>14, <1>15, <1>16 DEF IsFilled
<1> QED
  BY <1>5, <1>6, <1>7, <1>8, <1>17

(* A listing in which d has been read up to its k-th subdirectory, or where  *)
(* libdar threw before.                                                      *)
IsReading(m, ad, ti, bu, a, d, known, k) ==
    \E n, c, p, ca, th, j :
        /\ m = Listed(n, c, p, ad, ti, ca, th, bu) /\ th \in BOOLEAN
        /\ j \in 0..k /\ (~th => j = k)
        /\ IsFilled(n, c, p, ad, ti, a, d, known, j)

LEMMA IsReadingWith ==
    ASSUME NEW n, NEW c, NEW p, NEW ad, NEW ti, NEW ca, NEW th, NEW bu, NEW m,
           m = Listed(n, c, p, ad, ti, ca, th, bu), th \in BOOLEAN,
           NEW a, NEW d, NEW known, NEW k, NEW j \in 0..k, ~th => j = k,
           IsFilled(n, c, p, ad, ti, a, d, known, j)
    PROVE  IsReading(m, ad, ti, bu, a, d, known, k)
BY DEF IsReading

(* The two adoptions of AddSubdir.                                           *)
LEMMA SubbedIs ==
    ASSUME NEW a \in Archives, NEW n, NEW c, NEW p, NEW ad, NEW ti, NEW d, NEW sub,
           IsLacking(n, c, p, ad, ti, a, d, sub), NEW nn, NEW left, NEW th, NEW bu,
           NEW l, l = Listed(nn, c, p, ad, ti, left, th, bu)
    PROVE  Subbing(l, d, sub)
             = Listed(nn, Subbed(c, d, sub), Subparented(p, d, sub), ad, ti, left, th, bu)
<1>1. PICK cc : cc = Joined(c, Tree(sub), ForSubdirs(sub))
  OBVIOUS
<1>2. PICK pp : pp = Parented(p, ForSubdirs(sub), Tree(sub))
  OBVIOUS
<1>3. /\ ForSubdirs(sub) \notin Range(c[Tree(sub)]) /\ p[ForSubdirs(sub)] = None
      /\ Tree(sub) \notin Range(cc[ForSubdirs(d)]) /\ pp[Tree(sub)] = None
  BY <1>1, <1>2, SubdirForest
<1>4. CanAdopt(c, p, Tree(sub), ForSubdirs(sub)) /\ CanAdopt(cc, pp, ForSubdirs(d), Tree(sub))
  BY <1>3, PartsDiffer DEF CanAdopt
<1>5. PICK m : m = Adopt(l, Tree(sub), ForSubdirs(sub))
  OBVIOUS
<1>6. m = Listed(nn, cc, pp, ad, ti, left, th, bu)
  BY <1>1, <1>2, <1>4, <1>5, AdoptIs
<1>7. Adopt(m, ForSubdirs(d), Tree(sub))
        = Listed(nn, Joined(cc, ForSubdirs(d), Tree(sub)), Parented(pp, Tree(sub), ForSubdirs(d)),
                 ad, ti, left, th, bu)
  BY <1>4, <1>6, AdoptIs
<1> QED
  BY <1>1, <1>2, <1>5, <1>7 DEF Subbed, Subparented, Subbing

LEMMA ReadOneMore ==
    ASSUME NEW a \in Archives, NEW d \in DOMAIN Subdirs[a], NEW k \in 1..Len(Subdirs[a][d]),
           NEW m, NEW ad, NEW ti, NEW bu, NEW known, IsKnown(known, d),
           IsReading(m, ad, ti, bu, a, d, known, k - 1)
    PROVE  IsReading(AddSubdir(m, a, d, Subdirs[a][d][k]), ad, ti, bu, a, d, known, k)
<1>1. PICK n, c, p, ca, th, j :
        /\ m = Listed(n, c, p, ad, ti, ca, th, bu) /\ th \in BOOLEAN
        /\ j \in 0..(k - 1) /\ (~th => j = k - 1)
        /\ IsFilled(n, c, p, ad, ti, a, d, known, j)
  BY DEF IsReading
<1>a. j \in 0..k /\ k \in 0..k
  <2>1. Subdirs[a][d] \in Seq(Symbols)
    BY SubdirsAre
  <2> QED
    BY <1>1, <2>1
<1>2. PICK name : name = Subdirs[a][d][k]
  OBVIOUS
<1>3. PICK sub : sub = Below(d, name)
  OBVIOUS
<1>b. sub = Append(d, name)
  BY <1>3 DEF Below
<1>4. PICK left : left = Less(ca)
  OBVIOUS
<1>5. PICK r : r = AddSubdir(m, a, d, name)
  OBVIOUS
<1>6. PICK nn : nn = Grown(n, sub, MadeNode(a, sub))
  OBVIOUS
<1>7. PICK l : l = Listed(nn, c, p, ad, ti, left, th, bu)
  OBVIOUS
<1>9. CASE th \/ ca = 0
  <2>1. r = Thrown(m)
    BY <1>1, <1>5, <1>9, AddSubdirThrows
  <2>2. r = Stopped(n, c, p, ad, ti, ca, bu)
    BY <1>1, <2>1, ThrownIs
  <2>3. PICK yes : yes = TRUE
    OBVIOUS
  <2>4. r = Listed(n, c, p, ad, ti, ca, yes, bu)
    BY <2>2, <2>3 DEF Stopped
  <2>5. IsReading(r, ad, ti, bu, a, d, known, k)
    BY <1>1, <1>a, <2>3, <2>4, IsReadingWith
  <2> QED
    BY <1>2, <1>5, <2>5
<1>10. CASE ~th /\ ca # 0
  <2>a. IsFilled(n, c, p, ad, ti, a, d, known, k - 1)
    BY <1>1, <1>10
  <2>1. IsLacking(n, c, p, ad, ti, a, d, sub)
    BY <1>2, <1>b, <2>a, FillOneMore
  <2>2. IsFilled(nn, Subbed(c, d, sub), Subparented(p, d, sub), ad, ti, a, d, known, k)
    BY <1>2, <1>b, <1>6, <2>a, FillOneMore
  <2>3. r = Listed(nn, Subbed(c, d, sub), Subparented(p, d, sub), ad, ti, left, th, bu)
    <3>1. r = Subbing(l, d, sub)
      BY <1>1, <1>3, <1>4, <1>5, <1>6, <1>7, <1>10, AddSubdirAdds
    <3> QED
      BY <1>7, <2>1, <3>1, SubbedIs
  <2>5. IsReading(r, ad, ti, bu, a, d, known, k)
    BY <1>1, <1>a, <2>2, <2>3, IsReadingWith
  <2> QED
    BY <1>2, <1>5, <2>5
<1> QED
  BY <1>9, <1>10

(* All the subdirectories of d, one after the other.                         *)
Adds(it, base, a, d, k) ==
    it = [s \in SUBSET (1..k) |->
             IF s = {} THEN base ELSE AddSubdir(it[s \ {Max(s)}], a, d, Subdirs[a][d][Max(s)])]

AddsUpTo(base, a, d, k) == \E it : Adds(it, base, a, d, k)

LEMMA AddsNothing ==
    ASSUME NEW base, NEW a, NEW d
    PROVE  AddsUpTo(base, a, d, 0)
<1>1. PICK it : it = [s \in SUBSET (1..0) |-> base]
  OBVIOUS
<1>2. \A s \in SUBSET (1..0) : s = {}
  OBVIOUS
<1>3. it = [s \in SUBSET (1..0) |->
              IF s = {} THEN base
              ELSE AddSubdir(it[s \ {Max(s)}], a, d, Subdirs[a][d][Max(s)])]
  BY <1>1, <1>2
<1> QED
  BY <1>3 DEF AddsUpTo, Adds

LEMMA AddsOneMore ==
    ASSUME NEW k \in Nat, NEW base, NEW a, NEW d, AddsUpTo(base, a, d, k)
    PROVE  AddsUpTo(base, a, d, k + 1)
<1>1. PICK it : Adds(it, base, a, d, k)
  BY DEF AddsUpTo
<1>2. it = [s \in SUBSET (1..k) |->
              IF s = {} THEN base
              ELSE AddSubdir(it[s \ {Max(s)}], a, d, Subdirs[a][d][Max(s)])]
  BY <1>1 DEF Adds
<1>3. PICK new : new = [s \in SUBSET (1..(k + 1)) |->
                          IF k + 1 \in s THEN AddSubdir(it[s \ {k + 1}], a, d, Subdirs[a][d][k + 1])
                          ELSE it[s]]
  OBVIOUS
<1>4. \A s \in SUBSET (1..(k + 1)) :
          s \ {k + 1} \in SUBSET (1..k) /\ (k + 1 \notin s => s \in SUBSET (1..k))
  OBVIOUS
<1>5. ASSUME NEW s \in SUBSET (1..(k + 1))
      PROVE  new[s] = IF s = {} THEN base
                      ELSE AddSubdir(new[s \ {Max(s)}], a, d, Subdirs[a][d][Max(s)])
  <2>1. CASE k + 1 \in s
    <3>1. Max(s) = k + 1 /\ s # {}
      BY <2>1, MaxIs
    <3>2. s \ {k + 1} \in SUBSET (1..(k + 1)) /\ k + 1 \notin s \ {k + 1}
      OBVIOUS
    <3>3. new[s \ {k + 1}] = it[s \ {k + 1}]
      BY <1>3, <3>2
    <3>4. new[s] = AddSubdir(it[s \ {k + 1}], a, d, Subdirs[a][d][k + 1])
      BY <1>3, <2>1
    <3> QED
      BY <3>1, <3>3, <3>4
  <2>2. CASE k + 1 \notin s
    <3>1. s \in SUBSET (1..k) /\ new[s] = it[s]
      BY <1>3, <1>4, <2>2
    <3>2. CASE s = {}
      BY <1>2, <3>1, <3>2
    <3>3. CASE s # {}
      <4>1. s \ {Max(s)} \in SUBSET (1..(k + 1)) /\ k + 1 \notin s \ {Max(s)}
        BY <2>2
      <4>2. new[s \ {Max(s)}] = it[s \ {Max(s)}]
        BY <1>3, <4>1
      <4>3. it[s] = AddSubdir(it[s \ {Max(s)}], a, d, Subdirs[a][d][Max(s)])
        BY <1>2, <3>1, <3>3
      <4> QED
        BY <3>1, <3>3, <4>2, <4>3
    <3> QED
      BY <3>2, <3>3
  <2> QED
    BY <2>1, <2>2
<1>6. new = [s \in SUBSET (1..(k + 1)) |-> new[s]]
  BY <1>3
<1>7. new = [s \in SUBSET (1..(k + 1)) |->
               IF s = {} THEN base
               ELSE AddSubdir(new[s \ {Max(s)}], a, d, Subdirs[a][d][Max(s)])]
  BY <1>5, <1>6
<1> QED
  BY <1>7 DEF AddsUpTo, Adds

AddAll(base, a, d) ==
    FoldLeft(LAMBDA m, name : AddSubdir(m, a, d, name), base, Subdirs[a][d])

LEMMA AllAdded ==
    ASSUME NEW a \in Archives, NEW d \in DOMAIN Subdirs[a], NEW base
    PROVE  \E it : /\ it[{}] = base
                   /\ AddAll(base, a, d) = it[1..Len(Subdirs[a][d])]
                   /\ \A k \in 1..Len(Subdirs[a][d]) :
                         it[1..k] = AddSubdir(it[1..(k - 1)], a, d, Subdirs[a][d][k])
<1>1. PICK list : list = Subdirs[a][d]
  OBVIOUS
<1>2. PICK n \in Nat : n = Len(list) /\ DOMAIN list = 1..n
  <2>1. list \in Seq(Symbols)
    BY <1>1, SubdirsAre
  <2> QED
    BY <2>1
<1>3. PICK P : P = {k \in Nat : AddsUpTo(base, a, d, k)}
  OBVIOUS
<1>4. 0 \in P
  BY <1>3, AddsNothing
<1>5. ASSUME NEW k \in P PROVE k + 1 \in P
  <2>1. k \in Nat /\ AddsUpTo(base, a, d, k)
    BY <1>3
  <2>2. AddsUpTo(base, a, d, k + 1)
    BY <2>1, AddsOneMore
  <2> QED
    BY <1>3, <2>1, <2>2
<1>6. P = Nat
  BY <1>3, <1>4, <1>5, NatSets
<1>7. AddsUpTo(base, a, d, n)
  BY <1>3, <1>6
<1> DEFINE Step(t, e) == AddSubdir(t, a, d, e)
<1>8. PICK it : Adds(it, base, a, d, n)
  BY <1>7 DEF AddsUpTo
<1> DEFINE I == CHOOSE it1 : it1 = [s \in SUBSET DOMAIN list |-> IF s = {} THEN base
                               ELSE Step(it1[s \ {Max(s)}], list[Max(s)])]
<1>9. it = [s \in SUBSET DOMAIN list |-> IF s = {} THEN base
                               ELSE Step(it[s \ {Max(s)}], list[Max(s)])]
  BY <1>1, <1>2, <1>8 DEF Adds
<1>10. I = [s \in SUBSET DOMAIN list |-> IF s = {} THEN base
                               ELSE Step(I[s \ {Max(s)}], list[Max(s)])]
  <2> HIDE DEF Step
  <2> QED
    BY <1>9
<1>11. FoldLeft(LAMBDA m, name : AddSubdir(m, a, d, name), base, list) = I[DOMAIN list]
  BY DEF FoldLeft, MapThenFoldSet
<1> HIDE DEF I, Step
<1>12. I[{}] = base
  <2>1. {} \in SUBSET DOMAIN list
    OBVIOUS
  <2> QED
    BY <1>10, <2>1
<1>13. ASSUME NEW k \in 1..n PROVE I[1..k] = Step(I[1..(k - 1)], list[k])
  <2>1. /\ 1..k \in SUBSET DOMAIN list /\ 1..k # {} /\ Max(1..k) = k
        /\ (1..k) \ {k} = 1..(k - 1)
    BY <1>2, Segment
  <2>2. I[1..k] = Step(I[(1..k) \ {Max(1..k)}], list[Max(1..k)])
    BY <1>10, <2>1
  <2> QED
    BY <2>1, <2>2
<1> QED
  BY <1>1, <1>2, <1>11, <1>12, <1>13 DEF Step, AddAll

LEMMA AllRead ==
    ASSUME NEW a \in Archives, NEW d \in DOMAIN Subdirs[a], NEW base,
           NEW ad, NEW ti, NEW bu, NEW known, IsKnown(known, d),
           IsReading(base, ad, ti, bu, a, d, known, 0)
    PROVE  IsReading(AddAll(base, a, d), ad, ti, bu, a, d, known, Len(Subdirs[a][d]))
<1>1. PICK n \in Nat : n = Len(Subdirs[a][d])
  <2>1. Subdirs[a][d] \in Seq(Symbols)
    BY SubdirsAre
  <2> QED
    BY <2>1
<1>2. PICK it : /\ it[{}] = base
                /\ AddAll(base, a, d) = it[1..n]
                /\ \A k \in 1..n : it[1..k] = AddSubdir(it[1..(k - 1)], a, d, Subdirs[a][d][k])
  BY <1>1, AllAdded
<1>3. PICK P : P = {k \in Nat : IsReading(it[1..k], ad, ti, bu, a, d, known, k)}
  OBVIOUS
<1>4. 0 \in P
  <2>1. 1..0 = {}
    OBVIOUS
  <2> QED
    BY <1>2, <1>3, <2>1
<1>5. \A k \in 1..n : k - 1 \in P => k \in P
  <2> SUFFICES ASSUME NEW k \in 1..n, k - 1 \in P PROVE k \in P
    OBVIOUS
  <2>1. IsReading(it[1..(k - 1)], ad, ti, bu, a, d, known, k - 1)
    BY <1>3
  <2>2. PICK m : m = it[1..(k - 1)]
    OBVIOUS
  <2>3. IsReading(AddSubdir(m, a, d, Subdirs[a][d][k]), ad, ti, bu, a, d, known, k)
    BY <1>1, <2>1, <2>2, ReadOneMore
  <2>4. it[1..k] = AddSubdir(m, a, d, Subdirs[a][d][k])
    BY <1>2, <2>2
  <2> QED
    BY <1>3, <2>3, <2>4
<1>6. n \in P
  <2>1. n \in 0..n
    OBVIOUS
  <2> QED
    BY <1>4, <1>5, <2>1, UpTo
<1> QED
  BY <1>1, <1>2, <1>3, <1>6

Noted(node) == [node EXCEPT !.info_read = TRUE]

Filed(node, a) == [node EXCEPT !.rows = a]

Looks(new, node) ==
    /\ new.has_sub <=> node.has_sub
    /\ new.nosubdir <=> node.nosubdir
    /\ new.shrink <=> node.shrink
    /\ new.expand <=> node.expand
    /\ new.for_subdirs <=> node.for_subdirs

LEMMA NotedIs ==
    ASSUME NEW node, node \in NodeSet, NEW a \in Archives, NEW new, new = Noted(node)
    PROVE  /\ new \in NodeSet /\ new.info_read /\ Looks(new, node) /\ new.rows = node.rows
           /\ (IsCut(new) <=> IsCut(node))
BY DEF Noted, NodeSet, Looks, IsCut

LEMMA FiledIs ==
    ASSUME NEW node, node \in NodeSet, NEW a \in Archives, NEW new, new = Filed(node, a)
    PROVE  /\ new \in NodeSet /\ (new.info_read <=> node.info_read) /\ Looks(new, node)
           /\ new.rows = a /\ (IsCut(new) <=> IsCut(node))
BY DEF Filed, NodeSet, Looks, IsCut

Cutting(node, call) == [node EXCEPT !.cut = call]

LEMMA CuttingIs ==
    ASSUME NEW node, node \in NodeSet, NEW call \in {"source", "reading", "making"},
           NEW new, new = Cutting(node, call)
    PROVE  /\ new \in NodeSet /\ (new.info_read <=> node.info_read) /\ new.rows = node.rows
           /\ IsCut(new)
BY DEF Cutting, NodeSet, IsCut

LEMMA CutInto ==
    ASSUME NEW n, NEW c, NEW p, NEW ad, NEW ti, NEW ca, NEW th, NEW bu, NEW l,
           l = Listed(n, c, p, ad, ti, ca, th, bu), NEW d, NEW call,
           NEW nn, nn = With(n, d, Cutting(n[d], call))
    PROVE  Cut(l, d, call) = Listed(nn, c, p, ad, ti, ca, th, bu)
<1>1. l.nodes = n
  BY FieldsAre
<1>2. PICK node : node = Cutting(n[d], call)
  OBVIOUS
<1>3. Cut(l, d, call) = [l EXCEPT !.nodes[d] = node]
  BY <1>1, <1>2 DEF Cutting, Cut
<1> QED
  BY <1>2, <1>3, WithIs

LEMMA LooksOn ==
    ASSUME NEW x, NEW y, NEW z, Looks(x, y), Looks(y, z)
    PROVE  Looks(x, z)
BY DEF Looks

(* A directory that is read stays so when something else of it changes.      *)
LEMMA WithSound ==
    ASSUME NEW n, NEW c, NEW p, NEW ad, NEW ti, IsSound(n, c, p, ad, ti), NEW d \in DOMAIN n,
           NEW node \in NodeSet, n[d].info_read => node.info_read, NEW nn, nn = With(n, d, node)
    PROVE  /\ IsSound(nn, c, p, ad, ti) /\ DOMAIN nn = DOMAIN n /\ nn[d] = node
           /\ \A e \in DOMAIN n : e # d => nn[e] = n[e]
<1>1. n \in Trees /\ Root \in DOMAIN n
  BY SoundIs
<1>2. /\ DOMAIN nn = DOMAIN n /\ nn[d] = node
      /\ \A e \in DOMAIN n : e # d => nn[e] = n[e]
  BY DEF With
<1>3. nn \in Trees
  BY <1>1, TreesAre
<1>4. IsTyped(nn, c, p, ad, ti)
  BY <1>3 DEF IsSound, IsTyped
<1>5. IsGrown(nn)
  <2>1. ASSUME NEW e \in Dirs, NEW x \in Symbols, Append(e, x) \in DOMAIN nn
        PROVE  e \in DOMAIN nn /\ nn[e].info_read
    <3>1. e \in DOMAIN n /\ n[e].info_read
      BY <1>2, <2>1 DEF IsSound, IsGrown
    <3> QED
      BY <1>2, <3>1
  <2> QED
    BY <1>1, <1>2, <2>1 DEF IsGrown
<1>6. IsPlaced(nn, c, p, ad)
  <2>1. IsPlaced(n, c, p, ad)
    BY DEF IsSound
  <2> QED
    BY <1>2, <2>1 DEF IsPlaced
<1>7. IsTitled(nn, ad, ti)
  BY <1>2 DEF IsSound, IsTitled
<1> QED
  BY <1>2, <1>4, <1>5, <1>6, <1>7 DEF IsSound

(* A directory that was not read holds nothing.                              *)
LEMMA NothingRead ==
    ASSUME NEW a \in Archives, NEW d \in DOMAIN Subdirs[a], NEW n, NEW c, NEW p, NEW ad, NEW ti,
           IsSound(n, c, p, ad, ti), ~n[d].info_read
    PROVE  /\ \A i \in DOMAIN Subdirs[a][d] : Append(d, Subdirs[a][d][i]) \notin DOMAIN n
           /\ c[ForSubdirs(d)] = FirstTrees(a, d, 0)
<1>1. d \in Dirs /\ \A i \in DOMAIN Subdirs[a][d] : Subdirs[a][d][i] \in Symbols
  BY SubdirsAre
<1>2. \A x \in Symbols : Append(d, x) \notin DOMAIN n
  BY <1>1 DEF IsSound, IsGrown
<1>3. ForSubdirs(d) \in Components /\ c \in [Components -> Seq(Components)] /\ IsForested(c, p)
  BY <1>1, PartsAre, SoundIs
<1>4. \A o \in Components : p[o] # ForSubdirs(d)
  BY <1>1, <1>2 DEF IsSound, IsPlaced
<1>5. PICK list : list = c[ForSubdirs(d)]
  OBVIOUS
<1>6. list \in Seq(Components) /\ \A o \in Components : o \notin Range(list)
  BY <1>3, <1>4, <1>5 DEF IsForested
<1>7. PICK m \in Nat : m = Len(list) /\ DOMAIN list = 1..m /\ \A i \in 1..m : list[i] \in Components
  BY <1>6
<1>8. \A i \in 1..m : list[i] \in Range(list)
  BY <1>7 DEF Range
<1>9. m = 0
  <2>1. m > 0 => 1 \in 1..m
    BY <1>7
  <2> QED
    BY <1>6, <1>7, <1>8, <2>1
<1>10. FirstTrees(a, d, 0) = <<>>
  <2>1. 1..0 = {}
    OBVIOUS
  <2> QED
    BY <2>1 DEF FirstTrees
<1>11. list = <<>>
  BY <1>6, <1>7, <1>9
<1> QED
  BY <1>1, <1>2, <1>5, <1>10, <1>11

(* What a directory may be before go_init_indent, and is after.              *)
CanRead(n, c, a, d) ==
    /\ d \in DOMAIN n /\ IsOf(n[d], a) /\ IsPart(c, a, d)
    /\ n[d].info_read /\ ~IsCut(n[d]) => n[d].rows = a /\ IsWhole(c, a, d)
    /\ \A e \in DOMAIN n \ {d} : Shows(n, c, a, e)

LEMMA CutShows ==
    ASSUME NEW a, NEW d \in DOMAIN Subdirs[a], NEW n, NEW c, CanRead(n, c, a, d), IsCut(n[d])
    PROVE  Shows(n, c, a, d)
BY DEF CanRead, Shows

(* Another look of d.                                                        *)
LEMMA CanReadWith ==
    ASSUME NEW a, NEW d, NEW n, NEW c, CanRead(n, c, a, d), NEW nn, DOMAIN nn = DOMAIN n,
           \A e \in DOMAIN n : e # d => nn[e] = n[e], nn[d].rows = n[d].rows,
           nn[d].info_read /\ ~IsCut(nn[d]) => n[d].info_read /\ ~IsCut(n[d])
    PROVE  CanRead(nn, c, a, d)
<1>1. \A e \in DOMAIN nn \ {d} : Shows(nn, c, a, e)
  BY ShowsSame DEF CanRead
<1>2. IsOf(nn[d], a)
  BY DEF CanRead, IsOf
<1> QED
  BY <1>1, <1>2 DEF CanRead

(* What was seen stays seen, what was cut stays cut.                         *)
IsStill(n, known) ==
    \A e \in DOMAIN known : /\ e \in DOMAIN n
                            /\ IsSeen(known[e]) => IsSeen(n[e])
                            /\ IsCut(known[e]) => IsCut(n[e])

LEMMA StillOn ==
    ASSUME NEW x, NEW y, NEW z, IsStill(x, y), IsStill(y, z)
    PROVE  IsStill(x, z)
BY DEF IsStill

LEMMA StillWith ==
    ASSUME NEW n, NEW nn, NEW d \in DOMAIN n, DOMAIN nn = DOMAIN n,
           \A e \in DOMAIN n : e # d => nn[e] = n[e],
           IsSeen(n[d]) => IsSeen(nn[d]), IsCut(n[d]) => IsCut(nn[d])
    PROVE  IsStill(nn, n)
<1> SUFFICES ASSUME NEW e \in DOMAIN n
             PROVE  /\ e \in DOMAIN nn
                    /\ IsSeen(n[e]) => IsSeen(nn[e])
                    /\ IsCut(n[e]) => IsCut(nn[e])
  BY DEF IsStill
<1>1. CASE e = d
  BY <1>1
<1>2. CASE e # d
  BY <1>2
<1> QED
  BY <1>1, <1>2

IsIndented(n, c, a, d, known) ==
    /\ CanRead(n, c, a, d) /\ n[d].info_read
    /\ IsCut(n[d]) \/ (~IsCut(known[d]) /\ Looks(n[d], known[d]))
    /\ IsStill(n, known)

Indents(m, ad, ti, bu, a, d, known) ==
    \E n, c, p, ca, th :
        /\ m = Listed(n, c, p, ad, ti, ca, th, bu) /\ th \in BOOLEAN
        /\ IsSound(n, c, p, ad, ti)
        /\ IsIndented(n, c, a, d, known) /\ (th => IsCut(n[d]))

LEMMA IndentsWith ==
    ASSUME NEW n, NEW c, NEW p, NEW ad, NEW ti, NEW ca, NEW th, NEW bu, NEW m,
           m = Listed(n, c, p, ad, ti, ca, th, bu), th \in BOOLEAN,
           IsSound(n, c, p, ad, ti), NEW a, NEW d, NEW known,
           IsIndented(n, c, a, d, known), th => IsCut(n[d])
    PROVE  Indents(m, ad, ti, bu, a, d, known)
BY DEF Indents

Rowed(l, a, d) == [l EXCEPT !.nodes[d].rows = a]

LEMMA FiledInto ==
    ASSUME NEW n, NEW c, NEW p, NEW ad, NEW ti, NEW ca, NEW th, NEW bu, NEW l,
           l = Listed(n, c, p, ad, ti, ca, th, bu), NEW a, NEW d,
           NEW nn, nn = With(n, d, Filed(n[d], a))
    PROVE  Rowed(l, a, d) = Listed(nn, c, p, ad, ti, ca, th, bu)
<1>1. l.nodes = n
  BY FieldsAre
<1>2. PICK node : node = Filed(n[d], a)
  OBVIOUS
<1>3. Rowed(l, a, d) = [l EXCEPT !.nodes[d] = node]
  BY <1>1, <1>2 DEF Filed, Rowed
<1> QED
  BY <1>2, <1>3, WithIs

Marked(l, d) == [l EXCEPT !.nodes[d].info_read = TRUE]

LEMMA NotedInto ==
    ASSUME NEW n, NEW c, NEW p, NEW ad, NEW ti, NEW ca, NEW th, NEW bu, NEW l,
           l = Listed(n, c, p, ad, ti, ca, th, bu), NEW d,
           NEW nn, nn = With(n, d, Noted(n[d]))
    PROVE  Marked(l, d) = Listed(nn, c, p, ad, ti, ca, th, bu)
<1>1. l.nodes = n
  BY FieldsAre
<1>2. PICK node : node = Noted(n[d])
  OBVIOUS
<1>3. Marked(l, d) = [l EXCEPT !.nodes[d] = node]
  BY <1>1, <1>2 DEF Noted, Marked
<1> QED
  BY <1>2, <1>3, WithIs

(* The end of go_init_indent.                                                *)
FilledNode(m, a, d) == IF m.thrown THEN Cut(m, d, "making") ELSE Rowed(m, a, d)

LEMMA InitIndentIs ==
    ASSUME NEW n, NEW c, NEW p, NEW ad, NEW ti, NEW ca, NEW th, NEW bu, NEW l,
           l = Listed(n, c, p, ad, ti, ca, th, bu), NEW a, NEW d, ~n[d].info_read,
           NEW nn, nn = With(n, d, Noted(n[d])), NEW left, left = Less(ca),
           NEW read, read = Listed(nn, c, p, ad, ti, ca, th, bu),
           NEW base, base = Listed(nn, c, p, ad, ti, left, th, bu)
    PROVE  /\ ca = 0 => GoInitIndent(l, a, d) = Thrown(Cut(read, d, "reading"))
           /\ ca # 0 => GoInitIndent(l, a, d) = FilledNode(AddAll(base, a, d), a, d)
<1>1. l.nodes = n /\ l.calls = ca
  BY FieldsAre
<1>2. Marked(l, d) = read
  BY NotedInto
<1>3. Spent(read) = base
  BY SpentIs
<1>4. GoInitIndent(l, a, d) = IF ca = 0 THEN Thrown(Cut(read, d, "reading"))
                                 ELSE FilledNode(AddAll(base, a, d), a, d)
  BY <1>1, <1>2, <1>3 DEF GoInitIndent, AddAll, FilledNode, Rowed, Marked
<1> QED
  BY <1>4

LEMMA InitIndentRead ==
    ASSUME NEW n, NEW c, NEW p, NEW ad, NEW ti, NEW ca, NEW th, NEW bu, NEW l,
           l = Listed(n, c, p, ad, ti, ca, th, bu), NEW a, NEW d, n[d].info_read
    PROVE  GoInitIndent(l, a, d) = l
<1>1. l.nodes = n
  BY FieldsAre
<1> QED
  BY <1>1 DEF GoInitIndent

LEMMA FilledIs ==
    ASSUME NEW a \in Archives, NEW d \in DOMAIN Subdirs[a],
           NEW m, NEW ad, NEW ti, NEW bu, NEW known, IsKnown(known, d), NEW k,
           k = Len(Subdirs[a][d]), IsReading(m, ad, ti, bu, a, d, known, k),
           NEW n, d \in DOMAIN n, IsStill(known, n),
           IsCut(known[d]) <=> IsCut(n[d]), Looks(known[d], n[d]), IsOf(known[d], a)
    PROVE  Indents(FilledNode(m, a, d), ad, ti, bu, a, d, n)
<1>1. PICK nn, cc, pp, ca, th, j :
        /\ m = Listed(nn, cc, pp, ad, ti, ca, th, bu) /\ th \in BOOLEAN
        /\ j \in 0..k /\ (~th => j = k)
        /\ IsFilled(nn, cc, pp, ad, ti, a, d, known, j)
  BY DEF IsReading
<1>2. m.thrown = th
  BY <1>1, FieldsAre
<1>3. /\ IsSound(nn, cc, pp, ad, ti)
      /\ \A e \in DOMAIN known : e \in DOMAIN nn /\ nn[e] = known[e]
      /\ cc[ForSubdirs(d)] = FirstTrees(a, d, j)
      /\ \A e \in DOMAIN nn \ {d} : Shows(nn, cc, a, e)
  BY <1>1 DEF IsFilled, IsMore
<1>4. IsPart(cc, a, d) /\ (j = k => IsWhole(cc, a, d))
  BY <1>1, <1>3 DEF IsPart, IsWhole
<1>5. PICK old : old = nn[d]
  OBVIOUS
<1>6. /\ d \in DOMAIN nn /\ old \in NodeSet /\ old.info_read /\ Looks(old, n[d])
      /\ IsOf(old, a) /\ (IsCut(old) <=> IsCut(n[d]))
  BY <1>3, <1>5, SoundIs DEF IsKnown
<1>7. IsStill(nn, n)
  <2>1. IsStill(nn, known)
    BY <1>3 DEF IsStill
  <2> QED
    BY <2>1, StillOn
<1>8. CASE th
  <2>1. PICK call : call = "making"
    OBVIOUS
  <2>2. PICK node : node = Cutting(old, call)
    OBVIOUS
  <2>3. node \in NodeSet /\ node.info_read /\ node.rows = old.rows /\ IsCut(node)
    BY <1>6, <2>1, <2>2, CuttingIs
  <2>4. PICK new : new = With(nn, d, node)
    OBVIOUS
  <2>5. /\ IsSound(new, cc, pp, ad, ti) /\ DOMAIN new = DOMAIN nn /\ new[d] = node
        /\ \A e \in DOMAIN nn : e # d => new[e] = nn[e]
    BY <1>3, <1>6, <2>3, <2>4, WithSound
  <2>6. FilledNode(m, a, d) = Listed(new, cc, pp, ad, ti, ca, th, bu)
    <3>1. FilledNode(m, a, d) = Cut(m, d, call)
      BY <1>2, <1>8, <2>1 DEF FilledNode
    <3>2. new = With(nn, d, Cutting(nn[d], call))
      BY <1>5, <2>2, <2>4
    <3> QED
      BY <1>1, <3>1, <3>2, CutInto
  <2>7. \A e \in DOMAIN new \ {d} : Shows(new, cc, a, e)
    BY <1>3, <2>5, ShowsSame
  <2>8. IsOf(new[d], a)
    BY <1>6, <2>3, <2>5 DEF IsOf
  <2>9. CanRead(new, cc, a, d)
    BY <1>4, <1>6, <2>3, <2>5, <2>7, <2>8 DEF CanRead
  <2>10. IsStill(new, n)
    <3>1. IsStill(new, nn)
      BY <1>6, <2>3, <2>5, StillWith DEF IsSeen
    <3> QED
      BY <1>7, <3>1, StillOn
  <2>11. IsIndented(new, cc, a, d, n) /\ IsCut(new[d])
    BY <2>3, <2>5, <2>9, <2>10 DEF IsIndented
  <2> QED
    BY <1>1, <2>5, <2>6, <2>11, IndentsWith
<1>9. CASE ~th
  <2>1. PICK node : node = Filed(old, a)
    OBVIOUS
  <2>2. /\ node \in NodeSet /\ node.info_read /\ node.rows = a /\ Looks(node, old)
        /\ (IsCut(node) <=> IsCut(old))
    BY <1>6, <2>1, FiledIs
  <2>4. PICK new : new = With(nn, d, node)
    OBVIOUS
  <2>5. /\ IsSound(new, cc, pp, ad, ti) /\ DOMAIN new = DOMAIN nn /\ new[d] = node
        /\ \A e \in DOMAIN nn : e # d => new[e] = nn[e]
    BY <1>3, <1>6, <2>2, <2>4, WithSound
  <2>6. FilledNode(m, a, d) = Listed(new, cc, pp, ad, ti, ca, th, bu)
    <3>1. FilledNode(m, a, d) = Rowed(m, a, d)
      BY <1>2, <1>9 DEF FilledNode
    <3>2. new = With(nn, d, Filed(nn[d], a))
      BY <1>5, <2>1, <2>4
    <3> QED
      BY <1>1, <3>1, <3>2, FiledInto
  <2>7. \A e \in DOMAIN new \ {d} : Shows(new, cc, a, e)
    BY <1>3, <2>5, ShowsSame
  <2>8. IsOf(new[d], a)
    BY <2>2, <2>5 DEF IsOf
  <2>9. CanRead(new, cc, a, d)
    BY <1>1, <1>4, <1>6, <1>9, <2>2, <2>5, <2>7, <2>8 DEF CanRead
  <2>10. IsStill(new, n)
    <3>1. IsStill(new, nn)
      BY <1>5, <1>6, <2>2, <2>5, StillWith DEF IsSeen
    <3> QED
      BY <1>7, <3>1, StillOn
  <2>11. Looks(new[d], n[d])
    BY <1>6, <2>2, <2>5, LooksOn
  <2>12. IsIndented(new, cc, a, d, n)
    BY <1>6, <2>2, <2>5, <2>9, <2>10, <2>11 DEF IsIndented
  <2> QED
    BY <1>1, <1>9, <2>5, <2>6, <2>12, IndentsWith
<1> QED
  BY <1>1, <1>8, <1>9

LEMMA IndentIs ==
    ASSUME NEW a \in Archives, NEW d \in DOMAIN Subdirs[a],
           NEW n, NEW c, NEW p, NEW ad, NEW ti, NEW ca, NEW th, NEW bu, NEW l,
           l = Listed(n, c, p, ad, ti, ca, th, bu), th \in BOOLEAN, ~th,
           IsSound(n, c, p, ad, ti), CanRead(n, c, a, d)
    PROVE  Indents(GoInitIndent(l, a, d), ad, ti, bu, a, d, n)
<1>1. /\ d \in DOMAIN n /\ \A e \in DOMAIN n \ {d} : Shows(n, c, a, e)
      /\ IsOf(n[d], a)
  BY DEF CanRead
<1>2. CASE n[d].info_read
  <2>1. GoInitIndent(l, a, d) = l
    BY <1>2, InitIndentRead
  <2>2. IsIndented(n, c, a, d, n)
    BY <1>2 DEF IsIndented, Looks, IsStill
  <2> QED
    BY <2>1, <2>2, IndentsWith
<1>3. CASE ~n[d].info_read
  <2>1. PICK old : old = n[d]
    OBVIOUS
  <2>2. old \in NodeSet
    BY <1>1, <2>1, SoundIs
  <2>3. PICK node : node = Noted(old)
    OBVIOUS
  <2>4. /\ node \in NodeSet /\ node.info_read /\ Looks(node, old) /\ node.rows = old.rows
        /\ (IsCut(node) <=> IsCut(old))
    BY <2>2, <2>3, NotedIs
  <2>5. PICK nn : nn = With(n, d, node)
    OBVIOUS
  <2>6. /\ IsSound(nn, c, p, ad, ti) /\ DOMAIN nn = DOMAIN n /\ nn[d] = node
        /\ \A e \in DOMAIN n : e # d => nn[e] = n[e]
    BY <1>1, <2>4, <2>5, WithSound
  <2>7. PICK left : left = Less(ca)
    OBVIOUS
  <2>8. PICK read : read = Listed(nn, c, p, ad, ti, ca, th, bu)
    OBVIOUS
  <2>9. PICK base : base = Listed(nn, c, p, ad, ti, left, th, bu)
    OBVIOUS
  <2>10. /\ ca = 0 => GoInitIndent(l, a, d) = Thrown(Cut(read, d, "reading"))
         /\ ca # 0 => GoInitIndent(l, a, d) = FilledNode(AddAll(base, a, d), a, d)
    <3>1. nn = With(n, d, Noted(n[d]))
      BY <2>1, <2>3, <2>5
    <3> QED
      BY <1>3, <2>7, <2>8, <2>9, <3>1, InitIndentIs
  <2>a. IsStill(nn, n) /\ IsOf(nn[d], a)
    <3>1. IsOf(node, a)
      BY <1>1, <2>1, <2>4 DEF IsOf
    <3> QED
      BY <1>1, <2>1, <2>4, <2>6, <3>1, StillWith DEF IsSeen
  <2>b. /\ \A i \in DOMAIN Subdirs[a][d] : Append(d, Subdirs[a][d][i]) \notin DOMAIN n
        /\ c[ForSubdirs(d)] = FirstTrees(a, d, 0)
    BY <1>3, NothingRead
  <2>c. \A e \in DOMAIN nn \ {d} : Shows(nn, c, a, e)
    BY <1>1, <2>6, ShowsSame
  <2>11. CASE ca = 0
    <3>1. PICK call : call = "reading"
      OBVIOUS
    <3>2. PICK less : less = Cutting(node, call)
      OBVIOUS
    <3>3. less \in NodeSet /\ less.info_read /\ less.rows = node.rows /\ IsCut(less)
      BY <2>4, <3>1, <3>2, CuttingIs
    <3>4. PICK new : new = With(nn, d, less)
      OBVIOUS
    <3>5. /\ IsSound(new, c, p, ad, ti) /\ DOMAIN new = DOMAIN nn /\ new[d] = less
          /\ \A e \in DOMAIN nn : e # d => new[e] = nn[e]
      BY <1>1, <2>6, <3>3, <3>4, WithSound
    <3>6. PICK cut : cut = Cut(read, d, call)
      OBVIOUS
    <3>7. cut = Listed(new, c, p, ad, ti, ca, th, bu)
      <4>1. new = With(nn, d, Cutting(nn[d], call))
        BY <2>6, <3>2, <3>4
      <4> QED
        BY <2>8, <3>6, <4>1, CutInto
    <3>8. Thrown(cut) = Stopped(new, c, p, ad, ti, ca, bu)
      BY <3>7, ThrownIs
    <3>9. PICK yes : yes = TRUE
      OBVIOUS
    <3>10. Thrown(cut) = Listed(new, c, p, ad, ti, ca, yes, bu)
      BY <3>8, <3>9 DEF Stopped
    <3>11. IsPart(c, a, d)
      BY <2>b, NoTrees DEF IsPart
    <3>12. IsOf(new[d], a)
      BY <2>6, <2>a, <3>3, <3>5 DEF IsOf
    <3>13. \A e \in DOMAIN new \ {d} : Shows(new, c, a, e)
      BY <2>c, <3>5, ShowsSame
    <3>14. CanRead(new, c, a, d)
      BY <1>1, <2>6, <3>3, <3>5, <3>11, <3>12, <3>13 DEF CanRead
    <3>15. IsStill(new, n)
      <4>1. IsStill(new, nn)
        BY <1>1, <2>6, <3>3, <3>5, StillWith DEF IsSeen
      <4> QED
        BY <2>a, <4>1, StillOn
    <3>16. IsIndented(new, c, a, d, n) /\ IsCut(new[d])
      BY <3>3, <3>5, <3>14, <3>15 DEF IsIndented
    <3>17. Indents(Thrown(cut), ad, ti, bu, a, d, n)
      BY <3>5, <3>9, <3>10, <3>16, IndentsWith
    <3> QED
      BY <2>10, <2>11, <3>1, <3>6, <3>17
  <2>12. CASE ca # 0
    <3>2. \A i \in DOMAIN Subdirs[a][d] : ~(i <= 0)
      <4>1. Subdirs[a][d] \in Seq(Symbols)
        BY SubdirsAre
      <4> QED
        BY <4>1
    <3>4. IsFilled(nn, c, p, ad, ti, a, d, nn, 0)
      BY <2>6, <2>b, <2>c, <3>2 DEF IsFilled, IsMore
    <3>5. IsReading(base, ad, ti, bu, a, d, nn, 0)
      <4>1. 0 \in 0..0
        OBVIOUS
      <4> QED
        BY <2>9, <3>4, <4>1, IsReadingWith
    <3>6. IsKnown(nn, d)
      BY <1>1, <2>4, <2>6 DEF IsKnown
    <3>7. IsReading(AddAll(base, a, d), ad, ti, bu, a, d, nn, Len(Subdirs[a][d]))
      BY <3>5, <3>6, AllRead
    <3>8. Looks(nn[d], n[d]) /\ (IsCut(nn[d]) <=> IsCut(n[d]))
      BY <2>1, <2>4, <2>6
    <3>9. PICK m : m = AddAll(base, a, d)
      OBVIOUS
    <3>10. Indents(FilledNode(m, a, d), ad, ti, bu, a, d, n)
      BY <1>1, <2>a, <3>6, <3>7, <3>8, <3>9, FilledIs
    <3> QED
      BY <2>10, <2>12, <3>9, <3>10
  <2> QED
    BY <2>11, <2>12
<1> QED
  BY <1>2, <1>3

AllDrawn(n, c, a) == \A e \in DOMAIN n : Shows(n, c, a, e)

(* Before a directory is expanded.                                           *)
CanExpand(n, c, a, d) ==
    /\ CanRead(n, c, a, d) /\ (IsCut(n[d]) \/ IsDrawn(n[d], a, d))
    /\ ~n[d].has_sub => Shows(n, c, a, d)

LEMMA DrawnCanExpand ==
    ASSUME NEW a \in Archives, NEW n, NEW c, AllDrawn(n, c, a), NEW d \in DOMAIN n
    PROVE  d \in DOMAIN Subdirs[a] /\ CanExpand(n, c, a, d)
<1>1. Shows(n, c, a, d) /\ \A e \in DOMAIN n : Shows(n, c, a, e)
  BY DEF AllDrawn
<1>2. /\ d \in DOMAIN Subdirs[a] /\ IsOf(n[d], a) /\ IsPart(c, a, d)
      /\ \/ IsCut(n[d])
         \/ /\ IsOffered(n[d], a, d)
            /\ n[d].info_read => n[d].rows = a /\ IsWhole(c, a, d)
  BY <1>1 DEF Shows
<1>3. CanRead(n, c, a, d)
  BY <1>1, <1>2 DEF CanRead
<1>4. IsCut(n[d]) \/ IsDrawn(n[d], a, d)
  BY <1>2 DEF IsOffered
<1> QED
  BY <1>1, <1>2, <1>3, <1>4 DEF CanExpand

Expands(m, ad, ti, bu, a, d, known) ==
    \E n, c, p, ca, th :
        /\ m = Listed(n, c, p, ad, ti, ca, th, bu) /\ th \in BOOLEAN
        /\ IsSound(n, c, p, ad, ti)
        /\ AllDrawn(n, c, a) /\ IsStill(n, known) /\ (th => IsCut(n[d]))

LEMMA ExpandsWith ==
    ASSUME NEW n, NEW c, NEW p, NEW ad, NEW ti, NEW ca, NEW th, NEW bu, NEW m,
           m = Listed(n, c, p, ad, ti, ca, th, bu), th \in BOOLEAN,
           IsSound(n, c, p, ad, ti), NEW a, NEW d, NEW known,
           AllDrawn(n, c, a), IsStill(n, known), th => IsCut(n[d])
    PROVE  Expands(m, ad, ti, bu, a, d, known)
BY DEF Expands

(* What is done to the components of a directory when it is expanded.        *)
DirOpened(node) == [node EXCEPT !.for_subdirs = TRUE]

LEMMA DirOpenedIs ==
    ASSUME NEW node, node \in NodeSet, NEW new, new = DirOpened(node)
    PROVE  /\ new \in NodeSet /\ (new.info_read <=> node.info_read) /\ new.rows = node.rows
           /\ (new.has_sub <=> node.has_sub) /\ (new.nosubdir <=> node.nosubdir)
           /\ (new.shrink <=> node.shrink) /\ (new.expand <=> node.expand)
           /\ new.for_subdirs /\ (IsCut(new) <=> IsCut(node))
BY DEF DirOpened, NodeSet, IsCut

Unroll(l, d) == [l EXCEPT !.nodes[d].for_subdirs = TRUE]

LEMMA UnrollIs ==
    ASSUME NEW n, NEW c, NEW p, NEW ad, NEW ti, NEW ca, NEW th, NEW bu, NEW l,
           l = Listed(n, c, p, ad, ti, ca, th, bu), NEW d,
           NEW nn, nn = With(n, d, DirOpened(n[d]))
    PROVE  Unroll(l, d) = Listed(nn, c, p, ad, ti, ca, th, bu)
<1>1. l.nodes = n
  BY FieldsAre
<1>2. PICK node : node = DirOpened(n[d])
  OBVIOUS
<1>3. Unroll(l, d) = [l EXCEPT !.nodes[d] = node]
  BY <1>1, <1>2 DEF DirOpened, Unroll
<1> QED
  BY <1>2, <1>3, WithIs

(* The end of go_expand.                                                     *)
Unrolls(m, d) ==
    IF m.thrown \/ m.children[ForSubdirs(d)] = <<>> THEN m ELSE Unroll(m, d)

LEMMA GoExpandIs ==
    ASSUME NEW n, NEW c, NEW p, NEW ad, NEW ti, NEW ca, NEW th, NEW bu, NEW l,
           l = Listed(n, c, p, ad, ti, ca, th, bu), NEW a, NEW d, n[d].has_sub,
           NEW nn, nn = With(n, d, Opened(n[d])),
           NEW open, open = Listed(nn, c, p, ad, ti, ca, th, bu)
    PROVE  GoExpand(l, a, d) = Unrolls(GoInitIndent(open, a, d), d)
<1>1. l.nodes = n
  BY FieldsAre
<1>2. PICK node : node = Opened(n[d])
  OBVIOUS
<1>3. [l EXCEPT !.nodes[d] = node] = open
  BY <1>2, WithIs
<1>4. [l EXCEPT !.nodes[d] = [@ EXCEPT !.shrink = TRUE, !.expand = FALSE]]
        = [l EXCEPT !.nodes[d] = node]
  BY <1>1, <1>2 DEF Opened
<1> QED
  BY <1>1, <1>3, <1>4 DEF GoExpand, Unrolls, Unroll

LEMMA GoExpandNot ==
    ASSUME NEW n, NEW c, NEW p, NEW ad, NEW ti, NEW ca, NEW th, NEW bu, NEW l,
           l = Listed(n, c, p, ad, ti, ca, th, bu), NEW a, NEW d, ~n[d].has_sub
    PROVE  GoExpand(l, a, d) = l
<1>1. l.nodes = n
  BY FieldsAre
<1> QED
  BY <1>1 DEF GoExpand

LEMMA TreesThere ==
    ASSUME NEW a \in Archives, NEW d \in DOMAIN Subdirs[a], Subdirs[a][d] # <<>>
    PROVE  FirstTrees(a, d, Len(Subdirs[a][d])) # <<>>
<1>1. PICK list : list = Subdirs[a][d]
  OBVIOUS
<1>2. list \in Seq(Symbols) /\ list # <<>>
  BY <1>1, SubdirsAre
<1>3. PICK m \in Nat : m = Len(list)
  BY <1>2
<1>4. m # 0
  BY <1>2, <1>3
<1>5. 1 \in 1..m /\ 1 \notin {}
  BY <1>4
<1>6. PICK f : f = FirstTrees(a, d, m)
  OBVIOUS
<1>7. DOMAIN f = 1..m
  BY <1>6 DEF FirstTrees
<1>8. DOMAIN <<>> = {}
  OBVIOUS
<1>9. f # <<>>
  BY <1>5, <1>7, <1>8
<1> QED
  BY <1>1, <1>3, <1>6, <1>9

LEMMA UnrollsExpands ==
    ASSUME NEW a \in Archives, NEW d \in DOMAIN Subdirs[a], NEW m, NEW ad, NEW ti, NEW bu,
           NEW known, d \in DOMAIN known, Indents(m, ad, ti, bu, a, d, known),
           ~IsCut(known[d]) => /\ known[d].shrink /\ ~known[d].expand
                               /\ IsDrawn(known[d], a, d) /\ Subdirs[a][d] # <<>>
    PROVE  Expands(Unrolls(m, d), ad, ti, bu, a, d, known)
<1>1. PICK n, c, p, ca, th :
        /\ m = Listed(n, c, p, ad, ti, ca, th, bu) /\ th \in BOOLEAN
        /\ IsSound(n, c, p, ad, ti)
        /\ IsIndented(n, c, a, d, known) /\ (th => IsCut(n[d]))
  BY DEF Indents
<1>2. m.thrown = th /\ m.children = c
  BY <1>1, FieldsAre
<1>3. /\ CanRead(n, c, a, d) /\ n[d].info_read /\ IsStill(n, known)
      /\ IsCut(n[d]) \/ (~IsCut(known[d]) /\ Looks(n[d], known[d]))
  BY <1>1 DEF IsIndented
<1>4. /\ d \in DOMAIN n /\ \A e \in DOMAIN n \ {d} : Shows(n, c, a, e)
  BY <1>3 DEF CanRead
<1>5. PICK old : old = n[d]
  OBVIOUS
<1>6. old \in NodeSet
  BY <1>1, <1>4, <1>5, SoundIs
<1>7. PICK node : node = DirOpened(old)
  OBVIOUS
<1>8. /\ node \in NodeSet /\ (node.info_read <=> old.info_read) /\ node.rows = old.rows
      /\ (node.shrink <=> old.shrink) /\ (node.expand <=> old.expand) /\ node.for_subdirs
      /\ (node.has_sub <=> old.has_sub) /\ (node.nosubdir <=> old.nosubdir)
      /\ (IsCut(node) <=> IsCut(old))
  BY <1>6, <1>7, DirOpenedIs
<1>10. PICK nn : nn = With(n, d, node)
  OBVIOUS
<1>11. /\ IsSound(nn, c, p, ad, ti) /\ DOMAIN nn = DOMAIN n /\ nn[d] = node
       /\ \A e \in DOMAIN n : e # d => nn[e] = n[e]
  BY <1>1, <1>4, <1>5, <1>8, <1>10, WithSound
<1>12. Unroll(m, d) = Listed(nn, c, p, ad, ti, ca, th, bu)
  <2>1. nn = With(n, d, DirOpened(n[d]))
    BY <1>5, <1>7, <1>10
  <2> QED
    BY <1>1, <2>1, UnrollIs
<1>13. \A e \in DOMAIN nn \ {d} : Shows(nn, c, a, e)
  BY <1>4, <1>11, ShowsSame
<1>14. CanRead(nn, c, a, d)
  BY <1>3, <1>5, <1>8, <1>11, CanReadWith
<1>15. IsStill(nn, known)
  <2>1. IsStill(nn, n)
    BY <1>4, <1>5, <1>8, <1>11, StillWith DEF IsSeen
  <2> QED
    BY <1>3, <2>1, StillOn
<1>16. CASE IsCut(n[d])
  <2>1. AllDrawn(n, c, a)
    BY <1>3, <1>4, <1>16, CutShows DEF AllDrawn
  <2>2. IsCut(nn[d])
    BY <1>5, <1>8, <1>11, <1>16
  <2>3. Shows(nn, c, a, d)
    BY <1>14, <2>2, CutShows
  <2>4. AllDrawn(nn, c, a)
    BY <1>13, <2>3 DEF AllDrawn
  <2>5. Expands(m, ad, ti, bu, a, d, known)
    BY <1>1, <1>3, <1>16, <2>1, ExpandsWith
  <2>6. Expands(Unroll(m, d), ad, ti, bu, a, d, known)
    BY <1>1, <1>11, <1>12, <1>15, <2>2, <2>4, ExpandsWith
  <2> QED
    BY <2>5, <2>6 DEF Unrolls
<1>17. CASE ~IsCut(n[d])
  <2>1. /\ ~th /\ IsOffered(node, a, d) /\ node.rows = a /\ ~IsCut(node) /\ node.info_read
        /\ IsWhole(c, a, d) /\ Subdirs[a][d] # <<>>
    <3>1. known[d].shrink /\ ~known[d].expand /\ IsDrawn(known[d], a, d) /\ Subdirs[a][d] # <<>>
      BY <1>3, <1>17
    <3>2. old.shrink /\ ~old.expand /\ IsDrawn(old, a, d)
      BY <1>3, <1>5, <1>17, <3>1 DEF Looks, IsDrawn
    <3>3. old.rows = a /\ IsWhole(c, a, d)
      BY <1>3, <1>5, <1>17 DEF CanRead
    <3>4. IsOffered(node, a, d)
      BY <1>3, <1>5, <1>8, <3>1, <3>2 DEF IsOffered, IsDrawn
    <3> QED
      BY <1>1, <1>3, <1>5, <1>8, <1>17, <3>1, <3>3, <3>4
  <2>2. c[ForSubdirs(d)] # <<>>
    BY <2>1, TreesThere DEF IsWhole
  <2>3. Unrolls(m, d) = Unroll(m, d)
    BY <1>2, <2>1, <2>2 DEF Unrolls
  <2>4. Shows(nn, c, a, d)
    <3>1. IsOf(nn[d], a) /\ IsPart(c, a, d)
      BY <1>14 DEF CanRead
    <3> QED
      BY <1>11, <2>1, <3>1 DEF Shows
  <2>5. AllDrawn(nn, c, a)
    BY <1>13, <2>4 DEF AllDrawn
  <2> QED
    BY <1>1, <1>11, <1>12, <1>15, <2>1, <2>3, <2>5, ExpandsWith
<1> QED
  BY <1>16, <1>17

LEMMA ExpandIs ==
    ASSUME NEW a \in Archives, NEW d \in DOMAIN Subdirs[a],
           NEW n, NEW c, NEW p, NEW ad, NEW ti, NEW ca, NEW th, NEW bu, NEW l,
           l = Listed(n, c, p, ad, ti, ca, th, bu), th \in BOOLEAN, ~th,
           IsSound(n, c, p, ad, ti), CanExpand(n, c, a, d)
    PROVE  Expands(GoExpand(l, a, d), ad, ti, bu, a, d, n)
<1>1. /\ d \in DOMAIN n /\ CanRead(n, c, a, d) /\ (IsCut(n[d]) \/ IsDrawn(n[d], a, d))
      /\ \A e \in DOMAIN n \ {d} : Shows(n, c, a, e)
  BY DEF CanExpand, CanRead
<1>2. CASE ~n[d].has_sub
  <2>1. GoExpand(l, a, d) = l
    BY <1>2, GoExpandNot
  <2>2. Shows(n, c, a, d)
    BY <1>2 DEF CanExpand
  <2>3. AllDrawn(n, c, a) /\ IsStill(n, n)
    BY <1>1, <2>2 DEF AllDrawn, IsStill
  <2> QED
    BY <2>1, <2>3, ExpandsWith
<1>3. CASE n[d].has_sub
  <2>1. PICK old : old = n[d]
    OBVIOUS
  <2>2. old \in NodeSet
    BY <1>1, <2>1, SoundIs
  <2>3. PICK node : node = Opened(old)
    OBVIOUS
  <2>4. /\ node \in NodeSet /\ (node.info_read <=> old.info_read) /\ node.shrink /\ ~node.expand
        /\ node.rows = old.rows /\ (IsCut(node) <=> IsCut(old))
        /\ (node.has_sub <=> old.has_sub) /\ (node.nosubdir <=> old.nosubdir)
    BY <2>2, <2>3, OpenedIs
  <2>5. PICK nn : nn = With(n, d, node)
    OBVIOUS
  <2>6. /\ IsSound(nn, c, p, ad, ti) /\ DOMAIN nn = DOMAIN n /\ nn[d] = node
        /\ \A e \in DOMAIN n : e # d => nn[e] = n[e]
    BY <1>1, <2>1, <2>4, <2>5, WithSound
  <2>7. PICK open : open = Listed(nn, c, p, ad, ti, ca, th, bu)
    OBVIOUS
  <2>8. GoExpand(l, a, d) = Unrolls(GoInitIndent(open, a, d), d)
    <3>1. nn = With(n, d, Opened(n[d]))
      BY <2>1, <2>3, <2>5
    <3> QED
      BY <1>3, <2>7, <3>1, GoExpandIs
  <2>9. CanRead(nn, c, a, d)
    BY <1>1, <2>1, <2>4, <2>6, CanReadWith
  <2>10. Indents(GoInitIndent(open, a, d), ad, ti, bu, a, d, nn)
    BY <2>6, <2>7, <2>9, IndentIs
  <2>11. ~IsCut(nn[d]) => /\ nn[d].shrink /\ ~nn[d].expand
                          /\ IsDrawn(nn[d], a, d) /\ Subdirs[a][d] # <<>>
    BY <1>1, <1>3, <2>1, <2>4, <2>6 DEF IsDrawn
  <2>12. d \in DOMAIN nn
    BY <1>1, <2>6
  <2>13. Expands(GoExpand(l, a, d), ad, ti, bu, a, d, nn)
    BY <2>8, <2>10, <2>11, <2>12, UnrollsExpands
  <2>14. IsStill(nn, n)
    BY <1>1, <2>1, <2>4, <2>6, StillWith DEF IsSeen
  <2>15. PICK n1, c1, p1, ca1, th1 :
            /\ GoExpand(l, a, d) = Listed(n1, c1, p1, ad, ti, ca1, th1, bu) /\ th1 \in BOOLEAN
            /\ IsSound(n1, c1, p1, ad, ti)
            /\ AllDrawn(n1, c1, a) /\ IsStill(n1, nn) /\ (th1 => IsCut(n1[d]))
    BY <2>13 DEF Expands
  <2>16. IsStill(n1, n)
    BY <2>14, <2>15, StillOn
  <2> QED
    BY <2>15, <2>16, ExpandsWith
<1> QED
  BY <1>2, <1>3

(* A child that leaves its parent.                                           *)
IsQuit(c, p, q, o, cc, pp) ==
    /\ IsHome(cc, pp)
    /\ Range(cc[q]) = Range(c[q]) \ {o} /\ (Range(c[q]) \subseteq {o} => cc[q] = <<>>)
    /\ pp[o] = None
    /\ \A r \in Components \ {q} : cc[r] = c[r]
    /\ \A r \in Components \ {o} : pp[r] = p[r]

LEMMA QuitForest ==
    ASSUME NEW c, NEW p, IsHome(c, p), NEW q \in Components, NEW o \in Components, p[o] = q,
           NEW cc, cc = Quitted(c, q, o), NEW pp, pp = Parented(p, o, None)
    PROVE  IsQuit(c, p, q, o, cc, pp)
<1>0. None \notin Components
  BY PartsAre
<1>1. /\ c \in [Components -> Seq(Components)] /\ p \in [Components -> Components \cup {None}]
      /\ IsForested(c, p)
  BY DEF IsHome
<1>2. PICK list : list = Without(c[q], {o})
  OBVIOUS
<1>3. /\ list \in Seq(Components) /\ Range(list) = Range(c[q]) \ {o} /\ IsInjective(list)
      /\ Range(c[q]) \subseteq {o} => list = <<>>
  <2>1. c[q] \in Seq(Components) /\ IsInjective(c[q])
    BY <1>1 DEF IsForested
  <2> QED
    BY <1>2, <2>1, WithoutIs
<1>4. cc = [c EXCEPT ![q] = list]
  BY <1>2 DEF Quitted
<1>5. /\ cc \in [Components -> Seq(Components)] /\ cc[q] = list
      /\ \A r \in Components \ {q} : cc[r] = c[r]
  BY <1>1, <1>3, <1>4
<1>6. /\ pp \in [Components -> Components \cup {None}] /\ pp[o] = None
      /\ \A r \in Components \ {o} : pp[r] = p[r]
  BY <1>1 DEF Parented
<1>7. ASSUME NEW u \in Components, NEW r \in Components
      PROVE  u \in Range(cc[r]) <=> pp[u] = r
  <2>1. u \in Range(c[r]) <=> p[u] = r
    BY <1>1 DEF IsForested
  <2>2. CASE r = q
    BY <1>0, <1>3, <1>5, <1>6, <2>1, <2>2
  <2>3. CASE r # q
    <3>1. cc[r] = c[r]
      BY <1>5, <2>3
    <3>2. CASE u = o
      BY <1>0, <1>6, <2>1, <2>3, <3>1, <3>2
    <3>3. CASE u # o
      BY <1>6, <2>1, <3>1, <3>3
    <3> QED
      BY <3>2, <3>3
  <2> QED
    BY <2>2, <2>3
<1>8. \A r \in Components : IsInjective(cc[r])
  <2>1. \A r \in Components : IsInjective(c[r])
    BY <1>1 DEF IsForested
  <2> QED
    BY <1>3, <1>5, <2>1
<1>9. IsForested(cc, pp)
  BY <1>7, <1>8 DEF IsForested
<1> QED
  BY <1>3, <1>5, <1>6, <1>9 DEF IsQuit, IsHome

(* Nothing is in the focus any more.                                         *)
IsEmptied(c, p, cc, pp) ==
    /\ IsHome(cc, pp) /\ cc[Focus] = <<>>
    /\ \A r \in Components \ {Focus} : cc[r] = c[r]
    /\ \A r \in Components : pp[r] = p[r] \/ pp[r] = None
    /\ \A e \in Dirs : pp[Contents(e)] = None

LEMMA HomeIs ==
    ASSUME NEW n, NEW c, NEW p, NEW ad, NEW ti, IsSound(n, c, p, ad, ti)
    PROVE  IsHome(c, p) /\ IsPlaced(n, c, p, ad)
BY SoundIs DEF IsHome, IsSound

LEMMA SingleIs ==
    ASSUME NEW x
    PROVE  Range(<<x>>) = {x} /\ Range(<<>>) = {} /\ Append(<<>>, x) = <<x>>
<1>1. PICK s : s = <<x>>
  OBVIOUS
<1>2. DOMAIN s = {1} /\ s[1] = x
  BY <1>1
<1>3. \A y : y \in Range(s) <=> \E k \in DOMAIN s : y = s[k]
  BY Zenon DEF Range
<1>4. Range(s) = {x}
  BY <1>2, <1>3
<1>5. PICK z : z = <<>>
  OBVIOUS
<1>6. DOMAIN z = {}
  BY <1>5
<1>7. \A y : y \in Range(z) <=> \E k \in DOMAIN z : y = z[k]
  BY Zenon DEF Range
<1>8. Range(z) = {}
  BY <1>6, <1>7
<1>9. Append(<<>>, x) = <<x>>
  OBVIOUS
<1> QED
  BY <1>1, <1>4, <1>5, <1>8, <1>9

LEMMA FocusLeft ==
    ASSUME NEW n, NEW c, NEW p, NEW ad, NEW ti, IsSound(n, c, p, ad, ti), ad # None,
           NEW cc, cc = Quitted(c, Focus, ad), NEW pp, pp = Parented(p, ad, None)
    PROVE  CanForesake(c, p, Focus, ad) /\ IsEmptied(c, p, cc, pp)
<1>1. IsHome(c, p) /\ IsPlaced(n, c, p, ad) /\ ad \in Components /\ Focus \in Components
  BY HomeIs, SoundIs, PartsAre
<1>2. PICK list : list = c[Focus]
  OBVIOUS
<1>3. list = <<ad>>
  BY <1>1, <1>2 DEF IsPlaced
<1>4. Range(list) = {ad}
  BY <1>3, SingleIs
<1>5. \A o \in Components : o \in Range(list) <=> p[o] = Focus
  BY <1>1, <1>2 DEF IsHome, IsForested
<1>6. p[ad] = Focus /\ Focus # None
  BY <1>1, <1>4, <1>5, PartsAre
<1>7. CanForesake(c, p, Focus, ad)
  BY <1>2, <1>4, <1>6 DEF CanForesake
<1>8. IsQuit(c, p, Focus, ad, cc, pp)
  BY <1>1, <1>6, QuitForest
<1>9. /\ IsHome(cc, pp) /\ pp[ad] = None /\ cc[Focus] = <<>>
      /\ \A r \in Components \ {Focus} : cc[r] = c[r]
      /\ \A r \in Components \ {ad} : pp[r] = p[r]
  BY <1>2, <1>4, <1>8 DEF IsQuit
<1>10. ASSUME NEW e \in Dirs PROVE pp[Contents(e)] = None
  <2>1. Contents(e) \in Components /\ p[Contents(e)] \in {None, Focus}
    BY <1>1, PartsAre DEF IsPlaced
  <2>2. CASE Contents(e) = ad
    BY <1>9, <2>2
  <2>3. CASE Contents(e) # ad
    BY <1>4, <1>5, <1>9, <2>1, <2>3
  <2> QED
    BY <2>2, <2>3
<1>11. \A r \in Components : pp[r] = p[r] \/ pp[r] = None
  BY <1>9
<1> QED
  BY <1>7, <1>9, <1>10, <1>11 DEF IsEmptied

LEMMA FocusNone ==
    ASSUME NEW n, NEW c, NEW p, NEW ti, IsSound(n, c, p, None, ti)
    PROVE  IsEmptied(c, p, c, p)
<1>1. IsHome(c, p) /\ IsPlaced(n, c, p, None) /\ Focus \in Components
  BY HomeIs, PartsAre
<1>2. c[Focus] = <<>>
  BY <1>1 DEF IsPlaced
<1>3. PICK list : list = c[Focus]
  OBVIOUS
<1>4. Range(list) = {}
  BY <1>2, <1>3, SingleIs
<1>5. \A o \in Components : o \in Range(list) <=> p[o] = Focus
  BY <1>1, <1>3 DEF IsHome, IsForested
<1>6. ASSUME NEW e \in Dirs PROVE p[Contents(e)] = None
  <2>1. Contents(e) \in Components /\ p[Contents(e)] \in {None, Focus}
    BY <1>1, PartsAre DEF IsPlaced
  <2> QED
    BY <1>4, <1>5, <2>1
<1> QED
  BY <1>1, <1>2, <1>6 DEF IsEmptied

(* What the focus is given.                                                  *)
LEMMA GivenSound ==
    ASSUME NEW n, NEW c, NEW p, NEW ad, NEW ti, IsSound(n, c, p, ad, ti), NEW d \in DOMAIN n,
           NEW c1, NEW p1, IsEmptied(c, p, c1, p1),
           NEW o, o = Contents(d),
           NEW cc, cc = Joined(c1, Focus, o), NEW pp, pp = Parented(p1, o, Focus)
    PROVE  /\ CanAdopt(c1, p1, Focus, o) /\ IsSound(n, cc, pp, o, d)
           /\ \A e \in Dirs : cc[ForSubdirs(e)] = c[ForSubdirs(e)]
<1>1. IsPlaced(n, c, p, ad) /\ d \in Dirs /\ Focus \in Components /\ DOMAIN n \subseteq Dirs
  BY HomeIs, SoundIs, PartsAre
<1>2. o \in Components /\ o # Focus
  BY <1>1, PartsAre, PartsDiffer
<1>3. /\ IsHome(c1, p1) /\ c1[Focus] = <<>>
      /\ \A r \in Components \ {Focus} : c1[r] = c[r]
      /\ \A r \in Components : p1[r] = p[r] \/ p1[r] = None
      /\ \A e \in Dirs : p1[Contents(e)] = None
  BY DEF IsEmptied
<1>4. IsOrphan(p1, o)
  BY <1>1, <1>3 DEF IsOrphan
<1>5. IsAdoption(c1, p1, Focus, o, cc, pp)
  BY <1>1, <1>2, <1>3, <1>4, AdoptForest
<1>6. /\ IsHome(cc, pp) /\ o \notin Range(c1[Focus]) /\ cc[Focus] = Append(c1[Focus], o)
      /\ pp[o] = Focus
      /\ \A r \in Components \ {Focus} : cc[r] = c1[r]
      /\ \A r \in Components \ {o} : pp[r] = p1[r]
  BY <1>5 DEF IsAdoption
<1>7. CanAdopt(c1, p1, Focus, o)
  BY <1>2, <1>4, <1>6 DEF CanAdopt, IsOrphan
<1>8. cc[Focus] = <<o>>
  <2>1. PICK list : list = c1[Focus]
    OBVIOUS
  <2>2. list = <<>> /\ cc[Focus] = Append(list, o)
    BY <1>3, <1>6, <2>1
  <2> QED
    BY <2>2, SingleIs
<1>9. \A r \in Components \ {Focus} : cc[r] = c[r]
  BY <1>3, <1>6
<1>10. ASSUME NEW e \in Dirs PROVE pp[Contents(e)] \in {None, Focus}
  <2>1. Contents(e) \in Components
    BY PartsAre
  <2> QED
    BY <1>3, <1>6, <2>1
<1>11. ASSUME NEW e \in Dirs \ DOMAIN n, NEW q \in PartsOf(e)
       PROVE  pp[q] = None /\ cc[q] = <<>>
  <2>1. p[q] = None /\ c[q] = <<>>
    BY <1>1 DEF IsPlaced
  <2>2. q \in Components /\ q # o /\ q # Focus
    BY <1>1, <1>11, PartsAre, PartsDiffer
  <2> QED
    BY <1>3, <1>6, <1>9, <2>1, <2>2
<1>12. ASSUME NEW e \in Dirs, NEW u \in Components, pp[u] = ForSubdirs(e)
       PROVE  \E x \in Symbols : Append(e, x) \in DOMAIN n /\ u = Tree(Append(e, x))
  <2>1. ForSubdirs(e) \in Components /\ ForSubdirs(e) # Focus /\ None \notin Components
    BY PartsAre, PartsDiffer
  <2>2. u # o
    BY <1>6, <1>12, <2>1
  <2>3. p[u] = ForSubdirs(e)
    BY <1>3, <1>6, <1>12, <2>1, <2>2
  <2> QED
    BY <1>1, <2>3 DEF IsPlaced
<1>13. IsPlaced(n, cc, pp, o)
  <2>1. o # None
    BY <1>2, PartsAre
  <2> QED
    BY <1>8, <1>10, <1>11, <1>12, <2>1 DEF IsPlaced
<1>14. IsTyped(n, cc, pp, o, d) /\ IsForested(cc, pp) /\ IsGrown(n)
  BY <1>1, <1>2, <1>6 DEF IsTyped, IsHome, IsSound
<1>15. \A e \in Dirs : cc[ForSubdirs(e)] = c[ForSubdirs(e)]
  BY <1>9, PartsAre, PartsDiffer
<1>16. IsTitled(n, o, d)
  BY DEF IsTitled
<1> QED
  BY <1>7, <1>13, <1>14, <1>15, <1>16 DEF IsSound

Held(l, o) == [l EXCEPT !.adopted = o]

Titled(l, d) == [l EXCEPT !.title = d]

LEMMA HeldIs ==
    ASSUME NEW n, NEW c, NEW p, NEW ad, NEW ti, NEW ca, NEW th, NEW bu, NEW l,
           l = Listed(n, c, p, ad, ti, ca, th, bu), NEW o
    PROVE  Held(l, o) = Listed(n, c, p, o, ti, ca, th, bu)
BY DEF Held, Listed

LEMMA TitledIs ==
    ASSUME NEW n, NEW c, NEW p, NEW ad, NEW ti, NEW ca, NEW th, NEW bu, NEW l,
           l = Listed(n, c, p, ad, ti, ca, th, bu), NEW d
    PROVE  Titled(l, d) = Listed(n, c, p, ad, d, ca, th, bu)
BY DEF Titled, Listed

(* What the focus held leaves it.                                            *)
Left(l) == IF l.adopted = None THEN l ELSE Foresake(l, Focus, l.adopted)

LEMMA LeftIs ==
    ASSUME NEW n, NEW c, NEW p, NEW ad, NEW ti, NEW ca, NEW th, NEW bu, NEW l,
           l = Listed(n, c, p, ad, ti, ca, th, bu), IsSound(n, c, p, ad, ti)
    PROVE  \E c1, p1 : Left(l) = Listed(n, c1, p1, ad, ti, ca, th, bu) /\ IsEmptied(c, p, c1, p1)
<1>1. l.adopted = ad
  BY FieldsAre
<1>2. CASE ad = None
  <2>1. Left(l) = l
    BY <1>1, <1>2 DEF Left
  <2>2. IsEmptied(c, p, c, p)
    BY <1>2, FocusNone
  <2> QED
    BY <2>1, <2>2
<1>3. CASE ad # None
  <2>1. PICK cc : cc = Quitted(c, Focus, ad)
    OBVIOUS
  <2>2. PICK pp : pp = Parented(p, ad, None)
    OBVIOUS
  <2>3. CanForesake(c, p, Focus, ad) /\ IsEmptied(c, p, cc, pp)
    BY <1>3, <2>1, <2>2, FocusLeft
  <2>4. Foresake(l, Focus, ad) = Listed(n, cc, pp, ad, ti, ca, th, bu)
    BY <2>1, <2>2, <2>3, ForesakeIs
  <2>5. Left(l) = Foresake(l, Focus, ad)
    BY <1>1, <1>3 DEF Left
  <2> QED
    BY <2>3, <2>4, <2>5
<1> QED
  BY <1>2, <1>3

LEMMA GiveIs ==
    ASSUME NEW n, NEW c, NEW p, NEW ad, NEW ti, NEW ca, NEW th, NEW bu, NEW l,
           l = Listed(n, c, p, ad, ti, ca, th, bu), IsSound(n, c, p, ad, ti), NEW d \in DOMAIN n,
           NEW o, o = Contents(d)
    PROVE  \E cc, pp : /\ Titled(Give(l, d), d) = Listed(n, cc, pp, o, d, ca, th, bu)
                       /\ IsSound(n, cc, pp, o, d)
                       /\ \A e \in Dirs : cc[ForSubdirs(e)] = c[ForSubdirs(e)]
<1>1. PICK c1, p1 : Left(l) = Listed(n, c1, p1, ad, ti, ca, th, bu) /\ IsEmptied(c, p, c1, p1)
  BY LeftIs
<1>2. PICK left : left = Left(l)
  OBVIOUS
<1>3. Held(left, o) = Listed(n, c1, p1, o, ti, ca, th, bu)
  BY <1>1, <1>2, HeldIs
<1>4. PICK cc : cc = Joined(c1, Focus, o)
  OBVIOUS
<1>5. PICK pp : pp = Parented(p1, o, Focus)
  OBVIOUS
<1>6. /\ CanAdopt(c1, p1, Focus, o) /\ IsSound(n, cc, pp, o, d)
      /\ \A e \in Dirs : cc[ForSubdirs(e)] = c[ForSubdirs(e)]
  BY <1>1, <1>4, <1>5, GivenSound
<1>7. PICK held : held = Held(left, o)
  OBVIOUS
<1>8. Adopt(held, Focus, o) = Listed(n, cc, pp, o, ti, ca, th, bu)
  BY <1>3, <1>4, <1>5, <1>6, <1>7, AdoptIs
<1>9. Give(l, d) = Adopt(held, Focus, o)
  BY <1>2, <1>7 DEF Give, Left, Held
<1>10. Titled(Give(l, d), d) = Listed(n, cc, pp, o, d, ca, th, bu)
  BY <1>8, <1>9, TitledIs
<1> QED
  BY <1>6, <1>10

(* What a handler leaves, wherever libdar threw.                             *)
Handles(m, bu, a) ==
    \E n, c, p, ad, ti, ca, th :
        /\ m = Listed(n, c, p, ad, ti, ca, th, bu) /\ th \in BOOLEAN
        /\ IsSound(n, c, p, ad, ti) /\ AllShown(n, c, a, ad, ti)

LEMMA HandlesWith ==
    ASSUME NEW n, NEW c, NEW p, NEW ad, NEW ti, NEW ca, NEW th, NEW bu, NEW m,
           m = Listed(n, c, p, ad, ti, ca, th, bu), th \in BOOLEAN,
           IsSound(n, c, p, ad, ti), NEW a, AllShown(n, c, a, ad, ti)
    PROVE  Handles(m, bu, a)
BY DEF Handles

LEMMA IndentsHandles ==
    ASSUME NEW a \in Archives, NEW d \in DOMAIN Subdirs[a], NEW m, NEW bu, NEW known,
           NEW o, o = Contents(d), Indents(m, o, d, bu, a, d, known),
           NEW look, Shows(known, look, a, d)
    PROVE  Handles(m, bu, a)
<1>1. PICK n, c, p, ca, th :
        /\ m = Listed(n, c, p, o, d, ca, th, bu) /\ th \in BOOLEAN
        /\ IsSound(n, c, p, o, d)
        /\ IsIndented(n, c, a, d, known)
  BY DEF Indents
<1>2. /\ CanRead(n, c, a, d) /\ n[d].info_read
      /\ IsCut(n[d]) \/ (~IsCut(known[d]) /\ Looks(n[d], known[d]))
  BY <1>1 DEF IsIndented
<1>3. /\ d \in DOMAIN n /\ IsOf(n[d], a) /\ IsPart(c, a, d)
      /\ n[d].info_read /\ ~IsCut(n[d]) => n[d].rows = a /\ IsWhole(c, a, d)
      /\ \A e \in DOMAIN n \ {d} : Shows(n, c, a, e)
  BY <1>2 DEF CanRead
<1>4. Shows(n, c, a, d)
  <2>1. CASE IsCut(n[d])
    BY <1>2, <2>1, CutShows
  <2>2. CASE ~IsCut(n[d])
    <3>1. PICK old : old = known[d]
      OBVIOUS
    <3>2. PICK new : new = n[d]
      OBVIOUS
    <3>3. IsOffered(old, a, d)
      BY <1>2, <2>2, <3>1 DEF Shows
    <3>4. Looks(new, old) /\ new.info_read
      BY <1>2, <2>2, <3>1, <3>2
    <3>5. IsOffered(new, a, d)
      BY <3>3, <3>4 DEF IsOffered, IsDrawn, Looks
    <3> QED
      BY <1>2, <1>3, <2>2, <3>2, <3>5 DEF Shows
  <2> QED
    BY <2>1, <2>2
<1>5. o # None
  <2>1. d \in Dirs
    BY SubdirsAre
  <2> QED
    BY <2>1, PartsAre
<1>6. AllShown(n, c, a, o, d)
  BY <1>2, <1>3, <1>4, <1>5 DEF AllShown, IsSeen
<1> QED
  BY <1>1, <1>6, HandlesWith

LEMMA ShowIs ==
    ASSUME NEW a \in Archives,
           NEW n, NEW c, NEW p, NEW ad, NEW ti, NEW ca, NEW th, NEW bu, NEW l,
           l = Listed(n, c, p, ad, ti, ca, th, bu), th \in BOOLEAN, ~th,
           IsSound(n, c, p, ad, ti), AllDrawn(n, c, a), NEW d \in DOMAIN n
    PROVE  Handles(GoShow(l, a, d), bu, a)
<1>1. d \in DOMAIN Subdirs[a] /\ DOMAIN n \subseteq Dirs
  BY DrawnCanExpand, SoundIs
<1>2. PICK o : o = Contents(d)
  OBVIOUS
<1>3. PICK cc, pp : /\ Titled(Give(l, d), d) = Listed(n, cc, pp, o, d, ca, th, bu)
                    /\ IsSound(n, cc, pp, o, d)
                    /\ \A e \in Dirs : cc[ForSubdirs(e)] = c[ForSubdirs(e)]
  BY <1>2, GiveIs
<1>4. PICK m : m = Titled(Give(l, d), d)
  OBVIOUS
<1>5. GoShow(l, a, d) = GoInitIndent(m, a, d)
  BY <1>4 DEF GoShow, Titled
<1>6. AllDrawn(n, cc, a)
  <2>1. ASSUME NEW e \in DOMAIN n PROVE Shows(n, cc, a, e)
    <3>1. Shows(n, c, a, e) /\ e \in Dirs
      BY <1>1 DEF AllDrawn
    <3>2. cc[ForSubdirs(e)] = c[ForSubdirs(e)]
      BY <1>3, <3>1
    <3> QED
      BY <3>1, <3>2, ShowsSame
  <2> QED
    BY <2>1 DEF AllDrawn
<1>7. CanRead(n, cc, a, d)
  <2>1. CanExpand(n, cc, a, d)
    BY <1>6, DrawnCanExpand
  <2> QED
    BY <2>1 DEF CanExpand
<1>8. Indents(GoInitIndent(m, a, d), o, d, bu, a, d, n)
  BY <1>1, <1>3, <1>4, <1>7, IndentIs
<1>9. Shows(n, c, a, d)
  BY DEF AllDrawn
<1> QED
  BY <1>1, <1>2, <1>5, <1>8, <1>9, IndentsHandles

LEMMA ShrinkHandles ==
    ASSUME NEW a \in Archives,
           NEW n, NEW c, NEW p, NEW ad, NEW ti, NEW ca, NEW th, NEW bu, NEW l,
           l = Listed(n, c, p, ad, ti, ca, th, bu), th \in BOOLEAN,
           IsSound(n, c, p, ad, ti), AllShown(n, c, a, ad, ti), NEW d \in DOMAIN n
    PROVE  Handles(GoShrink(l, d), bu, a)
<1>1. PICK old : old = n[d]
  OBVIOUS
<1>2. GoShrink(l, d) = IF ~old.has_sub THEN l
                       ELSE Listed(With(n, d, Shrunk(old)), c, p, ad, ti, ca, th, bu)
  BY <1>1, GoShrinkIs
<1>3. CASE ~old.has_sub
  <2>1. GoShrink(l, d) = l
    BY <1>2, <1>3
  <2> QED
    BY <2>1, HandlesWith
<1>4. CASE old.has_sub
  <2>1. /\ old \in NodeSet /\ Shows(n, c, a, d) /\ d \in DOMAIN Subdirs[a]
        /\ \A e \in DOMAIN n : Shows(n, c, a, e)
        /\ (ad = None => IsCut(n[Root])) /\ (ad # None => IsSeen(n[ti]))
        /\ Root \in DOMAIN n /\ (ad = None \/ ti \in DOMAIN n)
    BY <1>1, SoundIs DEF AllShown, Shows, IsSound, IsTitled
  <2>2. PICK node : node = Shrunk(old)
    OBVIOUS
  <2>3. /\ node \in NodeSet /\ (node.info_read <=> old.info_read)
        /\ (node.has_sub <=> old.has_sub) /\ (node.nosubdir <=> old.nosubdir)
        /\ node.rows = old.rows /\ ~node.shrink /\ node.expand
        /\ (IsCut(node) <=> IsCut(old))
    BY <2>1, <2>2, ShrunkIs
  <2>4. PICK nn : nn = With(n, d, node)
    OBVIOUS
  <2>5. /\ IsSound(nn, c, p, ad, ti) /\ DOMAIN nn = DOMAIN n /\ nn[d] = node
        /\ \A e \in DOMAIN n : e # d => nn[e] = n[e]
    BY <1>1, <2>3, <2>4, WithSound
  <2>6. /\ IsOf(old, a) /\ IsPart(c, a, d)
        /\ ~IsCut(old) => /\ IsDrawn(old, a, d)
                          /\ old.info_read => old.rows = a /\ IsWhole(c, a, d)
    BY <1>1, <2>1 DEF Shows, IsOffered
  <2>7. ~IsCut(old) => IsOffered(node, a, d)
    BY <1>4, <2>3, <2>6 DEF IsDrawn, IsOffered
  <2>a. IsOf(node, a)
    BY <2>3, <2>6 DEF IsOf
  <2>8. Shows(nn, c, a, d)
    BY <2>1, <2>3, <2>5, <2>6, <2>7, <2>a DEF Shows
  <2>9. \A e \in DOMAIN n : e # d => Shows(nn, c, a, e)
    BY <2>1, <2>5, ShowsSame
  <2>10. /\ ad = None => IsCut(nn[Root])
         /\ ad # None => IsSeen(nn[ti])
    BY <1>1, <2>1, <2>3, <2>5 DEF IsSeen
  <2>11. AllShown(nn, c, a, ad, ti)
    BY <2>1, <2>5, <2>8, <2>9, <2>10 DEF AllShown
  <2>12. GoShrink(l, d) = Listed(nn, c, p, ad, ti, ca, th, bu)
    BY <1>2, <1>4, <2>2, <2>4
  <2> QED
    BY <2>5, <2>11, <2>12, HandlesWith
<1> QED
  BY <1>3, <1>4

LEMMA ExpandHandles ==
    ASSUME NEW a \in Archives,
           NEW n, NEW c, NEW p, NEW ad, NEW ti, NEW ca, NEW th, NEW bu, NEW l,
           l = Listed(n, c, p, ad, ti, ca, th, bu), th \in BOOLEAN, ~th,
           IsSound(n, c, p, ad, ti), AllShown(n, c, a, ad, ti), NEW d \in DOMAIN n
    PROVE  Handles(GoExpand(l, a, d), bu, a)
<1>1. /\ AllDrawn(n, c, a) /\ (ad = None => IsCut(n[Root])) /\ (ad # None => IsSeen(n[ti]))
      /\ Root \in DOMAIN n /\ (ad = None \/ ti \in DOMAIN n)
  BY SoundIs DEF AllShown, AllDrawn, IsSound, IsTitled
<1>2. d \in DOMAIN Subdirs[a] /\ CanExpand(n, c, a, d)
  BY <1>1, DrawnCanExpand
<1>3. Expands(GoExpand(l, a, d), ad, ti, bu, a, d, n)
  BY <1>2, ExpandIs
<1>4. PICK n1, c1, p1, ca1, th1 :
        /\ GoExpand(l, a, d) = Listed(n1, c1, p1, ad, ti, ca1, th1, bu) /\ th1 \in BOOLEAN
        /\ IsSound(n1, c1, p1, ad, ti)
        /\ AllDrawn(n1, c1, a) /\ IsStill(n1, n)
  BY <1>3 DEF Expands
<1>5. AllShown(n1, c1, a, ad, ti)
  <2>1. /\ ad = None => IsCut(n1[Root])
        /\ ad # None => IsSeen(n1[ti])
    BY <1>1, <1>4 DEF IsStill
  <2> QED
    BY <1>4, <2>1 DEF AllDrawn, AllShown
<1> QED
  BY <1>4, <1>5, HandlesWith

LEMMA EventHandles ==
    ASSUME NEW a \in Archives,
           NEW n, NEW c, NEW p, NEW ad, NEW ti, NEW ca, NEW th, NEW bu, NEW l,
           l = Listed(n, c, p, ad, ti, ca, th, bu), th \in BOOLEAN, ~th,
           IsSound(n, c, p, ad, ti), AllShown(n, c, a, ad, ti), NEW d \in DOMAIN n,
           NEW button \in {"shrink", "expand", "name"}
    PROVE  Handles(OnEvent(l, a, d, button), bu, a)
<1>1. CASE button = "shrink"
  <2>1. OnEvent(l, a, d, button) = GoShrink(l, d)
    BY <1>1 DEF OnEvent
  <2> QED
    BY <2>1, ShrinkHandles
<1>2. CASE button = "expand"
  <2>1. OnEvent(l, a, d, button) = GoExpand(l, a, d)
    BY <1>2 DEF OnEvent
  <2> QED
    BY <2>1, ExpandHandles
<1>3. CASE button = "name"
  <2>1. OnEvent(l, a, d, button) = GoShow(l, a, d)
    BY <1>3 DEF OnEvent
  <2>2. AllDrawn(n, c, a)
    BY DEF AllShown, AllDrawn
  <2> QED
    BY <2>1, <2>2, ShowIs
<1> QED
  BY <1>1, <1>2, <1>3

(* html_listing_page::set_source.                                            *)
LEMMA ListHandles ==
    ASSUME NEW a \in Archives,
           NEW n, NEW c, NEW p, NEW ad, NEW ti, NEW ca, NEW th, NEW bu, NEW l,
           l = Listed(n, c, p, ad, ti, ca, th, bu), th \in BOOLEAN, ~th,
           IsSound(n, c, p, ad, ti), IsFresh(n)
    PROVE  Handles(List(l, a), bu, a)
<1>1. /\ DOMAIN n = {Root} /\ ~n[Root].info_read /\ n[Root].has_sub /\ n[Root].rows = None
      /\ Root \in DOMAIN Subdirs[a]
  BY ListingAssumption DEF IsFresh
<1>2. PICK old : old = n[Root]
  OBVIOUS
<1>3. old \in NodeSet
  BY <1>1, <1>2, SoundIs
<1>a. ad = None \/ ti = Root
  BY <1>1 DEF IsSound, IsTitled
<1>b. IsPart(c, a, Root)
  BY <1>1, NothingRead, NoTrees DEF IsPart
<1>4. PICK left : left = Less(ca)
  OBVIOUS
<1>5. PICK node : node = Source(a, Root, old)
  OBVIOUS
<1>6. PICK nn : nn = With(n, Root, node)
  OBVIOUS
<1>7. SetSource(l, a, Root) =
        IF ca = 0 THEN Thrown(l) ELSE Listed(nn, c, p, ad, ti, left, th, bu)
  BY <1>2, <1>4, <1>5, <1>6, SetSourceIs
<1>8. PICK set : set = SetSource(l, a, Root)
  OBVIOUS
<1>9. PICK grown : grown = GoExpand(set, a, Root)
  OBVIOUS
<1>10. List(l, a) = IF set.thrown THEN Cut(set, Root, "source")
                    ELSE IF grown.thrown THEN grown ELSE GoShow(grown, a, Root)
  BY <1>8, <1>9 DEF List
<1>11. CASE ca = 0
  <2>1. set = Stopped(n, c, p, ad, ti, ca, bu)
    BY <1>7, <1>8, <1>11, ThrownIs
  <2>2. PICK yes : yes = TRUE
    OBVIOUS
  <2>3. set = Listed(n, c, p, ad, ti, ca, yes, bu)
    BY <2>1, <2>2 DEF Stopped
  <2>4. set.thrown = yes
    BY <2>3, FieldsAre
  <2>5. PICK call : call = "source"
    OBVIOUS
  <2>6. List(l, a) = Cut(set, Root, call)
    BY <1>10, <2>2, <2>4, <2>5
  <2>7. PICK cut : cut = Cutting(old, call)
    OBVIOUS
  <2>8. cut \in NodeSet /\ (cut.info_read <=> old.info_read) /\ cut.rows = old.rows /\ IsCut(cut)
    BY <1>3, <2>5, <2>7, CuttingIs
  <2>9. PICK new : new = With(n, Root, cut)
    OBVIOUS
  <2>10. IsSound(new, c, p, ad, ti) /\ DOMAIN new = {Root} /\ new[Root] = cut
    BY <1>1, <1>2, <2>8, <2>9, WithSound
  <2>11. Cut(set, Root, call) = Listed(new, c, p, ad, ti, ca, yes, bu)
    <3>1. new = With(n, Root, Cutting(n[Root], call))
      BY <1>2, <2>7, <2>9
    <3> QED
      BY <2>3, <3>1, CutInto
  <2>12. Shows(new, c, a, Root)
    <3>1. IsOf(cut, a)
      BY <1>1, <1>2, <2>8 DEF IsOf
    <3> QED
      BY <1>1, <1>b, <2>8, <2>10, <3>1 DEF Shows
  <2>13. AllShown(new, c, a, ad, ti)
    BY <1>a, <2>8, <2>10, <2>12 DEF AllShown, IsSeen
  <2> QED
    BY <2>2, <2>6, <2>10, <2>11, <2>13, HandlesWith
<1>12. CASE ca # 0
  <2>1. set = Listed(nn, c, p, ad, ti, left, th, bu)
    BY <1>7, <1>8, <1>12
  <2>2. set.thrown = th
    BY <2>1, FieldsAre
  <2>3. /\ node \in NodeSet /\ (node.info_read <=> old.info_read) /\ node.rows = None
        /\ HasSub(a, Root) => (node.has_sub <=> old.has_sub) /\ ~node.nosubdir
        /\ ~HasSub(a, Root) => /\ ~node.has_sub /\ node.nosubdir
                               /\ ~node.shrink /\ ~node.expand
    BY <1>1, <1>2, <1>3, <1>5, SourceIs
  <2>4. /\ IsSound(nn, c, p, ad, ti) /\ DOMAIN nn = DOMAIN n /\ nn[Root] = node
    BY <1>1, <1>2, <1>6, <2>3, WithSound
  <2>5. IsDrawn(node, a, Root) /\ ~node.info_read
    BY <1>1, <1>2, <2>3 DEF IsDrawn, HasSub
  <2>a. IsOf(node, a)
    BY <2>3 DEF IsOf
  <2>6. ~node.has_sub => Shows(nn, c, a, Root)
    <3>1. ~node.has_sub => IsOffered(node, a, Root)
      BY <1>1, <1>2, <2>3, <2>5 DEF HasSub, IsOffered
    <3> QED
      BY <1>1, <1>b, <2>4, <2>5, <2>a, <3>1 DEF Shows
  <2>7. CanExpand(nn, c, a, Root)
    BY <1>1, <1>b, <2>4, <2>5, <2>6, <2>a DEF CanExpand, CanRead
  <2>8. Expands(grown, ad, ti, bu, a, Root, nn)
    BY <1>1, <1>9, <2>1, <2>4, <2>7, ExpandIs
  <2>9. PICK n1, c1, p1, ca1, th1 :
          /\ grown = Listed(n1, c1, p1, ad, ti, ca1, th1, bu) /\ th1 \in BOOLEAN
          /\ IsSound(n1, c1, p1, ad, ti)
          /\ AllDrawn(n1, c1, a) /\ (th1 => IsCut(n1[Root]))
    BY <2>8 DEF Expands
  <2>10. grown.thrown = th1
    BY <2>9, FieldsAre
  <2>11. CASE th1
    <3>1. List(l, a) = grown
      BY <1>10, <2>2, <2>10, <2>11
    <3>2. AllShown(n1, c1, a, ad, ti)
      BY <1>a, <2>9, <2>11 DEF AllShown, AllDrawn, IsSeen
    <3> QED
      BY <2>9, <3>1, <3>2, HandlesWith
  <2>12. CASE ~th1
    <3>1. List(l, a) = GoShow(grown, a, Root)
      BY <1>10, <2>2, <2>10, <2>12
    <3>2. Root \in DOMAIN n1
      BY <2>9, SoundIs
    <3>3. Handles(GoShow(grown, a, Root), bu, a)
      BY <2>9, <2>12, <3>2, ShowIs
    <3> QED
      BY <3>1, <3>3
  <2> QED
    BY <2>9, <2>11, <2>12
<1> QED
  BY <1>11, <1>12

(* Components that are destroyed.                                            *)
Deprived(c, S) == [q \in DOMAIN c |-> IF q \in S THEN <<>> ELSE Without(c[q], S)]

Orphaned(p, S) == [o \in DOMAIN p |-> IF o \in S \/ p[o] \in S THEN None ELSE p[o]]

LEMMA DestroyIs ==
    ASSUME NEW n, NEW c, NEW p, NEW ad, NEW ti, NEW ca, NEW th, NEW bu, NEW l,
           l = Listed(n, c, p, ad, ti, ca, th, bu), NEW S
    PROVE  Destroy(l, S) = Listed(n, Deprived(c, S), Orphaned(p, S), ad, ti, ca, th, bu)
<1>1. l.children = c /\ l.parent = p
  BY FieldsAre
<1>2. PICK cc : cc = Deprived(c, S)
  OBVIOUS
<1>3. PICK pp : pp = Orphaned(p, S)
  OBVIOUS
<1>4. Destroy(l, S) = [l EXCEPT !.children = cc, !.parent = pp]
  BY <1>1, <1>2, <1>3, Zenon DEF Destroy, Deprived, Orphaned
<1>5. [l EXCEPT !.children = cc, !.parent = pp] = Listed(n, cc, pp, ad, ti, ca, th, bu)
  <2>1. PICK m : m = [l EXCEPT !.children = cc]
    OBVIOUS
  <2>2. m = Listed(n, cc, p, ad, ti, ca, th, bu)
    BY <2>1 DEF Listed
  <2>3. [m EXCEPT !.parent = pp] = Listed(n, cc, pp, ad, ti, ca, th, bu)
    BY <2>2 DEF Listed
  <2>4. [l EXCEPT !.children = cc, !.parent = pp] = [[l EXCEPT !.children = cc] EXCEPT !.parent = pp]
    OBVIOUS
  <2> QED
    BY <2>1, <2>3, <2>4
<1> QED
  BY <1>2, <1>3, <1>4, <1>5

IsDestroyed(c, p, S, cc, pp) ==
    /\ IsHome(cc, pp)
    /\ \A q \in Components : /\ q \in S => cc[q] = <<>> /\ pp[q] = None
                             /\ p[q] \in S => pp[q] = None
                             /\ pp[q] = p[q] \/ pp[q] = None
                             /\ Range(c[q]) \cap S = {} /\ q \notin S => cc[q] = c[q]
                             /\ Range(c[q]) \subseteq S => cc[q] = <<>>

LEMMA DestroyForest ==
    ASSUME NEW c, NEW p, IsHome(c, p), NEW S, None \notin S,
           NEW cc, cc = Deprived(c, S), NEW pp, pp = Orphaned(p, S)
    PROVE  IsDestroyed(c, p, S, cc, pp)
<1>0. None \notin Components
  BY PartsAre
<1>1. /\ c \in [Components -> Seq(Components)] /\ p \in [Components -> Components \cup {None}]
      /\ IsForested(c, p)
  BY DEF IsHome
<1>2. ASSUME NEW q \in Components
      PROVE  /\ cc[q] \in Seq(Components) /\ IsInjective(cc[q])
             /\ q \in S => cc[q] = <<>>
             /\ q \notin S => Range(cc[q]) = Range(c[q]) \ S
             /\ Range(c[q]) \cap S = {} /\ q \notin S => cc[q] = c[q]
             /\ Range(c[q]) \subseteq S => cc[q] = <<>>
  <2>1. PICK list : list = Without(c[q], S)
    OBVIOUS
  <2>2. PICK none : none = <<>>
    OBVIOUS
  <2>3. cc[q] = IF q \in S THEN none ELSE list
    BY <1>1, <2>1, <2>2 DEF Deprived
  <2>4. c[q] \in Seq(Components) /\ IsInjective(c[q])
    BY <1>1 DEF IsForested
  <2>5. /\ list \in Seq(Components) /\ Range(list) = Range(c[q]) \ S /\ IsInjective(list)
        /\ Range(c[q]) \cap S = {} => list = c[q]
        /\ Range(c[q]) \subseteq S => list = none
    BY <2>1, <2>2, <2>4, WithoutIs
  <2>6. none \in Seq(Components) /\ IsInjective(none)
    <3>1. DOMAIN none = {}
      BY <2>2
    <3>2. PICK T : T = Components
      OBVIOUS
    <3>3. <<>> \in Seq(T)
      OBVIOUS
    <3> QED
      BY <2>2, <3>1, <3>2, <3>3 DEF IsInjective
  <2> QED
    BY <2>2, <2>3, <2>5, <2>6
<1>3. /\ cc \in [Components -> Seq(Components)]
  <2>1. DOMAIN cc = Components
    BY <1>1 DEF Deprived
  <2>2. cc = [q \in Components |-> cc[q]]
    BY <1>1, <2>1 DEF Deprived
  <2> QED
    BY <1>2, <2>2
<1>4. /\ pp \in [Components -> Components \cup {None}]
      /\ \A o \in Components : pp[o] = IF o \in S \/ p[o] \in S THEN None ELSE p[o]
  BY <1>1 DEF Orphaned
<1>5. ASSUME NEW u \in Components, NEW r \in Components
      PROVE  u \in Range(cc[r]) <=> pp[u] = r
  <2>1. u \in Range(c[r]) <=> p[u] = r
    BY <1>1 DEF IsForested
  <2>2. CASE r \in S
    <3>1. cc[r] = <<>>
      BY <1>2, <2>2
    <3>2. u \notin Range(cc[r])
      BY <3>1, SingleIs
    <3> QED
      BY <1>0, <1>4, <2>2, <3>2
  <2>3. CASE r \notin S
    <3>1. Range(cc[r]) = Range(c[r]) \ S
      BY <1>2, <2>3
    <3> QED
      BY <1>0, <1>4, <2>1, <2>3, <3>1
  <2> QED
    BY <2>2, <2>3
<1>6. IsForested(cc, pp)
  BY <1>2, <1>5 DEF IsForested
<1>7. IsHome(cc, pp)
  BY <1>3, <1>4, <1>6 DEF IsHome
<1>8. ASSUME NEW q \in Components
      PROVE  /\ q \in S => pp[q] = None
             /\ p[q] \in S => pp[q] = None
             /\ pp[q] = p[q] \/ pp[q] = None
  BY <1>4
<1> QED
  BY <1>2, <1>7, <1>8 DEF IsDestroyed

Gone(n) == UNION {PartsOf(d) : d \in DOMAIN n \ {Root}}

LEMMA ClearSound ==
    ASSUME NEW n, NEW c, NEW p, NEW ad, NEW ti, IsSound(n, c, p, ad, ti),
           NEW cc, NEW pp, IsDestroyed(c, p, Gone(n), cc, pp),
           NEW node \in NodeSet, NEW nn, nn = [d \in {Root} |-> node],
           NEW held, held = IF ad \in Gone(n) THEN None ELSE ad
    PROVE  IsSound(nn, cc, pp, held, ti)
<1>1. /\ n \in Trees /\ DOMAIN n \subseteq Dirs /\ Root \in DOMAIN n
      /\ ad \in Components \cup {None} /\ ti \in Dirs \cup {None}
      /\ IsPlaced(n, c, p, ad)
  BY SoundIs, HomeIs
<1>2. PICK S : S = Gone(n)
  OBVIOUS
<1>3. \A o : o \in S <=> \E d \in DOMAIN n : d # Root /\ o \in PartsOf(d)
  BY <1>2 DEF Gone
<1>4. /\ IsHome(cc, pp)
      /\ \A q \in Components : /\ q \in S => cc[q] = <<>> /\ pp[q] = None
                               /\ p[q] \in S => pp[q] = None
                               /\ pp[q] = p[q] \/ pp[q] = None
                               /\ Range(c[q]) \cap S = {} /\ q \notin S => cc[q] = c[q]
                               /\ Range(c[q]) \subseteq S => cc[q] = <<>>
  BY <1>2 DEF IsDestroyed
<1>5. Focus \in Components /\ Focus \notin S /\ None \notin S
  <2>1. \A d \in Dirs : Focus \notin PartsOf(d) /\ None \notin PartsOf(d)
    BY PartsAre, PartsDiffer
  <2> QED
    BY <1>1, <1>3, <2>1, PartsAre
<1>6. DOMAIN nn = {Root} /\ nn[Root] = node /\ nn \in Trees
  <2>1. DOMAIN nn = {Root} /\ nn[Root] = node
    OBVIOUS
  <2>2. nn \in [{Root} -> NodeSet]
    OBVIOUS
  <2>3. {Root} \in SUBSET Dirs
    BY <1>1
  <2> QED
    BY <2>1, <2>2, <2>3 DEF Trees
<1>7. IsTyped(nn, cc, pp, held, ti)
  BY <1>1, <1>4, <1>6 DEF IsTyped, IsHome
<1>8. IsGrown(nn)
  BY <1>6, Paths DEF IsGrown
<1>9. cc[Focus] = IF held = None THEN <<>> ELSE <<held>>
  <2>1. PICK list : list = c[Focus]
    OBVIOUS
  <2>2. CASE ad = None
    <3>1. list = <<>>
      BY <1>1, <2>1, <2>2 DEF IsPlaced
    <3>2. Range(list) \subseteq S
      BY <3>1, SingleIs
    <3> QED
      BY <1>2, <1>4, <1>5, <2>1, <2>2, <3>2
  <2>3. CASE ad # None
    <3>1. list = <<ad>>
      BY <1>1, <2>1, <2>3 DEF IsPlaced
    <3>2. Range(list) = {ad}
      BY <3>1, SingleIs
    <3>3. CASE ad \in S
      <4>1. cc[Focus] = <<>>
        BY <1>4, <1>5, <2>1, <3>2, <3>3
      <4> QED
        BY <1>2, <3>3, <4>1
    <3>4. CASE ad \notin S
      <4>1. cc[Focus] = list
        BY <1>4, <1>5, <2>1, <3>2, <3>4
      <4> QED
        BY <1>2, <2>3, <3>1, <3>4, <4>1
    <3> QED
      BY <3>3, <3>4
  <2> QED
    BY <2>2, <2>3
<1>10. held = None \/ \E e \in DOMAIN nn : held = Contents(e)
  <2>1. ad = None \/ \E e \in DOMAIN n : ad = Contents(e)
    BY <1>1 DEF IsPlaced
  <2>2. ASSUME NEW e \in DOMAIN n, ad = Contents(e), e # Root PROVE ad \in S
    BY <1>3, <2>2, PartsAre
  <2> QED
    BY <1>2, <1>6, <2>1, <2>2
<1>11. \A e \in Dirs : pp[Contents(e)] \in {None, Focus}
  <2>1. \A e \in Dirs : p[Contents(e)] \in {None, Focus} /\ Contents(e) \in Components
    BY <1>1, PartsAre DEF IsPlaced
  <2> QED
    BY <1>4, <2>1
<1>12. ASSUME NEW e \in Dirs \ DOMAIN nn, NEW q \in PartsOf(e)
       PROVE  pp[q] = None /\ cc[q] = <<>>
  <2>1. q \in Components /\ e # Root
    BY <1>6, PartsAre
  <2>2. CASE e \in DOMAIN n
    <3>1. q \in S
      BY <1>3, <2>1, <2>2
    <3> QED
      BY <1>4, <2>1, <3>1
  <2>3. CASE e \notin DOMAIN n
    <3>1. p[q] = None /\ c[q] = <<>>
      BY <1>1, <2>3 DEF IsPlaced
    <3>2. Range(c[q]) \subseteq S
      BY <3>1, SingleIs
    <3> QED
      BY <1>4, <2>1, <3>1, <3>2
  <2> QED
    BY <2>2, <2>3
<1>13. ASSUME NEW e \in Dirs, NEW o \in Components, pp[o] = ForSubdirs(e)
       PROVE  \E x \in Symbols : Append(e, x) \in DOMAIN nn /\ o = Tree(Append(e, x))
  <2>1. ForSubdirs(e) # None
    BY PartsAre
  <2>2. p[o] = ForSubdirs(e) /\ o \notin S
    BY <1>4, <1>13, <2>1
  <2>3. PICK x \in Symbols : Append(e, x) \in DOMAIN n /\ o = Tree(Append(e, x))
    BY <1>1, <2>2 DEF IsPlaced
  <2>4. Append(e, x) # Root
    BY Paths
  <2>5. o \in PartsOf(Append(e, x))
    BY <2>3, PartsAre
  <2> QED
    BY <1>3, <2>2, <2>3, <2>4, <2>5
<1>14. IsPlaced(nn, cc, pp, held)
  BY <1>9, <1>10, <1>11, <1>12, <1>13 DEF IsPlaced
<1>15. IsTitled(nn, held, ti)
  <2>1. ad = None \/ (ti \in DOMAIN n /\ ad = Contents(ti))
    BY DEF IsSound, IsTitled
  <2>2. ad = Contents(ti) /\ ti \in DOMAIN n /\ ti # Root => ad \in S
    BY <1>3, PartsAre
  <2> QED
    BY <1>2, <1>6, <2>1, <2>2 DEF IsTitled
<1> QED
  BY <1>4, <1>7, <1>8, <1>14, <1>15 DEF IsSound, IsHome

Forgotten(node) ==
    [node EXCEPT !.info_read = FALSE, !.has_sub = TRUE, !.rows = None, !.cut = "no"]

LEMMA ForgottenIs ==
    ASSUME NEW node \in NodeSet
    PROVE  /\ Forgotten(node) \in NodeSet /\ ~Forgotten(node).info_read
           /\ Forgotten(node).has_sub /\ Forgotten(node).rows = None
BY DEF Forgotten, NodeSet

LEMMA ClearIs ==
    ASSUME NEW n, NEW c, NEW p, NEW ad, NEW ti, NEW ca, NEW th, NEW bu, NEW l,
           l = Listed(n, c, p, ad, ti, ca, th, bu), IsSound(n, c, p, ad, ti)
    PROVE  \E nn, cc, pp, held : /\ Clear(l) = Listed(nn, cc, pp, held, ti, ca, th, bu)
                                 /\ IsSound(nn, cc, pp, held, ti) /\ IsFresh(nn)
<1>1. l.nodes = n /\ l.adopted = ad
  BY FieldsAre
<1>2. PICK S : S = Gone(n)
  OBVIOUS
<1>3. PICK cc : cc = Deprived(c, S)
  OBVIOUS
<1>4. PICK pp : pp = Orphaned(p, S)
  OBVIOUS
<1>5. PICK node : node = Forgotten(n[Root])
  OBVIOUS
<1>6. PICK nn : nn = [d \in {Root} |-> node]
  OBVIOUS
<1>7. PICK held : held = IF ad \in S THEN None ELSE ad
  OBVIOUS
<1>8. PICK kept : kept = Destroy(l, S)
  OBVIOUS
<1>9. kept = Listed(n, cc, pp, ad, ti, ca, th, bu)
  BY <1>3, <1>4, <1>8, DestroyIs
<1>10. kept.adopted = ad
  BY <1>9, FieldsAre
<1>11. Clear(l) = [kept EXCEPT !.nodes = nn, !.adopted = held]
  <2>1. S = UNION {PartsOf(d) : d \in DOMAIN l.nodes \ {Root}}
    BY <1>1, <1>2 DEF Gone
  <2>2. Clear(l) = [kept EXCEPT !.nodes = [d \in {Root} |-> node],
                                !.adopted = IF kept.adopted \in S THEN None ELSE kept.adopted]
    BY <1>1, <1>5, <1>8, <2>1, Zenon DEF Clear, Forgotten
  <2> QED
    BY <1>6, <1>7, <1>10, <2>2
<1>12. [kept EXCEPT !.nodes = nn, !.adopted = held] = Listed(nn, cc, pp, held, ti, ca, th, bu)
  <2>1. PICK m : m = [kept EXCEPT !.nodes = nn]
    OBVIOUS
  <2>2. m = Listed(nn, cc, pp, ad, ti, ca, th, bu)
    BY <1>9, <2>1 DEF Listed
  <2>3. [m EXCEPT !.adopted = held] = Listed(nn, cc, pp, held, ti, ca, th, bu)
    BY <2>2, HeldIs DEF Held
  <2>4. [kept EXCEPT !.nodes = nn, !.adopted = held] = [[kept EXCEPT !.nodes = nn] EXCEPT !.adopted = held]
    OBVIOUS
  <2> QED
    BY <2>1, <2>3, <2>4
<1>13. n[Root] \in NodeSet
  BY SoundIs
<1>14. node \in NodeSet /\ ~node.info_read /\ node.has_sub /\ node.rows = None
  BY <1>5, <1>13, ForgottenIs
<1>15. IsFresh(nn)
  <2>1. DOMAIN nn = {Root} /\ nn[Root] = node
    BY <1>6
  <2> QED
    BY <1>14, <2>1 DEF IsFresh
<1>16. None \notin S
  <2>1. \A d : None \in PartsOf(d) => d \notin Dirs
    BY PartsAre
  <2> QED
    BY <1>2, <2>1, SoundIs DEF Gone
<1>17. IsDestroyed(c, p, S, cc, pp)
  BY <1>3, <1>4, <1>16, HomeIs, DestroyForest
<1>18. IsSound(nn, cc, pp, held, ti)
  BY <1>2, <1>6, <1>7, <1>14, <1>17, ClearSound
<1> QED
  BY <1>11, <1>12, <1>15, <1>18

(* A listing between two requests.                                           *)
Settled(n, c, p, ad, ti) == Listed(n, c, p, ad, ti, 0, FALSE, FALSE)

(* A listing l in mode m, while archive a is open.                           *)
IsViewed(l, m, a) ==
    /\ l = Settled(l.nodes, l.children, l.parent, l.adopted, l.title)
    /\ IsSound(l.nodes, l.children, l.parent, l.adopted, l.title)
    /\ (a = None /\ m = "config") \/ m = "summary" => IsFresh(l.nodes)
    /\ m = "listing" => AllShown(l.nodes, l.children, a, l.adopted, l.title)

(* The archive that the mode needs is open.                                  *)
ModeInv ==
    /\ mode \in {"config", "listing", "summary", "error", "bug"} /\ failures \in Nat
    /\ mode \in {"listing", "summary", "error"} => opened \in Archives
    /\ IF mode = "summary" THEN summary = opened \/ (summary = None /\ failures > 0)
       ELSE summary = None
    /\ mode = "error" => return_mode = "listing"

(* A listing whose handlers are over is sound, and that of the archive which *)
(* is open when it is shown; it is a new one again when none is open.        *)
ViewerInv == IsViewed(listing, mode, opened) /\ ModeInv

LEMMA ViewedWith ==
    ASSUME NEW l, NEW m, NEW a, NEW n, NEW c, NEW p, NEW ad, NEW ti,
           l = Settled(n, c, p, ad, ti), IsSound(n, c, p, ad, ti),
           (a = None /\ m = "config") \/ m = "summary" => IsFresh(n),
           m = "listing" => AllShown(n, c, a, ad, ti)
    PROVE  IsViewed(l, m, a)
<1>1. l.nodes = n /\ l.children = c /\ l.parent = p /\ l.adopted = ad /\ l.title = ti
  <2>1. PICK no : no = FALSE
    OBVIOUS
  <2>2. PICK zero : zero = 0
    OBVIOUS
  <2>3. l = Listed(n, c, p, ad, ti, zero, no, no)
    BY <2>1, <2>2 DEF Settled
  <2> QED
    BY <2>3, FieldsAre
<1> QED
  BY <1>1 DEF IsViewed

LEMMA ViewedIs ==
    ASSUME NEW l, NEW m, NEW a, IsViewed(l, m, a)
    PROVE  \E n, c, p, ad, ti :
              /\ l = Settled(n, c, p, ad, ti) /\ IsSound(n, c, p, ad, ti)
              /\ (a = None /\ m = "config") \/ m = "summary" => IsFresh(n)
              /\ m = "listing" => AllShown(n, c, a, ad, ti)
              /\ l.nodes = n
BY DEF IsViewed

(* A mode in which the listing is not looked at.                             *)
LEMMA ViewedAside ==
    ASSUME NEW l, NEW m, NEW a, IsViewed(l, m, a), NEW m1, NEW a1, m1 # "listing",
           m1 = "summary" => IsFresh(l.nodes),
           m1 = "config" => a1 # None
    PROVE  IsViewed(l, m1, a1)
<1>1. PICK n, c, p, ad, ti : /\ l = Settled(n, c, p, ad, ti) /\ IsSound(n, c, p, ad, ti)
                             /\ l.nodes = n
  BY ViewedIs
<1> QED
  BY <1>1, ViewedWith

(* The listing when libdar accepts some calls.                               *)
Called(l, calls) == [l EXCEPT !.calls = calls]

Ready(n, c, p, ad, ti, ca) == Listed(n, c, p, ad, ti, ca, FALSE, FALSE)

LEMMA CalledIs ==
    ASSUME NEW n, NEW c, NEW p, NEW ad, NEW ti, NEW l, l = Settled(n, c, p, ad, ti),
           NEW calls
    PROVE  Called(l, calls) = Ready(n, c, p, ad, ti, calls)
<1>1. PICK zero : zero = 0
  OBVIOUS
<1>2. PICK no : no = FALSE
  OBVIOUS
<1>3. l = Listed(n, c, p, ad, ti, zero, no, no)
  BY <1>1, <1>2 DEF Settled
<1>4. Called(l, calls) = Listed(n, c, p, ad, ti, calls, no, no)
  BY <1>3 DEF Called, Listed
<1> QED
  BY <1>2, <1>4 DEF Ready

LEMMA EndsSettled ==
    ASSUME NEW a, NEW m, NEW no, no = FALSE, Handles(m, no, a), NEW after, NEW d,
           Ends(m, after, d)
    PROVE  /\ \E n, c, p, ad, ti :
                 /\ listing' = Settled(n, c, p, ad, ti) /\ IsSound(n, c, p, ad, ti)
                 /\ AllShown(n, c, a, ad, ti)
           /\ mode' = after \/ (mode' = "error" /\ return_mode' = after)
           /\ failures' \in {failures, failures + 1}
<1>1. PICK n, c, p, ad, ti, ca, th :
        /\ m = Listed(n, c, p, ad, ti, ca, th, no) /\ th \in BOOLEAN
        /\ IsSound(n, c, p, ad, ti) /\ AllShown(n, c, a, ad, ti)
  BY DEF Handles
<1>2. m.thrown = th /\ m.bug = no
  BY <1>1, FieldsAre
<1>3. listing' = Settled(n, c, p, ad, ti)
  <2>1. PICK zero : zero = 0
    OBVIOUS
  <2>2. PICK m1 : m1 = [m EXCEPT !.calls = zero]
    OBVIOUS
  <2>3. m1 = Listed(n, c, p, ad, ti, zero, th, no)
    BY <1>1, <2>2 DEF Listed
  <2>4. [m1 EXCEPT !.thrown = no] = Listed(n, c, p, ad, ti, zero, no, no)
    BY <2>3, FlagIs
  <2>5. listing' = [[m EXCEPT !.calls = zero] EXCEPT !.thrown = no]
    BY <2>1 DEF Ends
  <2> QED
    BY <2>1, <2>2, <2>4, <2>5 DEF Settled
<1>4. /\ mode' = after \/ (mode' = "error" /\ return_mode' = after)
      /\ failures' \in {failures, failures + 1}
  <2>1. CASE th
    BY <1>2, <2>1 DEF Ends, ToError, Drop
  <2>2. CASE ~th
    BY <1>2, <2>2 DEF Ends
  <2> QED
    BY <1>1, <2>1, <2>2
<1> QED
  BY <1>1, <1>3, <1>4

LEMMA ViewerEnds ==
    ASSUME NEW a \in Archives, NEW m, NEW no, no = FALSE, Handles(m, no, a), NEW d,
           Ends(m, "listing", d), opened' = a, summary' = None, failures \in Nat
    PROVE  ViewerInv'
<1>1. /\ mode' = "listing" \/ (mode' = "error" /\ return_mode' = "listing")
      /\ failures' \in {failures, failures + 1}
  BY EndsSettled
<1>2. PICK n, c, p, ad, ti :
        /\ listing' = Settled(n, c, p, ad, ti) /\ IsSound(n, c, p, ad, ti)
        /\ AllShown(n, c, a, ad, ti)
  BY EndsSettled
<1>3. IsViewed(listing', mode', opened')
  BY <1>1, <1>2, ViewedWith
<1>4. ModeInv'
  BY <1>1 DEF ModeInv
<1> QED
  BY <1>3, <1>4 DEF ViewerInv

LEMMA OneIs ==
    ASSUME NEW T, NEW x \in T
    PROVE  /\ <<x>> \in Seq(T) /\ IsInjective(<<x>>)
           /\ <<>> \in Seq(T) /\ IsInjective(<<>>)
<1>1. <<>> \in Seq(T)
  OBVIOUS
<1>2. PICK z : z = <<>>
  OBVIOUS
<1>3. DOMAIN z = {}
  BY <1>2
<1>4. IsInjective(z)
  BY <1>3 DEF IsInjective
<1>5. PICK s : s = <<x>>
  OBVIOUS
<1>6. s = Append(z, x) /\ Range(z) = {}
  BY <1>2, <1>5, SingleIs
<1>7. z \in Seq(T)
  BY <1>1, <1>2
<1>8. s \in Seq(T) /\ IsInjective(s)
  BY <1>4, <1>6, <1>7, AppendIs
<1> QED
  BY <1>2, <1>4, <1>5, <1>7, <1>8

LEMMA PairIs ==
    ASSUME NEW T, NEW x \in T, NEW y \in T, x # y
    PROVE  <<x, y>> \in Seq(T) /\ Range(<<x, y>>) = {x, y} /\ IsInjective(<<x, y>>)
<1>1. PICK s : s = <<x>>
  OBVIOUS
<1>2. s \in Seq(T) /\ IsInjective(s) /\ Range(s) = {x}
  BY <1>1, OneIs, SingleIs
<1>3. Append(s, y) \in Seq(T) /\ Range(Append(s, y)) = {x, y} /\ IsInjective(Append(s, y))
  BY <1>2, AppendIs
<1>4. Append(s, y) = <<x, y>>
  <2>1. PICK t : t = Append(s, y)
    OBVIOUS
  <2>2. Len(s) = 1 /\ s[1] = x
    BY <1>1
  <2>3. t \in Seq(T) /\ Len(t) = 2 /\ t[1] = x /\ t[2] = y
    <3>1. /\ t \in Seq(T) /\ Len(t) = Len(s) + 1 /\ t[Len(s) + 1] = y
          /\ \A i \in 1..Len(s) : t[i] = s[i]
      BY <1>2, <2>1, AppendProperties
    <3>2. 1 + 1 = 2 /\ 1 \in 1..1
      OBVIOUS
    <3> QED
      BY <2>2, <3>1, <3>2
  <2>4. <<x, y>> \in Seq(T) /\ Len(<<x, y>>) = 2 /\ <<x, y>>[1] = x /\ <<x, y>>[2] = y
    OBVIOUS
  <2>5. \A i \in 1..2 : i = 1 \/ i = 2
    OBVIOUS
  <2>6. PICK pair \in Seq(T) : pair = <<x, y>> /\ Len(pair) = 2 /\ pair[1] = x /\ pair[2] = y
    BY <2>4, Zenon
  <2>7. Len(t) = Len(pair) /\ \A i \in 1..Len(t) : t[i] = pair[i]
    BY <2>3, <2>5, <2>6
  <2> QED
    BY <2>1, <2>3, <2>6, <2>7, SeqEqual
<1> QED
  BY <1>3, <1>4

(* The listing that is made with the page.                                   *)
LEMMA EmptySound ==
    ASSUME NEW n, n = EmptyListing.nodes, NEW c, c = EmptyListing.children,
           NEW p, p = EmptyListing.parent
    PROVE  /\ EmptyListing = Settled(n, c, p, None, None)
           /\ IsSound(n, c, p, None, None) /\ IsFresh(n)
<1>0. Root \in Dirs
  BY DEF Dirs
<1>1. PICK t \in Components : t = Tree(Root)
  BY <1>0, PartsAre
<1>2. PICK u \in Components : u = ForSubdirs(Root)
  BY <1>0, PartsAre
<1>3. Page \in Components /\ Focus \in Components /\ None \notin Components
  BY PartsAre
<1>4. t # u /\ t # Page /\ t # Focus /\ u # Page /\ u # Focus /\ Page # Focus
  BY <1>1, <1>2, PartsDiffer
<1>5. PICK two : two = <<t, Focus>>
  OBVIOUS
<1>6. PICK one : one = <<u>>
  OBVIOUS
<1>7. PICK none : none = <<>>
  OBVIOUS
<1>8. /\ two \in Seq(Components) /\ Range(two) = {t, Focus} /\ IsInjective(two)
      /\ one \in Seq(Components) /\ Range(one) = {u} /\ IsInjective(one)
      /\ none \in Seq(Components) /\ Range(none) = {} /\ IsInjective(none)
  BY <1>3, <1>4, <1>5, <1>6, <1>7, PairIs, OneIs, SingleIs
<1>9. /\ c = [q \in Components |-> CASE q = Page -> two [] q = t -> one [] OTHER -> none]
      /\ p = [o \in Components |-> CASE o \in {t, Focus} -> Page [] o = u -> t [] OTHER -> None]
      /\ n = [d \in {Root} |-> RootNode]
  BY <1>1, <1>2, <1>5, <1>6, <1>7 DEF EmptyListing
<1>10. /\ c \in [Components -> Seq(Components)]
       /\ c[Page] = two /\ c[t] = one
       /\ \A q \in Components : q # Page /\ q # t => c[q] = none
  BY <1>3, <1>4, <1>8, <1>9
<1>11. /\ p \in [Components -> Components \cup {None}]
       /\ p[t] = Page /\ p[Focus] = Page /\ p[u] = t
       /\ \A o \in Components : o # t /\ o # Focus /\ o # u => p[o] = None
  BY <1>3, <1>4, <1>9
<1>12. ASSUME NEW o \in Components, NEW q \in Components PROVE o \in Range(c[q]) <=> p[o] = q
  <2>1. CASE q = Page
    <3>1. Range(c[q]) = {t, Focus}
      BY <1>8, <1>10, <2>1
    <3> QED
      BY <1>3, <1>4, <1>11, <2>1, <3>1
  <2>2. CASE q = t
    <3>1. Range(c[q]) = {u}
      BY <1>8, <1>10, <2>2
    <3> QED
      BY <1>3, <1>4, <1>11, <2>2, <3>1
  <2>3. CASE q # Page /\ q # t
    <3>1. Range(c[q]) = {}
      BY <1>8, <1>10, <2>3
    <3> QED
      BY <1>3, <1>11, <2>3, <3>1
  <2> QED
    BY <2>1, <2>2, <2>3
<1>13. \A q \in Components : IsInjective(c[q])
  BY <1>8, <1>10
<1>14. IsForested(c, p)
  BY <1>12, <1>13 DEF IsForested
<1>15. /\ n \in Trees /\ DOMAIN n = {Root} /\ ~n[Root].info_read /\ n[Root].has_sub
       /\ n[Root].rows = None
  <2>1. PICK node \in NodeSet : node = RootNode /\ ~node.info_read /\ node.has_sub
                           /\ node.rows = None
    BY RootNodeIs
  <2>2. n = [d \in {Root} |-> node]
    BY <1>9, <2>1
  <2>3. DOMAIN n = {Root} /\ n[Root] = node
    BY <2>2
  <2>4. n \in [{Root} -> NodeSet]
    BY <2>2
  <2>5. {Root} \in SUBSET Dirs
    BY <1>0
  <2> QED
    BY <2>1, <2>3, <2>4, <2>5 DEF Trees
<1>16. IsTyped(n, c, p, None, None)
  BY <1>10, <1>11, <1>15 DEF IsTyped
<1>17. IsGrown(n)
  BY <1>15, Paths DEF IsGrown
<1>18. IsPlaced(n, c, p, None)
  <2>1. c[Focus] = <<>>
    BY <1>3, <1>4, <1>7, <1>10
  <2>2. \A e \in Dirs : p[Contents(e)] \in {None, Focus}
    <3> SUFFICES ASSUME NEW e \in Dirs PROVE p[Contents(e)] = None
      OBVIOUS
    <3>1. /\ Contents(e) \in Components /\ Contents(e) # t /\ Contents(e) # u
          /\ Contents(e) # Focus
      BY <1>1, <1>2, PartsAre, PartsDiffer
    <3> QED
      BY <1>11, <3>1
  <2>3. ASSUME NEW e \in Dirs \ DOMAIN n, NEW q \in PartsOf(e) PROVE p[q] = None /\ c[q] = <<>>
    <3>1. q \in Components /\ q # t /\ q # u /\ q # Focus /\ q # Page
      BY <1>1, <1>2, <1>15, <2>3, PartsAre, PartsDiffer
    <3> QED
      BY <1>7, <1>10, <1>11, <3>1
  <2>4. ASSUME NEW e \in Dirs, NEW o \in Components PROVE p[o] # ForSubdirs(e)
    <3>1. ForSubdirs(e) # Page /\ ForSubdirs(e) # t /\ ForSubdirs(e) # None
      BY <1>1, PartsAre, PartsDiffer
    <3> QED
      BY <1>11, <3>1
  <2> QED
    BY <2>1, <2>2, <2>3, <2>4 DEF IsPlaced
<1>19. EmptyListing = Settled(n, c, p, None, None)
  <2>1. EmptyListing = [nodes |-> EmptyListing.nodes, children |-> EmptyListing.children,
                        parent |-> EmptyListing.parent, adopted |-> None, title |-> None,
                        calls |-> 0, thrown |-> FALSE, bug |-> FALSE]
    BY Zenon DEF EmptyListing
  <2> QED
    BY <2>1 DEF Settled, Listed
<1>20. IsTitled(n, None, None)
  BY DEF IsTitled
<1> QED
  BY <1>14, <1>15, <1>16, <1>17, <1>18, <1>19, <1>20 DEF IsSound, IsFresh

LEMMA ViewerInitially == ListingInit => ViewerInv
<1> SUFFICES ASSUME ListingInit PROVE ViewerInv
  OBVIOUS
<1>1. /\ listing = EmptyListing /\ mode = "config" /\ opened = None
      /\ summary = None /\ failures = 0
  BY DEF ListingInit
<1>2. PICK n : n = EmptyListing.nodes
  OBVIOUS
<1>3. PICK c : c = EmptyListing.children
  OBVIOUS
<1>4. PICK p : p = EmptyListing.parent
  OBVIOUS
<1>5. /\ listing = Settled(n, c, p, None, None)
      /\ IsSound(n, c, p, None, None) /\ IsFresh(n)
  BY <1>1, <1>2, <1>3, <1>4, EmptySound
<1>6. IsViewed(listing, mode, opened)
  BY <1>1, <1>5, ViewedWith
<1> QED
  BY <1>1, <1>6 DEF ViewerInv, ModeInv

LEMMA OpenListingKeeps ==
    ASSUME ViewerInv, NEW a \in Archives, OpenListing(a)
    PROVE  ViewerInv'
<1>1. /\ mode = "config" /\ opened = None /\ opened' = a
      /\ summary' = None /\ failures \in Nat
  BY DEF OpenListing, ViewerInv, ModeInv
<1>2. PICK calls : Ends(List(Called(listing, calls), a), "listing", Root)
  BY DEF OpenListing, Called
<1>3. PICK n, c, p, ad, ti : /\ listing = Settled(n, c, p, ad, ti)
                             /\ IsSound(n, c, p, ad, ti) /\ IsFresh(n)
  BY <1>1, ViewedIs DEF ViewerInv
<1>4. PICK no : no = FALSE
  OBVIOUS
<1>5. PICK l : l = Called(listing, calls)
  OBVIOUS
<1>6. l = Listed(n, c, p, ad, ti, calls, no, no)
  <2>1. PICK was : was = listing
    OBVIOUS
  <2>2. was = Settled(n, c, p, ad, ti)
    BY <1>3, <2>1
  <2>3. Called(was, calls) = Ready(n, c, p, ad, ti, calls)
    BY <2>2, CalledIs
  <2>4. l = Ready(n, c, p, ad, ti, calls)
    BY <1>5, <2>1, <2>3
  <2> QED
    BY <1>4, <2>4 DEF Ready
<1>7. no \in BOOLEAN /\ ~no
  BY <1>4
<1>8. Handles(List(l, a), no, a)
  BY <1>3, <1>6, <1>7, ListHandles
<1> QED
  BY <1>1, <1>2, <1>4, <1>5, <1>8, ViewerEnds

LEMMA PressKeeps ==
    ASSUME ViewerInv, NEW d, NEW button \in {"shrink", "expand", "name"}, Press(d, button)
    PROVE  ViewerInv'
<1>1. /\ mode = "listing" /\ opened' = opened /\ opened \in Archives /\ d \in DOMAIN listing.nodes
      /\ summary' = None /\ failures \in Nat
  BY DEF Press, ViewerInv, ModeInv
<1>2. PICK calls : Ends(OnEvent(Called(listing, calls), opened, d, button), "listing", d)
  BY DEF Press, Called
<1>3. PICK n, c, p, ad, ti : /\ listing = Settled(n, c, p, ad, ti)
                             /\ IsSound(n, c, p, ad, ti) /\ AllShown(n, c, opened, ad, ti)
                             /\ listing.nodes = n
  BY <1>1, ViewedIs DEF ViewerInv
<1>4. PICK no : no = FALSE
  OBVIOUS
<1>5. PICK l : l = Called(listing, calls)
  OBVIOUS
<1>6. l = Listed(n, c, p, ad, ti, calls, no, no)
  <2>1. PICK was : was = listing
    OBVIOUS
  <2>2. was = Settled(n, c, p, ad, ti)
    BY <1>3, <2>1
  <2>3. Called(was, calls) = Ready(n, c, p, ad, ti, calls)
    BY <2>2, CalledIs
  <2>4. l = Ready(n, c, p, ad, ti, calls)
    BY <1>5, <2>1, <2>3
  <2> QED
    BY <1>4, <2>4 DEF Ready
<1>7. no \in BOOLEAN /\ ~no
  BY <1>4
<1>8. Handles(OnEvent(l, opened, d, button), no, opened)
  BY <1>1, <1>3, <1>6, <1>7, EventHandles
<1> QED
  BY <1>1, <1>2, <1>4, <1>5, <1>8, ViewerEnds

LEMMA CloseListingKeeps ==
    ASSUME ViewerInv, CloseListing
    PROVE  ViewerInv'
<1>1. PICK n, c, p, ad, ti : listing = Settled(n, c, p, ad, ti) /\ IsSound(n, c, p, ad, ti)
  BY ViewedIs DEF ViewerInv
<1>2. PICK no : no = FALSE
  OBVIOUS
<1>3. PICK zero : zero = 0
  OBVIOUS
<1>4. listing = Listed(n, c, p, ad, ti, zero, no, no)
  BY <1>1, <1>2, <1>3 DEF Settled
<1>5. PICK nn, cc, pp, held : /\ Clear(listing) = Listed(nn, cc, pp, held, ti, zero, no, no)
                              /\ IsSound(nn, cc, pp, held, ti) /\ IsFresh(nn)
  BY <1>1, <1>4, ClearIs
<1>6. listing' = Settled(nn, cc, pp, held, ti)
  BY <1>2, <1>3, <1>5 DEF CloseListing, Settled
<1>7. mode' = "config" /\ summary' = None /\ failures' \in Nat
  BY DEF CloseListing, ViewerInv, ModeInv
<1>8. IsViewed(listing', mode', opened')
  BY <1>5, <1>6, <1>7, ViewedWith
<1> QED
  BY <1>7, <1>8 DEF ViewerInv, ModeInv

LEMMA OpenSummaryKeeps ==
    ASSUME ViewerInv, NEW a \in Archives, OpenSummary(a)
    PROVE  ViewerInv'
<1>1. /\ mode = "config" /\ opened = None /\ opened' = a /\ listing' = listing
      /\ summary = None /\ failures \in Nat
  BY DEF OpenSummary, ViewerInv, ModeInv
<1>2. /\ mode' = "summary"
      /\ \/ summary' = a /\ failures' = failures
         \/ summary' = None /\ failures' = failures + 1
  BY <1>1 DEF OpenSummary, Drop
<1>3. IsFresh(listing.nodes)
  BY <1>1 DEF ViewerInv, IsViewed
<1>4. IsViewed(listing, mode', opened')
  BY <1>2, <1>3, ViewedAside DEF ViewerInv
<1> QED
  BY <1>1, <1>2, <1>4 DEF ViewerInv, ModeInv

LEMMA ViewerStep == ViewerInv /\ (ListingNext \/ UNCHANGED viewer) => ViewerInv'
<1> SUFFICES ASSUME ViewerInv, ListingNext \/ UNCHANGED viewer PROVE ViewerInv'
  OBVIOUS
<1>1. CASE \E a \in Archives : OpenListing(a)
  BY <1>1, OpenListingKeeps
<1>2. CASE \E a \in Archives : OpenSummary(a)
  BY <1>2, OpenSummaryKeeps
<1>3. CASE \E d \in Dirs, b \in {"shrink", "expand", "name"} : Press(d, b)
  BY <1>3, PressKeeps
<1>4. CASE OpenAgain
  <2>1. /\ mode = "config" /\ mode' = "bug" /\ listing' = listing /\ opened' = opened
        /\ summary' = summary /\ failures' = failures
    BY <1>4 DEF OpenAgain
  <2>2. IsViewed(listing, mode', opened')
    BY <2>1, ViewedAside DEF ViewerInv
  <2> QED
    BY <2>1, <2>2 DEF ViewerInv, ModeInv
<1>5. CASE CloseListing
  BY <1>5, CloseListingKeeps
<1>6. CASE CloseSummary
  <2>1. /\ mode = "summary" /\ mode' = "config" /\ listing' = listing
        /\ summary' = None /\ failures' = failures
    BY <1>6 DEF CloseSummary
  <2>2. PICK n, c, p, ad, ti : /\ listing = Settled(n, c, p, ad, ti)
                               /\ IsSound(n, c, p, ad, ti) /\ IsFresh(n)
    BY <2>1, ViewedIs DEF ViewerInv
  <2>3. IsViewed(listing, mode', opened')
    BY <2>1, <2>2, ViewedWith
  <2> QED
    BY <2>1, <2>3 DEF ViewerInv, ModeInv
<1>7. CASE Acknowledge
  <2>1. /\ mode = "error" /\ return_mode = "listing" /\ opened \in Archives
        /\ summary' = summary /\ failures' = failures
        /\ mode' = "config" /\ listing' = listing /\ opened' = opened
    BY <1>7 DEF Acknowledge, ViewerInv, ModeInv
  <2>2. opened # None
    BY <2>1, DirsAre
  <2>3. IsViewed(listing, mode', opened')
    BY <2>1, <2>2, ViewedAside DEF ViewerInv
  <2> QED
    BY <2>1, <2>3 DEF ViewerInv, ModeInv
<1>8. CASE UNCHANGED viewer
  BY <1>8 DEF viewer, ViewerInv, ModeInv
<1> QED
  BY <1>1, <1>2, <1>3, <1>4, <1>5, <1>6, <1>7, <1>8 DEF ListingNext

LEMMA EveryTree ==
    ASSUME NEW a \in Archives, NEW d \in DOMAIN Subdirs[a]
    PROVE  [i \in DOMAIN Subdirs[a][d] |-> Tree(Append(d, Subdirs[a][d][i]))]
             = FirstTrees(a, d, Len(Subdirs[a][d]))
<1>1. Subdirs[a][d] \in Seq(Symbols)
  BY SubdirsAre
<1>2. DOMAIN Subdirs[a][d] = 1..Len(Subdirs[a][d])
  BY <1>1
<1> QED
  BY <1>2 DEF FirstTrees

LEMMA FirstPrefix ==
    ASSUME NEW a \in Archives, NEW d \in DOMAIN Subdirs[a], NEW k \in 0..Len(Subdirs[a][d])
    PROVE  IsPrefix(FirstTrees(a, d, k), FirstTrees(a, d, Len(Subdirs[a][d])))
<1>1. PICK m \in Nat : m = Len(Subdirs[a][d])
  <2>1. Subdirs[a][d] \in Seq(Symbols)
    BY SubdirsAre
  <2> QED
    BY <2>1
<1>2. PICK f : f = [i \in 1..m |-> Tree(Append(d, Subdirs[a][d][i]))]
  OBVIOUS
<1>3. PICK s : s = FirstTrees(a, d, k)
  OBVIOUS
<1>4. s = [i \in 1..k |-> f[i]] /\ k \in 0..m
  BY <1>1, <1>2, <1>3 DEF FirstTrees
<1>5. Len(s) = k /\ Len(f) = m
  BY <1>1, <1>2, <1>4
<1>6. SubSeq(s, 1, k) = SubSeq(f, 1, k)
  BY <1>1, <1>4, <1>5
<1>7. IsPrefix(s, f)
  BY <1>1, <1>4, <1>5, <1>6 DEF IsPrefix
<1> QED
  BY <1>1, <1>2, <1>3, <1>7 DEF FirstTrees

LEMMA ViewerShows == ViewerInv => ListingShowsTheArchive
<1> SUFFICES ASSUME ViewerInv PROVE ListingShowsTheArchive
  OBVIOUS
<1>1. PICK n, c, p, ad, ti :
        /\ n = listing.nodes /\ c = listing.children /\ p = listing.parent
        /\ ad = listing.adopted /\ ti = listing.title
        /\ listing = Settled(n, c, p, ad, ti) /\ IsSound(n, c, p, ad, ti)
        /\ mode = "listing" => AllShown(n, c, opened, ad, ti)
  BY DEF ViewerInv, IsViewed
<1>2. ~listing.bug
  BY <1>1 DEF Settled, Listed
<1>3. IsHome(c, p) /\ IsPlaced(n, c, p, ad) /\ DOMAIN n \subseteq Dirs /\ None \notin Dirs
  BY <1>1, HomeIs, SoundIs, DirsAre
<1>4. AdoptionIsTree
  <2>1. DOMAIN c = Components /\ DOMAIN p = Components
    BY <1>3 DEF IsHome
  <2>2. /\ \A o, q \in Components : o \in Range(c[q]) <=> p[o] = q
        /\ \A q \in Components : IsInjective(c[q])
    BY <1>3 DEF IsHome, IsForested
  <2>3. IsForest(listing)
    BY <1>1, <1>2, <2>1, <2>2, Zenon DEF IsForest, Fostered
  <2>4. /\ c[Focus] = IF ad = None THEN <<>> ELSE <<ad>>
        /\ \A e \in Dirs \ DOMAIN n : \A q \in PartsOf(e) : p[q] = None /\ c[q] = <<>>
    BY <1>3 DEF IsPlaced
  <2> QED
    BY <1>1, <2>3, <2>4, Zenon DEF AdoptionIsTree
<1>5. ASSUME mode = "listing", NEW d \in DOMAIN n
      PROVE  LET node == n[d]
                 subs == Subdirs[opened][d]
                 parts == c[ForSubdirs(d)]
                 trees == [i \in DOMAIN subs |-> Tree(Append(d, subs[i]))]
             IN  /\ d \in DOMAIN Subdirs[opened]
                 /\ IsPrefix(parts, trees)
                 /\ \/ IsCut(node)
                    \/ /\ node.nosubdir <=> subs = <<>>
                       /\ node.expand <=> subs # <<>> /\ ~node.shrink
                       /\ node.shrink => node.for_subdirs /\ parts = trees
  <2>1. Shows(n, c, opened, d) /\ opened \in Archives
    BY <1>1, <1>5 DEF AllShown, ViewerInv, ModeInv
  <2>2. /\ d \in DOMAIN Subdirs[opened] /\ IsPart(c, opened, d)
        /\ \/ IsCut(n[d])
           \/ /\ n[d].nosubdir <=> Subdirs[opened][d] = <<>>
              /\ n[d].expand <=> Subdirs[opened][d] # <<>> /\ ~n[d].shrink
              /\ n[d].shrink => n[d].for_subdirs /\ IsWhole(c, opened, d)
    BY <2>1 DEF Shows, IsOffered, IsDrawn
  <2>3. [i \in DOMAIN Subdirs[opened][d] |-> Tree(Append(d, Subdirs[opened][d][i]))]
          = FirstTrees(opened, d, Len(Subdirs[opened][d]))
    BY <2>1, <2>2, EveryTree
  <2>4. IsPrefix(c[ForSubdirs(d)], FirstTrees(opened, d, Len(Subdirs[opened][d])))
    BY <2>1, <2>2, FirstPrefix DEF IsPart
  <2> QED
    BY <2>2, <2>3, <2>4, Zenon DEF IsWhole
<1>6. DirectoriesAreListed
  BY <1>1, <1>5, Zenon DEF DirectoriesAreListed
<1>7. ASSUME mode = "listing"
      PROVE  IF ad = None THEN IsCut(n[Root])
             ELSE /\ ti \in DOMAIN n /\ ad = Contents(ti)
                  /\ n[ti].rows = opened \/ (IsCut(n[ti]) /\ n[ti].rows = None)
  <2>1. CASE ad = None
    BY <1>1, <1>7, <2>1 DEF AllShown
  <2>2. CASE ad # None
    <3>1. ti \in DOMAIN n /\ ad = Contents(ti)
      BY <1>1, <2>2 DEF IsSound, IsTitled
    <3>2. Shows(n, c, opened, ti) /\ IsSeen(n[ti])
      BY <1>1, <1>7, <2>2, <3>1 DEF AllShown
    <3>3. n[ti].rows = opened \/ (IsCut(n[ti]) /\ n[ti].rows = None)
      BY <3>2 DEF Shows, IsOf, IsSeen
    <3> QED
      BY <2>2, <3>1, <3>3
  <2> QED
    BY <2>1, <2>2
<1>8. PageShowsTheArchive
  <2>1. mode = "summary" => summary = opened \/ (summary = None /\ failures > 0)
    BY DEF ViewerInv, ModeInv
  <2> QED
    BY <1>1, <1>7, <2>1, Zenon DEF PageShowsTheArchive
<1> QED
  BY <1>4, <1>6, <1>8 DEF ListingShowsTheArchive

(* Whatever archives are opened one after the other, whatever they hold, and *)
(* wherever libdar throws, the page of the listing is a tree, it shows what  *)
(* the open archive holds, in part where libdar threw and in whole anywhere  *)
(* else, and its title is that of the contents below it (html_dir_tree,      *)
(* html_focus, html_listing_page, html_summary_page).                        *)
THEOREM ListingIsTheArchive == PagesSpec => []ListingShowsTheArchive
<1>1. PagesInit => ViewerInv
  BY ViewerInitially DEF PagesInit
<1>2. ViewerInv /\ [PagesNext]_pages => ViewerInv'
  BY ViewerStep DEF PagesNext, LogIn, ReadArchives, ReadOptions, SetLibrary, pages
<1>3. ViewerInv => ListingShowsTheArchive
  BY ViewerShows
<1> QED
  BY <1>1, <1>2, <1>3, PTL DEF PagesSpec
=============================================================================
