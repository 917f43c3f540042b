------------------------- MODULE SessionTableProofs -------------------------
(* Proofs about SessionTable, for every finite set of servers, every set of  *)
(* sessions and of users, and whatever libdar does.                          *)
EXTENDS SessionTable, FiniteSetTheorems, TLAPS

(* What the stage of a server says of its variables.                         *)
ServerShape ==
    \A s \in Servers :
        /\ dying[s] # NoId <=> pc[s] \in {"destroy", "join"}
        /\ pc[s] \in {"off", "acquire", "wait_wui", "own", "bug"} => sess[s] = NoId
        /\ pc[s] \in {"answer", "release"} => sess[s] # NoId
        /\ pc[s] \in {"wait_wui", "own"} => want[s] # NoId

(* lock_running is held by the server that destroys a session.               *)
LockShape == \A s \in Servers : lock_running = s <=> dying[s] # NoId

(* A session under destruction is in the table, closing, and not referred.   *)
DyingShape ==
    \A s \in Servers, id \in Ids :
        dying[s] = id =>
            /\ id \in running_session
            /\ closing[id]
            /\ ref_given[id] = 0

(* A session a server refers to is in the table.                             *)
ReferredIsRunning ==
    \A s \in Servers, id \in Ids : Refers(s, id) => id \in running_session

(* The semaphore of a session is held from LockWui to Release.               *)
Holds(s, id) ==
    \/ pc[s] = "own" /\ want[s] = id
    \/ sess[s] = id /\ dying[s] # id

HolderShape == \A s \in Servers, id \in Ids : lock_wui[id] = s <=> Holds(s, id)

TidShape ==
    \A s \in Servers, id \in Ids : sess[s] = id /\ dying[s] # id => tid[id] = s

IInv ==
    /\ TypeOK
    /\ ServerShape
    /\ LockShape
    /\ DyingShape
    /\ ReferredIsRunning
    /\ RefCounted
    /\ HolderShape
    /\ TidShape
    /\ ClosedIsNotForgotten

(* What a step makes of the servers a session was given to.                  *)
SameReferrers == \A id \in Ids : Referrers(id)' = Referrers(id)

Gains(s, id) ==
    /\ s \notin Referrers(id)
    /\ Referrers(id)' = Referrers(id) \cup {s}
    /\ \A i \in Ids \ {id} : Referrers(i)' = Referrers(i)

Loses(s, id) ==
    /\ s \in Referrers(id)
    /\ Referrers(id)' = Referrers(id) \ {s}
    /\ \A i \in Ids \ {id} : Referrers(i)' = Referrers(i)

-----------------------------------------------------------------------------
(* The variables keep their types.                                           *)
LEMMA TypeInit == Init => TypeOK
<1>1. AnyUser \in Users
  BY SessionAssumption DEF AnyUser
<1> QED
  BY <1>1, SessionAssumption
  DEF Init, TypeOK, LibdarStates, Stages

(* The two ways of a closing request: the session is at most flagged, or it  *)
(* is flagged and its destruction begins.                                    *)
Flag(s, id, stage) ==
    /\ Goto(s, stage)
    /\ closing' = closing \/ closing' = [closing EXCEPT ![id] = TRUE]
    /\ UNCHANGED <<lock_running, dying>>

BeginDestroying(s, id) ==
    /\ Goto(s, "destroy")
    /\ closing' = [closing EXCEPT ![id] = TRUE]
    /\ lock_running' = s
    /\ dying' = [dying EXCEPT ![s] = id]

LEMMA CloseSessionCases ==
    ASSUME NEW s \in Servers, NEW id \in Ids, NEW stage \in Stages,
           CloseSession(s, id, stage)
    PROVE  /\ Flag(s, id, stage) \/ BeginDestroying(s, id)
           /\ UNCHANGED <<running_session, owner, ref_given>>
BY DEF CloseSession, Flag, BeginDestroying

LEMMA CloseSessionType ==
    ASSUME TypeOK, NEW s \in Servers, NEW id \in Ids, NEW stage \in Stages,
           CloseSession(s, id, stage)
    PROVE  /\ lock_running' \in Servers \cup {NoServer}
           /\ closing' \in [Ids -> BOOLEAN]
           /\ dying' \in [Servers -> Ids \cup {NoId}]
           /\ pc' \in [Servers -> Stages]
<1>1. CASE Flag(s, id, stage)
  BY <1>1 DEF TypeOK, Flag, Goto
<1>2. CASE BeginDestroying(s, id)
  BY <1>2 DEF TypeOK, BeginDestroying, Goto, Stages
<1> QED
  BY <1>1, <1>2, CloseSessionCases

LEMMA TypeStep ==
    ASSUME TypeOK, [Next]_vars,
           \A s \in Servers : pc[s] \in {"answer", "release"} =>
               sess[s] \in Ids /\ ref_given[sess[s]] > 0
    PROVE  TypeOK'
<1> USE SessionAssumption DEF TypeOK
<1>1. ASSUME NEW s \in Servers, Server(s) PROVE TypeOK'
  <2> USE <1>1 DEF Goto, At, table, object, request, chooser, Stages, LibdarStates
  <2>1. CASE Connect(s)
    BY <2>1 DEF Connect
  <2>2. CASE NextRequest(s)
    BY <2>2 DEF NextRequest
  <2>3. CASE Leave(s)
    BY <2>3 DEF Leave
  <2>4. CASE Quit(s)
    BY <2>4 DEF Quit, Unwind
  <2>5. CASE GetInfo(s)
    BY <2>5 DEF GetInfo
  <2>6. CASE LookForSessions(s)
    <3>1. pc' \in [Servers -> Stages] /\ initial' \in [Servers -> BOOLEAN]
      BY <2>6 DEF LookForSessions
    <3> QED
      BY <2>6, <3>1 DEF LookForSessions
  <2>7. CASE CreateNew(s)
    <3>1. PICK id \in Ids :
             /\ running_session' = running_session \cup {id}
             /\ owner' = [owner EXCEPT ![id] = user[s]]
             /\ ref_given' = [ref_given EXCEPT ![id] = 0]
             /\ closing' = [closing EXCEPT ![id] = FALSE]
             /\ lock_wui' = [lock_wui EXCEPT ![id] = NoServer]
             /\ tid' = [tid EXCEPT ![id] = NoServer]
             /\ libdar' = [libdar EXCEPT ![id] = "idle"]
      BY <2>7 DEF CreateNew
    <3>2. /\ pc' \in [Servers -> Stages]
          /\ want' \in [Servers -> Ids \cup {NoId}]
          /\ user' \in [Servers -> Users]
      <4>1. IF initial[s] THEN Goto(s, "loop") /\ SendAnswer(s)
                          ELSE Goto(s, "show") /\ UNCHANGED request
        BY <2>7 DEF CreateNew
      <4>2. CASE initial[s]
        BY <4>1, <4>2 DEF SendAnswer
      <4>3. CASE ~initial[s]
        BY <4>1, <4>3
      <4> QED
        BY <4>2, <4>3
    <3> QED
      BY <2>7, <3>1, <3>2 DEF CreateNew
  <2>8. CASE CreateFails(s)
    BY <2>8 DEF CreateFails, Unwind
  <2>9. CASE Choose(s)
    <3>1. pc' \in [Servers -> Stages]
      BY <2>9 DEF Choose
    <3>2. doomed' \in [Servers -> SUBSET Ids]
      BY <2>9 DEF Choose
    <3> QED
      BY <2>9, <3>1, <3>2 DEF Choose
  <2>10. CASE ShowTable(s)
    BY <2>10 DEF ShowTable, OwnedBy, SendAnswer
  <2>11. CASE Kill(s)
    <3>1. CASE doomed[s] = {}
      BY <2>11, <3>1 DEF Kill
    <3>2. ASSUME NEW id \in doomed[s],
                 doomed' = [doomed EXCEPT ![s] = @ \ {id}],
                 CloseSession(s, id, "kill")
          PROVE TypeOK'
      <4>1. id \in Ids
        OBVIOUS
      <4>2. /\ lock_running' \in Servers \cup {NoServer}
            /\ closing' \in [Ids -> BOOLEAN]
            /\ dying' \in [Servers -> Ids \cup {NoId}]
            /\ pc' \in [Servers -> Stages]
        BY <3>2, <4>1, CloseSessionType
      <4> QED
        BY <2>11, <3>2, <4>2 DEF Kill, CloseSession
    <3> QED
      BY <2>11, <3>1, <3>2 DEF Kill
  <2>12. CASE AcquireReference(s)
    <3>1. ref_given' \in [Ids -> Nat]
      BY <2>12 DEF AcquireReference, MayBeGiven, GiveReference
    <3>2. pc' \in [Servers -> Stages]
      BY <2>12 DEF AcquireReference
    <3> QED
      BY <2>12, <3>1, <3>2 DEF AcquireReference
  <2>13. CASE LockWui(s)
    BY <2>13 DEF LockWui
  <2>14. CASE Own(s)
    BY <2>14 DEF Own
  <2>15. CASE Answer(s)
    BY <2>15, SMTT(30) DEF Answer, SendAnswer
  <2>16. CASE AnswerClosing(s)
    <3>1. /\ lock_running' \in Servers \cup {NoServer}
          /\ closing' \in [Ids -> BOOLEAN]
          /\ dying' \in [Servers -> Ids \cup {NoId}]
          /\ pc' \in [Servers -> Stages]
      <4>1. sess[s] \in Ids /\ CloseSession(s, sess[s], "loop")
        BY <2>16 DEF AnswerClosing
      <4> QED
        BY <4>1, CloseSessionType
    <3> QED
      BY <2>16, <3>1 DEF AnswerClosing, CloseSession, SendAnswer
  <2>17. CASE Release(s)
    <3>1. sess[s] \in Ids /\ ref_given[sess[s]] > 0
      BY <2>17 DEF Release
    <3>2. ref_given' \in [Ids -> Nat]
      BY <2>17, <3>1 DEF Release, TakeReferenceBack
    <3>3. /\ lock_running' \in Servers \cup {NoServer}
          /\ dying' \in [Servers -> Ids \cup {NoId}]
          /\ sess' \in [Servers -> Ids \cup {NoId}]
          /\ pc' \in [Servers -> Stages]
      <4>1. CASE IsToBeDestroyed(sess[s])
        BY <2>17, <3>1, <4>1 DEF Release
      <4>2. CASE ~IsToBeDestroyed(sess[s])
        BY <2>17, <3>1, <4>2, SMTT(30) DEF Release, AfterRelease
      <4> QED
        BY <4>1, <4>2
    <3> QED
      BY <2>17, <3>2, <3>3 DEF Release
  <2>18. CASE CancelLibdar(s)
    BY <2>18 DEF CancelLibdar
  <2>19. CASE Erase(s)
    BY <2>19, ZenonT(60) DEF Erase, EraseEntry, AfterRelease
  <2>20. CASE JoinThrows(s)
    <3>1. CASE sess[s] # dying[s] /\ EraseEntry(s) /\ Unwind(s)
               /\ UNCHANGED <<sess, chooser, status>>
      <4>1. /\ failing' \in [Servers -> BOOLEAN]
            /\ pc' \in [Servers -> Stages]
        BY <3>1 DEF Unwind
      <4> QED
        BY <3>1, <4>1 DEF EraseEntry
    <3>2. CASE /\ status' \in {"terminated"} \cup
                       IF sess[s] = dying[s] THEN {"undefined"} ELSE {}
               /\ UNCHANGED <<lock_running, table, object, pc, sess, request,
                              chooser, dying, failing>>
      BY <3>2
    <3> QED
      BY <2>20, <3>1, <3>2 DEF JoinThrows
  <2> QED
    BY <2>1, <2>2, <2>3, <2>4, <2>5, <2>6, <2>7, <2>8, <2>9, <2>10, <2>11, <2>12, <2>13, <2>14, <2>15, <2>16, <2>17, <2>18, <2>19, <2>20
    DEF Server, UseTable, UseSession, DestroySession
<1>2. ASSUME NEW id \in Ids, Libdar(id) PROVE TypeOK'
  BY <1>2 DEF Libdar, LibdarAsk, LibdarEnd, table, request, chooser, LibdarStates
<1>3. CASE UNCHANGED vars
  BY <1>3 DEF vars, table, object, request, chooser
<1> QED
  BY <1>1, <1>2, <1>3 DEF Next, Over

-----------------------------------------------------------------------------
(* Facts about the servers a session was given to.                           *)
LEMMA ReferrersFinite ==
    \A id : IsFiniteSet(Referrers(id)) /\ Cardinality(Referrers(id)) \in Nat
BY SessionAssumption, FS_Subset, FS_CardinalityType DEF Referrers

LEMMA UnreferredSession ==
    ASSUME RefCounted, NEW id \in running_session, ref_given[id] = 0,
           NEW s \in Servers
    PROVE  ~ Refers(s, id)
BY ReferrersFinite, FS_EmptySet DEF RefCounted, Referrers

(* A server that answers or releases was given its session, and owns it.     *)
LEMMA ServerOwns ==
    ASSUME IInv, NEW s \in Servers, pc[s] \in {"answer", "release"}
    PROVE  /\ sess[s] \in Ids
           /\ dying[s] = NoId
           /\ Refers(s, sess[s])
           /\ sess[s] \in running_session
           /\ lock_wui[sess[s]] = s
           /\ tid[sess[s]] = s
           /\ ref_given[sess[s]] > 0
<1>1. sess[s] \in Ids /\ dying[s] = NoId
  BY DEF IInv, TypeOK, ServerShape
<1>2. sess[s] # dying[s]
  BY <1>1, SessionAssumption
<1>3. Refers(s, sess[s]) /\ Holds(s, sess[s])
  BY <1>2 DEF Refers, Holds
<1>4. sess[s] \in running_session /\ lock_wui[sess[s]] = s /\ tid[sess[s]] = s
  BY <1>1, <1>2, <1>3 DEF IInv, ReferredIsRunning, HolderShape, TidShape
<1>5. ref_given[sess[s]] # 0
  BY <1>3, <1>4, UnreferredSession DEF IInv
<1> QED
  BY <1>1, <1>3, <1>4, <1>5 DEF IInv, TypeOK

-----------------------------------------------------------------------------
(* A step of a server that neither takes nor gives back a session, a         *)
(* reference or a lock.                                                      *)
LEMMA QuietStep ==
    ASSUME IInv, TypeOK', ServerShape',
           UNCHANGED <<lock_running, running_session, ref_given, closing,
                       lock_wui, tid, sess, dying>>,
           NEW s \in Servers,
           \A t \in Servers \ {s} : pc'[t] = pc[t] /\ want'[t] = want[t],
           pc[s] \notin {"wait_wui", "own"},
           pc'[s] \notin {"wait_wui", "own"}
    PROVE  IInv' /\ SameReferrers
<1>1. \A t \in Servers, id \in Ids : Refers(t, id)' <=> Refers(t, id)
  BY DEF Refers
<1>2. \A t \in Servers, id \in Ids : Holds(t, id)' <=> Holds(t, id)
  BY DEF Holds
<1>3. \A id \in Ids : Referrers(id)' = Referrers(id)
  BY <1>1 DEF Referrers
<1>4. running_session \subseteq Ids
  BY DEF IInv, TypeOK
<1>5. RefCounted'
  BY <1>3, <1>4 DEF IInv, RefCounted
<1>6. ReferredIsRunning'
  BY <1>1 DEF IInv, ReferredIsRunning
<1>7. HolderShape'
  BY <1>2 DEF IInv, HolderShape
<1>8. LockShape' /\ DyingShape' /\ TidShape' /\ ClosedIsNotForgotten'
  BY DEF IInv, LockShape, DyingShape, TidShape, ClosedIsNotForgotten
<1> QED
  BY <1>3, <1>5, <1>6, <1>7, <1>8 DEF IInv, SameReferrers

(* Such a step from one stage to another, as QuietStep wants it.             *)
LEMMA QuietMove ==
    ASSUME IInv, TypeOK', NEW s \in Servers, NEW stage \in Stages,
           UNCHANGED <<lock_running, running_session, ref_given, closing,
                       lock_wui, tid, sess, dying>>,
           pc' = [pc EXCEPT ![s] = stage],
           \A t \in Servers \ {s} : want'[t] = want[t],
           pc[s] \notin {"wait_wui", "own"},
           stage \notin {"wait_wui", "own"},
           stage \in {"destroy", "join"} <=> pc[s] \in {"destroy", "join"},
           stage \in {"off", "acquire", "bug"} => sess[s] = NoId,
           stage \in {"answer", "release"} => sess[s] # NoId
    PROVE  IInv' /\ SameReferrers
<1>1. pc'[s] = stage /\ \A t \in Servers \ {s} : pc'[t] = pc[t]
  BY DEF IInv, TypeOK
<1>2. ServerShape'
  BY <1>1 DEF IInv, ServerShape
<1> QED
  BY <1>1, <1>2, QuietStep

LEMMA QuietActions ==
    ASSUME IInv, TypeOK', NEW s \in Servers,
           \/ Connect(s) \/ NextRequest(s) \/ Leave(s) \/ Quit(s) \/ GetInfo(s)
           \/ LookForSessions(s) \/ CreateFails(s) \/ Choose(s) \/ ShowTable(s)
           \/ Answer(s) \/ CancelLibdar(s)
    PROVE  IInv' /\ SameReferrers
<1> USE DEF Goto, At, Stages, table, object, request, chooser
<1>0. TypeOK /\ ServerShape
  BY DEF IInv
<1>1. CASE Connect(s)
  <2>1. \A t \in Servers \ {s} : want'[t] = want[t]
    BY <1>0, <1>1 DEF Connect, TypeOK
  <2> QED
    BY <1>0, <1>1, <2>1, QuietMove DEF Connect, ServerShape
<1>2. CASE NextRequest(s)
  <2>1. \A t \in Servers \ {s} : want'[t] = want[t]
    BY <1>0, <1>2 DEF NextRequest, TypeOK
  <2> QED
    BY <1>2, <2>1, QuietMove DEF NextRequest
<1>3. CASE Leave(s)
  BY <1>3, QuietMove DEF Leave
<1>4. CASE Quit(s)
  <2>1. CASE sess[s] = NoId
    BY <1>4, <2>1, QuietMove DEF Quit, Unwind
  <2>2. CASE sess[s] # NoId
    BY <1>4, <2>2, QuietMove DEF Quit, Unwind
  <2> QED
    BY <2>1, <2>2
<1>5. CASE GetInfo(s)
  <2>1. \E stage \in {"initial", "choose", "acquire", "answer"} :
           /\ pc' = [pc EXCEPT ![s] = stage]
           /\ stage = "acquire" => sess[s] = NoId
           /\ stage = "answer" => sess[s] # NoId
    BY <1>5 DEF GetInfo
  <2> QED
    BY <1>5, <2>1, QuietMove DEF GetInfo
<1>6. CASE LookForSessions(s)
  BY <1>6, QuietMove DEF LookForSessions
<1>7. CASE CreateFails(s)
  <2>1. CASE sess[s] = NoId
    BY <1>7, <2>1, QuietMove DEF CreateFails, Unwind
  <2>2. CASE sess[s] # NoId
    BY <1>7, <2>2, QuietMove DEF CreateFails, Unwind
  <2> QED
    BY <2>1, <2>2
<1>8. CASE Choose(s)
  BY <1>8, QuietMove DEF Choose
<1>9. CASE ShowTable(s)
  <2>1. \A t \in Servers \ {s} : want'[t] = want[t]
    BY <1>0, <1>9 DEF ShowTable, SendAnswer, TypeOK
  <2> QED
    BY <1>9, <2>1, QuietMove DEF ShowTable
<1>10. CASE Answer(s)
  <2>1. \A t \in Servers \ {s} : want'[t] = want[t]
    BY <1>0, <1>10 DEF Answer, SendAnswer, TypeOK
  <2> QED
    BY <1>10, <2>1, QuietMove DEF Answer
<1>11. CASE CancelLibdar(s)
  BY <1>11, QuietMove DEF CancelLibdar
<1> QED
  BY <1>1, <1>2, <1>3, <1>4, <1>5, <1>6, <1>7, <1>8, <1>9, <1>10, <1>11

-----------------------------------------------------------------------------
(* A new session: nobody refers to it, nobody is destroying it.              *)
LEMMA CreateNewStep ==
    ASSUME IInv, TypeOK', NEW s \in Servers, CreateNew(s)
    PROVE  IInv' /\ SameReferrers
<1>0. TypeOK
  BY DEF IInv
<1>1. PICK new \in Ids \ running_session :
         /\ running_session' = running_session \cup {new}
         /\ ref_given' = [ref_given EXCEPT ![new] = 0]
         /\ closing' = [closing EXCEPT ![new] = FALSE]
         /\ lock_wui' = [lock_wui EXCEPT ![new] = NoServer]
         /\ tid' = [tid EXCEPT ![new] = NoServer]
  BY DEF CreateNew
<1>2. /\ pc[s] = "create" /\ pc'[s] \in {"loop", "show"}
      /\ \A t \in Servers \ {s} : pc'[t] = pc[t] /\ want'[t] = want[t]
      /\ UNCHANGED <<lock_running, sess, dying>>
  <2>1. IF initial[s] THEN Goto(s, "loop") /\ SendAnswer(s)
                      ELSE Goto(s, "show") /\ UNCHANGED request
    BY DEF CreateNew
  <2>2. CASE initial[s]
    BY <1>0, <2>1, <2>2 DEF CreateNew, At, Goto, SendAnswer, TypeOK
  <2>3. CASE ~initial[s]
    BY <1>0, <2>1, <2>3 DEF CreateNew, At, Goto, request, TypeOK
  <2> QED
    BY <2>2, <2>3
<1>3. \A t \in Servers : ~Refers(t, new) /\ ~Holds(t, new) /\ dying[t] # new
  <2>1. \A t \in Servers : ~Refers(t, new) /\ dying[t] # new
    BY <1>1 DEF IInv, ReferredIsRunning, DyingShape
  <2> QED
    BY <2>1 DEF Refers, Holds
<1>4. \A t \in Servers, id \in Ids : Refers(t, id)' <=> Refers(t, id)
  BY <1>2 DEF Refers
<1>5. \A t \in Servers, id \in Ids : Holds(t, id)' <=> Holds(t, id)
  BY <1>2 DEF Holds
<1>6. \A id \in Ids : Referrers(id)' = Referrers(id)
  BY <1>4 DEF Referrers
<1>7. Referrers(new) = {}
  BY <1>3 DEF Referrers
<1>8. ServerShape' /\ LockShape'
  BY <1>2 DEF IInv, ServerShape, LockShape
<1>9. DyingShape' /\ ReferredIsRunning'
  BY <1>0, <1>1, <1>2, <1>3, <1>4 DEF IInv, DyingShape, ReferredIsRunning, TypeOK
<1>10. RefCounted'
  <2> SUFFICES ASSUME NEW id \in running_session'
               PROVE  ref_given'[id] = Cardinality(Referrers(id)')
    BY DEF RefCounted
  <2>1. CASE id = new
    BY <1>0, <1>1, <1>6, <1>7, <2>1, FS_EmptySet DEF TypeOK
  <2>2. CASE id # new
    BY <1>0, <1>1, <1>6, <2>2 DEF IInv, RefCounted, TypeOK
  <2> QED
    BY <2>1, <2>2
<1>11. HolderShape' /\ TidShape'
  BY <1>0, <1>1, <1>2, <1>3, <1>5, SessionAssumption
  DEF IInv, HolderShape, TidShape, TypeOK, Refers
<1>12. ClosedIsNotForgotten'
  BY <1>0, <1>1, <1>2 DEF IInv, ClosedIsNotForgotten, TypeOK
<1> QED
  BY <1>6, <1>8, <1>9, <1>10, <1>11, <1>12 DEF IInv, SameReferrers

-----------------------------------------------------------------------------
(* A closing request, made by a server outside acquire_session.              *)
LEMMA CloseSessionStep ==
    ASSUME IInv, TypeOK', NEW s \in Servers, NEW id \in Ids,
           NEW stage \in {"loop", "kill"},
           CloseSession(s, id, stage),
           pc[s] \in {"answer", "kill"},
           sess[s] = id => ref_given[id] > 0,
           \A t \in Servers \ {s} : want'[t] = want[t],
           UNCHANGED <<object, sess>>
    PROVE  IInv' /\ SameReferrers
<1>0. TypeOK /\ stage \in Stages
  BY DEF IInv, Stages
<1>1. UNCHANGED <<running_session, ref_given>>
  BY <1>0, CloseSessionCases
<1>2. \A t \in Servers : dying[t] = NoId
  BY <1>0, SessionAssumption DEF IInv, LockShape, CloseSession, Unlocked
<1>3. CASE id \notin running_session \/ closing[id]
  BY <1>0, <1>1, <1>3, QuietMove
  DEF CloseSession, Goto, object, IInv, ServerShape
<1>4. CASE id \in running_session /\ ~closing[id]
  <2>1. closing' = [closing EXCEPT ![id] = TRUE]
    BY <1>4 DEF CloseSession
  <2>2. CASE ref_given[id] > 0
    <3>1. Goto(s, stage) /\ UNCHANGED <<lock_running, dying>>
      BY <1>4, <2>2 DEF CloseSession, IsReferred
    <3>2. /\ pc'[s] = stage
          /\ \A t \in Servers \ {s} : pc'[t] = pc[t] /\ want'[t] = want[t]
      BY <1>0, <3>1 DEF Goto, TypeOK
    <3>3. \A t \in Servers, i \in Ids :
             (Refers(t, i)' <=> Refers(t, i)) /\ (Holds(t, i)' <=> Holds(t, i))
      BY <3>1, <3>2 DEF Refers, Holds
    <3>4. \A i \in Ids : Referrers(i)' = Referrers(i)
      BY <3>3 DEF Referrers
    <3>5. ServerShape' /\ LockShape' /\ DyingShape' /\ TidShape'
      BY <1>1, <1>2, <3>1, <3>2, SessionAssumption
      DEF IInv, ServerShape, LockShape, DyingShape, TidShape, object
    <3>6. RefCounted' /\ ReferredIsRunning' /\ HolderShape'
      BY <1>0, <1>1, <3>3, <3>4
      DEF IInv, RefCounted, ReferredIsRunning, HolderShape, object, TypeOK
    <3>7. ClosedIsNotForgotten'
      BY <1>0, <1>1, <2>1, <2>2, <3>1 DEF IInv, ClosedIsNotForgotten, TypeOK
    <3> QED
      BY <3>4, <3>5, <3>6, <3>7 DEF IInv, SameReferrers
  <2>3. CASE ref_given[id] = 0
    <3>1. BeginDestroying(s, id)
      BY <1>4, <2>3 DEF CloseSession, IsReferred, BeginDestroying
    <3>2. /\ pc'[s] = "destroy" /\ dying'[s] = id
          /\ \A t \in Servers \ {s} :
                pc'[t] = pc[t] /\ want'[t] = want[t] /\ dying'[t] = dying[t]
      BY <1>0, <3>1 DEF BeginDestroying, Goto, TypeOK
    <3>3. sess[s] # id
      BY <2>3
    <3>4. \A t \in Servers, i \in Ids :
             (Refers(t, i)' <=> Refers(t, i)) /\ (Holds(t, i)' <=> Holds(t, i))
      BY <1>2, <3>2, <3>3, SessionAssumption DEF Refers, Holds
    <3>5. \A i \in Ids : Referrers(i)' = Referrers(i)
      BY <3>4 DEF Referrers
    <3>6. ServerShape'
      BY <1>0, <1>2, <3>2, SessionAssumption DEF IInv, ServerShape
    <3>7. LockShape' /\ DyingShape' /\ TidShape'
      BY <1>0, <1>1, <1>2, <1>4, <2>1, <2>3, <3>1, <3>2, <3>3, SessionAssumption
      DEF IInv, LockShape, DyingShape, TidShape, object, BeginDestroying, TypeOK
    <3>8. RefCounted' /\ ReferredIsRunning' /\ HolderShape'
      BY <1>0, <1>1, <3>4, <3>5
      DEF IInv, RefCounted, ReferredIsRunning, HolderShape, object, TypeOK
    <3>9. ClosedIsNotForgotten'
      BY <1>0, <1>1, <1>2, <2>1, <3>2, SessionAssumption
      DEF IInv, ClosedIsNotForgotten, TypeOK
    <3> QED
      BY <3>5, <3>6, <3>7, <3>8, <3>9 DEF IInv, SameReferrers
  <2> QED
    BY <1>0, <2>2, <2>3 DEF TypeOK
<1> QED
  BY <1>3, <1>4

LEMMA KillStep ==
    ASSUME IInv, TypeOK', NEW s \in Servers, Kill(s)
    PROVE  IInv' /\ SameReferrers
<1>0. TypeOK /\ pc[s] = "kill" /\ UNCHANGED <<object, sess, request>>
  BY DEF IInv, Kill, At
<1>1. CASE doomed[s] = {}
  BY <1>0, <1>1, QuietMove DEF Kill, Goto, Stages, object, table, request
<1>2. ASSUME NEW id \in doomed[s], CloseSession(s, id, "kill")
      PROVE  IInv' /\ SameReferrers
  <2>1. id \in Ids
    BY <1>0 DEF TypeOK
  <2>2. sess[s] = id => ref_given[id] > 0
    <3>1. SUFFICES ASSUME sess[s] = id PROVE ref_given[id] > 0
      OBVIOUS
    <3>2. dying[s] # id
      BY <1>0, <2>1, SessionAssumption DEF IInv, ServerShape
    <3>3. Refers(s, id) /\ id \in running_session
      BY <2>1, <3>1, <3>2 DEF Refers, IInv, ReferredIsRunning
    <3> QED
      BY <1>0, <2>1, <3>3, UnreferredSession DEF IInv, TypeOK
  <2> QED
    BY <1>0, <1>2, <2>1, <2>2, CloseSessionStep DEF request
<1> QED
  BY <1>1, <1>2 DEF Kill

LEMMA AnswerClosingStep ==
    ASSUME IInv, TypeOK', NEW s \in Servers, AnswerClosing(s)
    PROVE  IInv' /\ SameReferrers
<1>1. /\ pc[s] = "answer" /\ CloseSession(s, sess[s], "loop")
      /\ UNCHANGED <<object, sess>>
  BY DEF AnswerClosing, At
<1>2. \A t \in Servers \ {s} : want'[t] = want[t]
  BY DEF AnswerClosing, SendAnswer, IInv, TypeOK
<1>3. sess[s] \in Ids /\ ref_given[sess[s]] > 0
  BY <1>1, ServerOwns
<1> QED
  BY <1>1, <1>2, <1>3, CloseSessionStep

-----------------------------------------------------------------------------
(* acquire_session: the count and the set of referring servers grow together.*)
LEMMA AcquireStep ==
    ASSUME IInv, TypeOK', NEW s \in Servers, AcquireReference(s)
    PROVE  /\ IInv'
           /\ \/ SameReferrers /\ UNCHANGED table
              \/ \E id \in Ids : MayBeGiven(id) /\ Gains(s, id)
<1> PICK id : id = want[s]
  OBVIOUS
<1>0. TypeOK /\ pc[s] = "acquire"
  BY DEF IInv, AcquireReference, At
<1>1. sess[s] = NoId /\ dying[s] = NoId
  BY <1>0 DEF IInv, ServerShape, TypeOK
<1>2. CASE ~MayBeGiven(id)
  BY <1>0, <1>1, <1>2, QuietMove
  DEF AcquireReference, Goto, Stages, object, request, table
<1>3. CASE MayBeGiven(id)
  <2>1. id \in Ids /\ id \in running_session /\ ~closing[id]
    BY <1>0, <1>3 DEF MayBeGiven, TypeOK
  <2>2. /\ ref_given' = [ref_given EXCEPT ![id] = @ + 1]
        /\ Goto(s, "wait_wui")
        /\ UNCHANGED <<lock_running, running_session, closing, object, sess,
                       want, dying>>
    BY <1>3 DEF AcquireReference, GiveReference, request
  <2>3. /\ pc'[s] = "wait_wui"
        /\ \A t \in Servers \ {s} : pc'[t] = pc[t]
    BY <1>0, <2>2 DEF Goto, TypeOK
  <2>4. ~Refers(s, id)
    BY <1>0, <1>1, <2>1, SessionAssumption DEF Refers
  <2>5. \A t \in Servers, i \in Ids :
           Refers(t, i)' <=> (Refers(t, i) \/ (t = s /\ i = id))
    BY <1>0, <2>2, <2>3 DEF Refers
  <2>6. \A t \in Servers, i \in Ids : Holds(t, i)' <=> Holds(t, i)
    BY <1>0, <2>2, <2>3 DEF Holds
  <2>7. /\ Referrers(id)' = Referrers(id) \cup {s}
        /\ s \notin Referrers(id)
        /\ \A i \in Ids \ {id} : Referrers(i)' = Referrers(i)
    BY <2>1, <2>4, <2>5 DEF Referrers
  <2>8. RefCounted'
    <3>1. Cardinality(Referrers(id)') = Cardinality(Referrers(id)) + 1
      BY <2>7, ReferrersFinite, FS_AddElement
    <3>2. ref_given'[id] = Cardinality(Referrers(id)')
      BY <1>0, <2>1, <2>2, <3>1 DEF IInv, RefCounted, TypeOK
    <3>3. \A i \in running_session \ {id} :
             ref_given'[i] = Cardinality(Referrers(i)')
      BY <1>0, <2>2, <2>7 DEF IInv, RefCounted, TypeOK
    <3> QED
      BY <2>2, <3>2, <3>3 DEF RefCounted
  <2>9. ServerShape' /\ LockShape' /\ TidShape'
    BY <1>1, <2>1, <2>2, <2>3, SessionAssumption DEF IInv, ServerShape, LockShape, TidShape, object
  <2>10. DyingShape'
    BY <1>0, <2>1, <2>2 DEF IInv, DyingShape, TypeOK
  <2>11. ReferredIsRunning' /\ HolderShape'
    BY <2>1, <2>2, <2>5, <2>6 DEF IInv, ReferredIsRunning, HolderShape, object
  <2>12. ClosedIsNotForgotten'
    BY <1>0, <2>1, <2>2 DEF IInv, ClosedIsNotForgotten, TypeOK
  <2> QED
    BY <1>3, <2>1, <2>7, <2>8, <2>9, <2>10, <2>11, <2>12 DEF IInv, Gains
<1> QED
  BY <1>2, <1>3

(* The semaphore is taken, then the object is marked with its user.          *)
LEMMA LockWuiStep ==
    ASSUME IInv, TypeOK', NEW s \in Servers, LockWui(s)
    PROVE  IInv' /\ SameReferrers
<1> PICK id : id = want[s]
  OBVIOUS
<1>0. TypeOK /\ pc[s] = "wait_wui"
  BY DEF IInv, LockWui, At
<1>1. /\ lock_wui[id] = NoServer
      /\ lock_wui' = [lock_wui EXCEPT ![id] = s]
      /\ Goto(s, "own")
      /\ UNCHANGED <<lock_running, table, tid, sess, want, dying>>
  BY DEF LockWui, HasWorkingServer, request
<1>2. /\ pc'[s] = "own"
      /\ \A t \in Servers \ {s} : pc'[t] = pc[t]
  BY <1>0, <1>1 DEF Goto, TypeOK
<1>3. \A t \in Servers, i \in Ids : Refers(t, i)' <=> Refers(t, i)
  BY <1>0, <1>1, <1>2 DEF Refers
<1>4. \A i \in Ids : Referrers(i)' = Referrers(i)
  BY <1>3 DEF Referrers
<1>5. \A t \in Servers, i \in Ids :
         Holds(t, i)' <=> (Holds(t, i) \/ (t = s /\ i = id))
  BY <1>0, <1>1, <1>2 DEF Holds
<1>6. \A t \in Servers : id \in Ids => ~Holds(t, id)
  BY <1>1, SessionAssumption DEF IInv, HolderShape
<1>7. HolderShape'
  BY <1>0, <1>1, <1>5, <1>6, SessionAssumption DEF IInv, HolderShape, TypeOK
<1>8. ServerShape' /\ LockShape' /\ DyingShape' /\ TidShape'
  BY <1>0, <1>1, <1>2
  DEF IInv, ServerShape, LockShape, DyingShape, TidShape, table
<1>9. RefCounted' /\ ReferredIsRunning' /\ ClosedIsNotForgotten'
  BY <1>0, <1>1, <1>3, <1>4
  DEF IInv, RefCounted, ReferredIsRunning, ClosedIsNotForgotten, table, TypeOK
<1> QED
  BY <1>4, <1>7, <1>8, <1>9 DEF IInv, SameReferrers

LEMMA OwnStep ==
    ASSUME IInv, TypeOK', NEW s \in Servers, Own(s)
    PROVE  IInv' /\ SameReferrers
<1> PICK id : id = want[s]
  OBVIOUS
<1>0. TypeOK /\ pc[s] = "own"
  BY DEF IInv, Own, At
<1>1. /\ tid' = [tid EXCEPT ![id] = s]
      /\ sess' = [sess EXCEPT ![s] = id]
      /\ Goto(s, "answer")
      /\ UNCHANGED <<lock_running, table, lock_wui, want, dying>>
  BY DEF Own, request
<1>2. /\ pc'[s] = "answer" /\ sess'[s] = id
      /\ \A t \in Servers \ {s} : pc'[t] = pc[t] /\ sess'[t] = sess[t]
  BY <1>0, <1>1 DEF Goto, TypeOK
<1>3. sess[s] = NoId /\ dying[s] = NoId
  BY <1>0 DEF IInv, ServerShape, TypeOK
<1>4. id \in Ids
  BY <1>0 DEF IInv, ServerShape, TypeOK
<1>5. \A t \in Servers, i \in Ids : Refers(t, i)' <=> Refers(t, i)
  BY <1>0, <1>1, <1>2, <1>3, <1>4, SessionAssumption DEF Refers
<1>6. \A i \in Ids : Referrers(i)' = Referrers(i)
  BY <1>5 DEF Referrers
<1>7. \A t \in Servers, i \in Ids : Holds(t, i)' <=> Holds(t, i)
  BY <1>0, <1>1, <1>2, <1>3, <1>4, SessionAssumption DEF Holds
<1>8. \A t \in Servers \ {s} : sess[t] = id => dying[t] = id
  BY <1>0, <1>4, SessionAssumption DEF IInv, HolderShape, Holds
<1>9. TidShape'
  BY <1>0, <1>1, <1>2, <1>4, <1>8 DEF IInv, TidShape, TypeOK
<1>10. ServerShape' /\ LockShape' /\ DyingShape'
  BY <1>1, <1>2, <1>3, <1>4, SessionAssumption
  DEF IInv, ServerShape, LockShape, DyingShape, table
<1>11. RefCounted' /\ ReferredIsRunning' /\ HolderShape' /\ ClosedIsNotForgotten'
  BY <1>0, <1>1, <1>5, <1>6, <1>7
  DEF IInv, RefCounted, ReferredIsRunning, HolderShape, ClosedIsNotForgotten,
      table, TypeOK
<1> QED
  BY <1>6, <1>9, <1>10, <1>11 DEF IInv, SameReferrers

-----------------------------------------------------------------------------
(* release_session: the count and the set of referring servers shrink        *)
(* together, and the last server to leave a closing session destroys it.     *)
LEMMA ReleaseStep ==
    ASSUME IInv, TypeOK', NEW s \in Servers, Release(s)
    PROVE  IInv' /\ \E id \in Ids : id = sess[s] /\ Loses(s, id)
<1> PICK id : id = sess[s]
  OBVIOUS
<1>0. TypeOK /\ pc[s] = "release" /\ lock_running = NoServer
  BY DEF IInv, Release, At, Unlocked
<1>1. /\ id \in Ids /\ id \in running_session /\ dying[s] = NoId
      /\ Refers(s, id) /\ lock_wui[id] = s /\ ref_given[id] > 0
  BY <1>0, ServerOwns
<1>2. /\ ref_given' = [ref_given EXCEPT ![id] = @ - 1]
      /\ lock_wui' = [lock_wui EXCEPT ![id] = NoServer]
      /\ UNCHANGED <<running_session, closing, tid, want>>
  BY DEF Release, TakeReferenceBack, request
<1>3. \A t \in Servers : dying[t] = NoId
  BY <1>0, SessionAssumption DEF IInv, LockShape
<1>4. /\ ~(Refers(s, id)')
      /\ \A t \in Servers, i \in Ids :
            /\ Refers(t, i)' <=> (Refers(t, i) /\ ~(t = s /\ i = id))
            /\ Holds(t, i)' <=> (Holds(t, i) /\ ~(t = s /\ i = id))
      /\ ServerShape' /\ LockShape'
      /\ \A t \in Servers, i \in Ids :
            dying'[t] = i => t = s /\ i = id /\ ref_given'[id] = 0 /\ closing[id]
      /\ ref_given'[id] = 0 /\ closing[id] => dying'[s] = id
  <2>1. CASE IsToBeDestroyed(id)
    <3>1. /\ lock_running' = s /\ sess' = sess
          /\ pc'[s] = "destroy" /\ dying'[s] = id
          /\ \A t \in Servers \ {s} : pc'[t] = pc[t] /\ dying'[t] = dying[t]
          /\ ref_given'[id] = 0 /\ closing[id]
      BY <1>0, <2>1 DEF Release, Goto, TypeOK, IsToBeDestroyed
    <3>2. /\ ~(Refers(s, id)')
          /\ \A t \in Servers, i \in Ids :
                /\ Refers(t, i)' <=> (Refers(t, i) /\ ~(t = s /\ i = id))
                /\ Holds(t, i)' <=> (Holds(t, i) /\ ~(t = s /\ i = id))
      BY <1>0, <1>1, <1>2, <1>3, <3>1, SessionAssumption DEF Refers, Holds
    <3>3. ServerShape' /\ LockShape'
      BY <1>1, <1>2, <1>3, <3>1, SessionAssumption
      DEF IInv, ServerShape, LockShape
    <3> QED
      BY <1>3, <3>1, <3>2, <3>3, SessionAssumption
  <2>2. CASE ~IsToBeDestroyed(id)
    <3>1. /\ UNCHANGED <<lock_running, dying>>
          /\ pc'[s] \in {"off", "loop"} /\ sess'[s] = NoId
          /\ \A t \in Servers \ {s} : pc'[t] = pc[t] /\ sess'[t] = sess[t]
          /\ ~(ref_given'[id] = 0 /\ closing[id])
      BY <1>0, <2>2 DEF Release, AfterRelease, Goto, TypeOK, IsToBeDestroyed
    <3>2. /\ ~(Refers(s, id)')
          /\ \A t \in Servers, i \in Ids :
                /\ Refers(t, i)' <=> (Refers(t, i) /\ ~(t = s /\ i = id))
                /\ Holds(t, i)' <=> (Holds(t, i) /\ ~(t = s /\ i = id))
      BY <1>0, <1>1, <1>2, <1>3, <3>1, SessionAssumption DEF Refers, Holds
    <3>3. ServerShape' /\ LockShape'
      BY <1>1, <1>2, <1>3, <3>1, SessionAssumption
      DEF IInv, ServerShape, LockShape
    <3> QED
      BY <1>3, <3>1, <3>2, <3>3, SessionAssumption
  <2> QED
    BY <2>1, <2>2
<1>5. /\ Referrers(id)' = Referrers(id) \ {s}
      /\ s \in Referrers(id)
      /\ \A i \in Ids \ {id} : Referrers(i)' = Referrers(i)
  BY <1>1, <1>4 DEF Referrers
<1>6. RefCounted'
  <2>1. Cardinality(Referrers(id)') = Cardinality(Referrers(id)) - 1
    BY <1>5, ReferrersFinite, FS_RemoveElement
  <2>2. ref_given'[id] = Cardinality(Referrers(id)')
    BY <1>0, <1>1, <1>2, <2>1 DEF IInv, RefCounted, TypeOK
  <2>3. \A i \in running_session \ {id} :
           ref_given'[i] = Cardinality(Referrers(i)')
    BY <1>0, <1>2, <1>5 DEF IInv, RefCounted, TypeOK
  <2> QED
    BY <1>2, <2>2, <2>3 DEF RefCounted
<1>7. DyingShape' /\ ReferredIsRunning'
  BY <1>1, <1>2, <1>4 DEF IInv, DyingShape, ReferredIsRunning
<1>8. HolderShape'
  <2>1. \A t \in Servers \ {s} : ~Holds(t, id)
    BY <1>0, <1>1 DEF IInv, HolderShape
  <2> QED
    BY <1>0, <1>1, <1>2, <1>4, <2>1, SessionAssumption
    DEF IInv, HolderShape, TypeOK
<1>9. TidShape'
  <2> SUFFICES ASSUME NEW t \in Servers, NEW i \in Ids,
                      sess'[t] = i, dying'[t] # i
               PROVE  tid'[i] = t
    BY DEF TidShape
  <2>1. Refers(t, i)'
    BY DEF Refers
  <2>2. sess[t] = i
    BY <1>0, <1>4, <2>1, SessionAssumption DEF Release, TypeOK
  <2>3. dying[t] # i
    BY <1>3, SessionAssumption
  <2> QED
    BY <1>2, <2>2, <2>3 DEF IInv, TidShape
<1>10. ClosedIsNotForgotten'
  BY <1>0, <1>1, <1>2, <1>3, <1>4, SessionAssumption
  DEF IInv, ClosedIsNotForgotten, TypeOK
<1> QED
  BY <1>1, <1>4, <1>5, <1>6, <1>7, <1>8, <1>9, <1>10 DEF IInv, Loses

-----------------------------------------------------------------------------
(* The entry of a destroyed session leaves the table: no server referred to  *)
(* it, and no other session was under destruction.                           *)
LEMMA EraseEntryStep ==
    ASSUME IInv, TypeOK', NEW s \in Servers, NEW stage \in Stages,
           pc[s] \in {"destroy", "join"},
           EraseEntry(s),
           pc' = [pc EXCEPT ![s] = stage],
           \/ /\ sess[s] = dying[s]
              /\ sess' = [sess EXCEPT ![s] = NoId]
              /\ stage \in {"off", "loop"}
           \/ /\ sess[s] # dying[s]
              /\ sess' = sess
              /\ stage \in {"off", "release", "kill"}
              /\ stage = "off" => sess[s] = NoId
              /\ stage = "release" => sess[s] # NoId
    PROVE  IInv' /\ SameReferrers
<1> PICK id : id = dying[s]
  OBVIOUS
<1>0. TypeOK
  BY DEF IInv
<1>1. id \in Ids /\ lock_running = s
  BY <1>0 DEF IInv, ServerShape, LockShape, TypeOK
<1>2. id \in running_session /\ closing[id] /\ ref_given[id] = 0
  BY <1>1 DEF IInv, DyingShape
<1>3. \A t \in Servers \ {s} : dying[t] = NoId
  BY <1>1 DEF IInv, LockShape
<1>4. /\ running_session' = running_session \ {id}
      /\ closing' = [closing EXCEPT ![id] = FALSE]
      /\ tid' = [tid EXCEPT ![id] = NoServer]
      /\ lock_running' = NoServer
      /\ UNCHANGED <<ref_given, lock_wui, want>>
  BY DEF EraseEntry, request
<1>5. \A t \in Servers : dying'[t] = NoId
  BY <1>0, <1>3 DEF EraseEntry, TypeOK
<1>6. /\ pc'[s] = stage
      /\ \A t \in Servers \ {s} : pc'[t] = pc[t] /\ sess'[t] = sess[t]
  BY <1>0 DEF TypeOK
<1>7. \A t \in Servers : ~Refers(t, id)
  BY <1>2, UnreferredSession DEF IInv
<1>8. \A t \in Servers, i \in Ids :
         (Refers(t, i)' <=> Refers(t, i)) /\ (Holds(t, i)' <=> Holds(t, i))
  <2>1. CASE sess[s] = dying[s]
    <3>1. sess'[s] = NoId
      BY <1>0, <2>1 DEF TypeOK
    <3> QED
      BY <1>1, <1>3, <1>4, <1>5, <1>6, <2>1, <3>1, SessionAssumption
      DEF Refers, Holds
  <2>2. CASE sess[s] # dying[s]
    BY <1>1, <1>3, <1>4, <1>5, <1>6, <2>2, SessionAssumption
    DEF Refers, Holds
  <2> QED
    BY <2>1, <2>2
<1>9. \A i \in Ids : Referrers(i)' = Referrers(i)
  BY <1>8 DEF Referrers
<1>10. RefCounted'
  BY <1>0, <1>4, <1>9 DEF IInv, RefCounted, TypeOK
<1>11. ReferredIsRunning' /\ HolderShape'
  BY <1>4, <1>7, <1>8 DEF IInv, ReferredIsRunning, HolderShape
<1>12. TidShape'
  <2> SUFFICES ASSUME NEW t \in Servers, NEW i \in Ids, sess'[t] = i
               PROVE  tid'[i] = t
    BY DEF TidShape
  <2>1. Refers(t, i)'
    BY <1>5, SessionAssumption DEF Refers
  <2>2. Refers(t, i) /\ i # id
    BY <1>7, <1>8, <2>1
  <2>3. sess[t] = i
    BY <1>0, <1>6, SessionAssumption DEF TypeOK
  <2>4. dying[t] # i
    BY <1>3, <2>2, SessionAssumption
  <2> QED
    BY <1>0, <1>4, <2>2, <2>3, <2>4 DEF IInv, TidShape, TypeOK
<1>13. ClosedIsNotForgotten'
  <2> SUFFICES ASSUME NEW i \in running_session', closing'[i],
                      ref_given'[i] = 0
               PROVE  FALSE
    BY DEF ClosedIsNotForgotten
  <2>1. i \in running_session /\ i # id /\ i \in Ids
    BY <1>0, <1>4 DEF TypeOK
  <2>2. closing[i] /\ ref_given[i] = 0
    BY <1>0, <1>4, <2>1 DEF TypeOK
  <2>3. PICK t \in Servers : dying[t] = i
    BY <2>1, <2>2 DEF IInv, ClosedIsNotForgotten
  <2> QED
    BY <1>3, <2>1, <2>3, SessionAssumption
<1>14. ServerShape' /\ LockShape' /\ DyingShape'
  <2>1. LockShape' /\ DyingShape'
    BY <1>4, <1>5, SessionAssumption DEF LockShape, DyingShape
  <2>2. ServerShape'
    <3>1. CASE sess[s] = dying[s]
      <4>1. sess'[s] = NoId /\ stage \in {"off", "loop"}
        BY <1>0, <3>1 DEF TypeOK
      <4> QED
        BY <1>3, <1>4, <1>5, <1>6, <4>1 DEF IInv, ServerShape
    <3>2. CASE sess[s] # dying[s]
      BY <1>3, <1>4, <1>5, <1>6, <3>2 DEF IInv, ServerShape
    <3> QED
      BY <3>1, <3>2
  <2> QED
    BY <2>1, <2>2
<1> QED
  BY <1>9, <1>10, <1>11, <1>12, <1>13, <1>14 DEF IInv, SameReferrers

LEMMA EraseStep ==
    ASSUME IInv, TypeOK', NEW s \in Servers, Erase(s)
    PROVE  IInv' /\ SameReferrers
<1>1. pc[s] \in {"destroy", "join"} /\ EraseEntry(s)
  BY DEF Erase, At
<1>2. CASE sess[s] = dying[s]
  <2>1. /\ sess' = [sess EXCEPT ![s] = NoId]
        /\ \E stage \in {"off", "loop"} : pc' = [pc EXCEPT ![s] = stage]
    BY <1>2 DEF Erase, AfterRelease, Goto
  <2> QED
    BY <1>1, <1>2, <2>1, EraseEntryStep DEF Stages
<1>3. CASE sess[s] # dying[s]
  <2>1. sess' = sess /\ pc' = [pc EXCEPT ![s] = "kill"]
    BY <1>3 DEF Erase, Goto
  <2> QED
    BY <1>1, <1>3, <2>1, EraseEntryStep DEF Stages
<1> QED
  BY <1>2, <1>3

(* Nothing of what IInv speaks of changes.                                   *)
LEMMA IdleStep ==
    ASSUME IInv, TypeOK',
           UNCHANGED <<lock_running, running_session, ref_given, closing,
                       lock_wui, tid, pc, sess, want, dying>>
    PROVE  IInv' /\ SameReferrers
<1>1. /\ \A t \in Servers, i \in Ids : Refers(t, i)' <=> Refers(t, i)
      /\ \A t \in Servers, i \in Ids : Holds(t, i)' <=> Holds(t, i)
  BY DEF Refers, Holds
<1>2. \A i : Referrers(i)' = Referrers(i)
  BY DEF Referrers, Refers
<1>3. RefCounted' /\ ReferredIsRunning' /\ HolderShape'
  BY <1>1, <1>2 DEF IInv, RefCounted, ReferredIsRunning, HolderShape
<1>4. /\ ServerShape' /\ LockShape' /\ DyingShape' /\ TidShape'
      /\ ClosedIsNotForgotten'
  BY DEF IInv, ServerShape, LockShape, DyingShape, TidShape,
         ClosedIsNotForgotten
<1> QED
  BY <1>2, <1>3, <1>4 DEF IInv, SameReferrers

LEMMA JoinThrowsStep ==
    ASSUME IInv, TypeOK', NEW s \in Servers, JoinThrows(s)
    PROVE  IInv' /\ SameReferrers
<1>1. CASE UNCHANGED <<lock_running, table, object, pc, sess, request, chooser,
                       dying, failing>>
  BY <1>1, IdleStep DEF table, object, request
<1>2. CASE sess[s] # dying[s] /\ EraseEntry(s) /\ Unwind(s) /\ UNCHANGED sess
  <2>1. \E stage \in {"off", "release"} :
           /\ pc' = [pc EXCEPT ![s] = stage]
           /\ stage = "off" => sess[s] = NoId
           /\ stage = "release" => sess[s] # NoId
    BY <1>2 DEF Unwind, Goto
  <2>2. pc[s] = "join"
    BY DEF JoinThrows, At
  <2> QED
    BY <1>2, <2>1, <2>2, EraseEntryStep DEF Stages
<1> QED
  BY <1>1, <1>2 DEF JoinThrows

-----------------------------------------------------------------------------
LEMMA IInvInit == Init => IInv
<1> SUFFICES ASSUME Init PROVE IInv
  OBVIOUS
<1>1. /\ TypeOK
      /\ \A s \in Servers : pc[s] = "off" /\ sess[s] = NoId /\ dying[s] = NoId
      /\ running_session = {}
      /\ \A id \in Ids : lock_wui[id] = NoServer
      /\ lock_running = NoServer
  BY TypeInit DEF Init
<1>2. \A s \in Servers, id \in Ids : ~Refers(s, id) /\ ~Holds(s, id)
  BY <1>1, SessionAssumption DEF Refers, Holds
<1>3. ServerShape /\ LockShape /\ DyingShape /\ TidShape
  BY <1>1, SessionAssumption DEF ServerShape, LockShape, DyingShape, TidShape
<1>4. /\ ReferredIsRunning /\ RefCounted /\ HolderShape
      /\ ClosedIsNotForgotten
  BY <1>1, <1>2, SessionAssumption
  DEF ReferredIsRunning, RefCounted, HolderShape, ClosedIsNotForgotten
<1> QED
  BY <1>1, <1>3, <1>4 DEF IInv

LEMMA IInvStep == IInv /\ [Next]_vars => IInv'
<1> SUFFICES ASSUME IInv, [Next]_vars PROVE IInv'
  OBVIOUS
<1>0. TypeOK'
  BY TypeStep, ServerOwns DEF IInv
<1>1. ASSUME NEW s \in Servers, Server(s) PROVE IInv'
  <2>1. CASE \/ Connect(s) \/ NextRequest(s) \/ Leave(s) \/ Quit(s)
             \/ GetInfo(s) \/ LookForSessions(s) \/ CreateFails(s)
             \/ Choose(s) \/ ShowTable(s) \/ Answer(s) \/ CancelLibdar(s)
    BY <1>0, <2>1, QuietActions
  <2>2. CASE CreateNew(s)
    BY <1>0, <2>2, CreateNewStep
  <2>3. CASE Kill(s)
    BY <1>0, <2>3, KillStep
  <2>4. CASE AcquireReference(s)
    BY <1>0, <2>4, AcquireStep
  <2>5. CASE LockWui(s)
    BY <1>0, <2>5, LockWuiStep
  <2>6. CASE Own(s)
    BY <1>0, <2>6, OwnStep
  <2>7. CASE AnswerClosing(s)
    BY <1>0, <2>7, AnswerClosingStep
  <2>8. CASE Release(s)
    BY <1>0, <2>8, ReleaseStep
  <2>9. CASE Erase(s)
    BY <1>0, <2>9, EraseStep
  <2>10. CASE JoinThrows(s)
    BY <1>0, <2>10, JoinThrowsStep
  <2> QED
    BY <1>1, <2>1, <2>2, <2>3, <2>4, <2>5, <2>6, <2>7, <2>8, <2>9, <2>10
    DEF Server, UseTable, UseSession, DestroySession
<1>2. ASSUME NEW id \in Ids, Libdar(id) PROVE IInv'
  BY <1>0, <1>2, IdleStep DEF Libdar, LibdarAsk, LibdarEnd, table, request
<1>3. CASE UNCHANGED vars
  BY <1>0, <1>3, IdleStep DEF vars, table, object, request
<1> QED
  BY <1>1, <1>2, <1>3 DEF Next, Over

LEMMA Invariance == Spec => []IInv
BY IInvInit, IInvStep, PTL DEF Spec

(* The variables keep their types: in particular ref_given never goes below  *)
(* zero, which release_session takes as a bug (session.cpp:315).             *)
THEOREM TypeCorrect == Spec => []TypeOK
<1>1. IInv => TypeOK
  BY DEF IInv
<1> QED
  BY <1>1, Invariance, PTL

(* ref_given is the number of servers that wait for the session or hold it.  *)
THEOREM ReferencesCounted == Spec => []RefCounted
<1>1. IInv => RefCounted
  BY DEF IInv
<1> QED
  BY <1>1, Invariance, PTL

(* No server waits on, or answers with, a session that is destroyed or is    *)
(* being destroyed.                                                          *)
THEOREM ReferencesNeverDangle == Spec => []NoDanglingReference
<1>1. IInv => NoDanglingReference
  <2> SUFFICES ASSUME IInv, NEW s \in Servers, NEW id \in Ids, Refers(s, id),
                      NEW t \in Servers
               PROVE  id \in running_session /\ dying[t] # id
    BY DEF NoDanglingReference
  <2>1. id \in running_session
    BY DEF IInv, ReferredIsRunning
  <2>2. dying[t] # id
    BY <2>1, UnreferredSession DEF IInv, DyingShape
  <2> QED
    BY <2>1, <2>2
<1> QED
  BY <1>1, Invariance, PTL

(* A server only answers with, or releases, a session whose semaphore it     *)
(* holds and whose recorded user it is.                                      *)
THEOREM CallersOwnSessions == Spec => []CallerOwnsSession
<1>1. IInv => CallerOwnsSession
  BY ServerOwns DEF CallerOwnsSession
<1> QED
  BY <1>1, Invariance, PTL

(* A closing session nobody refers to is being destroyed.                    *)
THEOREM ClosedNeverForgotten == Spec => []ClosedIsNotForgotten
<1>1. IInv => ClosedIsNotForgotten
  BY DEF IInv
<1> QED
  BY <1>1, Invariance, PTL

-----------------------------------------------------------------------------
(* What a step may make of the table: nothing, a new entry, the flag of an   *)
(* entry, a reference more or less, the end of an entry.                     *)
LEMMA TableStep ==
    ASSUME IInv, [Next]_vars
    PROVE  \/ UNCHANGED <<running_session, closing, ref_given>>
           \/ \E s \in Servers : \/ CreateNew(s)
                                 \/ AcquireReference(s)
                                 \/ Release(s)
           \/ \E s \in Servers : EraseEntry(s)
           \/ \E id \in running_session :
                 /\ closing' = [closing EXCEPT ![id] = TRUE]
                 /\ UNCHANGED <<running_session, ref_given>>
<1>0. TypeOK
  BY DEF IInv
<1>1. ASSUME NEW s \in Servers, Server(s)
      PROVE  \/ UNCHANGED <<running_session, closing, ref_given>>
             \/ CreateNew(s) \/ AcquireReference(s) \/ Release(s)
             \/ EraseEntry(s)
             \/ \E id \in running_session :
                   /\ closing' = [closing EXCEPT ![id] = TRUE]
                   /\ UNCHANGED <<running_session, ref_given>>
  <2>1. ASSUME NEW id, NEW stage, CloseSession(s, id, stage)
        PROVE  \/ UNCHANGED <<running_session, closing, ref_given>>
               \/ \E i \in running_session :
                     /\ closing' = [closing EXCEPT ![i] = TRUE]
                     /\ UNCHANGED <<running_session, ref_given>>
    BY <2>1 DEF CloseSession
  <2>2. CASE Kill(s)
    BY <2>1, <2>2 DEF Kill, table
  <2>3. CASE AnswerClosing(s)
    BY <2>1, <2>3 DEF AnswerClosing
  <2>4. CASE Erase(s) \/ JoinThrows(s)
    BY <2>4 DEF Erase, JoinThrows, table
  <2>5. CASE \/ Connect(s) \/ NextRequest(s) \/ Leave(s) \/ Quit(s)
             \/ GetInfo(s) \/ LookForSessions(s) \/ CreateFails(s)
             \/ Choose(s) \/ ShowTable(s) \/ Answer(s) \/ CancelLibdar(s)
             \/ LockWui(s) \/ Own(s)
    BY <2>5
    DEF Connect, NextRequest, Leave, Quit, GetInfo, LookForSessions,
        CreateFails, Choose, ShowTable, Answer, CancelLibdar, LockWui, Own,
        table
  <2> QED
    BY <1>1, <2>2, <2>3, <2>4, <2>5
    DEF Server, UseTable, UseSession, DestroySession
<1>2. ASSUME NEW id \in Ids, Libdar(id)
      PROVE  UNCHANGED <<running_session, closing, ref_given>>
  BY <1>2 DEF Libdar, LibdarAsk, LibdarEnd, table
<1>3. CASE UNCHANGED vars
  BY <1>3 DEF vars, table
<1> QED
  BY <1>1, <1>2, <1>3 DEF Next, Over

(* Once closing, a session is given to nobody else and stays closing until   *)
(* it leaves the table.                                                      *)
THEOREM ClosingStaysFinal == Spec => ClosingIsFinal
<1> DEFINE Final == \A id \in running_session :
                       closing[id] /\ id \in running_session' =>
                          closing'[id] /\ ref_given'[id] <= ref_given[id]
<1>1. IInv /\ [Next]_vars => [Final]_vars
  <2> SUFFICES ASSUME IInv, [Next]_vars, NEW id \in running_session,
                      closing[id], id \in running_session'
               PROVE  closing'[id] /\ ref_given'[id] <= ref_given[id]
    OBVIOUS
  <2>0. TypeOK /\ id \in Ids
    BY DEF IInv, TypeOK
  <2>1. CASE UNCHANGED <<running_session, closing, ref_given>>
    BY <2>0, <2>1 DEF TypeOK
  <2>2. ASSUME NEW s \in Servers, CreateNew(s)
        PROVE  closing'[id] /\ ref_given'[id] <= ref_given[id]
    BY <2>0, <2>2 DEF CreateNew, TypeOK
  <2>3. ASSUME NEW s \in Servers, AcquireReference(s)
        PROVE  closing'[id] /\ ref_given'[id] <= ref_given[id]
    <3>1. CASE MayBeGiven(want[s])
      BY <2>0, <2>3, <3>1
      DEF AcquireReference, MayBeGiven, GiveReference, TypeOK
    <3>2. CASE ~MayBeGiven(want[s])
      BY <2>0, <2>3, <3>2 DEF AcquireReference, TypeOK
    <3> QED
      BY <3>1, <3>2
  <2>4. ASSUME NEW s \in Servers, Release(s)
        PROVE  closing'[id] /\ ref_given'[id] <= ref_given[id]
    BY <2>0, <2>4 DEF Release, TakeReferenceBack, TypeOK
  <2>5. ASSUME NEW s \in Servers, EraseEntry(s)
        PROVE  closing'[id] /\ ref_given'[id] <= ref_given[id]
    BY <2>0, <2>5 DEF EraseEntry, TypeOK
  <2>6. ASSUME NEW i \in running_session,
               closing' = [closing EXCEPT ![i] = TRUE],
               UNCHANGED <<running_session, ref_given>>
        PROVE  closing'[id] /\ ref_given'[id] <= ref_given[id]
    BY <2>0, <2>6 DEF TypeOK
  <2> QED
    BY <2>1, <2>2, <2>3, <2>4, <2>5, <2>6, TableStep
<1> QED
  BY <1>1, Invariance, PTL DEF Spec, ClosingIsFinal

-----------------------------------------------------------------------------
(* The steps of SessionTable seen through the refinement mapping of Life.    *)
LifeState(id) ==
    IF id \notin running_session THEN "absent"
    ELSE IF closing[id] THEN "closing"
    ELSE "open"

(* A step that leaves the table, the referring servers and the semaphores.   *)
Stutters ==
    /\ UNCHANGED <<running_session, closing, lock_wui>>
    /\ SameReferrers

LEMMA StutterMaps ==
    ASSUME IInv, Stutters
    PROVE  UNCHANGED Life!vars
BY DEF Stutters, SameReferrers, Life!vars

LEMMA CloseMaps ==
    ASSUME IInv, SameReferrers, NEW s \in Servers, NEW id \in Ids, NEW stage,
           CloseSession(s, id, stage), UNCHANGED lock_wui
    PROVE  [Life!Next]_(Life!vars)
<1>0. TypeOK
  BY DEF IInv
<1>1. CASE id \notin running_session \/ closing[id]
  BY <1>1, StutterMaps DEF CloseSession, Stutters
<1>2. CASE id \in running_session /\ ~closing[id]
  <2>1. /\ UNCHANGED running_session
        /\ closing' = [closing EXCEPT ![id] = TRUE]
    BY <1>2 DEF CloseSession
  <2>2. /\ LifeState(id) = "open" /\ LifeState(id)' = "closing"
        /\ \A i \in Ids \ {id} : LifeState(i)' = LifeState(i)
    BY <1>0, <1>2, <2>1 DEF LifeState, TypeOK
  <2>3. Life!Close(id)
    BY <2>2 DEF Life!Close, LifeState, SameReferrers
  <2> QED
    BY <2>3 DEF Life!Next
<1> QED
  BY <1>1, <1>2

LEMMA DestroyMaps ==
    ASSUME IInv, SameReferrers, NEW s \in Servers, EraseEntry(s),
           pc[s] \in {"destroy", "join"}
    PROVE  [Life!Next]_(Life!vars)
<1> PICK id : id = dying[s]
  OBVIOUS
<1>0. TypeOK
  BY DEF IInv
<1>1. id \in Ids /\ id \in running_session /\ closing[id] /\ ref_given[id] = 0
  BY <1>0 DEF IInv, ServerShape, DyingShape, TypeOK
<1>2. /\ running_session' = running_session \ {id}
      /\ closing' = [closing EXCEPT ![id] = FALSE]
      /\ UNCHANGED lock_wui
  BY DEF EraseEntry
<1>3. /\ LifeState(id) = "closing" /\ LifeState(id)' = "absent"
      /\ \A i \in Ids \ {id} : LifeState(i)' = LifeState(i)
  BY <1>0, <1>1, <1>2 DEF LifeState, TypeOK
<1>4. Referrers(id) = {}
  BY <1>1, UnreferredSession DEF IInv, Referrers
<1>5. Life!Destroy(id)
  BY <1>1, <1>2, <1>3, <1>4 DEF Life!Destroy, LifeState, SameReferrers
<1> QED
  BY <1>1, <1>5 DEF Life!Next

LEMMA CreateMaps ==
    ASSUME IInv, SameReferrers, NEW s \in Servers, CreateNew(s)
    PROVE  [Life!Next]_(Life!vars)
<1>0. TypeOK
  BY DEF IInv
<1>1. PICK id \in Ids \ running_session :
         /\ running_session' = running_session \cup {id}
         /\ closing' = [closing EXCEPT ![id] = FALSE]
         /\ lock_wui' = [lock_wui EXCEPT ![id] = NoServer]
  BY DEF CreateNew
<1>2. /\ LifeState(id) = "absent" /\ LifeState(id)' = "open"
      /\ \A i \in Ids \ {id} : LifeState(i)' = LifeState(i)
  BY <1>0, <1>1 DEF LifeState, TypeOK
<1>3. lock_wui' = lock_wui
  <2>1. \A t \in Servers : ~Refers(t, id)
    BY <1>1 DEF IInv, ReferredIsRunning
  <2>2. \A t \in Servers : lock_wui[id] # t
    BY <1>1, <2>1 DEF IInv, HolderShape, Holds, Refers
  <2> QED
    BY <1>0, <1>1, <2>2 DEF TypeOK
<1>4. Life!Create(id)
  BY <1>2, <1>3 DEF Life!Create, LifeState, SameReferrers
<1> QED
  BY <1>4 DEF Life!Next

LEMMA GiveMaps ==
    ASSUME IInv, NEW s \in Servers, AcquireReference(s),
           NEW id \in Ids, MayBeGiven(id), Gains(s, id)
    PROVE  Life!Next
<1>1. UNCHANGED <<running_session, closing, lock_wui>>
  BY DEF AcquireReference, object
<1>2. LifeState(id) = "open" /\ \A i \in Ids : LifeState(i)' = LifeState(i)
  BY <1>1 DEF LifeState, MayBeGiven
<1>3. Life!Give(s, id)
  BY <1>1, <1>2 DEF Life!Give, LifeState, Gains
<1> QED
  BY <1>3 DEF Life!Next

LEMMA HoldMaps ==
    ASSUME IInv, NEW s \in Servers, LockWui(s), SameReferrers
    PROVE  Life!Next
<1> PICK id : id = want[s]
  OBVIOUS
<1>0. TypeOK /\ pc[s] = "wait_wui"
  BY DEF IInv, LockWui, At
<1>1. id \in Ids /\ s \in Referrers(id)
  BY <1>0 DEF IInv, ServerShape, TypeOK, Referrers, Refers
<1>2. /\ lock_wui[id] = NoServer
      /\ lock_wui' = [lock_wui EXCEPT ![id] = s]
      /\ UNCHANGED <<running_session, closing>>
  BY DEF LockWui, HasWorkingServer, table
<1>3. Life!Hold(s, id)
  BY <1>1, <1>2 DEF Life!Hold, SameReferrers
<1> QED
  BY <1>1, <1>3 DEF Life!Next

LEMMA DropMaps ==
    ASSUME IInv, NEW s \in Servers, Release(s),
           NEW id \in Ids, id = sess[s], Loses(s, id)
    PROVE  Life!Next
<1>1. lock_wui[id] = s
  BY ServerOwns DEF Release, At
<1>2. /\ lock_wui' = [lock_wui EXCEPT ![id] = NoServer]
      /\ UNCHANGED <<running_session, closing>>
  BY DEF Release
<1>3. Life!Drop(s, id)
  BY <1>1, <1>2 DEF Life!Drop, Loses
<1> QED
  BY <1>3 DEF Life!Next

(* The table, its mutex, its semaphores and its counters implement what      *)
(* SessionLife promises of a session, for any number of servers and of       *)
(* sessions.                                                                 *)
THEOREM TableImplementsLife == Spec => ImplementsSessionLife
<1>1. Init => Life!Init
  <2> SUFFICES ASSUME Init PROVE Life!Init
    OBVIOUS
  <2>1. \A s \in Servers, id \in Ids : ~Refers(s, id)
    BY SessionAssumption DEF Init, Refers
  <2> QED
    BY <2>1 DEF Init, Life!Init, Referrers
<1>2. IInv /\ IInv' /\ [Next]_vars => [Life!Next]_(Life!vars)
  <2> SUFFICES ASSUME IInv, IInv', [Next]_vars PROVE [Life!Next]_(Life!vars)
    OBVIOUS
  <2>0. TypeOK /\ TypeOK'
    BY DEF IInv
  <2>1. ASSUME NEW s \in Servers, Server(s) PROVE [Life!Next]_(Life!vars)
    <3>1. CASE \/ Connect(s) \/ NextRequest(s) \/ Leave(s) \/ Quit(s)
               \/ GetInfo(s) \/ LookForSessions(s) \/ CreateFails(s)
               \/ Choose(s) \/ ShowTable(s) \/ Answer(s) \/ CancelLibdar(s)
      <4>1. SameReferrers
        BY <2>0, <3>1, QuietActions
      <4>2. UNCHANGED <<running_session, closing, lock_wui>>
        BY <3>1
        DEF Connect, NextRequest, Leave, Quit, GetInfo, LookForSessions,
            CreateFails, Choose, ShowTable, Answer, CancelLibdar, table, object
      <4> QED
        BY <4>1, <4>2, StutterMaps DEF Stutters
    <3>2. CASE CreateNew(s)
      BY <2>0, <3>2, CreateNewStep, CreateMaps
    <3>3. CASE Kill(s)
      <4>1. SameReferrers
        BY <2>0, <3>3, KillStep
      <4>2. CASE doomed[s] = {}
        BY <3>3, <4>1, <4>2, StutterMaps DEF Stutters, Kill, table, object
      <4>3. ASSUME NEW id \in doomed[s], CloseSession(s, id, "kill")
            PROVE  [Life!Next]_(Life!vars)
        BY <2>0, <3>3, <4>1, <4>3, CloseMaps DEF Kill, object, TypeOK
      <4> QED
        BY <3>3, <4>2, <4>3 DEF Kill
    <3>4. CASE AcquireReference(s)
      <4>1. CASE SameReferrers /\ UNCHANGED table
        BY <3>4, <4>1, StutterMaps
        DEF Stutters, AcquireReference, table, object
      <4> QED
        BY <2>0, <3>4, <4>1, AcquireStep, GiveMaps
    <3>5. CASE LockWui(s)
      BY <2>0, <3>5, LockWuiStep, HoldMaps
    <3>6. CASE Own(s)
      BY <2>0, <3>6, OwnStep, StutterMaps DEF Stutters, Own, table
    <3>7. CASE AnswerClosing(s)
      <4>1. SameReferrers
        BY <2>0, <3>7, AnswerClosingStep
      <4>2. sess[s] \in Ids
        BY <3>7, ServerOwns DEF AnswerClosing, At
      <4>3. CloseSession(s, sess[s], "loop") /\ UNCHANGED lock_wui
        BY <3>7 DEF AnswerClosing, object
      <4> QED
        BY <4>1, <4>2, <4>3, CloseMaps
    <3>8. CASE Release(s)
      BY <2>0, <3>8, ReleaseStep, DropMaps
    <3>9. CASE Erase(s)
      BY <2>0, <3>9, EraseStep, DestroyMaps DEF Erase, At
    <3>10. CASE JoinThrows(s)
      <4>1. SameReferrers
        BY <2>0, <3>10, JoinThrowsStep
      <4>2. CASE UNCHANGED <<table, object>>
        BY <4>1, <4>2, StutterMaps DEF Stutters, table, object
      <4>3. CASE EraseEntry(s)
        BY <3>10, <4>1, <4>3, DestroyMaps DEF JoinThrows, At
      <4> QED
        BY <3>10, <4>2, <4>3 DEF JoinThrows
    <3> QED
      BY <2>1, <3>1, <3>2, <3>3, <3>4, <3>5, <3>6, <3>7, <3>8, <3>9, <3>10
      DEF Server, UseTable, UseSession, DestroySession
  <2>2. ASSUME NEW id \in Ids, Libdar(id) PROVE [Life!Next]_(Life!vars)
    <3>1. SameReferrers
      BY <2>0, <2>2, IdleStep DEF Libdar, LibdarAsk, LibdarEnd, table, request
    <3>2. UNCHANGED <<running_session, closing, lock_wui>>
      BY <2>2 DEF Libdar, LibdarAsk, LibdarEnd, table
    <3> QED
      BY <3>1, <3>2, StutterMaps DEF Stutters
  <2>3. CASE UNCHANGED vars
    <3>1. SameReferrers
      BY <2>0, <2>3, IdleStep DEF vars, table, object, request
    <3>2. UNCHANGED <<running_session, closing, lock_wui>>
      BY <2>3 DEF vars, table, object
    <3> QED
      BY <3>1, <3>2, StutterMaps DEF Stutters
  <2> QED
    BY <2>1, <2>2, <2>3 DEF Next, Over
<1> QED
  BY <1>1, <1>2, Invariance, PTL DEF Spec, ImplementsSessionLife, Life!Spec
=============================================================================
