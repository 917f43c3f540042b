---------------------------- MODULE SessionTable ----------------------------
(* The table of running sessions (class session, src/src/session.cpp) and    *)
(* the server threads that use it (server::inherited_run), with the chooser  *)
(* page through which a user kills sessions (class choose) and, reduced to   *)
(* its life cycle, the libdar thread a session may be running.               *)
(*                                                                           *)
(* The critical sections of lock_running that cannot block are one step.     *)
(* The only one that can block is the destruction of a session object, which *)
(* joins the libdar thread: lock_running records who is inside that one.     *)
EXTENDS Naturals, FiniteSets

CONSTANTS
    Servers,      \* the server threads a server_pool may run at a time
    Ids,          \* the session identifiers that can be generated
    Users,        \* the users that can authenticate
    NoServer, NoId,
    LibdarAsks,   \* whether libdar ever asks the user a question
    LibdarFails   \* whether a libdar thread ever ends with an exception

ASSUME SessionAssumption ==
    /\ IsFiniteSet(Servers)
    /\ Users # {}
    /\ NoServer \notin Servers
    /\ NoId \notin Ids
    /\ LibdarAsks \in BOOLEAN
    /\ LibdarFails \in BOOLEAN

VARIABLES
    lock_running,     \* the server destroying a session under that mutex
    running_session,  \* the identifiers present in the table
    owner,            \* table::owner
    ref_given,        \* table::ref_given
    closing,          \* table::closing
    lock_wui,         \* the server that holds the session's semaphore
    tid,              \* session::tid, the server that may use the object
    libdar,           \* the libdar thread of the session
    pc,               \* what the server thread does next
    sess,             \* the session it holds (local variable sess)
    want,             \* the session its current request points to
    user,             \* the user that request is authenticated for
    initial,          \* local variable initial of server::inherited_run
    shown,            \* the sessions its chooser offers to kill (choose::sess)
    doomed,           \* the sessions the confirmed kill has still to close
    dying,            \* the session object the server is destroying
    failing,          \* whether an exception is unwinding inherited_run
    status            \* the process: up, terminated, or behaving undefinedly

table   == <<running_session, owner, ref_given, closing>>
object  == <<lock_wui, tid, libdar>>
request == <<want, user>>
chooser == <<initial, shown, doomed>>
vars    == <<lock_running, table, object, pc, sess, request, chooser, dying,
             failing, status>>

Stages == {"off", "loop", "info", "initial", "create", "choose", "kill", "show",
           "acquire", "wait_wui", "own", "answer", "release", "destroy", "join",
           "bug"}

LibdarStates == {"idle", "running", "asking", "ended", "failed"}

AnyUser == CHOOSE u \in Users : TRUE

Init ==
    /\ lock_running = NoServer
    /\ running_session = {}
    /\ owner = [id \in Ids |-> AnyUser]
    /\ ref_given = [id \in Ids |-> 0]
    /\ closing = [id \in Ids |-> FALSE]
    /\ lock_wui = [id \in Ids |-> NoServer]
    /\ tid = [id \in Ids |-> NoServer]
    /\ libdar = [id \in Ids |-> "idle"]
    /\ pc = [s \in Servers |-> "off"]
    /\ sess = [s \in Servers |-> NoId]
    /\ want = [s \in Servers |-> NoId]
    /\ user = [s \in Servers |-> AnyUser]
    /\ initial = [s \in Servers |-> TRUE]
    /\ shown = [s \in Servers |-> {}]
    /\ doomed = [s \in Servers |-> {}]
    /\ dying = [s \in Servers |-> NoId]
    /\ failing = [s \in Servers |-> FALSE]
    /\ status = "up"

-----------------------------------------------------------------------------
Goto(s, stage) == pc' = [pc EXCEPT ![s] = stage]

At(s, stage) == status = "up" /\ pc[s] = stage

(* Entering lock_running: nobody is destroying a session under it.           *)
Unlocked == lock_running = NoServer

(* has_working_server: somebody holds the semaphore of the session.          *)
HasWorkingServer(id) == lock_wui[id] # NoServer

(* user_interface::is_libdar_running.                                        *)
IsLibdarRunning(id) == libdar[id] \in {"running", "asking"}

OwnedBy(u) == {id \in running_session : owner[id] = u}

(* Where inherited_run resumes once the session is released: the outer loop, *)
(* or the end of the thread when an exception was caught.                    *)
AfterRelease(s) == IF failing[s] THEN "off" ELSE "loop"

(* send_answer, which forgets the request.                                   *)
SendAnswer(s) == want' = [want EXCEPT ![s] = NoId] /\ UNCHANGED user

-----------------------------------------------------------------------------
(* A new connection: the pool runs a new server object.                      *)
Connect(s) ==
    /\ At(s, "off")
    /\ Goto(s, "loop")
    /\ initial' = [initial EXCEPT ![s] = TRUE]
    /\ shown' = [shown EXCEPT ![s] = {}]
    /\ doomed' = [doomed EXCEPT ![s] = {}]
    /\ want' = [want EXCEPT ![s] = NoId]
    /\ failing' = [failing EXCEPT ![s] = FALSE]
    /\ UNCHANGED <<lock_running, table, object, sess, user, dying, status>>

(* Inner loop: without a session the server waits for any request, with one  *)
(* it only takes a request already received for that same session.           *)
NextRequest(s) ==
    /\ At(s, "loop")
    /\ \E id \in Ids \cup {NoId}, u \in Users :
          /\ sess[s] # NoId => id = sess[s]
          /\ want' = [want EXCEPT ![s] = id]
          /\ user' = [user EXCEPT ![s] = u]
    /\ Goto(s, "info")
    /\ UNCHANGED <<lock_running, table, object, sess, chooser, dying, failing,
                   status>>

(* Leaving the inner loop: no further request for the session is available.  *)
Leave(s) ==
    /\ At(s, "loop")
    /\ sess[s] # NoId
    /\ Goto(s, "release")
    /\ UNCHANGED <<lock_running, table, object, sess, request, chooser, dying,
                   failing, status>>

(* Mutant: the catch clause forgets the session the server holds.            *)
UnwindHolding(s) ==
    /\ failing' = [failing EXCEPT ![s] = TRUE]
    /\ Goto(s, "off")

(* An exception unwinds inherited_run: what is held is released and the      *)
(* thread ends.                                                              *)
Unwind(s) ==
    /\ failing' = [failing EXCEPT ![s] = TRUE]
    /\ Goto(s, IF sess[s] = NoId THEN "off" ELSE "release")

(* The connection is over, the thread is cancelled or a handler throws.      *)
Quit(s) ==
    /\ \E stage \in {"loop", "create", "answer"} : At(s, stage)
    /\ Unwind(s)
    /\ UNCHANGED <<lock_running, table, object, sess, request, chooser, dying,
                   status>>

(* get_session_info, and the three ways its result leads to.                 *)
GetInfo(s) ==
    LET valid == /\ want[s] \in running_session
                 /\ ~HasWorkingServer(want[s])
                 /\ owner[want[s]] = user[s]
    IN  /\ At(s, "info")
        /\ Unlocked
        /\ \/ ~valid /\ initial[s]  /\ Goto(s, "initial")
           \/ ~valid /\ ~initial[s] /\ Goto(s, "choose")
           \/ valid  /\ Goto(s, IF sess[s] = NoId THEN "acquire" ELSE "answer")
        /\ UNCHANGED <<lock_running, table, object, sess, request, chooser,
                       dying, failing, status>>

(* create_new_session(initial = true), the inventory.                        *)
LookForSessions(s) ==
    /\ At(s, "initial")
    /\ Unlocked
    /\ \/ OwnedBy(user[s]) = {} /\ Goto(s, "create") /\ UNCHANGED initial
       \/ /\ OwnedBy(user[s]) # {}
          /\ initial' = [initial EXCEPT ![s] = FALSE]
          /\ Goto(s, "choose")
    /\ UNCHANGED <<lock_running, table, object, sess, request, shown, doomed,
                   dying, failing, status>>

(* create_new: a fresh identifier, a session without reference.              *)
CreateNew(s) ==
    /\ At(s, "create")
    /\ Unlocked
    /\ \E id \in Ids \ running_session :
          /\ running_session' = running_session \cup {id}
          /\ owner' = [owner EXCEPT ![id] = user[s]]
          /\ ref_given' = [ref_given EXCEPT ![id] = 0]
          /\ closing' = [closing EXCEPT ![id] = FALSE]
          /\ lock_wui' = [lock_wui EXCEPT ![id] = NoServer]
          /\ tid' = [tid EXCEPT ![id] = NoServer]
          /\ libdar' = [libdar EXCEPT ![id] = "idle"]
    /\ IF initial[s] THEN Goto(s, "loop") /\ SendAnswer(s)
                     ELSE Goto(s, "show") /\ UNCHANGED request
    /\ UNCHANGED <<lock_running, sess, chooser, dying, failing, status>>

(* create_new, when it runs out of identifiers: "namespace full".            *)
CreateFails(s) ==
    /\ At(s, "create")
    /\ Unlocked
    /\ Ids \subseteq running_session
    /\ Unwind(s)
    /\ UNCHANGED <<lock_running, table, object, sess, request, chooser, dying,
                   status>>

-----------------------------------------------------------------------------
(* The chooser: the user displays the table, asks for a new session, or      *)
(* confirms the destruction of sessions it displayed before.                 *)
Choose(s) ==
    /\ At(s, "choose")
    /\ \/ Goto(s, "show") /\ UNCHANGED doomed
       \/ Goto(s, "create") /\ UNCHANGED doomed
       \/ \E kill \in SUBSET shown[s] \ {{}} :
             doomed' = [doomed EXCEPT ![s] = kill] /\ Goto(s, "kill")
    /\ UNCHANGED <<lock_running, table, object, sess, request, initial, shown,
                   dying, failing, status>>

(* regenerate_table_page: only the boxes of the user's own sessions are      *)
(* enabled.                                                                  *)
ShowTable(s) ==
    /\ At(s, "show")
    /\ Unlocked
    /\ shown' = [shown EXCEPT ![s] = OwnedBy(user[s])]
    /\ Goto(s, "loop")
    /\ SendAnswer(s)
    /\ UNCHANGED <<lock_running, table, object, sess, initial, doomed, dying,
                   failing, status>>

(* Mutant: close_session ignores the references it gave.                     *)
Referred(id) == FALSE

(* Some server was given the session and has not released it yet.            *)
IsReferred(id) == ref_given[id] > 0

(* close_session: a session nobody refers to is destroyed at once, keeping   *)
(* lock_running; another is only flagged.                                    *)
CloseSession(s, id, next) ==
    /\ Unlocked
    /\ \/ /\ id \notin running_session \/ closing[id]
          /\ Goto(s, next)
          /\ UNCHANGED <<lock_running, closing, dying>>
       \/ /\ id \in running_session /\ ~closing[id]
          /\ closing' = [closing EXCEPT ![id] = TRUE]
          /\ IF IsReferred(id)
                THEN Goto(s, next) /\ UNCHANGED <<lock_running, dying>>
                ELSE /\ lock_running' = s
                     /\ dying' = [dying EXCEPT ![s] = id]
                     /\ Goto(s, "destroy")
    /\ UNCHANGED <<running_session, owner, ref_given>>

(* kill_selected_sessions: one close_session after the other.                *)
Kill(s) ==
    /\ At(s, "kill")
    /\ \/ /\ doomed[s] = {}
          /\ Goto(s, "show")
          /\ UNCHANGED <<lock_running, table, doomed, dying>>
       \/ \E id \in doomed[s] :
             /\ doomed' = [doomed EXCEPT ![s] = @ \ {id}]
             /\ CloseSession(s, id, "kill")
    /\ UNCHANGED <<object, sess, request, initial, shown, failing, status>>

-----------------------------------------------------------------------------
(* Mutant: acquire_session does not look at closing.                         *)
IsKnown(id) == id \in running_session

(* The reference of that session may be given to one more server.            *)
MayBeGiven(id) == id \in running_session /\ ~closing[id]

GiveReference(id) == ref_given' = [ref_given EXCEPT ![id] = @ + 1]

(* acquire_session, under lock_running: a session that is being closed is    *)
(* refused, and the server throws a bug exception.                           *)
AcquireReference(s) ==
    /\ At(s, "acquire")
    /\ Unlocked
    /\ IF MayBeGiven(want[s])
          THEN GiveReference(want[s]) /\ Goto(s, "wait_wui")
          ELSE Goto(s, "bug") /\ UNCHANGED ref_given
    /\ UNCHANGED <<lock_running, running_session, owner, closing, object, sess,
                   request, chooser, dying, failing, status>>

(* acquire_session, after lock_running: lock_wui.lock().                     *)
LockWui(s) ==
    /\ At(s, "wait_wui")
    /\ ~HasWorkingServer(want[s])
    /\ lock_wui' = [lock_wui EXCEPT ![want[s]] = s]
    /\ Goto(s, "own")
    /\ UNCHANGED <<lock_running, table, tid, libdar, sess, request, chooser,
                   dying, failing, status>>

(* tid = pthread_self(), and the pointer is returned to the server.          *)
Own(s) ==
    /\ At(s, "own")
    /\ tid' = [tid EXCEPT ![want[s]] = s]
    /\ sess' = [sess EXCEPT ![s] = want[s]]
    /\ Goto(s, "answer")
    /\ UNCHANGED <<lock_running, table, lock_wui, libdar, request, chooser,
                   dying, failing, status>>

(* give_answer: what a request can make of the libdar thread: nothing, start *)
(* one, answer its question, or join one that has ended.                     *)
Answer(s) ==
    /\ At(s, "answer")
    /\ \/ UNCHANGED libdar
       \/ libdar[sess[s]] = "idle"
          /\ libdar' = [libdar EXCEPT ![sess[s]] = "running"]
       \/ libdar[sess[s]] = "asking"
          /\ libdar' = [libdar EXCEPT ![sess[s]] = "running"]
       \/ libdar[sess[s]] \in {"ended", "failed"}
          /\ libdar' = [libdar EXCEPT ![sess[s]] = "idle"]
    /\ Goto(s, "loop")
    /\ SendAnswer(s)
    /\ UNCHANGED <<lock_running, table, lock_wui, tid, sess, chooser, dying,
                   failing, status>>

(* give_answer, when the user closes the session from its menu (offered when *)
(* no libdar thread runs): on_event(closing).                                *)
AnswerClosing(s) ==
    /\ At(s, "answer")
    /\ libdar[sess[s]] = "idle"
    /\ CloseSession(s, sess[s], "loop")
    /\ SendAnswer(s)
    /\ UNCHANGED <<object, sess, chooser, failing, status>>

(* Mutant: the reference is not taken back.                                  *)
KeepReference(id) == UNCHANGED ref_given

TakeReferenceBack(id) == ref_given' = [ref_given EXCEPT ![id] = @ - 1]

(* Mutant: the counter is tested before it is decremented.                   *)
WasUnreferred(id) == ref_given[id] = 0 /\ closing[id]

(* The server that releases the session is the last one, and it is closing.  *)
IsToBeDestroyed(id) == ref_given'[id] = 0 /\ closing[id]

(* release_session: the last server to leave a session being closed destroys *)
(* it, keeping lock_running.                                                 *)
Release(s) ==
    LET id == sess[s]
    IN  /\ At(s, "release")
        /\ Unlocked
        /\ TakeReferenceBack(id)
        /\ lock_wui' = [lock_wui EXCEPT ![id] = NoServer]
        /\ IF IsToBeDestroyed(id)
              THEN /\ lock_running' = s
                   /\ dying' = [dying EXCEPT ![s] = id]
                   /\ Goto(s, "destroy")
                   /\ UNCHANGED sess
              ELSE /\ sess' = [sess EXCEPT ![s] = NoId]
                   /\ Goto(s, AfterRelease(s))
                   /\ UNCHANGED <<lock_running, dying>>
        /\ UNCHANGED <<running_session, owner, closing, tid, libdar, request,
                       chooser, failing, status>>

-----------------------------------------------------------------------------
(* ~user_interface: a libdar thread that still runs is asked to stop, and is *)
(* joined.                                                                   *)
CancelLibdar(s) ==
    /\ At(s, "destroy")
    /\ IsLibdarRunning(dying[s])
    /\ Goto(s, "join")
    /\ UNCHANGED <<lock_running, table, object, sess, request, chooser, dying,
                   failing, status>>

(* The entry leaves the table, and lock_running is released (the fields of   *)
(* an entry and of an object that are no more get their initial value back). *)
EraseEntry(s) ==
    /\ running_session' = running_session \ {dying[s]}
    /\ dying' = [dying EXCEPT ![s] = NoId]
    /\ closing' = [closing EXCEPT ![dying[s]] = FALSE]
    /\ tid' = [tid EXCEPT ![dying[s]] = NoServer]
    /\ libdar' = [libdar EXCEPT ![dying[s]] = "idle"]
    /\ lock_running' = NoServer
    /\ UNCHANGED <<owner, ref_given, lock_wui, request>>

(* The server goes on with what made it destroy the session: a release or a  *)
(* kill.                                                                     *)
Erase(s) ==
    /\ \/ At(s, "destroy") /\ ~IsLibdarRunning(dying[s])
       \/ At(s, "join") /\ libdar[dying[s]] = "ended"
    /\ EraseEntry(s)
    /\ IF sess[s] = dying[s]
          THEN sess' = [sess EXCEPT ![s] = NoId] /\ Goto(s, AfterRelease(s))
          ELSE Goto(s, "kill") /\ UNCHANGED sess
    /\ UNCHANGED <<chooser, failing, status>>

(* The join rethrows the exception of the libdar thread inside a destructor. *)
(* When the destructor may not throw, the process terminates. When it may, a *)
(* kill erases the entry and ends the thread of the server, and a release    *)
(* leaves in the table an entry and in the server a pointer to the destroyed *)
(* object, which the server releases again: undefined behaviour.             *)
JoinThrows(s) ==
    /\ At(s, "join")
    /\ libdar[dying[s]] = "failed"
    /\ \/ /\ status' \in {"terminated"} \cup
                IF sess[s] = dying[s] THEN {"undefined"} ELSE {}
          /\ UNCHANGED <<lock_running, table, object, pc, sess, request, chooser,
                         dying, failing>>
       \/ /\ sess[s] # dying[s]
          /\ EraseEntry(s)
          /\ Unwind(s)
          /\ UNCHANGED <<sess, chooser, status>>

-----------------------------------------------------------------------------
(* The libdar thread: it may ask a question, which blocks it until it is     *)
(* answered, and it ends, with an exception when libdar fails or notices     *)
(* that it was cancelled.                                                    *)
LibdarAsk(id) ==
    /\ status = "up"
    /\ LibdarAsks
    /\ libdar[id] = "running"
    /\ libdar' = [libdar EXCEPT ![id] = "asking"]
    /\ UNCHANGED <<lock_running, table, lock_wui, tid, pc, sess, request,
                   chooser, dying, failing, status>>

LibdarEnd(id) ==
    /\ status = "up"
    /\ libdar[id] = "running"
    /\ \/ libdar' = [libdar EXCEPT ![id] = "ended"]
       \/ LibdarFails /\ libdar' = [libdar EXCEPT ![id] = "failed"]
    /\ UNCHANGED <<lock_running, table, lock_wui, tid, pc, sess, request,
                   chooser, dying, failing, status>>

(* The process is no more, or no more follows its program.                   *)
Over == status # "up" /\ UNCHANGED vars

-----------------------------------------------------------------------------
UseTable(s) == GetInfo(s) \/ LookForSessions(s) \/ CreateNew(s)
               \/ CreateFails(s) \/ ShowTable(s) \/ Kill(s) \/ AcquireReference(s) \/ Release(s)

UseSession(s) == LockWui(s) \/ Own(s) \/ Answer(s) \/ AnswerClosing(s)

DestroySession(s) == CancelLibdar(s) \/ Erase(s) \/ JoinThrows(s)

Server(s) == Connect(s) \/ NextRequest(s) \/ Leave(s) \/ Quit(s) \/ Choose(s)
             \/ UseTable(s) \/ UseSession(s) \/ DestroySession(s)

Libdar(id) == LibdarAsk(id) \/ LibdarEnd(id)

Next == (\E s \in Servers : Server(s)) \/ (\E id \in Ids : Libdar(id)) \/ Over

Spec == Init /\ [][Next]_vars

(* The threads are scheduled and the mutexes and semaphores are eventually   *)
(* granted to each thread that keeps asking; a client does not send requests *)
(* for one session without a pause; libdar ends.                             *)
Fairness ==
    /\ \A s \in Servers : /\ SF_vars(UseTable(s)) /\ SF_vars(UseSession(s))
                          /\ WF_vars(DestroySession(s)) /\ WF_vars(Choose(s))
                          /\ SF_vars(Leave(s))
    /\ \A id \in Ids : WF_vars(LibdarEnd(id))

FairSpec == Spec /\ Fairness

-----------------------------------------------------------------------------
TypeOK ==
    /\ lock_running \in Servers \cup {NoServer}
    /\ running_session \in SUBSET Ids
    /\ owner \in [Ids -> Users]
    /\ ref_given \in [Ids -> Nat]
    /\ closing \in [Ids -> BOOLEAN]
    /\ lock_wui \in [Ids -> Servers \cup {NoServer}]
    /\ tid \in [Ids -> Servers \cup {NoServer}]
    /\ libdar \in [Ids -> LibdarStates]
    /\ pc \in [Servers -> Stages]
    /\ sess \in [Servers -> Ids \cup {NoId}]
    /\ want \in [Servers -> Ids \cup {NoId}]
    /\ user \in [Servers -> Users]
    /\ initial \in [Servers -> BOOLEAN]
    /\ shown \in [Servers -> SUBSET Ids]
    /\ doomed \in [Servers -> SUBSET Ids]
    /\ dying \in [Servers -> Ids \cup {NoId}]
    /\ failing \in [Servers -> BOOLEAN]
    /\ status \in {"up", "terminated", "undefined"}

(* The server has been given the session: it waits for its semaphore or      *)
(* holds it.                                                                 *)
Refers(s, id) ==
    \/ pc[s] \in {"wait_wui", "own"} /\ want[s] = id
    \/ sess[s] = id /\ dying[s] # id

Referrers(id) == {s \in Servers : Refers(s, id)}

(* ref_given counts the servers that wait for a session or hold it, whatever *)
(* the order in which they acquire, release, close and fail                  *)
(* (session.cpp:275, 318).                                                   *)
RefCounted ==
    \A id \in running_session : ref_given[id] = Cardinality(Referrers(id))

(* A session is only destroyed once no server refers to it, and while none   *)
(* can get it: no server ever waits on, or answers with, a deleted object    *)
(* (session.cpp:318-326, 359-371).                                           *)
NoDanglingReference ==
    \A s \in Servers, id \in Ids :
        Refers(s, id) => id \in running_session /\ \A t \in Servers : dying[t] # id

(* The checks of check_caller and release_session never fail: the server     *)
(* that answers with a session or releases it holds its semaphore and is     *)
(* recorded as its user (session.cpp:66-72, 308-323).                        *)
CallerOwnsSession ==
    \A s \in Servers :
        pc[s] \in {"answer", "release"} =>
            /\ sess[s] \in running_session
            /\ lock_wui[sess[s]] = s
            /\ tid[sess[s]] = s

(* A session that is being closed and to which nobody refers any more is     *)
(* being destroyed: no order of close, acquire and release forgets it        *)
(* (session.cpp:373, "the object will be destroyed when no more reference    *)
(* will point it").                                                          *)
ClosedIsNotForgotten ==
    \A id \in running_session :
        closing[id] /\ ref_given[id] = 0 => \E s \in Servers : dying[s] = id

(* Once closing, a session is given to nobody else and stays closing until   *)
(* it leaves the table (session.hpp, table::closing).                        *)
ClosingIsFinal ==
    [][\A id \in running_session :
          closing[id] /\ id \in running_session' =>
              closing'[id] /\ ref_given'[id] <= ref_given[id]]_vars

(* A session is being destroyed that waits, under lock_running, for the end  *)
(* of a libdar thread that itself waits for an answer.                       *)
KillIsStuck ==
    \E s \in Servers : pc[s] = "join" /\ libdar[dying[s]] = "asking"

(* A session whose end was asked is eventually destroyed, unless such a      *)
(* destruction blocks the table.                                             *)
ClosingSessionEnds ==
    \A id \in Ids :
        closing[id] /\ id \in running_session ~>
            id \notin running_session \/ KillIsStuck \/ status # "up"

(* A server that waits for a session gets it, be the session closed or not   *)
(* in the meantime (session.cpp:289, "eventually waiting for another         *)
(* thread").                                                                 *)
WaiterIsServed ==
    \A s \in Servers :
        pc[s] = "wait_wui" ~> pc[s] = "own" \/ KillIsStuck \/ status # "up"

(* What a session is to the servers that use it (module SessionLife).        *)
Life == INSTANCE SessionLife WITH
            state  <- [id \in Ids |-> IF id \notin running_session THEN "absent"
                                      ELSE IF closing[id] THEN "closing"
                                      ELSE "open"],
            users  <- [id \in Ids |-> Referrers(id)],
            holder <- lock_wui

(* The table, its mutex, the semaphores and the reference counters make of   *)
(* every session what SessionLife promises.                                  *)
ImplementsSessionLife == Life!Spec

=============================================================================
