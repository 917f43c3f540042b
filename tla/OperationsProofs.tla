-------------------------- MODULE OperationsProofs --------------------------
(* Proofs about Operations, for any entries of the menu, operations and      *)
(* repositories: the thread of an operation finds its parameters, and the    *)
(* path on a page at rest is the one of its repository.                      *)
EXTENDS Operations, TLAPS

(* The component h has been evaluated in this round.                         *)
Past(h) ==
    \/ pc \in {"pagepop", "biblio", "go", "close", "end"}
    \/ h = "read" /\ pc \in {"readpop", "page"}

(* A popup shows from the launch of a thread until its end is seen, and      *)
(* after that only on an error, and a page that was reached has the path of  *)
(* the repository it describes.                                              *)
WatchedOK(hold) ==
    /\ hold.thread # "off" => hold.managed
    /\ hold.thread = "failed" \/ (hold.managed /\ hold.thread = "off") => hold.lost
    /\ hold.thread \in {"off", "ended"} /\ ~hold.need /\ ~hold.lost
          => hold.given = hold.repo

ThreadsWatched == \A h \in Holders : WatchedOK(holders[h])

(* The round that nothing follows has started the thread of what it shows.   *)
Reached ==
    \A h \in Holders :
        Up /\ Shown(h) /\ ((Past(h) /\ changed = {}) \/ AtRest) => ~holders[h].need

(* The status is the one of an operation that this round launched, ...       *)
StatusReset ==
    /\ pc \in {"menu", "read", "readpop", "page", "pagepop", "biblio", "go"}
          => todo = "idle"
    /\ pc \in {"close", "end"} /\ todo # "idle" => job # "off"

(* ... and it stays until the page of the operation is left.                 *)
StatusKept ==
    Up /\ job # "off" =>
        /\ todo = op /\ op \in Operations
        /\ (pc \in {"close", "end"} \/ (pc = "idle" /\ page.kind = "running"))

(* What the thread has yet to ask, it will be given.                         *)
AsksAnswered ==
    /\ job # "bug"
    /\ Up /\ job = "start" => \A i \in DOMAIN asks : Answered(asks[i])

(* The page that is sent reloads itself for a good reason.                   *)
Waited == \E h \in Holders : holders[h].thread # "off" \/ holders[h].lost

RefreshJustified == (redirect => Waited) /\ ReloadsWhileWaiting

IInv ==
    /\ TypeOK /\ ThreadsWatched /\ Reached
    /\ StatusReset /\ StatusKept /\ AsksAnswered /\ RefreshJustified

-----------------------------------------------------------------------------
(* A holder is replaced by another one.                                      *)
LEMMA HolderReplaced ==
    ASSUME NEW F \in [Holders -> HolderType], NEW h \in Holders, NEW new \in HolderType
    PROVE  /\ [F EXCEPT ![h] = new] \in [Holders -> HolderType]
           /\ [F EXCEPT ![h] = new][h] = new
           /\ \A g \in Holders \ {h} : [F EXCEPT ![h] = new][g] = F[g]
OBVIOUS

(* A repository described again has to be reached, and is not yet.           *)
LEMMA DescribedIsWatched ==
    ASSUME NEW hold \in HolderType, NEW r \in Repos
    PROVE  LET new == Described(hold, r)
           IN  /\ new \in HolderType /\ new.need
               /\ new.thread = hold.thread /\ new.lost = hold.lost
               /\ WatchedOK(hold) => WatchedOK(new)
<1> DEFINE new == Described(hold, r)
<1>1. new \in HolderType
  BY DEF Described, HolderType
<1>2. /\ new.need /\ new.managed = hold.managed /\ new.thread = hold.thread
      /\ new.lost = hold.lost
  BY DEF Described, HolderType
<1> QED
  BY <1>1, <1>2 DEF WatchedOK

(* The two steps in which the repository of h is described again.            *)
LEMMA DescribeKeeps ==
    ASSUME TypeOK, ThreadsWatched, NEW h \in Holders, NEW r \in Repos,
           holders' = [holders EXCEPT ![h] = Described(@, r)]
    PROVE  /\ holders' \in [Holders -> HolderType] /\ ThreadsWatched'
           /\ \A g \in Holders : /\ holders'[g].thread = holders[g].thread
                                 /\ holders'[g].lost = holders[g].lost
<1> DEFINE new == Described(holders[h], r)
<1>1. holders[h] \in HolderType /\ WatchedOK(holders[h]) /\ holders' = [holders EXCEPT ![h] = new]
  BY DEF TypeOK, ThreadsWatched
<1>2. /\ new \in HolderType /\ WatchedOK(new)
      /\ new.thread = holders[h].thread /\ new.lost = holders[h].lost
  BY <1>1, DescribedIsWatched
<1> HIDE DEF new
<1>3. /\ holders' \in [Holders -> HolderType] /\ holders'[h] = new
      /\ \A g \in Holders \ {h} : holders'[g] = holders[g]
  BY <1>1, <1>2, HolderReplaced DEF TypeOK
<1>4. ASSUME NEW g \in Holders
      PROVE  /\ WatchedOK(holders'[g])
             /\ holders'[g].thread = holders[g].thread
             /\ holders'[g].lost = holders[g].lost
  BY <1>2, <1>3 DEF ThreadsWatched
<1>5. ThreadsWatched'
  BY <1>4 DEF ThreadsWatched, WatchedOK, Holders
<1> QED
  BY <1>3, <1>4, <1>5

(* An operation asks for what saisie gives to this operation.                *)
LEMMA LaunchIsAnswered ==
    ASSUME NEW o \in Operations
    PROVE  /\ Asks[o] \in Seq(Getters)
           /\ todo' = o => \A i \in DOMAIN Asks[o] : Answered(Asks[o][i])'
<1>1. CASE o = "create"
  <2>1. Asks[o] = CreateAsks
    BY <1>1 DEF Asks
  <2> QED
    BY <1>1, <2>1 DEF CreateAsks, Asks, Getters, Answered
<1>2. CASE o = "test"
  <2>1. Asks[o] = TestAsks
    BY <1>2 DEF Asks
  <2>2. o \in Readers
    BY <1>2, OperationsAssumption DEF Operations
  <2> QED
    BY <1>2, <2>1, <2>2 DEF TestAsks, Asks, Getters, Answered
<1>3. CASE o = "compare"
  <2>1. Asks[o] = CompareAsks
    BY <1>3 DEF Asks
  <2>2. o \in Readers
    BY <1>3, OperationsAssumption DEF Operations
  <2> QED
    BY <1>3, <2>1, <2>2 DEF CompareAsks, Asks, Getters, Answered
<1>4. CASE o = "restore"
  <2>1. Asks[o] = RestoreAsks
    BY <1>4 DEF Asks
  <2>2. o \in Readers
    BY <1>4, OperationsAssumption DEF Operations
  <2> QED
    BY <1>4, <2>1, <2>2 DEF RestoreAsks, Asks, Getters, Answered
<1>5. CASE o = "list"
  <2>1. Asks[o] = ListAsks
    BY <1>5 DEF Asks
  <2>2. o \in Readers
    BY <1>5, OperationsAssumption DEF Operations
  <2> QED
    BY <1>5, <2>1, <2>2 DEF ListAsks, Asks, Getters, Answered
<1>6. CASE o = "isolate"
  <2>1. Asks[o] = IsolateAsks
    BY <1>6 DEF Asks
  <2>2. o \in Readers
    BY <1>6, OperationsAssumption DEF Operations
  <2> QED
    BY <1>6, <2>1, <2>2 DEF IsolateAsks, Asks, Getters, Answered
<1>7. CASE o = "merge"
  <2>1. Asks[o] = MergeAsks
    BY <1>7 DEF Asks
  <2>2. o \in Readers
    BY <1>7, OperationsAssumption DEF Operations
  <2> QED
    BY <1>7, <2>1, <2>2 DEF MergeAsks, Asks, Getters, Answered
<1>8. CASE o = "repair"
  <2>1. Asks[o] = RepairAsks
    BY <1>8 DEF Asks
  <2>2. o \in Readers
    BY <1>8, OperationsAssumption DEF Operations
  <2> QED
    BY <1>8, <2>1, <2>2 DEF RepairAsks, Asks, Getters, Answered
<1> QED
  BY <1>1, <1>2, <1>3, <1>4, <1>5, <1>6, <1>7, <1>8, OperationsAssumption DEF
     Operations

-----------------------------------------------------------------------------

(* A new round forgets the status (saisie::inherited_get_body_part).         *)
LEMMA StartKeeps == ASSUME IInv, Start PROVE IInv'
<1>1. TypeOK'
  BY DEF IInv, Start, Same, menu, operation, To, Tell, Untold, TypeOK
<1>2. ThreadsWatched'
  BY DEF IInv, Start, ThreadsWatched
<1>3. Reached'
  BY DEF IInv, Start, To, Reached, Past, AtRest
<1>4. StatusReset'
  BY DEF IInv, Start, StatusReset
<1>5. StatusKept'
  BY DEF IInv, Start, operation, StatusKept
<1>6. AsksAnswered'
  BY DEF IInv, Start, operation, AsksAnswered, Answered, StatusKept
<1>7. RefreshJustified'
  BY DEF IInv, Start, Same, To, RefreshJustified, Waited, ReloadsWhileWaiting,
     AtRest
<1> QED
  BY <1>1, <1>2, <1>3, <1>4, <1>5, <1>6, <1>7 DEF IInv

(* The menu shows another page before any holder was evaluated.              *)
LEMMA MenuKeeps == ASSUME IInv, Menu PROVE IInv'
<1>0. tag' \in Tags /\ previous' \in Tags /\ section' \in Tags /\ readShown' \in BOOLEAN
  <2>1. CASE \E t \in Tags \ {tag} : req = <<"menu", t>>
    <3>1. req[2] \in Tags \ {tag}
      BY <2>1
    <3> QED
      BY <2>1, <3>1 DEF IInv, TypeOK, Menu, SetMode
  <2> QED
    BY <2>1 DEF IInv, TypeOK, Menu, menu
<1>1. TypeOK'
  BY <1>0, ZenonT(60) DEF IInv, Menu, menu, To, Tell, Untold, Same, operation, TypeOK
<1>2. ThreadsWatched'
  BY DEF IInv, Menu, ThreadsWatched
<1>3. Reached'
  BY DEF IInv, Menu, To, Reached, Past, AtRest
<1>4. StatusReset'
  BY DEF IInv, Menu, StatusReset
<1>5. StatusKept'
  BY DEF IInv, Menu, operation, StatusKept
<1>6. AsksAnswered'
  BY DEF IInv, Menu, operation, AsksAnswered, Answered
<1>7. RefreshJustified'
  BY DEF IInv, Menu, Same, To, RefreshJustified, Waited, ReloadsWhileWaiting,
     AtRest
<1> QED
  BY <1>1, <1>2, <1>3, <1>4, <1>5, <1>6, <1>7 DEF IInv

(* A hidden component is passed: it has no repository to reach.              *)
LEMMA HiddenKeeps == ASSUME IInv, Hidden PROVE IInv'
<1>1. TypeOK'
  BY DEF IInv, Hidden, Following, Same, menu, operation, To, Untold, TypeOK
<1>2. ThreadsWatched'
  BY DEF IInv, Hidden, ThreadsWatched
<1>3. Reached'
  BY DEF IInv, Hidden, Following, menu, To, Untold, Reached, Past, Shown, AtRest,
     TypeOK, Holders
<1>4. StatusReset'
  BY DEF IInv, Hidden, StatusReset
<1>5. StatusKept'
  BY DEF IInv, Hidden, operation, StatusKept
<1>6. AsksAnswered'
  BY DEF IInv, Hidden, operation, AsksAnswered, Answered
<1>7. RefreshJustified'
  BY DEF IInv, Hidden, Following, Same, To, RefreshJustified, Waited,
     ReloadsWhileWaiting, AtRest
<1> QED
  BY <1>1, <1>2, <1>3, <1>4, <1>5, <1>6, <1>7 DEF IInv

(* A hidden page follows its configuration: the change is told, so that      *)
(* another round reaches the repository when the page is shown.              *)
LEMMA BiblioKeeps == ASSUME IInv, Biblio PROVE IInv'
<1>0. /\ holders' \in [Holders -> HolderType] /\ ThreadsWatched'
      /\ \A g \in Holders : /\ holders'[g].thread = holders[g].thread
                            /\ holders'[g].lost = holders[g].lost
  <2>1. CASE UNCHANGED holders
    BY <2>1 DEF IInv, TypeOK, ThreadsWatched
  <2>2. CASE \E h \in Holders : \E r \in Repos \ {holders[h].repo} :
                holders' = [holders EXCEPT ![h] = Changed(h, r)]
    <3>1. PICK h \in Holders, r \in Repos : holders' = [holders EXCEPT ![h] = Described(@, r)]
      BY <2>2 DEF Changed
    <3> QED
      BY <3>1, DescribeKeeps DEF IInv
  <2> QED
    BY <2>1, <2>2 DEF Biblio
<1>1. TypeOK'
  <2>1. /\ posted' \in BOOLEAN /\ changed' \subseteq {"page"}
        /\ pc' \in {"idle", "go"} /\ status' \in {status, "running"}
    BY DEF IInv, TypeOK, Biblio, Tell, Untold, To, Bug
  <2>2. UNCHANGED <<acted, redirect, menu, box, todo, operation>>
    BY DEF Biblio
  <2> QED
    BY <1>0, <2>1, <2>2 DEF IInv, TypeOK, menu, operation
<1>2. ThreadsWatched'
  BY <1>0
<1>3. Reached'
  BY DEF IInv, Biblio, Changed, menu, Up, To, Tell, Untold, Bug, Reached, Past,
     Shown, AtRest
<1>4. StatusReset'
  BY DEF IInv, Biblio, Changed, StatusReset
<1>5. StatusKept'
  BY DEF IInv, Biblio, Changed, operation, StatusKept
<1>6. AsksAnswered'
  BY DEF IInv, Biblio, Changed, operation, AsksAnswered, Answered
<1>7. RefreshJustified'
  BY <1>0 DEF IInv, Biblio, RefreshJustified, Waited, ReloadsWhileWaiting, AtRest,
     Up, To, Bug
<1> QED
  BY <1>1, <1>2, <1>3, <1>4, <1>5, <1>6, <1>7 DEF IInv

(* The button of a page sets the status that the thread will ask for.        *)
LEMMA LaunchKeeps == ASSUME IInv, Launch PROVE IInv'
<1>0. /\ asks' \in Seq(Getters)
      /\ job' = "start" => \A i \in DOMAIN asks' : Answered(asks[i])'
  <2>1. CASE section \in Operations /\ todo' = section /\ asks' = Asks[section]
    BY <2>1, LaunchIsAnswered
  <2>2. CASE UNCHANGED <<todo, asks, job>>
    BY <2>2 DEF IInv, TypeOK, AsksAnswered, Answered, Launch, Go, Up
  <2> QED
    BY <2>1, <2>2 DEF Launch, Go, operation
<1>1. TypeOK'
  BY <1>0, ZenonT(60) DEF IInv, Launch, Go, TypeOK, Pressed, To, Untold, menu, operation
<1>2. ThreadsWatched'
  BY DEF IInv, Launch, Go, ThreadsWatched
<1>3. Reached'
  BY DEF IInv, Launch, Go, menu, To, Untold, Reached, Past, Shown, AtRest
<1>4. StatusReset'
  BY DEF IInv, Launch, Go, To, StatusReset
<1>5. StatusKept'
  BY DEF IInv, Launch, Go, operation, To, StatusKept
<1>6. AsksAnswered'
  BY <1>0 DEF IInv, Launch, Go, AsksAnswered, operation
<1>7. RefreshJustified'
  BY DEF IInv, Launch, Go, To, RefreshJustified, Waited, ReloadsWhileWaiting, AtRest
<1> QED
  BY <1>1, <1>2, <1>3, <1>4, <1>5, <1>6, <1>7 DEF IInv

(* The answer no shows the page of before, and tells that it has changed.    *)
LEMMA AnswerKeeps == ASSUME IInv, Answer PROVE IInv'
<1>1. TypeOK'
  BY ZenonT(60) DEF IInv, Answer, SetMode, menu, operation, Up, To, Tell, Untold, Bug, TypeOK
<1>2. ThreadsWatched'
  BY DEF IInv, Answer, ThreadsWatched
<1>3. Reached'
  BY DEF IInv, Answer, menu, Up, To, Tell, Untold, Bug, Reached, Past, Shown,
     AtRest
<1>4. StatusReset'
  BY DEF IInv, Answer, operation, To, Bug, StatusReset
<1>5. StatusKept'
  BY DEF IInv, Answer, operation, Up, To, Bug, StatusKept
<1>6. AsksAnswered'
  BY DEF IInv, Answer, operation, AsksAnswered, Answered
<1>7. RefreshJustified'
  BY DEF IInv, Answer, Up, To, Bug, RefreshJustified, Waited, ReloadsWhileWaiting,
     AtRest
<1> QED
  BY <1>1, <1>2, <1>3, <1>4, <1>5, <1>6, <1>7 DEF IInv

(* No round follows one that has launched an operation.                      *)
LEMMA NextRoundKeeps == ASSUME IInv, NextRound PROVE IInv'
<1>1. TypeOK'
  BY ZenonT(60) DEF IInv, NextRound, menu, operation, TypeOK
<1>2. ThreadsWatched'
  BY DEF IInv, NextRound, ThreadsWatched
<1>3. Reached'
  BY DEF IInv, NextRound, Reached, Past, AtRest
<1>4. StatusReset'
  BY DEF IInv, NextRound, StatusReset
<1>5. StatusKept'
  BY OperationsAssumption DEF IInv, NextRound, Ignored, operation, StatusKept,
     TypeOK, Operations
<1>6. AsksAnswered'
  BY DEF IInv, NextRound, operation, AsksAnswered, Answered
<1>7. RefreshJustified'
  BY DEF IInv, NextRound, RefreshJustified, Waited, ReloadsWhileWaiting, AtRest
<1> QED
  BY <1>1, <1>2, <1>3, <1>4, <1>5, <1>6, <1>7 DEF IInv

(* A page with the form is sent when nothing has changed in its round.       *)
LEMMA SendKeeps == ASSUME IInv, Send PROVE IInv'
<1>1. TypeOK'
  BY ZenonT(60) DEF IInv, Send, SetMode, menu, operation, NoRedirect, SetRefresh, TypeOK
<1>2. ThreadsWatched'
  BY DEF IInv, Send, ThreadsWatched
<1>3. Reached'
  <2> SUFFICES ASSUME NEW h \in Holders, Up', Shown(h)', AtRest'
               PROVE  ~holders'[h].need
    BY DEF Send, Reached, Past
  <2>1. job = "off" /\ tag # "sessions"
    BY DEF Send, AtRest, Page
  <2>2. todo = "idle" /\ changed = {}
    BY <2>1 DEF IInv, StatusReset, Send, Ignored
  <2>3. UNCHANGED <<readShown, section, holders>> /\ Up /\ Past(h)
    BY <2>1 DEF Send, menu, Past
  <2>4. Shown(h)
    BY <2>3 DEF Shown
  <2> QED
    BY <2>2, <2>3, <2>4 DEF IInv, Reached
<1>4. StatusReset'
  BY DEF IInv, Send, StatusReset
<1>5. StatusKept'
  BY DEF IInv, Send, operation, Page, StatusKept
<1>6. AsksAnswered'
  BY DEF IInv, Send, operation, AsksAnswered, Answered
<1>7. RefreshJustified'
  BY DEF IInv, Send, Page, NoRedirect, SetRefresh, RefreshJustified, Waited,
     ReloadsWhileWaiting, AtRest
<1> QED
  BY <1>1, <1>2, <1>3, <1>4, <1>5, <1>6, <1>7 DEF IInv

(* The thread of the operation is given what it asks for.                    *)
LEMMA AskKeeps == ASSUME IInv, Ask PROVE IInv'
<1>1. TypeOK'
  BY DEF IInv, Ask, server, menu, TypeOK
<1>2. ThreadsWatched'
  BY DEF IInv, Ask, ThreadsWatched
<1>3. Reached'
  BY DEF IInv, Ask, server, menu, Reached, Past, Shown, AtRest
<1>4. StatusReset'
  BY DEF IInv, Ask, server, StatusReset
<1>5. StatusKept'
  BY DEF IInv, Ask, server, StatusKept
<1>6. AsksAnswered'
  BY SMTT(60) DEF IInv, Ask, Up, AsksAnswered, Answered, StatusKept
<1>7. RefreshJustified'
  BY DEF IInv, Ask, server, RefreshJustified, Waited, ReloadsWhileWaiting, AtRest
<1> QED
  BY <1>1, <1>2, <1>3, <1>4, <1>5, <1>6, <1>7 DEF IInv

(* The operation ends.                                                       *)
LEMMA OperateKeeps == ASSUME IInv, Operate PROVE IInv'
<1>1. TypeOK'
  BY DEF IInv, Operate, server, menu, TypeOK
<1>2. ThreadsWatched'
  BY DEF IInv, Operate, ThreadsWatched
<1>3. Reached'
  BY DEF IInv, Operate, server, menu, Reached, Past, Shown, AtRest
<1>4. StatusReset'
  BY DEF IInv, Operate, server, StatusReset
<1>5. StatusKept'
  BY DEF IInv, Operate, server, StatusKept
<1>6. AsksAnswered'
  BY DEF IInv, Operate, AsksAnswered, Answered
<1>7. RefreshJustified'
  BY DEF IInv, Operate, server, RefreshJustified, Waited, ReloadsWhileWaiting,
     AtRest
<1> QED
  BY <1>1, <1>2, <1>3, <1>4, <1>5, <1>6, <1>7 DEF IInv

(* The browser reloads the page, by itself or when its user asks for it.     *)
LEMMA ReloadKeeps == ASSUME IInv, Reload \/ Redirected PROVE IInv'
<1>1. TypeOK'
  BY DEF IInv, Reload, Redirected, Receive, menu, operation, TypeOK
<1>2. ThreadsWatched'
  BY DEF IInv, Reload, Redirected, Receive, ThreadsWatched
<1>3. Reached'
  BY DEF IInv, Reload, Redirected, Receive, Reached, Past, AtRest
<1>4. StatusReset'
  BY DEF IInv, Reload, Redirected, Receive, StatusReset
<1>5. StatusKept'
  BY DEF IInv, Reload, Redirected, Receive, operation, StatusKept
<1>6. AsksAnswered'
  BY DEF IInv, Reload, Redirected, Receive, operation, AsksAnswered, Answered
<1>7. RefreshJustified'
  BY DEF IInv, Reload, Redirected, Receive, RefreshJustified, Waited, ReloadsWhileWaiting,
     AtRest
<1> QED
  BY <1>1, <1>2, <1>3, <1>4, <1>5, <1>6, <1>7 DEF IInv

(* The user leaves the message of an error.                                  *)
LEMMA AcknowledgeKeeps == ASSUME IInv, Acknowledge PROVE IInv'
<1>1. TypeOK'
  BY DEF IInv, Acknowledge, Receive, menu, operation, TypeOK
<1>2. ThreadsWatched'
  BY DEF IInv, Acknowledge, Receive, ThreadsWatched
<1>3. Reached'
  BY DEF IInv, Acknowledge, Receive, Reached, Past, AtRest
<1>4. StatusReset'
  BY DEF IInv, Acknowledge, Receive, StatusReset
<1>5. StatusKept'
  BY DEF IInv, Acknowledge, Receive, operation, StatusKept
<1>6. AsksAnswered'
  BY DEF IInv, Acknowledge, Receive, operation, AsksAnswered, Answered
<1>7. RefreshJustified'
  BY DEF IInv, Acknowledge, Receive, RefreshJustified, Waited,
     ReloadsWhileWaiting, AtRest
<1> QED
  BY <1>1, <1>2, <1>3, <1>4, <1>5, <1>6, <1>7 DEF IInv

(* The page of the operation is left when its thread has ended.              *)
LEMMA LeaveKeeps == ASSUME IInv, Leave PROVE IInv'
<1>1. TypeOK'
  BY DEF IInv, Leave, Receive, menu, TypeOK
<1>2. ThreadsWatched'
  BY DEF IInv, Leave, Receive, ThreadsWatched
<1>3. Reached'
  BY DEF IInv, Leave, Receive, Reached, Past, AtRest
<1>4. StatusReset'
  BY DEF IInv, Leave, Receive, StatusReset
<1>5. StatusKept'
  BY DEF IInv, Leave, Receive, StatusKept
<1>6. AsksAnswered'
  BY DEF IInv, Leave, Receive, AsksAnswered, Answered
<1>7. RefreshJustified'
  BY DEF IInv, Leave, Receive, RefreshJustified, Waited, ReloadsWhileWaiting,
     AtRest
<1> QED
  BY <1>1, <1>2, <1>3, <1>4, <1>5, <1>6, <1>7 DEF IInv

(* A page that needs its repository launches the thread and its popup.       *)
LEMMA UpdateEntrepotKeeps ==
    ASSUME IInv, NEW h \in Holders, UpdateEntrepot(h)
    PROVE  IInv'
<1>1. TypeOK'
  <2>1. holders' \in [Holders -> HolderType]
    <3> DEFINE new == [holders[h] EXCEPT !.need = FALSE, !.managed = TRUE,
                                         !.thread = "start"]
    <3>1. holders' = [holders EXCEPT ![h] = new]
      BY DEF IInv, TypeOK, UpdateEntrepot
    <3>2. new \in HolderType
      BY DEF IInv, TypeOK, HolderType
    <3> HIDE DEF new
    <3> QED
      BY <3>1, <3>2, HolderReplaced DEF IInv, TypeOK
  <2>2. changed' \subseteq {"page"}
    BY DEF IInv, TypeOK, UpdateEntrepot, Tell
  <2>3. UNCHANGED <<pc, status, posted, acted, redirect, menu, box, todo, operation>>
    BY DEF UpdateEntrepot, Same
  <2> QED
    BY <2>1, <2>2, <2>3 DEF IInv, TypeOK, menu, operation
<1>2. ThreadsWatched'
  BY DEF IInv, UpdateEntrepot, ThreadsWatched, WatchedOK, TypeOK, HolderType
<1>3. Reached'
  BY DEF IInv, UpdateEntrepot, HolderStage, Up, Tell, Reached, AtRest
<1>4. StatusReset'
  BY DEF IInv, UpdateEntrepot, HolderStage, StatusReset
<1>5. StatusKept'
  BY DEF IInv, UpdateEntrepot, HolderStage, operation, StatusKept
<1>6. AsksAnswered'
  BY DEF IInv, UpdateEntrepot, operation, AsksAnswered, Answered
<1>7. RefreshJustified'
  BY DEF IInv, UpdateEntrepot, Same, Up, RefreshJustified, Waited,
     ReloadsWhileWaiting, AtRest, TypeOK, HolderType
<1> QED
  BY <1>1, <1>2, <1>3, <1>4, <1>5, <1>6, <1>7 DEF IInv

(* A page that meets its own thread ends with the check of its launch.       *)
LEMMA UpdateMeetsThreadKeeps ==
    ASSUME IInv, NEW h \in Holders, UpdateMeetsThread(h)
    PROVE  IInv'
<1>1. TypeOK'
  BY DEF IInv, UpdateMeetsThread, Same, menu, operation, Tell, Bug, TypeOK
<1>2. ThreadsWatched'
  BY DEF IInv, UpdateMeetsThread, ThreadsWatched
<1>3. Reached'
  BY DEF UpdateMeetsThread, Bug, Up, Reached, AtRest
<1>4. StatusReset' /\ StatusKept'
  BY DEF UpdateMeetsThread, Bug, Up, StatusReset, StatusKept
<1>5. AsksAnswered'
  BY DEF IInv, UpdateMeetsThread, Bug, Up, operation, AsksAnswered
<1>6. RefreshJustified'
  BY DEF IInv, UpdateMeetsThread, Same, Bug, Up, RefreshJustified, Waited,
     ReloadsWhileWaiting, AtRest
<1> QED
  BY <1>1, <1>2, <1>3, <1>4, <1>5, <1>6 DEF IInv

(* The repository is described by the form of its page.                      *)
LEMMA PostRepositoryKeeps ==
    ASSUME IInv, NEW h \in Holders, PostRepository(h)
    PROVE  IInv'
<1>0. /\ holders' \in [Holders -> HolderType] /\ ThreadsWatched'
      /\ \A g \in Holders : /\ holders'[g].thread = holders[g].thread
                            /\ holders'[g].lost = holders[g].lost
  <2>1. CASE UNCHANGED holders
    BY <2>1 DEF IInv, TypeOK, ThreadsWatched
  <2>2. CASE \E r \in Repos : holders' = [holders EXCEPT ![h] = Described(@, r)]
    BY <2>2, DescribeKeeps DEF IInv
  <2> QED
    BY <2>1, <2>2 DEF PostRepository
<1>1. TypeOK'
  BY <1>0, ZenonT(60) DEF IInv, PostRepository, TypeOK, Tell, To, Bug, After, menu, operation
<1>2. ThreadsWatched'
  BY <1>0
<1>3. Reached'
  BY DEF IInv, PostRepository, After, Up, To, Tell, Bug, Reached, AtRest
<1>4. StatusReset'
  BY DEF IInv, PostRepository, HolderStage, StatusReset
<1>5. StatusKept'
  BY DEF IInv, PostRepository, HolderStage, operation, StatusKept
<1>6. AsksAnswered'
  BY DEF IInv, PostRepository, operation, AsksAnswered, Answered
<1>7. RefreshJustified'
  BY <1>0 DEF IInv, PostRepository, RefreshJustified, Waited, ReloadsWhileWaiting,
     AtRest, Up, To, Bug, After, HolderStage
<1> QED
  BY <1>1, <1>2, <1>3, <1>4, <1>5, <1>6, <1>7 DEF IInv

(* A page that needs nothing is passed.                                      *)
LEMMA HolderQuietKeeps ==
    ASSUME IInv, NEW h \in Holders, HolderQuiet(h)
    PROVE  IInv'
<1>1. TypeOK'
  BY DEF IInv, HolderQuiet, After, Same, menu, operation, To, Untold, TypeOK
<1>2. ThreadsWatched'
  BY DEF IInv, HolderQuiet, ThreadsWatched
<1>3. Reached'
  BY DEF IInv, HolderQuiet, HolderStage, After, menu, To, Untold, Reached, Past,
     Shown, AtRest
<1>4. StatusReset'
  BY DEF IInv, HolderQuiet, HolderStage, StatusReset
<1>5. StatusKept'
  BY DEF IInv, HolderQuiet, HolderStage, operation, StatusKept
<1>6. AsksAnswered'
  BY DEF IInv, HolderQuiet, operation, AsksAnswered, Answered
<1>7. RefreshJustified'
  BY DEF IInv, HolderQuiet, After, Same, To, RefreshJustified, Waited,
     ReloadsWhileWaiting, AtRest
<1> QED
  BY <1>1, <1>2, <1>3, <1>4, <1>5, <1>6, <1>7 DEF IInv

(* The popup waits: the page reloads itself while the thread is watched.     *)
LEMMA PopupWaitsKeeps ==
    ASSUME IInv, NEW h \in Holders, PopupWaits(h)
    PROVE  IInv'
<1>1. TypeOK'
  BY DEF IInv, PopupWaits, Following, menu, operation, To, Untold, SetRefresh,
     TypeOK
<1>2. ThreadsWatched'
  BY DEF IInv, PopupWaits, ThreadsWatched
<1>3. Reached'
  BY DEF IInv, PopupWaits, PopupStage, After, Following, menu, To, Untold,
     Reached, Past, Shown, AtRest
<1>4. StatusReset'
  BY DEF IInv, PopupWaits, PopupStage, After, StatusReset
<1>5. StatusKept'
  BY DEF IInv, PopupWaits, PopupStage, After, operation, StatusKept
<1>6. AsksAnswered'
  BY DEF IInv, PopupWaits, operation, AsksAnswered, Answered
<1>7. RefreshJustified'
  <2>1. holders[h].thread # "off" /\ UNCHANGED holders
    BY DEF PopupWaits, Running
  <2> QED
    BY <2>1 DEF RefreshJustified, Waited, ReloadsWhileWaiting
<1> QED
  BY <1>1, <1>2, <1>3, <1>4, <1>5, <1>6, <1>7 DEF IInv

(* The popup closes when the thread has ended.                               *)
LEMMA PopupEndsKeeps ==
    ASSUME IInv, NEW h \in Holders, PopupEnds(h)
    PROVE  IInv'
<1> DEFINE new == [holders[h] EXCEPT !.managed = FALSE, !.thread = "off"]
<1>a. holders[h] \in HolderType /\ WatchedOK(holders[h])
  BY DEF IInv, TypeOK, ThreadsWatched
<1>b. new \in HolderType
  BY <1>a DEF HolderType
<1>c. WatchedOK(new) /\ new.need = holders[h].need /\ new.lost = holders[h].lost
  BY <1>a DEF HolderType, WatchedOK, PopupEnds
<1>d. holders' = [holders EXCEPT ![h] = new]
  BY DEF PopupEnds
<1> HIDE DEF new
<1>0. /\ holders' \in [Holders -> HolderType] /\ holders'[h] = new
      /\ \A g \in Holders \ {h} : holders'[g] = holders[g]
  BY <1>a, <1>b, <1>d, HolderReplaced DEF IInv, TypeOK
<1>1. TypeOK'
  BY <1>0, ZenonT(60) DEF IInv, PopupEnds, TypeOK, To, Page, Tell, NoRedirect, SetRefresh, Following,
     menu, operation, PopupStage, After
<1>2. ThreadsWatched'
  <2>1. \A g \in Holders : WatchedOK(holders'[g])
    BY <1>0, <1>c DEF IInv, ThreadsWatched
  <2> QED
    BY <2>1 DEF ThreadsWatched, WatchedOK, Holders
<1>3. Reached'
  BY <1>0, <1>c DEF IInv, PopupEnds, To, Page, Tell, NoRedirect, SetRefresh, Following, menu,
     operation, PopupStage, After, Reached, Past, Shown, AtRest, Up, Page,
     PopupStage, After, Following
<1>4. StatusReset'
  BY DEF IInv, PopupEnds, PopupStage, After, StatusReset
<1>5. StatusKept'
  BY DEF IInv, PopupEnds, PopupStage, After, operation, StatusKept
<1>6. AsksAnswered'
  BY DEF IInv, PopupEnds, operation, AsksAnswered, Answered
<1>7. RefreshJustified'
  BY <1>0, <1>c DEF IInv, PopupEnds, To, Page, Tell, NoRedirect, SetRefresh, Following, menu,
     operation, PopupStage, After, RefreshJustified, Waited, ReloadsWhileWaiting,
     AtRest, Up, Page
<1> QED
  BY <1>1, <1>2, <1>3, <1>4, <1>5, <1>6, <1>7 DEF IInv

(* A thread that failed is lost when the popup throws its error.             *)
LEMMA PopupFailsKeeps ==
    ASSUME IInv, NEW h \in Holders, PopupFails(h)
    PROVE  IInv'
<1> DEFINE new == [holders[h] EXCEPT !.managed = (h = "read"), !.thread = "off"]
<1>a. holders[h] \in HolderType /\ WatchedOK(holders[h])
  BY DEF IInv, TypeOK, ThreadsWatched
<1>b. new \in HolderType
  BY <1>a DEF HolderType
<1>c. WatchedOK(new) /\ new.need = holders[h].need /\ holders[h].lost /\ new.lost
  BY <1>a DEF HolderType, WatchedOK, PopupFails
<1>d. holders' = [holders EXCEPT ![h] = new]
  BY DEF PopupFails
<1> HIDE DEF new
<1>0. /\ holders' \in [Holders -> HolderType] /\ holders'[h] = new
      /\ \A g \in Holders \ {h} : holders'[g] = holders[g]
  BY <1>a, <1>b, <1>d, HolderReplaced DEF IInv, TypeOK
<1>1. TypeOK'
  BY <1>0, ZenonT(60) DEF IInv, PopupFails, TypeOK, To, Page, Tell, menu, operation
<1>2. ThreadsWatched'
  <2>1. \A g \in Holders : WatchedOK(holders'[g])
    BY <1>0, <1>c DEF IInv, ThreadsWatched
  <2> QED
    BY <2>1 DEF ThreadsWatched, WatchedOK, Holders
<1>3. Reached'
  BY <1>0, <1>c DEF IInv, PopupFails, To, Page, Tell, menu, operation, Reached,
     Past, Shown, AtRest, Up, Page, PopupStage, After, Following
<1>4. StatusReset'
  BY DEF IInv, PopupFails, StatusReset
<1>5. StatusKept'
  BY DEF IInv, PopupFails, PopupStage, After, operation, StatusKept
<1>6. AsksAnswered'
  BY DEF IInv, PopupFails, operation, AsksAnswered, Answered
<1>7. RefreshJustified'
  BY <1>0, <1>c DEF IInv, PopupFails, To, Page, Tell, menu, operation,
     RefreshJustified, Waited, ReloadsWhileWaiting, AtRest, Up, Page
<1> QED
  BY <1>1, <1>2, <1>3, <1>4, <1>5, <1>6, <1>7 DEF IInv

(* The error is met before the popup sees it.                                *)
LEMMA UpdateFailsKeeps == ASSUME IInv, UpdateFails PROVE IInv'
<1> DEFINE new == [holders["read"] EXCEPT !.thread = "off"]
<1>z. "read" \in Holders
  BY DEF Holders
<1>a. holders["read"] \in HolderType /\ WatchedOK(holders["read"])
  BY <1>z DEF IInv, TypeOK, ThreadsWatched
<1>b. new \in HolderType
  BY <1>a DEF HolderType
<1>c. WatchedOK(new) /\ new.need = holders["read"].need /\ holders["read"].lost /\ new.lost
  BY <1>a DEF HolderType, WatchedOK, UpdateFails
<1>d. holders' = [holders EXCEPT !["read"] = new]
  BY DEF UpdateFails
<1> HIDE DEF new
<1>0. /\ holders' \in [Holders -> HolderType] /\ holders'["read"] = new
      /\ \A g \in Holders \ {"read"} : holders'[g] = holders[g]
  BY <1>z, <1>a, <1>b, <1>d, HolderReplaced DEF IInv, TypeOK
<1>1. TypeOK'
  BY <1>0, ZenonT(60) DEF IInv, UpdateFails, TypeOK, To, Page, Tell, menu, operation
<1>2. ThreadsWatched'
  <2>1. \A g \in Holders : WatchedOK(holders'[g])
    BY <1>z, <1>0, <1>c DEF IInv, ThreadsWatched
  <2> QED
    BY <2>1 DEF ThreadsWatched, WatchedOK, Holders
<1>3. Reached'
  BY <1>z, <1>0, <1>c DEF IInv, UpdateFails, To, Page, Tell, menu, operation, Reached,
     Past, Shown, AtRest, Up, Page, HolderStage
<1>4. StatusReset'
  BY DEF IInv, UpdateFails, StatusReset
<1>5. StatusKept'
  BY DEF IInv, UpdateFails, HolderStage, operation, StatusKept
<1>6. AsksAnswered'
  BY DEF IInv, UpdateFails, operation, AsksAnswered, Answered
<1>7. RefreshJustified'
  BY <1>z, <1>0, <1>c DEF IInv, UpdateFails, To, Page, Tell, menu, operation,
     RefreshJustified, Waited, ReloadsWhileWaiting, AtRest, Up, Page
<1> QED
  BY <1>1, <1>2, <1>3, <1>4, <1>5, <1>6, <1>7 DEF IInv

(* The popup that stayed clears the redirection, and its button closes it.   *)
LEMMA PopupStaysKeeps == ASSUME IInv, PopupStays PROVE IInv'
<1> DEFINE new == [holders["read"] EXCEPT !.managed = FALSE]
<1>z. "read" \in Holders
  BY DEF Holders
<1>a. holders["read"] \in HolderType /\ WatchedOK(holders["read"])
  BY <1>z DEF IInv, TypeOK, ThreadsWatched
<1>b. new \in HolderType
  BY <1>a DEF HolderType
<1>c. /\ WatchedOK(new) /\ new.need = holders["read"].need
      /\ new.thread = holders["read"].thread /\ new.lost = holders["read"].lost
  BY <1>a DEF HolderType, WatchedOK, PopupStays
<1>d. UNCHANGED holders \/ holders' = [holders EXCEPT !["read"] = new]
  BY DEF PopupStays
<1> HIDE DEF new
<1>0. /\ holders' \in [Holders -> HolderType]
      /\ \A g \in Holders : /\ WatchedOK(holders'[g])
                            /\ holders'[g].need = holders[g].need
                            /\ holders'[g].thread = holders[g].thread
                            /\ holders'[g].lost = holders[g].lost
  <2>1. CASE UNCHANGED holders
    BY <2>1 DEF IInv, TypeOK, ThreadsWatched
  <2>2. CASE holders' = [holders EXCEPT !["read"] = new]
    <3>1. /\ holders' \in [Holders -> HolderType] /\ holders'["read"] = new
          /\ \A g \in Holders \ {"read"} : holders'[g] = holders[g]
      BY <1>z, <1>b, <2>2, HolderReplaced DEF IInv, TypeOK
    <3> QED
      BY <1>c, <3>1 DEF IInv, ThreadsWatched
  <2> QED
    BY <1>d, <2>1, <2>2
<1>1. TypeOK'
  <2>1. /\ changed' \subseteq {"page"} /\ acted' \in BOOLEAN /\ redirect' \in BOOLEAN
        /\ pc' \in {"page", "biblio"} /\ status' = status
    BY ZenonT(60) DEF IInv, TypeOK, PopupStays, Tell, Untold, To, Following, NoRedirect,
       SetRefresh
  <2>2. UNCHANGED <<posted, menu, box, todo, operation>>
    BY DEF PopupStays
  <2> QED
    BY <1>0, <2>1, <2>2 DEF IInv, TypeOK, menu, operation
<1>2. ThreadsWatched'
  BY <1>0 DEF ThreadsWatched, WatchedOK, Holders
<1>3. Reached'
  BY <1>0 DEF IInv, PopupStays, To, Tell, Untold, Following, menu, PopupStage, After,
     Reached, Past, Shown, AtRest, Up
<1>4. StatusReset'
  BY DEF IInv, PopupStays, PopupStage, After, StatusReset
<1>5. StatusKept'
  BY DEF IInv, PopupStays, PopupStage, After, operation, StatusKept
<1>6. AsksAnswered'
  BY DEF IInv, PopupStays, operation, AsksAnswered, Answered
<1>7. RefreshJustified'
  BY DEF IInv, PopupStays, PopupStage, After, To, Following, NoRedirect, SetRefresh,
     RefreshJustified, Waited, ReloadsWhileWaiting, AtRest, Up
<1> QED
  BY <1>1, <1>2, <1>3, <1>4, <1>5, <1>6, <1>7 DEF IInv

(* The thread reads the description of the repository.                       *)
LEMMA ThreadBeginKeeps ==
    ASSUME IInv, NEW h \in Holders, ThreadBegin(h)
    PROVE  IInv'
<1> DEFINE new == IF holders[h].obsolete
                 THEN [holders[h] EXCEPT !.thread = "connect", !.target = holders[h].repo]
                 ELSE [holders[h] EXCEPT !.thread = "built"]
<1>a. holders[h] \in HolderType /\ WatchedOK(holders[h])
  BY DEF IInv, TypeOK, ThreadsWatched
<1>b. new \in HolderType
  BY <1>a, OperationsAssumption DEF HolderType
<1>c. WatchedOK(new) /\ new.need = holders[h].need /\ new.thread # "off"
  BY <1>a DEF HolderType, WatchedOK, ThreadBegin, ThreadAt, Work
<1>d. holders' = [holders EXCEPT ![h] = new]
  BY DEF ThreadBegin, ThreadAt, Work
<1> HIDE DEF new
<1>0. /\ holders' \in [Holders -> HolderType] /\ holders'[h] = new
      /\ \A g \in Holders \ {h} : holders'[g] = holders[g]
  BY <1>a, <1>b, <1>d, HolderReplaced DEF IInv, TypeOK
<1>1. TypeOK'
  BY <1>0 DEF IInv, ThreadBegin, TypeOK, ThreadAt, Work, server, menu, operation
<1>2. ThreadsWatched'
  <2>1. \A g \in Holders : WatchedOK(holders'[g])
    BY <1>0, <1>c DEF IInv, ThreadsWatched
  <2> QED
    BY <2>1 DEF ThreadsWatched, WatchedOK, Holders
<1>3. Reached'
  BY <1>0, <1>c DEF IInv, ThreadBegin, ThreadAt, Work, server, menu, operation,
     Reached, Past, Shown, AtRest, Up, Page, PopupStage, After, Following
<1>4. StatusReset'
  BY DEF IInv, ThreadBegin, ThreadAt, Work, server, operation, StatusReset
<1>5. StatusKept'
  BY DEF IInv, ThreadBegin, ThreadAt, Work, server, operation, StatusKept
<1>6. AsksAnswered'
  BY DEF IInv, ThreadBegin, ThreadAt, Work, operation, AsksAnswered, Answered
<1>7. RefreshJustified'
  BY <1>0, <1>c DEF IInv, ThreadBegin, ThreadAt, Work, server, menu, operation,
     RefreshJustified, Waited, ReloadsWhileWaiting, AtRest, Up, Page
<1> QED
  BY <1>1, <1>2, <1>3, <1>4, <1>5, <1>6, <1>7 DEF IInv

(* The thread reaches the repository.                                        *)
LEMMA ThreadConnectKeeps ==
    ASSUME IInv, NEW h \in Holders, ThreadConnect(h)
    PROVE  IInv'
<1> DEFINE new == [holders[h] EXCEPT !.thread = "built", !.entrep = holders[h].target,
                                 !.target = Local]
<1>a. holders[h] \in HolderType /\ WatchedOK(holders[h])
  BY DEF IInv, TypeOK, ThreadsWatched
<1>b. new \in HolderType
  BY <1>a, OperationsAssumption DEF HolderType
<1>c. WatchedOK(new) /\ new.need = holders[h].need /\ new.thread # "off"
  BY <1>a DEF HolderType, WatchedOK, ThreadConnect, ThreadAt, Work
<1>d. holders' = [holders EXCEPT ![h] = new]
  BY DEF ThreadConnect, ThreadAt, Work
<1> HIDE DEF new
<1>0. /\ holders' \in [Holders -> HolderType] /\ holders'[h] = new
      /\ \A g \in Holders \ {h} : holders'[g] = holders[g]
  BY <1>a, <1>b, <1>d, HolderReplaced DEF IInv, TypeOK
<1>1. TypeOK'
  BY <1>0 DEF IInv, ThreadConnect, TypeOK, ThreadAt, Work, server, menu, operation
<1>2. ThreadsWatched'
  <2>1. \A g \in Holders : WatchedOK(holders'[g])
    BY <1>0, <1>c DEF IInv, ThreadsWatched
  <2> QED
    BY <2>1 DEF ThreadsWatched, WatchedOK, Holders
<1>3. Reached'
  BY <1>0, <1>c DEF IInv, ThreadConnect, ThreadAt, Work, server, menu, operation,
     Reached, Past, Shown, AtRest, Up, Page, PopupStage, After, Following
<1>4. StatusReset'
  BY DEF IInv, ThreadConnect, ThreadAt, Work, server, operation, StatusReset
<1>5. StatusKept'
  BY DEF IInv, ThreadConnect, ThreadAt, Work, server, operation, StatusKept
<1>6. AsksAnswered'
  BY DEF IInv, ThreadConnect, ThreadAt, Work, operation, AsksAnswered, Answered
<1>7. RefreshJustified'
  BY <1>0, <1>c DEF IInv, ThreadConnect, ThreadAt, Work, server, menu, operation,
     RefreshJustified, Waited, ReloadsWhileWaiting, AtRest, Up, Page
<1> QED
  BY <1>1, <1>2, <1>3, <1>4, <1>5, <1>6, <1>7 DEF IInv

(* The thread fails to reach the repository.                                 *)
LEMMA ThreadFailKeeps ==
    ASSUME IInv, NEW h \in Holders, ThreadFail(h)
    PROVE  IInv'
<1> DEFINE new == [holders[h] EXCEPT !.thread = "failed", !.lost = TRUE,
                                 !.target = Local]
<1>a. holders[h] \in HolderType /\ WatchedOK(holders[h])
  BY DEF IInv, TypeOK, ThreadsWatched
<1>b. new \in HolderType
  BY <1>a, OperationsAssumption DEF HolderType
<1>c. WatchedOK(new) /\ new.need = holders[h].need /\ new.thread # "off"
  BY <1>a DEF HolderType, WatchedOK, ThreadFail, ThreadAt, Work
<1>d. holders' = [holders EXCEPT ![h] = new]
  BY DEF ThreadFail, ThreadAt, Work
<1> HIDE DEF new
<1>0. /\ holders' \in [Holders -> HolderType] /\ holders'[h] = new
      /\ \A g \in Holders \ {h} : holders'[g] = holders[g]
  BY <1>a, <1>b, <1>d, HolderReplaced DEF IInv, TypeOK
<1>1. TypeOK'
  BY <1>0 DEF IInv, ThreadFail, TypeOK, ThreadAt, Work, server, menu, operation
<1>2. ThreadsWatched'
  <2>1. \A g \in Holders : WatchedOK(holders'[g])
    BY <1>0, <1>c DEF IInv, ThreadsWatched
  <2> QED
    BY <2>1 DEF ThreadsWatched, WatchedOK, Holders
<1>3. Reached'
  BY <1>0, <1>c DEF IInv, ThreadFail, ThreadAt, Work, server, menu, operation,
     Reached, Past, Shown, AtRest, Up, Page, PopupStage, After, Following
<1>4. StatusReset'
  BY DEF IInv, ThreadFail, ThreadAt, Work, server, operation, StatusReset
<1>5. StatusKept'
  BY DEF IInv, ThreadFail, ThreadAt, Work, server, operation, StatusKept
<1>6. AsksAnswered'
  BY DEF IInv, ThreadFail, ThreadAt, Work, operation, AsksAnswered, Answered
<1>7. RefreshJustified'
  BY <1>0, <1>c DEF IInv, ThreadFail, ThreadAt, Work, server, menu, operation,
     RefreshJustified, Waited, ReloadsWhileWaiting, AtRest, Up, Page
<1> QED
  BY <1>1, <1>2, <1>3, <1>4, <1>5, <1>6, <1>7 DEF IInv

(* The thread gives its path the repository, unless its description has      *)
(* changed since.                                                            *)
LEMMA ThreadEndKeeps ==
    ASSUME IInv, NEW h \in Holders, ThreadEnd(h)
    PROVE  IInv'
<1> DEFINE new == [holders[h] EXCEPT !.thread = "ended", !.obsolete = FALSE,
                                 !.given = holders[h].entrep,
                                 !.lost = (holders[h].repo # holders[h].entrep)]
<1>a. holders[h] \in HolderType /\ WatchedOK(holders[h])
  BY DEF IInv, TypeOK, ThreadsWatched
<1>b. new \in HolderType
  BY <1>a, OperationsAssumption DEF HolderType
<1>c. WatchedOK(new) /\ new.need = holders[h].need /\ new.thread # "off"
  BY <1>a DEF HolderType, WatchedOK, ThreadEnd, ThreadAt, Work
<1>d. holders' = [holders EXCEPT ![h] = new]
  BY DEF ThreadEnd, ThreadAt, Work
<1> HIDE DEF new
<1>0. /\ holders' \in [Holders -> HolderType] /\ holders'[h] = new
      /\ \A g \in Holders \ {h} : holders'[g] = holders[g]
  BY <1>a, <1>b, <1>d, HolderReplaced DEF IInv, TypeOK
<1>1. TypeOK'
  BY <1>0 DEF IInv, ThreadEnd, TypeOK, ThreadAt, Work, server, menu, operation
<1>2. ThreadsWatched'
  <2>1. \A g \in Holders : WatchedOK(holders'[g])
    BY <1>0, <1>c DEF IInv, ThreadsWatched
  <2> QED
    BY <2>1 DEF ThreadsWatched, WatchedOK, Holders
<1>3. Reached'
  BY <1>0, <1>c DEF IInv, ThreadEnd, ThreadAt, Work, server, menu, operation,
     Reached, Past, Shown, AtRest, Up, Page, PopupStage, After, Following
<1>4. StatusReset'
  BY DEF IInv, ThreadEnd, ThreadAt, Work, server, operation, StatusReset
<1>5. StatusKept'
  BY DEF IInv, ThreadEnd, ThreadAt, Work, server, operation, StatusKept
<1>6. AsksAnswered'
  BY DEF IInv, ThreadEnd, ThreadAt, Work, operation, AsksAnswered, Answered
<1>7. RefreshJustified'
  BY <1>0, <1>c DEF IInv, ThreadEnd, ThreadAt, Work, server, menu, operation,
     RefreshJustified, Waited, ReloadsWhileWaiting, AtRest, Up, Page
<1> QED
  BY <1>1, <1>2, <1>3, <1>4, <1>5, <1>6, <1>7 DEF IInv

(* A button is pressed while no operation runs.                              *)
LEMMA PressKeeps ==
    ASSUME IInv, NEW b \in AllButtons, Press(b)
    PROVE  IInv'
<1>0. (b \in Posts) \in BOOLEAN
  OBVIOUS
<1>1. TypeOK'
  BY <1>0, ZenonT(60) DEF IInv, Press, Receive, menu, operation, TypeOK
<1>2. ThreadsWatched'
  BY DEF IInv, Press, Receive, ThreadsWatched
<1>3. Reached'
  BY DEF IInv, Press, Receive, Reached, Past, AtRest
<1>4. StatusReset'
  BY DEF IInv, Press, Receive, StatusReset
<1>5. StatusKept'
  BY DEF IInv, Press, Receive, operation, StatusKept
<1>6. AsksAnswered'
  BY DEF IInv, Press, Receive, operation, AsksAnswered, Answered
<1>7. RefreshJustified'
  BY DEF IInv, Press, Receive, RefreshJustified, Waited, ReloadsWhileWaiting,
     AtRest
<1> QED
  BY <1>1, <1>2, <1>3, <1>4, <1>5, <1>6, <1>7 DEF IInv
-----------------------------------------------------------------------------
(* A session starts on the main page, with holders that show nothing yet.    *)
LEMMA InitKeeps == ASSUME Init PROVE IInv
<1>0. PICK S \in SUBSET Holders : \E default \in [S -> Defaults] :
         holders = [h \in Holders |-> IF h \in S THEN Holder(TRUE, default[h])
                                                 ELSE Holder(FALSE, Local)]
  BY DEF Init
<1>1. PICK default \in [S -> Defaults] :
         holders = [h \in Holders |-> IF h \in S THEN Holder(TRUE, default[h])
                                                 ELSE Holder(FALSE, Local)]
  BY <1>0
<1>2. ASSUME NEW b \in BOOLEAN, NEW r \in Repos, ~b => r = Local
      PROVE  Holder(b, r) \in HolderType /\ WatchedOK(Holder(b, r))
  BY <1>2, OperationsAssumption DEF Holder, HolderType, WatchedOK
<1>3. holders \in [Holders -> HolderType] /\ \A h \in Holders : WatchedOK(holders[h])
  <2>1. ASSUME NEW h \in Holders
        PROVE  holders[h] \in HolderType /\ WatchedOK(holders[h])
    <3>1. CASE h \in S
      <4>1. default[h] \in Repos
        BY <3>1, OperationsAssumption
      <4> QED
        BY <1>1, <1>2, <3>1, <4>1
    <3>2. CASE h \notin S
      <4>1. Holder(FALSE, Local) \in HolderType /\ WatchedOK(Holder(FALSE, Local))
        BY <1>2, OperationsAssumption
      <4> QED
        BY <1>1, <3>2, <4>1
    <3> QED
      BY <3>1, <3>2
  <2> QED
    BY <1>1, <2>1
<1>4. TypeOK
  <2>1. asks = <<>>
    BY DEF Init
  <2>2. asks \in Seq(Getters)
    BY <2>1
  <2> QED
    BY <1>3, <2>2, OperationsAssumption DEF Init, TypeOK
<1>5. ThreadsWatched
  BY <1>3 DEF ThreadsWatched
<1>6. Reached
  <2>1. ASSUME NEW h \in Holders PROVE ~Shown(h)
    BY OperationsAssumption DEF Init, Shown, Holders
  <2> QED
    BY <2>1 DEF Reached
<1>7. StatusReset /\ StatusKept /\ AsksAnswered
  BY DEF Init, StatusReset, StatusKept, AsksAnswered
<1>8. RefreshJustified
  BY DEF Init, RefreshJustified, ReloadsWhileWaiting, Page
<1> QED
  BY <1>4, <1>5, <1>6, <1>7, <1>8 DEF IInv

(* A step that changes nothing keeps the invariant.                          *)
LEMMA StutterKeeps == ASSUME IInv, UNCHANGED vars PROVE IInv'
<1> USE DEF vars, server, menu, operation
<1>1. TypeOK' /\ ThreadsWatched'
  BY DEF IInv, TypeOK, ThreadsWatched, WatchedOK, Holders
<1>2. Reached'
  BY DEF IInv, Reached, Past, Shown, AtRest, Up
<1>3. StatusReset' /\ StatusKept' /\ AsksAnswered'
  BY DEF IInv, StatusReset, StatusKept, AsksAnswered, Answered, Up
<1>4. RefreshJustified'
  BY DEF IInv, RefreshJustified, Waited, ReloadsWhileWaiting, AtRest, Up
<1> QED
  BY <1>1, <1>2, <1>3, <1>4 DEF IInv

(* Every step keeps the invariant.                                           *)
LEMMA NextKeeps == ASSUME IInv, [Next]_vars PROVE IInv'
<1>1. CASE \E b \in AllButtons : Press(b)
  BY <1>1, PressKeeps
<1>2. CASE Reload \/ Redirected \/ Acknowledge \/ Leave
  BY <1>2, ReloadKeeps, AcknowledgeKeeps, LeaveKeeps
<1>3. CASE Build
  <2>1. ASSUME NEW h \in Holders,
               \/ UpdateEntrepot(h) \/ UpdateMeetsThread(h)
               \/ PostRepository(h) \/ HolderQuiet(h)
               \/ PopupWaits(h) \/ PopupEnds(h) \/ PopupFails(h)
        PROVE  IInv'
    BY <2>1, UpdateEntrepotKeeps, UpdateMeetsThreadKeeps, PostRepositoryKeeps,
       HolderQuietKeeps, PopupWaitsKeeps, PopupEndsKeeps, PopupFailsKeeps
  <2>2. CASE \/ Start \/ Menu \/ UpdateFails \/ PopupStays \/ Hidden
             \/ Biblio \/ Launch \/ Answer \/ NextRound \/ Send
    BY <2>2, StartKeeps, MenuKeeps, UpdateFailsKeeps, PopupStaysKeeps, HiddenKeeps,
       BiblioKeeps, LaunchKeeps, AnswerKeeps, NextRoundKeeps, SendKeeps
  <2> QED
    BY <1>3, <2>1, <2>2 DEF Build
<1>4. ASSUME NEW h \in Holders, Thread(h)
      PROVE  IInv'
  BY <1>4, ThreadBeginKeeps, ThreadConnectKeeps, ThreadFailKeeps, ThreadEndKeeps
     DEF Thread
<1>5. CASE Job
  BY <1>5, AskKeeps, OperateKeeps DEF Job
<1>6. CASE Over \/ UNCHANGED vars
  BY <1>6, StutterKeeps DEF Over
<1> QED
  BY <1>1, <1>2, <1>3, <1>4, <1>5, <1>6 DEF Next

(* The invariant is inductive.                                               *)
THEOREM Invariance == Spec => []IInv
<1>1. Init => IInv
  BY InitKeeps
<1>2. IInv /\ [Next]_vars => IInv'
  BY NextKeeps
<1> QED
  BY <1>1, <1>2, PTL DEF Spec

(* The variables keep their types.                                           *)
THEOREM TypeCorrect == Spec => []TypeOK
<1>1. IInv => TypeOK
  BY DEF IInv
<1> QED
  BY <1>1, Invariance, PTL

(* The thread of an operation never meets WEBDAR_BUG in a getter of saisie:  *)
(* the round that launched it is the last until its page is left.            *)
THEOREM ParametersFound == Spec => []OperationFindsItsParameters
<1>1. IInv => OperationFindsItsParameters
  BY DEF IInv, AsksAnswered, OperationFindsItsParameters
<1> QED
  BY <1>1, Invariance, PTL

(* The path on a page at rest is the one of its repository                   *)
(* (need_entrepot_update of html_archive_create and the others).             *)
THEOREM PathsFollow == Spec => []PathsBrowseTheRepository
<1>1. IInv => PathsBrowseTheRepository
  <2> SUFFICES ASSUME IInv, AtRest, NEW h \in Holders,
                      Shown(h), ~Running(h), ~holders[h].lost
               PROVE  holders[h].given = holders[h].repo
    BY DEF PathsBrowseTheRepository
  <2>1. ~holders[h].need
    BY DEF IInv, Reached, AtRest
  <2>2. holders[h].thread \in {"off", "ended"}
    BY DEF IInv, TypeOK, HolderType, ThreadsWatched, WatchedOK, Running
  <2> QED
    BY <2>1, <2>2 DEF IInv, ThreadsWatched, WatchedOK
<1> QED
  BY <1>1, Invariance, PTL

(* A page at rest reloads itself only while a thread is watched, or after    *)
(* one was lost (html_libdar_running_popup,                                  *)
(* html_page::set_refresh_redirection).                                      *)
THEOREM ReloadsJustified == Spec => []ReloadsWhileWaiting
<1>1. IInv => ReloadsWhileWaiting
  BY DEF IInv, RefreshJustified
<1> QED
  BY <1>1, Invariance, PTL
=============================================================================
