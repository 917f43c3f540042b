------------------------- MODULE LibdarControlProofs -------------------------
(* Proofs about LibdarControl, however many pages fail: the checks of the    *)
(* server thread hold, modes, threads and pages agree, and what libdar asks  *)
(* follows Dialogue.                                                         *)
EXTENDS LibdarControl, TLAPS

(* The mode of the session behind an error page.                             *)
Behind == IF mode = "error" THEN return_mode ELSE mode

(* What the libdar thread is doing: only a thread that waits has a question, *)
(* and the form shows no other one. The thread that opened an archive set    *)
(* autohide before, and left the archive open.                               *)
ThreadShape ==
    /\ thread # "off" => managed = current /\ managed # "none" /\ Behind \in Running
    /\ asked # "none" <=> thread = "asking"
    /\ answered => asked # "none"
    /\ shown \subseteq Pending
    /\ thread = "start" => ~form
    /\ thread = "ended" /\ managed = "open" => autohide /\ opened

(* The component at rest, closed or never used, or that holds a thread that  *)
(* was refused.                                                              *)
RestShape ==
    Behind \in {"config", "listing"} =>
        /\ thread = "off"
        /\ \/ /\ current = "none" /\ managed = "none"
              /\ hmode = "closed" \/ (hmode = "normal" /\ enable_refresh)
           \/ Behind = "config" /\ managed # "none"
        /\ Behind = "listing" => opened

(* The component of a session that runs an operation: its mode, its thread,  *)
(* and the refresh of its page.                                              *)
RunningShape ==
    Behind \in Running =>
        /\ current # "none" /\ (Behind = "opening" <=> current = "open")
        /\ hmode # "closed"
        /\ managed = "none" <=> hmode = "finished"
        /\ managed # "none" => thread # "off"
        /\ hmode = "finished" /\ Behind = "opening" => was_interrupted
        /\ enable_refresh <=> ~form /\ hmode # "finished"

(* The server thread in a round of the running page, or past it. A question  *)
(* that no page has shown yet is on the one being built, and is not taken    *)
(* for the one that the POST answers.                                        *)
RoundShape ==
    /\ pc \in {"watch", "children"} => mode \in Running
    /\ pc \in {"watch", "children", "send"} /\ mode \in Running =>
           (form <=> shown # {})
    /\ mode \in Running /\ asked \in shown /\ ~displayed =>
           /\ pc # "idle"
           /\ req \in Kinds => pc \in {"watch", "children"} /\ asked \in value_set

Shapes == ThreadShape /\ RestShape /\ RunningShape /\ RoundShape

IInv == TypeOK /\ (Up => Shapes) /\ ServerMeetsNoBug /\ RunningPagePolls

(* TypeOK in three parts: the flags, the sets and records, the rest.         *)
FlagsOK ==
    /\ autohide \in BOOLEAN /\ was_interrupted \in BOOLEAN
    /\ form \in BOOLEAN /\ enable_refresh \in BOOLEAN
    /\ answered \in BOOLEAN /\ opened \in BOOLEAN
    /\ changed \in BOOLEAN /\ displayed \in BOOLEAN

DataOK ==
    /\ shown \in SUBSET Kinds /\ value_set \in SUBSET Kinds
    /\ page \in [mode : Modes, shown : SUBSET Kinds, refresh : BOOLEAN,
                 finish : BOOLEAN]
    /\ failures \in 0 .. MaxFailures

StatesOK ==
    /\ mode \in Modes /\ return_mode \in Modes \ {"error"}
    /\ current \in Jobs \cup {"none"} /\ managed \in Jobs \cup {"none"}
    /\ hmode \in {"normal", "end_asked", "end_forced", "finished", "closed"}
    /\ asked \in Kinds \cup {"none"}
    /\ thread \in ThreadStates
    /\ stop \in {"none", "soft", "hard"}
    /\ pc \in {"idle", "eval", "watch", "children", "send"}
    /\ req \in Requests
    /\ status \in {"up", "bug", "libdar_bug", "unwatched"}

-----------------------------------------------------------------------------
(* A request, also an old one or one sent twice, only starts a round.        *)
LEMMA ReceiveStep ==
    ASSUME IInv, NEW r \in Requests, Receive(r)
    PROVE  IInv'
<1> USE DEF IInv, Receive, Up,
        ui, web, box, question, job, server, seen
<1>1. FlagsOK' /\ DataOK'
  BY FailuresAssumption DEF TypeOK, FlagsOK, DataOK, Pending
<1> USE DEF TypeOK, Modes, Running, ThreadStates, Jobs, Kinds, Requests, Pending,
        Shapes, ThreadShape, RestShape, RunningShape, RoundShape, Behind
<1>2. StatesOK'
  BY DEF StatesOK
<1>3. Up' => Shapes'
  OBVIOUS
<1>4. ServerMeetsNoBug' /\ RunningPagePolls'
  BY DEF ServerMeetsNoBug, RunningPagePolls, Refused
<1> QED
  BY <1>1, <1>2, <1>3, <1>4 DEF FlagsOK, DataOK, StatesOK

(* The page that leaves shows the pending question: displayed becomes true.  *)
LEMMA SendStep ==
    ASSUME IInv, Send
    PROVE  IInv'
<1> USE DEF IInv, Send, Up,
        ui, web, box, question, job, server, seen
<1>1. FlagsOK' /\ DataOK'
  BY FailuresAssumption DEF TypeOK, FlagsOK, DataOK, Pending
<1> USE DEF TypeOK, Modes, Running, ThreadStates, Jobs, Kinds, Requests, Pending,
        Shapes, ThreadShape, RestShape, RunningShape, RoundShape, Behind
<1>2. StatesOK'
  BY DEF StatesOK
<1>3. Up' => Shapes'
  OBVIOUS
<1>4. ServerMeetsNoBug' /\ RunningPagePolls'
  BY DEF ServerMeetsNoBug, RunningPagePolls, Refused
<1> QED
  BY <1>1, <1>2, <1>3, <1>4 DEF FlagsOK, DataOK, StatesOK

(* A page that fails changes what the user sees, not what is behind it.      *)
LEMMA PageFailsStep ==
    ASSUME IInv, PageFails
    PROVE  IInv'
<1> USE DEF IInv, PageFails, ToError, Up,
        ui, web, box, question, job, server, seen
<1>1. FlagsOK' /\ DataOK'
  BY FailuresAssumption DEF TypeOK, FlagsOK, DataOK, Pending
<1> USE DEF TypeOK, Modes, Running, ThreadStates, Jobs, Kinds, Requests, Pending,
        Shapes, ThreadShape, RestShape, RunningShape, RoundShape, Behind
<1>2. StatesOK'
  BY DEF StatesOK
<1>3. Up' => Shapes'
  OBVIOUS
<1>4. ServerMeetsNoBug' /\ RunningPagePolls'
  BY DEF ServerMeetsNoBug, RunningPagePolls, Refused
<1> QED
  BY <1>1, <1>2, <1>3, <1>4 DEF FlagsOK, DataOK, StatesOK

(* A page without the button of the request changes nothing.                 *)
LEMMA NoReactionStep ==
    ASSUME IInv, NoReaction
    PROVE  IInv'
<1> USE DEF IInv, NoReaction, Up,
        ui, web, box, question, job, server, seen
<1>1. FlagsOK' /\ DataOK'
  BY FailuresAssumption DEF TypeOK, FlagsOK, DataOK, Pending
<1> USE DEF TypeOK, Modes, Running, ThreadStates, Jobs, Kinds, Requests, Pending,
        Shapes, ThreadShape, RestShape, RunningShape, RoundShape, Behind
<1>2. StatesOK'
  BY DEF StatesOK
<1>3. Up' => Shapes'
  OBVIOUS
<1>4. ServerMeetsNoBug' /\ RunningPagePolls'
  BY DEF ServerMeetsNoBug, RunningPagePolls, Refused
<1> QED
  BY <1>1, <1>2, <1>3, <1>4 DEF FlagsOK, DataOK, StatesOK

(* Behind the error page the mode is the one that comes back.                *)
LEMMA AcknowledgeStep ==
    ASSUME IInv, Acknowledge
    PROVE  IInv'
<1> USE DEF IInv, Acknowledge, AfterError, Up,
        ui, web, box, question, job, server, seen
<1>1. FlagsOK' /\ DataOK'
  BY FailuresAssumption DEF TypeOK, FlagsOK, DataOK, Pending
<1> USE DEF TypeOK, Modes, Running, ThreadStates, Jobs, Kinds, Requests, Pending,
        Shapes, ThreadShape, RestShape, RunningShape, RoundShape, Behind
<1>2. StatesOK'
  BY DEF StatesOK
<1>3. Up' => Shapes'
  OBVIOUS
<1>4. ServerMeetsNoBug' /\ RunningPagePolls'
  BY DEF ServerMeetsNoBug, RunningPagePolls, Refused
<1> QED
  BY <1>1, <1>2, <1>3, <1>4 DEF FlagsOK, DataOK, StatesOK

(* The listing is left: no thread runs, so nobody uses the archive.          *)
LEMMA CloseListingStep ==
    ASSUME IInv, CloseListing
    PROVE  IInv'
<1> USE DEF IInv, CloseListing, Up,
        ui, web, box, question, job, server, seen
<1>1. FlagsOK' /\ DataOK'
  BY FailuresAssumption DEF TypeOK, FlagsOK, DataOK, Pending
<1> USE DEF TypeOK, Modes, Running, ThreadStates, Jobs, Kinds, Requests, Pending,
        Shapes, ThreadShape, RestShape, RunningShape, RoundShape, Behind
<1>2. StatesOK'
  BY DEF StatesOK
<1>3. Up' => Shapes'
  OBVIOUS
<1>4. ServerMeetsNoBug' /\ RunningPagePolls'
  BY DEF ServerMeetsNoBug, RunningPagePolls, Refused
<1> QED
  BY <1>1, <1>2, <1>3, <1>4 DEF FlagsOK, DataOK, StatesOK

(* An operation starts from the component at rest, or its thread is          *)
(* refused.                                                                  *)
LEMMA LaunchStep ==
    ASSUME IInv, NEW j \in Jobs, Launch(j)
    PROVE  IInv'
<1> USE DEF IInv, Launch, ClearForm, BackToNormal, Up,
        ui, web, box, question, job, server, seen
<1>1. FlagsOK' /\ DataOK'
  BY FailuresAssumption DEF TypeOK, FlagsOK, DataOK, Pending
<1> USE DEF TypeOK, Modes, Running, ThreadStates, Jobs, Kinds, Requests, Pending,
        Shapes, ThreadShape, RestShape, RunningShape, RoundShape, Behind
<1>2. StatesOK'
  BY DEF StatesOK
<1>3. Up' => Shapes'
  OBVIOUS
<1>4. ServerMeetsNoBug' /\ RunningPagePolls'
  BY DEF ServerMeetsNoBug, RunningPagePolls, Refused
<1> QED
  BY <1>1, <1>2, <1>3, <1>4 DEF FlagsOK, DataOK, StatesOK

(* The check of current_thread fails only after a thread was refused.        *)
LEMMA LaunchAgainStep ==
    ASSUME IInv, NEW j \in Jobs, LaunchAgain(j)
    PROVE  IInv'
<1> USE DEF IInv, LaunchAgain, Bug, Up,
        ui, web, box, question, job, server, seen
<1>1. FlagsOK' /\ DataOK'
  BY FailuresAssumption DEF TypeOK, FlagsOK, DataOK, Pending
<1> USE DEF TypeOK, Modes, Running, ThreadStates, Jobs, Kinds, Requests, Pending,
        Shapes, ThreadShape, RestShape, RunningShape, RoundShape, Behind
<1>2. StatesOK'
  BY DEF StatesOK
<1>3. Up' => Shapes'
  OBVIOUS
<1>4. ServerMeetsNoBug' /\ RunningPagePolls'
  BY DEF ServerMeetsNoBug, RunningPagePolls, Refused
<1> QED
  BY <1>1, <1>2, <1>3, <1>4 DEF FlagsOK, DataOK, StatesOK

(* A question that appears locks its field until the end of the round.       *)
LEMMA UpdateStep ==
    ASSUME IInv, Update
    PROVE  IInv'
<1> USE DEF IInv, Update, ShowQuestions, AdjustVisibility, Up,
        ui, web, box, question, job, server, seen
<1>1. FlagsOK' /\ DataOK'
  BY FailuresAssumption DEF TypeOK, FlagsOK, DataOK, Pending
<1> USE DEF TypeOK, Modes, Running, ThreadStates, Jobs, Kinds, Requests, Pending,
        Shapes, ThreadShape, RestShape, RunningShape, RoundShape, Behind
<1>2. StatesOK'
  BY DEF StatesOK
<1>3. Up' => Shapes'
  OBVIOUS
<1>4. ServerMeetsNoBug' /\ RunningPagePolls'
  BY DEF ServerMeetsNoBug, RunningPagePolls, Refused
<1> QED
  BY <1>1, <1>2, <1>3, <1>4 DEF FlagsOK, DataOK, StatesOK

(* The thread runs, or its end was seen before.                              *)
LEMMA WatchNothingStep ==
    ASSUME IInv, WatchNothing
    PROVE  IInv'
<1> USE DEF IInv, WatchNothing, IsRunning, Up,
        ui, web, box, question, job, server, seen
<1>1. FlagsOK' /\ DataOK'
  BY FailuresAssumption DEF TypeOK, FlagsOK, DataOK, Pending
<1> USE DEF TypeOK, Modes, Running, ThreadStates, Jobs, Kinds, Requests, Pending,
        Shapes, ThreadShape, RestShape, RunningShape, RoundShape, Behind
<1>2. StatesOK'
  BY DEF StatesOK
<1>3. Up' => Shapes'
  OBVIOUS
<1>4. ServerMeetsNoBug' /\ RunningPagePolls'
  BY DEF ServerMeetsNoBug, RunningPagePolls, Refused
<1> QED
  BY <1>1, <1>2, <1>3, <1>4 DEF FlagsOK, DataOK, StatesOK

(* The end of the thread: the mode closes, or waits for the user to close    *)
(* it.                                                                       *)
LEMMA WatchEndStep ==
    ASSUME IInv, WatchEnd
    PROVE  IInv'
<1> USE DEF IInv, WatchEnd, LibdarHasFinished, Up,
        ui, web, box, question, job, server, seen
<1>1. FlagsOK' /\ DataOK'
  BY FailuresAssumption DEF TypeOK, FlagsOK, DataOK, Pending
<1> USE DEF TypeOK, Modes, Running, ThreadStates, Jobs, Kinds, Requests, Pending,
        Shapes, ThreadShape, RestShape, RunningShape, RoundShape, Behind
<1>2. StatesOK'
  BY DEF StatesOK
<1>3. Up' => Shapes'
  OBVIOUS
<1>4. ServerMeetsNoBug' /\ RunningPagePolls'
  BY DEF ServerMeetsNoBug, RunningPagePolls, Refused
<1> QED
  BY <1>1, <1>2, <1>3, <1>4 DEF FlagsOK, DataOK, StatesOK

(* The thread failed: the running page is behind the error page, finished.   *)
LEMMA WatchFailureStep ==
    ASSUME IInv, WatchFailure
    PROVE  IInv'
<1> USE DEF IInv, WatchFailure, ToError, Up,
        ui, web, box, question, job, server, seen
<1>1. FlagsOK' /\ DataOK'
  BY FailuresAssumption DEF TypeOK, FlagsOK, DataOK, Pending
<1> USE DEF TypeOK, Modes, Running, ThreadStates, Jobs, Kinds, Requests, Pending,
        Shapes, ThreadShape, RestShape, RunningShape, RoundShape, Behind
<1>2. StatesOK'
  BY DEF StatesOK
<1>3. Up' => Shapes'
  OBVIOUS
<1>4. ServerMeetsNoBug' /\ RunningPagePolls'
  BY DEF ServerMeetsNoBug, RunningPagePolls, Refused
<1> QED
  BY <1>1, <1>2, <1>3, <1>4 DEF FlagsOK, DataOK, StatesOK

(* The end of a round unlocks the fields: the POST is spent by then.         *)
LEMMA ChildrenQuietStep ==
    ASSUME IInv, ChildrenQuiet
    PROVE  IInv'
<1> USE DEF IInv, ChildrenQuiet, NextRound, Up,
        ui, web, box, question, job, server, seen
<1>1. FlagsOK' /\ DataOK'
  BY FailuresAssumption DEF TypeOK, FlagsOK, DataOK, Pending
<1> USE DEF TypeOK, Modes, Running, ThreadStates, Jobs, Kinds, Requests, Pending,
        Shapes, ThreadShape, RestShape, RunningShape, RoundShape, Behind
<1>2. StatesOK'
  BY DEF StatesOK
<1>3. Up' => Shapes'
  OBVIOUS
<1>4. ServerMeetsNoBug' /\ RunningPagePolls'
  BY DEF ServerMeetsNoBug, RunningPagePolls, Refused
<1> QED
  BY <1>1, <1>2, <1>3, <1>4 DEF FlagsOK, DataOK, StatesOK

(* A visible field is that of the pending question: the answer is expected.  *)
LEMMA GiveAnswerStep ==
    ASSUME IInv, GiveAnswer
    PROVE  IInv'
<1> USE DEF IInv, GiveAnswer, NextRound, Up,
        ui, web, box, question, job, server, seen
<1>1. FlagsOK' /\ DataOK'
  BY FailuresAssumption DEF TypeOK, FlagsOK, DataOK, Pending
<1> USE DEF TypeOK, Modes, Running, ThreadStates, Jobs, Kinds, Requests, Pending,
        Shapes, ThreadShape, RestShape, RunningShape, RoundShape, Behind
<1>2. StatesOK'
  BY DEF StatesOK
<1>3. Up' => Shapes'
  OBVIOUS
<1>4. ServerMeetsNoBug' /\ RunningPagePolls'
  BY DEF ServerMeetsNoBug, RunningPagePolls, Refused
<1> QED
  BY <1>1, <1>2, <1>3, <1>4 DEF FlagsOK, DataOK, StatesOK

(* A gentle stop: the thread is told, the component remembers.               *)
LEMMA PressAskCloseStep ==
    ASSUME IInv, PressAskClose
    PROVE  IInv'
<1> USE DEF IInv, PressAskClose, Cancel, IsRunning, NextRound, Up,
        ui, web, box, question, job, server, seen
<1>1. FlagsOK' /\ DataOK'
  BY FailuresAssumption DEF TypeOK, FlagsOK, DataOK, Pending
<1> USE DEF TypeOK, Modes, Running, ThreadStates, Jobs, Kinds, Requests, Pending,
        Shapes, ThreadShape, RestShape, RunningShape, RoundShape, Behind
<1>2. StatesOK'
  BY DEF StatesOK
<1>3. Up' => Shapes'
  OBVIOUS
<1>4. ServerMeetsNoBug' /\ RunningPagePolls'
  BY DEF ServerMeetsNoBug, RunningPagePolls, Refused
<1> QED
  BY <1>1, <1>2, <1>3, <1>4 DEF FlagsOK, DataOK, StatesOK

(* A forced stop: the page is refreshed again, unless a form is open.        *)
LEMMA PressForceCloseStep ==
    ASSUME IInv, PressForceClose
    PROVE  IInv'
<1> USE DEF IInv, PressForceClose, Cancel, IsRunning, NextRound, Up,
        ui, web, box, question, job, server, seen
<1>1. FlagsOK' /\ DataOK'
  BY FailuresAssumption DEF TypeOK, FlagsOK, DataOK, Pending
<1> USE DEF TypeOK, Modes, Running, ThreadStates, Jobs, Kinds, Requests, Pending,
        Shapes, ThreadShape, RestShape, RunningShape, RoundShape, Behind
<1>2. StatesOK'
  BY DEF StatesOK
<1>3. Up' => Shapes'
  OBVIOUS
<1>4. ServerMeetsNoBug' /\ RunningPagePolls'
  BY DEF ServerMeetsNoBug, RunningPagePolls, Refused
<1> QED
  BY <1>1, <1>2, <1>3, <1>4 DEF FlagsOK, DataOK, StatesOK

(* The logs are closed: an opening shown as finished was interrupted.        *)
LEMMA PressFinishStep ==
    ASSUME IInv, PressFinish
    PROVE  IInv'
<1> USE DEF IInv, PressFinish, LibdarHasFinished, NextRound, Up,
        ui, web, box, question, job, server, seen
<1>1. FlagsOK' /\ DataOK'
  BY FailuresAssumption DEF TypeOK, FlagsOK, DataOK, Pending
<1> USE DEF TypeOK, Modes, Running, ThreadStates, Jobs, Kinds, Requests, Pending,
        Shapes, ThreadShape, RestShape, RunningShape, RoundShape, Behind
<1>2. StatesOK'
  BY DEF StatesOK
<1>3. Up' => Shapes'
  OBVIOUS
<1>4. ServerMeetsNoBug' /\ RunningPagePolls'
  BY DEF ServerMeetsNoBug, RunningPagePolls, Refused
<1> QED
  BY <1>1, <1>2, <1>3, <1>4 DEF FlagsOK, DataOK, StatesOK

(* clear(), run by the thread itself between two rounds of the server        *)
(* thread.                                                                   *)
LEMMA BeginStep ==
    ASSUME IInv, Begin
    PROVE  IInv'
<1> USE DEF IInv, Begin, ClearForm, Locked, Up,
        ui, web, box, question, job, server, seen
<1>1. FlagsOK' /\ DataOK'
  BY FailuresAssumption, ZenonT(60) DEF TypeOK, FlagsOK, DataOK, Pending
<1> USE DEF TypeOK, Modes, Running, ThreadStates, Jobs, Kinds, Requests, Pending,
        Shapes, ThreadShape, RestShape, RunningShape, RoundShape, Behind
<1>2. StatesOK'
  BY DEF StatesOK
<1>3. Up' => Shapes'
  BY ZenonT(60)
<1>4. ServerMeetsNoBug' /\ RunningPagePolls'
  BY DEF ServerMeetsNoBug, RunningPagePolls, Refused
<1> QED
  BY <1>1, <1>2, <1>3, <1>4 DEF FlagsOK, DataOK, StatesOK

(* autohide is set before an opening can end well.                           *)
LEMMA OpenArchiveStep ==
    ASSUME IInv, OpenArchive
    PROVE  IInv'
<1> USE DEF IInv, OpenArchive, Up,
        ui, web, box, question, job, server, seen
<1>1. FlagsOK' /\ DataOK'
  BY FailuresAssumption DEF TypeOK, FlagsOK, DataOK, Pending
<1> USE DEF TypeOK, Modes, Running, ThreadStates, Jobs, Kinds, Requests, Pending,
        Shapes, ThreadShape, RestShape, RunningShape, RoundShape, Behind
<1>2. StatesOK'
  BY DEF StatesOK
<1>3. Up' => Shapes'
  OBVIOUS
<1>4. ServerMeetsNoBug' /\ RunningPagePolls'
  BY DEF ServerMeetsNoBug, RunningPagePolls, Refused
<1> QED
  BY <1>1, <1>2, <1>3, <1>4 DEF FlagsOK, DataOK, StatesOK

(* A question of the thread: the form shows no other one, so not this one.   *)
LEMMA AskStep ==
    ASSUME IInv, NEW k \in Kinds, Ask(k)
    PROVE  IInv'
<1> USE DEF IInv, Ask, Up,
        ui, web, box, question, job, server, seen
<1>1. FlagsOK' /\ DataOK'
  BY FailuresAssumption DEF TypeOK, FlagsOK, DataOK, Pending
<1> USE DEF TypeOK, Modes, Running, ThreadStates, Jobs, Kinds, Requests, Pending,
        Shapes, ThreadShape, RestShape, RunningShape, RoundShape, Behind
<1>2. StatesOK'
  BY DEF StatesOK
<1>3. Up' => Shapes'
  OBVIOUS
<1>4. ServerMeetsNoBug' /\ RunningPagePolls'
  BY DEF ServerMeetsNoBug, RunningPagePolls, Refused
<1> QED
  BY <1>1, <1>2, <1>3, <1>4 DEF FlagsOK, DataOK, StatesOK

(* An answered question is on the form no more.                              *)
LEMMA ReadAnswerStep ==
    ASSUME IInv, ReadAnswer
    PROVE  IInv'
<1> USE DEF IInv, ReadAnswer, Up,
        ui, web, box, question, job, server, seen
<1>1. FlagsOK' /\ DataOK'
  BY FailuresAssumption DEF TypeOK, FlagsOK, DataOK, Pending
<1> USE DEF TypeOK, Modes, Running, ThreadStates, Jobs, Kinds, Requests, Pending,
        Shapes, ThreadShape, RestShape, RunningShape, RoundShape, Behind
<1>2. StatesOK'
  BY DEF StatesOK
<1>3. Up' => Shapes'
  OBVIOUS
<1>4. ServerMeetsNoBug' /\ RunningPagePolls'
  BY DEF ServerMeetsNoBug, RunningPagePolls, Refused
<1> QED
  BY <1>1, <1>2, <1>3, <1>4 DEF FlagsOK, DataOK, StatesOK

(* An opening that ends well leaves the archive open.                        *)
LEMMA EndStep ==
    ASSUME IInv, End
    PROVE  IInv'
<1> USE DEF IInv, End, Up,
        ui, web, box, question, job, server, seen
<1>1. FlagsOK' /\ DataOK'
  BY FailuresAssumption DEF TypeOK, FlagsOK, DataOK, Pending
<1> USE DEF TypeOK, Modes, Running, ThreadStates, Jobs, Kinds, Requests, Pending,
        Shapes, ThreadShape, RestShape, RunningShape, RoundShape, Behind
<1>2. StatesOK'
  BY DEF StatesOK
<1>3. Up' => Shapes'
  OBVIOUS
<1>4. ServerMeetsNoBug' /\ RunningPagePolls'
  BY DEF ServerMeetsNoBug, RunningPagePolls, Refused
<1> QED
  BY <1>1, <1>2, <1>3, <1>4 DEF FlagsOK, DataOK, StatesOK

-----------------------------------------------------------------------------
(* The initial state: the component was never used.                          *)
LEMMA InitKeeps == Init => IInv
<1> SUFFICES ASSUME Init PROVE IInv
  OBVIOUS
<1> USE DEF Init, Modes, Running
<1>1. FlagsOK /\ StatesOK
  BY DEF FlagsOK, StatesOK, ThreadStates, Jobs, Kinds, Requests
<1>2. DataOK
  BY FailuresAssumption DEF DataOK, Kinds
<1>3. Shapes
  BY DEF Shapes, ThreadShape, RestShape, RunningShape, RoundShape, Behind, Pending,
         Kinds
<1>4. ServerMeetsNoBug /\ RunningPagePolls
  BY DEF ServerMeetsNoBug, RunningPagePolls
<1> QED
  BY <1>1, <1>2, <1>3, <1>4 DEF IInv, TypeOK, FlagsOK, DataOK, StatesOK

(* The invariant is kept by the two threads, the browser and its user.       *)
LEMMA NextKeeps == IInv /\ [Next]_vars => IInv'
<1> SUFFICES ASSUME IInv, [Next]_vars PROVE IInv'
  OBVIOUS
<1>1. ASSUME NEW r \in Requests, Receive(r) PROVE IInv'
  BY <1>1, ReceiveStep
<1>2. CASE PageFails
  BY <1>2, PageFailsStep
<1>3. CASE Build
  <2>1. ASSUME NEW j \in Jobs, Launch(j) \/ LaunchAgain(j) PROVE IInv'
    BY <2>1, LaunchStep, LaunchAgainStep
  <2>2. CASE NoReaction \/ Acknowledge \/ CloseListing \/ Send
    BY <2>2, NoReactionStep, AcknowledgeStep, CloseListingStep, SendStep
  <2>3. CASE Update \/ WatchNothing \/ WatchEnd \/ WatchFailure
    BY <2>3, UpdateStep, WatchNothingStep, WatchEndStep, WatchFailureStep
  <2>4. CASE \/ ChildrenQuiet \/ GiveAnswer
             \/ PressAskClose \/ PressForceClose \/ PressFinish
    BY <2>4, ChildrenQuietStep, GiveAnswerStep, PressAskCloseStep,
       PressForceCloseStep, PressFinishStep
  <2> QED
    BY <1>3, <2>1, <2>2, <2>3, <2>4 DEF Build
<1>4. CASE Libdar
  BY <1>4, BeginStep, OpenArchiveStep, AskStep, ReadAnswerStep, EndStep DEF Libdar
<1>5. CASE UNCHANGED vars
  <2>1. UNCHANGED <<ui, web, box, question, job, server, seen>>
    BY <1>5 DEF vars
  <2> USE <2>1 DEF ui, web, box, question, job, server, seen
  <2>2. TypeOK'
    BY DEF IInv, TypeOK
  <2>3. (Up => Shapes)'
    BY DEF IInv, Up, Shapes, ThreadShape, RestShape, RunningShape, RoundShape,
           Behind, Pending
  <2>4. ServerMeetsNoBug' /\ RunningPagePolls'
    BY DEF IInv, ServerMeetsNoBug, RunningPagePolls, Refused
  <2> QED
    BY <2>2, <2>3, <2>4 DEF IInv
<1> QED
  BY <1>1, <1>2, <1>3, <1>4, <1>5 DEF Next, Over

(* The shapes hold in every state that the session reaches.                  *)
THEOREM Invariance == Spec => []IInv
  BY InitKeeps, NextKeeps, PTL DEF Spec

(* Every variable keeps the values of the member, enumeration or set that it *)
(* stands for.                                                               *)
THEOREM TypeCorrect == Spec => []TypeOK
<1>1. IInv => TypeOK
  BY DEF IInv
<1> QED
  BY <1>1, Invariance, PTL

(* No check of the server thread fails (the WEBDAR_BUG of user_interface,    *)
(* html_web_user_interaction and web_user_interaction), unless a thread was  *)
(* refused before.                                                           *)
THEOREM NoBugMet == Spec => []ServerMeetsNoBug
<1>1. IInv => ServerMeetsNoBug
  BY DEF IInv
<1> QED
  BY <1>1, Invariance, PTL

(* The mode of the session tells what its libdar thread does, and a running  *)
(* page reloads itself exactly while it shows neither a question nor an end. *)
THEOREM PageFollows == Spec => []PageFollowsThread
<1>1. IInv => ModeFollowsThread
  BY DEF IInv, TypeOK, Modes, Running, ThreadStates, Jobs, Kinds, Up, Shapes,
         ThreadShape, RestShape, RunningShape, Behind, ModeFollowsThread, Refused
<1>2. IInv => PageFollowsThread
  BY <1>1 DEF IInv, PageFollowsThread
<1> QED
  BY <1>2, Invariance, PTL

-----------------------------------------------------------------------------
(* Steps of the session that are none of the dialogue.                       *)
LEMMA SilentMaps ==
    ASSUME UNCHANGED <<asked, answered, displayed>>
    PROVE  UNCHANGED AsDialogue!vars
  BY DEF AsDialogue!vars, Stage

(* The page that leaves shows the question, the first time it does.          *)
LEMMA SendMaps ==
    ASSUME IInv, Send
    PROVE  AsDialogue!Show \/ UNCHANGED AsDialogue!vars
  BY DEF IInv, TypeOK, Send, Up, Shapes, ThreadShape, Pending, Kinds, Stage,
         ui, web, box, question, AsDialogue!Show, AsDialogue!vars

(* An answer that the server thread takes is to a question shown before.     *)
LEMMA GiveAnswerMaps ==
    ASSUME IInv, GiveAnswer
    PROVE  AsDialogue!Answer
<1>1. asked \in Kinds /\ ~answered /\ req = asked /\ req \in shown \ value_set
  BY DEF IInv, TypeOK, GiveAnswer, Up, Shapes, ThreadShape, Pending
<1>2. displayed
  BY <1>1 DEF IInv, TypeOK, GiveAnswer, Up, Shapes, RoundShape
<1>3. asked' = asked /\ answered' = TRUE /\ displayed' = displayed
  BY <1>1 DEF GiveAnswer, Pending, Kinds
<1> QED
  BY <1>1, <1>2, <1>3 DEF AsDialogue!Answer, Stage, Kinds

(* libdar asks while no other question is pending.                           *)
LEMMA AskMaps ==
    ASSUME IInv, NEW k \in Kinds, Ask(k)
    PROVE  AsDialogue!Ask(k)
  BY DEF IInv, TypeOK, Ask, Up, Shapes, ThreadShape, Kinds, Stage, AsDialogue!Ask

(* libdar reads the answer to its own question.                              *)
LEMMA ReadAnswerMaps ==
    ASSUME IInv, ReadAnswer
    PROVE  AsDialogue!Read
  BY DEF IInv, TypeOK, ReadAnswer, Up, Shapes, ThreadShape, Kinds, Stage,
         AsDialogue!Read

(* clear() drops no question: it runs before libdar could ask one.           *)
LEMMA ClearMaps ==
    ASSUME IInv, Begin \/ \E j \in Jobs : Launch(j)
    PROVE  UNCHANGED AsDialogue!vars
<1>1. asked = "none" /\ asked' = "none"
  BY DEF IInv, TypeOK, Begin, Launch, ClearForm, Up, Shapes, ThreadShape, RestShape,
         Behind, question
<1> QED
  BY <1>1 DEF AsDialogue!vars, Stage

(* The questions of libdar follow Dialogue, whatever the order of the clicks,*)
(* answers, reloads and errors: each is answered once, after a page showed   *)
(* it, and never with the answer to another one.                             *)
THEOREM Dialogues == Spec => KeepsDialogue
<1>1. Init => AsDialogue!Init
  BY DEF Init, AsDialogue!Init, Stage
<1>2. IInv /\ [Next]_vars => [AsDialogue!Next]_(AsDialogue!vars)
  <2> SUFFICES ASSUME IInv, [Next]_vars
               PROVE  AsDialogue!Next \/ UNCHANGED AsDialogue!vars
    BY DEF AsDialogue!vars
  <2>1. CASE \E r \in Requests : Receive(r)
    BY <2>1, SilentMaps DEF Receive, question, seen
  <2>2. CASE PageFails
    BY <2>2, SilentMaps DEF PageFails, question
  <2>3. CASE \/ NoReaction \/ Acknowledge \/ CloseListing \/ Update
             \/ WatchNothing \/ WatchEnd \/ WatchFailure \/ ChildrenQuiet
             \/ PressAskClose \/ PressForceClose \/ PressFinish
             \/ \E j \in Jobs : LaunchAgain(j)
    BY <2>3, SilentMaps
    DEF NoReaction, Acknowledge, CloseListing, Update, WatchNothing, WatchEnd,
        WatchFailure, ChildrenQuiet, PressAskClose, PressForceClose, PressFinish,
        LaunchAgain, Bug, question, seen
  <2>4. CASE Send
    BY <2>4, SendMaps DEF AsDialogue!Next
  <2>5. CASE GiveAnswer
    BY <2>5, GiveAnswerMaps DEF AsDialogue!Next
  <2>6. CASE Begin \/ \E j \in Jobs : Launch(j)
    BY <2>6, ClearMaps
  <2>7. CASE \E k \in Kinds : Ask(k)
    BY <2>7, AskMaps DEF AsDialogue!Next
  <2>8. CASE ReadAnswer
    BY <2>8, ReadAnswerMaps DEF AsDialogue!Next
  <2>9. CASE OpenArchive \/ End
    BY <2>9, SilentMaps DEF OpenArchive, End, question, seen
  <2>10. CASE UNCHANGED vars
    BY <2>10, SilentMaps DEF vars, question, seen
  <2> QED
    BY <2>1, <2>2, <2>3, <2>4, <2>5, <2>6, <2>7, <2>8, <2>9, <2>10
    DEF Next, Build, Libdar, Over
<1> QED
  BY <1>1, <1>2, Invariance, PTL DEF Spec, KeepsDialogue, AsDialogue!Spec

=============================================================================
