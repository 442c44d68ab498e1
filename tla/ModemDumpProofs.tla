--------------------------- MODULE ModemDumpProofs ---------------------------
(***************************************************************************)
(* Proofs about the dumpstate HAL, for any number of property changes that *)
(* wait for init, with or without kills.                                   *)
(***************************************************************************)
EXTENDS ModemDump, TLAPS

(* The thread exists only inside a call.                                   *)
CallInv == /\ pc \in {"down", "notify"} => mt = "none"
           /\ pc = "replied" => mt \in {"none", "done"}
           /\ pc \in {"down", "notify", "board", "join", "replied"}

(* Without a leftover nothing of an earlier dump is there, and between     *)
(* dumps nothing at all.                                                   *)
FilesInv == /\ dir # {} => dirThere
            /\ ~leftover => "earlier" \notin dir \cup tar
            /\ ~leftover /\ mt \in {"none", "done"} => dir = {} /\ tar = {}

(* The thread stops a logger it found enabled and running.                 *)
EnabledInv == mt \in {"stop", "wait"} => logEnabled /\ logStarted

Inv == CallInv /\ FilesInv /\ EnabledInv

LEMMA CallStep ==
  Inv /\ (\E b \in BOOLEAN : SetVerbose(b) \/ Call(b)) => Inv'
<1> SUFFICES ASSUME Inv, NEW b \in BOOLEAN, SetVerbose(b) \/ Call(b)
             PROVE  Inv'
  OBVIOUS
<1> USE DEF Inv, CallInv, FilesInv, EnabledInv
<1>1. CASE SetVerbose(b)
  BY <1>1 DEF SetVerbose, files, locals
<1>2. CASE Call(b)
  BY <1>2 DEF Call, Aged, locals
<1> QED
  BY <1>1, <1>2

LEMMA MainStep == Inv /\ (Main \/ Kill) => Inv'
<1> SUFFICES ASSUME Inv, Main \/ Kill
             PROVE  Inv'
  OBVIOUS
<1> USE DEF Inv, CallInv, FilesInv, EnabledInv, files, locals
<1>1. CASE StartThread
  BY <1>1 DEF StartThread
<1>2. CASE DumpBoard
  BY <1>2 DEF DumpBoard
<1>3. CASE Join
  BY <1>3 DEF Join
<1>4. CASE Exit
  BY <1>4 DEF Exit
<1>5. CASE Kill
  BY <1>5 DEF Kill
<1> QED
  BY <1>1, <1>2, <1>3, <1>4, <1>5 DEF Main

(* Only the last four steps of the thread, and the copies, touch files.    *)
LEMMA ThreadStep == Inv /\ Thread => Inv'
<1> SUFFICES ASSUME Inv, Thread
             PROVE  Inv'
  OBVIOUS
<1> USE DEF Inv, CallInv, FilesInv, EnabledInv, files, locals
<1>1. CASE ReadEnabled \/ ReadStarted
  <2>1. UNCHANGED <<pc, files>> /\ mt \notin {"none", "done"}
    BY <1>1 DEF ReadEnabled, ReadStarted
  <2>2. CASE ReadEnabled
    BY <2>1, <2>2 DEF ReadEnabled
  <2>3. CASE ReadStarted
    <3>1. mt' = "mkdir" \/ (mt' = "stop" /\ logEnabled' /\ logStarted')
      BY <2>3, Zenon DEF ReadStarted
    <3>2. QED
      BY <2>1, <3>1
  <2>4. QED
    BY <1>1, <2>2, <2>3
<1>2. CASE StopLogger \/ RestartLogger
  BY <1>2 DEF StopLogger, RestartLogger
<1>3. CASE WaitStopped
  BY <1>3 DEF WaitStopped
<1>4. CASE MakeDir
  BY <1>4 DEF MakeDir
<1>5. CASE CopyDiagLogs \/ CopyPoweronLog \/ CopyDebugLogs
  BY <1>5 DEF CopyDiagLogs, CopyPoweronLog, CopyDebugLogs, CopyLogs
<1>6. CASE CreateTarFile
  BY <1>6 DEF CreateTarFile
<1>7. CASE Send
  BY <1>7 DEF Send
<1>8. CASE RemoveDir
  BY <1>8 DEF RemoveDir
<1>9. CASE RemoveTar
  BY <1>9 DEF RemoveTar
<1> QED
  BY <1>1, <1>2, <1>3, <1>4, <1>5, <1>6, <1>7, <1>8, <1>9 DEF Thread

LEMMA OthersStep == Inv /\ (Trigger \/ LoggerRuns \/ LoggerEnds) => Inv'
BY DEF Inv, CallInv, FilesInv, EnabledInv, files, locals, Trigger, LoggerRuns, LoggerEnds

(* The inductive invariant holds in every dump of every build.             *)
THEOREM InvariantHolds == Spec => []Inv
<1>1. Init => Inv
  BY DEF Init, Inv, CallInv, FilesInv, EnabledInv
<1>2. Inv /\ UNCHANGED vars => Inv'
  BY DEF Inv, CallInv, FilesInv, EnabledInv, vars
<1>3. Inv /\ Next => Inv'
  BY CallStep, MainStep, ThreadStep, OthersStep DEF Next
<1> QED
  BY <1>1, <1>2, <1>3, PTL DEF Spec

(* No thread uses the descriptors of a call that ended, and the exit cuts  *)
(* no dump short.                                                          *)
THEOREM ThreadEndsInCall == Spec => []ThreadInCall
<1>1. Inv => ThreadInCall
  BY DEF Inv, CallInv, ThreadInCall
<1> QED
  BY InvariantHolds, <1>1, PTL

(* Files of an earlier dump are sent only after a dump that left files.    *)
THEOREM NothingStaleSent == Spec => []OnlyThisDump
<1>1. Inv => OnlyThisDump
  BY DEF Inv, FilesInv, OnlyThisDump
<1> QED
  BY InvariantHolds, <1>1, PTL

-----------------------------------------------------------------------------
(* Types.                                                                  *)

Changes == {"verbose", "enabled", "switch"} \X BOOLEAN
LoggerStates == {"stopped", "starting", "running", "ending"}
ThreadStates == {"none", "start", "status", "stop", "wait", "mkdir", "copy", "restart",
                 "poweron", "efs", "tar", "send", "rmdir", "rmtar", "done"}

PropsType == /\ build \in Builds
             /\ verbose \in BOOLEAN /\ enabled \in BOOLEAN /\ switch \in BOOLEAN
             /\ queue \in Seq(Changes)
             /\ logger \in LoggerStates
ThreadType == /\ mt \in ThreadStates
              /\ logEnabled \in BOOLEAN /\ logStarted \in BOOLEAN /\ disturbed \in BOOLEAN
FilesType == /\ dirThere \in BOOLEAN /\ leftover \in BOOLEAN
             /\ dir \subseteq Dumps /\ tar \subseteq Dumps

LEMMA AppendChange ==
  ASSUME NEW q \in Seq(Changes), NEW p \in {"verbose", "enabled", "switch"}, NEW b \in BOOLEAN
  PROVE  Append(q, <<p, b>>) \in Seq(Changes)
<1>1. <<p, b>> \in Changes
  BY DEF Changes
<1>2. QED
  BY <1>1

LEMMA TriggerType == PropsType /\ Trigger => PropsType'
<1>. SUFFICES ASSUME PropsType, Trigger PROVE PropsType'
  OBVIOUS
<1>1. Head(queue) \in Changes /\ Tail(queue) \in Seq(Changes)
  BY DEF PropsType, Trigger
<1>2. PICK p \in {"verbose", "enabled", "switch"}, b \in BOOLEAN : Head(queue) = <<p, b>>
  BY <1>1 DEF Changes
<1>3. p = Head(queue)[1] /\ b = Head(queue)[2]
  BY <1>2
<1>4. CASE build = "user"
  <2>1. UserTrigger(p, b)
    BY <1>2, <1>3, <1>4 DEF Trigger
  <2>2. Append(Tail(queue), <<"enabled", b>>) \in Seq(Changes)
        /\ Append(Tail(queue), <<"switch", b>>) \in Seq(Changes)
    BY <1>1, AppendChange
  <2>3. queue' \in Seq(Changes)
    BY <1>1, <2>1, <2>2 DEF UserTrigger
  <2>4. logger' \in LoggerStates
    BY <2>1 DEF UserTrigger, StartService, StopService, PropsType, LoggerStates
  <2>5. enabled' \in BOOLEAN /\ switch' \in BOOLEAN
    BY <2>1, Zenon DEF UserTrigger, PropsType
  <2>6. QED
    BY <2>3, <2>4, <2>5 DEF Trigger, PropsType
<1>5. CASE build # "user"
  <2>1. DebugTrigger(p, b)
    BY <1>2, <1>3, <1>5 DEF Trigger
  <2>2. logger' \in LoggerStates
    BY <2>1 DEF DebugTrigger, StartService, StopService, PropsType, LoggerStates
  <2>3. QED
    BY <1>1, <2>1, <2>2 DEF DebugTrigger, Trigger, PropsType
<1>6. QED
  BY <1>4, <1>5

(* Properties and the logger: set by the clients, the thread and init.     *)
LEMMA NextPropsType == PropsType /\ [Next]_vars => PropsType'
<1>. SUFFICES ASSUME PropsType, [Next]_vars PROVE PropsType'
  OBVIOUS
<1>. USE DEF PropsType, props
<1>1. ASSUME NEW b \in BOOLEAN, SetVerbose(b) PROVE PropsType'
  BY <1>1, AppendChange DEF SetVerbose, SetProperty
<1>2. ASSUME NEW b \in BOOLEAN, Call(b) PROVE PropsType'
  BY <1>2 DEF Call
<1>3. CASE Main \/ Kill
  BY <1>3 DEF Main, StartThread, DumpBoard, Join, Exit, Kill
<1>4. CASE StopLogger \/ RestartLogger
  <2>1. queue' \in Seq(Changes)
    BY <1>4, AppendChange DEF StopLogger, RestartLogger, SetProperty
  <2>2. switch' \in BOOLEAN
    BY <1>4 DEF StopLogger, RestartLogger
  <2>3. UNCHANGED <<build, verbose, enabled, logger>>
    BY <1>4 DEF StopLogger, RestartLogger
  <2>4. QED
    BY <2>1, <2>2, <2>3
<1>5. CASE ReadEnabled \/ ReadStarted \/ WaitStopped \/ MakeDir \/ CopyDiagLogs
           \/ CopyPoweronLog \/ CopyDebugLogs \/ CreateTarFile \/ Send \/ RemoveDir \/ RemoveTar
  <2>1. UNCHANGED <<build, verbose, enabled, switch, queue, logger>>
    BY <1>5 DEF ReadEnabled, ReadStarted, WaitStopped, MakeDir, CopyDiagLogs, CopyPoweronLog,
                CopyDebugLogs, CreateTarFile, Send, RemoveDir, RemoveTar
  <2>2. QED
    BY <2>1
<1>6. CASE Trigger
  BY <1>6, TriggerType
<1>7. CASE LoggerRuns \/ LoggerEnds
  BY <1>7 DEF LoggerRuns, LoggerEnds, LoggerStates
<1>8. CASE UNCHANGED vars
  BY <1>8 DEF vars
<1>9. QED
  BY <1>1, <1>2, <1>3, <1>4, <1>5, <1>6, <1>7, <1>8 DEF Next, Thread

LEMMA NextThreadType == PropsType /\ ThreadType /\ [Next]_vars => ThreadType'
<1>. SUFFICES ASSUME PropsType, ThreadType, [Next]_vars PROVE ThreadType'
  OBVIOUS
<1>1. mt' \in ThreadStates
  BY DEF ThreadType, ThreadStates, Next, SetVerbose, Call, Main, StartThread, DumpBoard, Join, Exit,
         Kill, Thread, ReadEnabled, ReadStarted, StopLogger, WaitStopped, MakeDir, CopyDiagLogs,
         RestartLogger, CopyPoweronLog, CopyDebugLogs, CreateTarFile, Send, RemoveDir, RemoveTar,
         Trigger, LoggerRuns, LoggerEnds, vars
<1>2. logEnabled' \in {logEnabled, enabled} /\ logStarted' \in {logStarted, Status}
  BY DEF Next, SetVerbose, Call, Main, StartThread, DumpBoard, Join, Exit, locals,
         Kill, Thread, ReadEnabled, ReadStarted, StopLogger, WaitStopped, MakeDir, CopyDiagLogs,
         RestartLogger, CopyPoweronLog, CopyDebugLogs, CreateTarFile, Send, RemoveDir, RemoveTar,
         Trigger, LoggerRuns, LoggerEnds, vars
<1>3. disturbed' \in {disturbed, TRUE, FALSE}
  <2>1. ASSUME NEW b \in BOOLEAN, SetVerbose(b) \/ Call(b) PROVE disturbed' \in {disturbed, TRUE, FALSE}
    BY <2>1 DEF SetVerbose, Call
  <2>2. CASE WaitStopped
    BY <2>2 DEF WaitStopped
  <2>3. CASE Kill
    BY <2>3 DEF Kill
  <2>4. CASE Main \/ (Thread /\ ~WaitStopped) \/ Trigger \/ LoggerRuns \/ LoggerEnds \/ UNCHANGED vars
    BY <2>4 DEF Main, StartThread, DumpBoard, Join, Exit, Thread, ReadEnabled, ReadStarted, StopLogger,
         MakeDir, CopyDiagLogs, RestartLogger, CopyPoweronLog, CopyDebugLogs, CreateTarFile, Send,
         RemoveDir, RemoveTar, Trigger, LoggerRuns, LoggerEnds, vars
  <2>5. QED
    BY <2>1, <2>2, <2>3, <2>4 DEF Next
<1>4. Status \in BOOLEAN
  BY DEF Status
<1>5. logEnabled' \in BOOLEAN /\ logStarted' \in BOOLEAN
  BY <1>2, <1>4, Zenon DEF ThreadType, PropsType
<1>6. disturbed' \in BOOLEAN
  BY <1>3, Zenon DEF ThreadType
<1>7. QED
  BY <1>1, <1>5, <1>6 DEF ThreadType

LEMMA NextFilesType == FilesType /\ [Next]_vars => FilesType'
<1>. SUFFICES ASSUME FilesType, [Next]_vars PROVE FilesType'
  OBVIOUS
<1>. USE DEF FilesType, files
<1>1. ASSUME NEW b \in BOOLEAN, SetVerbose(b) \/ Call(b) PROVE FilesType'
  BY <1>1 DEF SetVerbose, Call, Aged, Dumps
<1>2. CASE Main \/ Trigger \/ LoggerRuns \/ LoggerEnds \/ UNCHANGED vars
  BY <1>2 DEF Main, StartThread, DumpBoard, Join, Exit, Trigger, LoggerRuns, LoggerEnds, vars
<1>3. CASE ReadEnabled \/ ReadStarted \/ StopLogger \/ WaitStopped \/ RestartLogger \/ Send
  BY <1>3 DEF ReadEnabled, ReadStarted, StopLogger, WaitStopped, RestartLogger, Send
<1>4. CASE Kill \/ MakeDir
  BY <1>4 DEF Kill, MakeDir
<1>5. CASE CopyDiagLogs \/ CopyPoweronLog \/ CopyDebugLogs
  BY <1>5 DEF CopyDiagLogs, CopyPoweronLog, CopyDebugLogs, CopyLogs, Dumps
<1>6. CASE CreateTarFile
  BY <1>6 DEF CreateTarFile
<1>7. CASE RemoveDir
  BY <1>7 DEF RemoveDir
<1>8. CASE RemoveTar
  BY <1>8 DEF RemoveTar
<1>9. QED
  BY <1>1, <1>2, <1>3, <1>4, <1>5, <1>6, <1>7, <1>8 DEF Next, Thread

(* Every variable keeps its type, and files are only where a directory is. *)
THEOREM TypeCorrect == Spec => []TypeOK
<1>. DEFINE Types == PropsType /\ ThreadType /\ FilesType
<1>1. Init => Types
  <2>. SUFFICES ASSUME Init PROVE Types
    OBVIOUS
  <2>1. << >> \in Seq(Changes)
    OBVIOUS
  <2>2. queue = Append(<< >>, <<"switch", switch>>)
    BY DEF Init
  <2>3. switch \in BOOLEAN
    BY DEF Init
  <2>4. queue \in Seq(Changes)
    BY <2>1, <2>2, <2>3, AppendChange
  <2>5. QED
    BY <2>3, <2>4 DEF Init, PropsType, ThreadType, FilesType, LoggerStates, ThreadStates, Dumps
<1>2. Types /\ [Next]_vars => Types'
  BY NextPropsType, NextThreadType, NextFilesType
<1>3. Types /\ Inv => TypeOK
  <2>. SUFFICES ASSUME Types, Inv PROVE TypeOK
    OBVIOUS
  <2>1. {verbose, enabled, switch, logEnabled, logStarted, dirThere, leftover, disturbed}
          \subseteq BOOLEAN
    BY Zenon DEF PropsType, ThreadType, FilesType
  <2>2. QED
    BY <2>1 DEF PropsType, ThreadType, FilesType, Inv, CallInv, FilesInv, EnabledInv, TypeOK, Changes,
                LoggerStates, ThreadStates
<1>. HIDE DEF Types
<1>4. QED
  BY <1>1, <1>2, <1>3, InvariantHolds, PTL DEF Spec

-----------------------------------------------------------------------------
(* CallReturns without its fairness.  The steps a call and its thread have *)
(* left; those of init and the logger leave them alone.                    *)
MainLeft == CASE pc = "notify" -> 4 [] pc = "board" -> 3 [] pc = "join" -> 2 [] pc = "replied" -> 1
              [] OTHER -> 0
ThreadLeft == CASE mt = "start" -> 13 [] mt = "status" -> 12 [] mt = "stop" -> 11 [] mt = "wait" -> 10
                [] mt = "mkdir" -> 9 [] mt = "copy" -> 8 [] mt = "restart" -> 7 [] mt = "poweron" -> 6
                [] mt = "efs" -> 5 [] mt = "tar" -> 4 [] mt = "send" -> 3 [] mt = "rmdir" -> 2
                [] mt = "rmtar" -> 1 [] OTHER -> 0

CallGoesOn ==
  [][pc # "down" => /\ Main \/ Kill => MainLeft' < MainLeft
                    /\ Thread => MainLeft' = MainLeft /\ ThreadLeft' < ThreadLeft
                    /\ ~Main /\ ~Kill /\ ~Thread => UNCHANGED <<MainLeft, ThreadLeft>>]_vars

(* Whatever the logger does, every step of a call and of the thread it     *)
(* joins brings the return nearer, and nothing puts it off.                *)
THEOREM CallsGoOn == Spec => CallGoesOn
<1>1. ASSUME Inv, Main \/ Kill PROVE MainLeft' < MainLeft
  BY <1>1 DEF Main, StartThread, DumpBoard, Join, Exit, Kill, MainLeft, Inv, CallInv
<1>2. ASSUME Thread PROVE MainLeft' = MainLeft /\ ThreadLeft' < ThreadLeft
  <2>1. UNCHANGED pc
    BY <1>2 DEF Thread, ReadEnabled, ReadStarted, StopLogger, WaitStopped, MakeDir, CopyDiagLogs,
       RestartLogger, CopyPoweronLog, CopyDebugLogs, CreateTarFile, Send, RemoveDir, RemoveTar
  <2>2. \/ mt = "start" /\ mt' = "status"
        \/ mt = "status" /\ mt' \in {"stop", "mkdir"}
        \/ mt = "stop" /\ mt' = "wait"
        \/ mt = "wait" /\ mt' = "mkdir"
        \/ mt = "mkdir" /\ mt' \in {"copy", "poweron"}
        \/ mt = "copy" /\ mt' \in {"restart", "poweron"}
        \/ mt = "restart" /\ mt' = "poweron"
        \/ mt = "poweron" /\ mt' \in {"efs", "tar"}
        \/ mt = "efs" /\ mt' = "tar"
        \/ mt = "tar" /\ mt' = "send"
        \/ mt = "send" /\ mt' = "rmdir"
        \/ mt = "rmdir" /\ mt' = "rmtar"
        \/ mt = "rmtar" /\ mt' = "done"
    <3>1. CASE ReadEnabled \/ ReadStarted
      BY <3>1 DEF ReadEnabled, ReadStarted
    <3>2. CASE StopLogger \/ WaitStopped \/ RestartLogger
      BY <3>2 DEF StopLogger, WaitStopped, RestartLogger
    <3>3. CASE MakeDir \/ CopyDiagLogs \/ CopyPoweronLog \/ CopyDebugLogs
      BY <3>3 DEF MakeDir, CopyDiagLogs, CopyPoweronLog, CopyDebugLogs
    <3>4. CASE CreateTarFile \/ Send \/ RemoveDir \/ RemoveTar
      BY <3>4 DEF CreateTarFile, Send, RemoveDir, RemoveTar
    <3>5. QED
      BY <1>2, <3>1, <3>2, <3>3, <3>4 DEF Thread
  <2>3. ThreadLeft' < ThreadLeft
    BY <2>2 DEF ThreadLeft
  <2> QED
    BY <2>1, <2>3 DEF MainLeft
<1>3. ASSUME [Next]_vars, pc # "down", ~Main, ~Kill, ~Thread
      PROVE  UNCHANGED <<MainLeft, ThreadLeft>>
  <2>1. UNCHANGED <<pc, mt>>
    BY <1>3 DEF Next, SetVerbose, Call, Trigger, LoggerRuns, LoggerEnds, vars
  <2> QED
    BY <2>1 DEF MainLeft, ThreadLeft
<1>4. Inv /\ [Next]_vars
      => [pc # "down" => /\ Main \/ Kill => MainLeft' < MainLeft
                         /\ Thread => MainLeft' = MainLeft /\ ThreadLeft' < ThreadLeft
                         /\ ~Main /\ ~Kill /\ ~Thread => UNCHANGED <<MainLeft, ThreadLeft>>]_vars
  BY <1>1, <1>2, <1>3
<1> QED
  BY <1>4, InvariantHolds, PTL DEF Spec, CallGoesOn

-----------------------------------------------------------------------------
(* A dump that stopped the logger and has not yet told init to start it.   *)
Stopped == mt \in {"mkdir", "copy", "restart"} /\ logEnabled /\ logStarted
SwitchedTo(b) == << <<"switch", b>> >>

(* What an undisturbed dump knows of init's queue and the logger: only its *)
(* own changes of the switch wait, and it stopped a logger that had run.   *)
LoggerInv ==
  ~disturbed =>
    /\ pc = "notify" \/ mt \in {"start", "status"} => queue = << >> /\ logger # "ending"
    /\ mt = "stop" => queue = << >> /\ logger = "running" /\ logEnabled /\ logStarted
    /\ mt = "wait" => /\ logEnabled /\ logStarted
                      /\ \/ queue = SwitchedTo(FALSE) /\ logger = "running"
                         \/ queue = << >> /\ logger \in {"ending", "stopped"}
    /\ mt \in {"copy", "restart"} => logEnabled
    /\ mt = "restart" => logStarted
    /\ Stopped => queue = << >> /\ logger = "stopped"
    /\ mt \notin {"none", "done"} => verbose

LEMMA SwitchQueue ==
  ASSUME NEW b \in BOOLEAN
  PROVE  /\ Append(<< >>, <<"switch", b>>) = SwitchedTo(b)
         /\ SwitchedTo(b) # << >> /\ Tail(SwitchedTo(b)) = << >>
         /\ Head(SwitchedTo(b))[1] = "switch" /\ Head(SwitchedTo(b))[2] = b
BY DEF SwitchedTo

(* What init does with a change of the switch.                             *)
LEMMA SwitchTrigger ==
  ASSUME NEW b \in BOOLEAN, Trigger, queue = SwitchedTo(b)
  PROVE  /\ queue' = << >>
         /\ ~b => StopService
         /\ b /\ (build = "user" \/ (verbose /\ switch)) => StartService
         /\ UNCHANGED <<build, verbose, switch, pc, mt, locals, disturbed>>
<1>1. CASE build = "user"
  <2>1. UserTrigger("switch", b)
    BY <1>1, SwitchQueue DEF Trigger
  <2> QED
    BY <1>1, <2>1, SwitchQueue DEF UserTrigger, Trigger
<1>2. CASE build # "user"
  <2>1. DebugTrigger("switch", b)
    BY <1>2, SwitchQueue DEF Trigger
  <2> QED
    BY <1>2, <2>1, SwitchQueue DEF DebugTrigger, Trigger
<1> QED
  BY <1>1, <1>2

LEMMA LoggerCall ==
  ASSUME Inv, LoggerInv, NEW b \in BOOLEAN, SetVerbose(b) \/ Call(b)
  PROVE  LoggerInv'
<1> USE DEF LoggerInv, Stopped, Inv, CallInv
<1>1. CASE SetVerbose(b)
  BY <1>1 DEF SetVerbose
<1>2. CASE Call(b)
  BY <1>2 DEF Call, props
<1> QED
  BY <1>1, <1>2

LEMMA LoggerMain ==
  ASSUME Inv, LoggerInv, Main \/ Kill
  PROVE  LoggerInv'
<1> USE DEF LoggerInv, Stopped, Inv, CallInv, props, locals
<1>1. CASE StartThread
  BY <1>1 DEF StartThread
<1>2. CASE DumpBoard \/ Join \/ Exit
  BY <1>2 DEF DumpBoard, Join, Exit
<1>3. CASE Kill
  BY <1>3 DEF Kill
<1> QED
  BY <1>1, <1>2, <1>3 DEF Main

LEMMA LoggerThread ==
  ASSUME Inv, LoggerInv, Thread
  PROVE  LoggerInv'
<1> USE DEF LoggerInv, Stopped, Inv, CallInv, props, locals
<1>1. CASE ReadEnabled
  BY <1>1 DEF ReadEnabled
<1>2. CASE ReadStarted
  BY <1>2 DEF ReadStarted, Status
<1>3. CASE StopLogger
  BY <1>3, SwitchQueue DEF StopLogger, SetProperty
<1>4. CASE WaitStopped
  BY <1>4 DEF WaitStopped, Status
<1>5. CASE MakeDir \/ CopyDiagLogs
  BY <1>5 DEF MakeDir, CopyDiagLogs
<1>6. CASE RestartLogger
  BY <1>6 DEF RestartLogger
<1>7. CASE CopyPoweronLog \/ CopyDebugLogs \/ CreateTarFile \/ Send \/ RemoveDir \/ RemoveTar
  BY <1>7 DEF CopyPoweronLog, CopyDebugLogs, CreateTarFile, Send, RemoveDir, RemoveTar
<1> QED
  BY <1>1, <1>2, <1>3, <1>4, <1>5, <1>6, <1>7 DEF Thread

LEMMA LoggerOthers ==
  ASSUME Inv, LoggerInv, Trigger \/ LoggerRuns \/ LoggerEnds
  PROVE  LoggerInv'
<1> USE DEF LoggerInv, Stopped, props, locals
<1>1. CASE LoggerRuns \/ LoggerEnds
  BY <1>1, SwitchQueue DEF LoggerRuns, LoggerEnds
<1>2. CASE Trigger
  <2>1. /\ queue # << >>
        /\ UNCHANGED <<build, verbose, pc, mt, logEnabled, logStarted, disturbed>>
    BY <1>2 DEF Trigger
  <2>2. CASE mt = "wait" /\ ~disturbed
    <3>1. queue = SwitchedTo(FALSE) /\ logger = "running"
      BY <2>1, <2>2
    <3>2. queue' = << >> /\ logger' = "ending"
      BY <1>2, <3>1, SwitchTrigger DEF StopService
    <3> QED
      BY <2>1, <2>2, <3>2
  <2>3. CASE mt # "wait"
    BY <2>1, <2>3
  <2> QED
    BY <2>1, <2>2, <2>3
<1> QED
  BY <1>1, <1>2

LEMMA LoggerInvHolds == Spec => []LoggerInv
<1>1. Init => LoggerInv
  BY DEF Init, LoggerInv, Stopped
<1>2. Inv /\ LoggerInv /\ [Next]_vars => LoggerInv'
  <2> SUFFICES ASSUME Inv, LoggerInv, [Next]_vars PROVE LoggerInv'
    OBVIOUS
  <2>1. CASE UNCHANGED vars
    BY <2>1 DEF vars, LoggerInv, Stopped
  <2> QED
    BY <2>1, LoggerCall, LoggerMain, LoggerThread, LoggerOthers DEF Next
<1> QED
  BY <1>1, <1>2, InvariantHolds, PTL DEF Spec

-----------------------------------------------------------------------------
(* The logger is owed its restart: the dump that stopped it is going on,   *)
(* the switch is on its way to init, or init has started the logger.       *)
RestartOwed ==
  /\ ~disturbed
  /\ \/ Stopped
     \/ /\ logger = "stopped" /\ queue = SwitchedTo(TRUE)
        /\ build = "user" \/ (verbose /\ switch)
     \/ logger = "starting" /\ queue = << >>

RestartLeft == CASE logger = "starting" -> 1
                 [] logger # "starting" /\ queue # << >> -> 2
                 [] logger # "starting" /\ queue = << >> /\ mt = "restart" -> 3
                 [] logger # "starting" /\ queue = << >> /\ mt = "copy" -> 4
                 [] OTHER -> 5

(* Until the logger runs again or something disturbs it, the restart stays *)
(* owed, no step puts it off, and each step of the thread and then of init *)
(* brings it nearer.                                                       *)
RestartGoesOn ==
  [][RestartOwed => \/ disturbed' \/ logger' = "running"
                    \/ /\ RestartOwed' /\ RestartLeft' <= RestartLeft
                       /\ (IF RestartLeft > 2 THEN Thread ELSE Trigger)
                            => RestartLeft' < RestartLeft]_vars

(* The premise of LoggerBack owes the restart.                             *)
RestartIsOwed == mt = "mkdir" /\ logEnabled /\ logStarted /\ ~disturbed
                   => logger = "stopped" /\ RestartOwed

(* The rank in each of the three situations, before and after a step.      *)
LEMMA RanksBefore ==
  /\ logger = "starting" => RestartLeft = 1
  /\ logger = "stopped" /\ queue = SwitchedTo(TRUE) => RestartLeft = 2
  /\ logger = "stopped" /\ queue = << >> /\ mt = "restart" => RestartLeft = 3
  /\ logger = "stopped" /\ queue = << >> /\ mt = "copy" => RestartLeft = 4
  /\ logger = "stopped" /\ queue = << >> /\ mt = "mkdir" => RestartLeft = 5
BY SwitchQueue DEF RestartLeft

LEMMA RanksAfter ==
  /\ logger' = "starting" => RestartLeft' = 1
  /\ logger' = "stopped" /\ queue' = SwitchedTo(TRUE) => RestartLeft' = 2
  /\ logger' = "stopped" /\ queue' = << >> /\ mt' = "restart" => RestartLeft' = 3
  /\ logger' = "stopped" /\ queue' = << >> /\ mt' = "copy" => RestartLeft' = 4
  /\ logger' = "stopped" /\ queue' = << >> /\ mt' = "mkdir" => RestartLeft' = 5
<1>1. SwitchedTo(TRUE) # << >>
  BY SwitchQueue
<1> QED
  BY <1>1, SwitchQueue DEF RestartLeft, SwitchedTo

(* Once the switch is on its way, the queue and the logger are all that    *)
(* the debt and its rank depend on.                                        *)
LEMMA OwedStays ==
  ASSUME LoggerInv, RestartOwed, ~Stopped, ~disturbed',
         UNCHANGED <<build, verbose, switch, queue, logger>>
  PROVE  RestartOwed' /\ RestartLeft' = RestartLeft /\ RestartLeft \in {1, 2}
<1>1. CASE logger = "starting" /\ queue = << >>
  <2>1. RestartOwed'
    BY <1>1 DEF RestartOwed
  <2> QED
    BY <1>1, <2>1, RanksBefore, RanksAfter
<1>2. CASE /\ logger = "stopped" /\ queue = SwitchedTo(TRUE)
           /\ build = "user" \/ (verbose /\ switch)
  <2>1. RestartOwed'
    BY <1>2 DEF RestartOwed, SwitchedTo
  <2>2. queue' = SwitchedTo(TRUE)
    BY <1>2
  <2> QED
    BY <1>2, <2>1, <2>2, RanksBefore, RanksAfter
<1> QED
  BY <1>1, <1>2 DEF RestartOwed

LEMMA OwedThread ==
  ASSUME Inv, LoggerInv, RestartOwed, Thread, ~disturbed'
  PROVE  /\ RestartOwed' /\ RestartLeft' <= RestartLeft
         /\ RestartLeft > 2 => RestartLeft' < RestartLeft
<1>0. ~disturbed
  BY DEF RestartOwed
<1>1. CASE Stopped
  <2>1. queue = << >> /\ logger = "stopped" /\ logEnabled /\ logStarted /\ verbose
    BY <1>0, <1>1 DEF LoggerInv, Stopped
  <2>2. CASE MakeDir
    <3>1. /\ mt = "mkdir" /\ mt' = "copy"
          /\ UNCHANGED <<queue, logger, logEnabled, logStarted>>
      BY <2>1, <2>2 DEF MakeDir, props, locals
    <3>2. RestartOwed'
      BY <2>1, <3>1 DEF RestartOwed, Stopped
    <3> QED
      BY <2>1, <3>1, <3>2, RanksBefore, RanksAfter
  <2>3. CASE CopyDiagLogs
    <3>1. /\ mt = "copy" /\ mt' = "restart"
          /\ UNCHANGED <<queue, logger, logEnabled, logStarted>>
      BY <2>1, <2>3 DEF CopyDiagLogs, props, locals
    <3>2. RestartOwed'
      BY <2>1, <3>1 DEF RestartOwed, Stopped
    <3> QED
      BY <2>1, <3>1, <3>2, RanksBefore, RanksAfter
  <2>4. CASE RestartLogger
    <3>1. /\ mt = "restart" /\ queue' = SwitchedTo(TRUE) /\ switch' = TRUE
          /\ UNCHANGED <<logger, verbose>>
      BY <2>1, <2>4, SwitchQueue DEF RestartLogger, SetProperty
    <3>2. RestartOwed'
      BY <2>1, <3>1 DEF RestartOwed, SwitchedTo
    <3> QED
      BY <2>1, <3>1, <3>2, RanksBefore, RanksAfter
  <2> QED
    BY <1>1, <2>2, <2>3, <2>4
    DEF Stopped, Thread, ReadEnabled, ReadStarted, StopLogger, WaitStopped,
        CopyPoweronLog, CopyDebugLogs, CreateTarFile, Send, RemoveDir, RemoveTar
<1>2. CASE ~Stopped
  <2>1. mt # "stop" /\ mt # "restart"
    <3>1. mt # "stop"
      BY <1>0, <1>2, SwitchQueue DEF LoggerInv, RestartOwed
    <3>2. mt # "restart"
      BY <1>0, <1>2 DEF LoggerInv, Stopped
    <3> QED
      BY <3>1, <3>2
  <2>2. UNCHANGED <<build, verbose, switch, queue, logger>>
    BY <2>1 DEF Thread, ReadEnabled, ReadStarted, StopLogger, WaitStopped, MakeDir,
        CopyDiagLogs, RestartLogger, CopyPoweronLog, CopyDebugLogs, CreateTarFile, Send,
        RemoveDir, RemoveTar, props
  <2> QED
    BY <1>2, <2>2, OwedStays
<1> QED
  BY <1>1, <1>2

LEMMA OwedTrigger ==
  ASSUME Inv, LoggerInv, RestartOwed, Trigger
  PROVE  RestartOwed' /\ RestartLeft' < RestartLeft
<1>1. queue # << >>
  BY DEF Trigger
<1>2. queue = SwitchedTo(TRUE) /\ logger = "stopped" /\ (build = "user" \/ (verbose /\ switch))
  BY <1>1 DEF RestartOwed, LoggerInv
<1>3. /\ queue' = << >> /\ logger' = "starting"
      /\ UNCHANGED disturbed
  BY <1>2, SwitchTrigger DEF StartService
<1> QED
  BY <1>1, <1>2, <1>3 DEF RestartOwed, RestartLeft

LEMMA OwedOthers ==
  ASSUME Inv, LoggerInv, RestartOwed, [Next]_vars, ~Thread, ~Trigger, ~disturbed'
  PROVE  logger' = "running" \/ (RestartOwed' /\ RestartLeft' <= RestartLeft)
<1>0. ~disturbed
  BY DEF RestartOwed
<1>1. ~Kill /\ ~(\E b \in BOOLEAN : SetVerbose(b))
  BY DEF Kill, SetVerbose
<1>2. CASE LoggerRuns
  BY <1>2 DEF LoggerRuns
<1>3. LoggerEnds => FALSE
  BY <1>0 DEF LoggerEnds, RestartOwed, LoggerInv
<1>4. CASE (\E b \in BOOLEAN : Call(b)) \/ Main \/ UNCHANGED vars
  <2>1. UNCHANGED <<build, verbose, switch, queue, logger>>
    BY <1>4 DEF Call, Main, StartThread, DumpBoard, Join, Exit, props, vars
  <2>2. CASE Stopped
    <3>1. pc \in {"board", "join"}
      BY <2>2 DEF Inv, CallInv, Stopped
    <3>2. UNCHANGED <<mt, logEnabled, logStarted>>
      BY <1>4, <2>2, <3>1
      DEF Call, Main, StartThread, DumpBoard, Join, Exit, locals, vars, Stopped
    <3>3. RestartOwed'
      BY <2>2, <3>2 DEF RestartOwed, Stopped
    <3>4. RestartLeft' = RestartLeft
      BY <2>1, <3>2 DEF RestartLeft
    <3>5. RestartLeft \in 1 .. 5
      BY DEF RestartLeft
    <3> QED
      BY <3>3, <3>4, <3>5
  <2>3. CASE ~Stopped
    BY <2>1, <2>3, OwedStays
  <2> QED
    BY <2>2, <2>3
<1> QED
  BY <1>1, <1>2, <1>3, <1>4 DEF Next

(* LoggerBack without its fairness: a logger that ended because of a dump  *)
(* is owed its restart, and the debt is paid unless the dump is disturbed. *)
THEOREM RestartsGoOn == Spec => []RestartIsOwed /\ RestartGoesOn
<1>1. LoggerInv => RestartIsOwed
  BY DEF LoggerInv, RestartIsOwed, RestartOwed, Stopped
<1>2. Inv /\ LoggerInv /\ [Next]_vars
      => [RestartOwed => \/ disturbed' \/ logger' = "running"
                         \/ /\ RestartOwed' /\ RestartLeft' <= RestartLeft
                            /\ (IF RestartLeft > 2 THEN Thread ELSE Trigger)
                                 => RestartLeft' < RestartLeft]_vars
  <2> SUFFICES ASSUME Inv, LoggerInv, [Next]_vars, RestartOwed, ~disturbed', logger' # "running"
               PROVE  /\ RestartOwed' /\ RestartLeft' <= RestartLeft
                      /\ (IF RestartLeft > 2 THEN Thread ELSE Trigger)
                           => RestartLeft' < RestartLeft
    OBVIOUS
  <2>1. CASE Trigger
    <3>1. RestartLeft \in 1 .. 5 /\ RestartLeft' \in 1 .. 5
      BY DEF RestartLeft
    <3> QED
      BY <2>1, <3>1, OwedTrigger
  <2>2. CASE Thread /\ ~Trigger
    BY <2>2, OwedThread
  <2>3. CASE ~Thread /\ ~Trigger
    BY <2>3, OwedOthers
  <2> QED
    BY <2>1, <2>2, <2>3
<1> QED
  BY <1>1, <1>2, InvariantHolds, LoggerInvHolds, PTL DEF Spec, RestartGoesOn
=============================================================================
