--------------------------- MODULE UsbGadgetProofs ---------------------------
(***************************************************************************)
(* Proofs about the USB gadget HAL, for any sets of functions and any      *)
(* requests, whatever may fail or interfere.                               *)
(***************************************************************************)
EXTENDS UsbGadget, TLAPS

USE DEF asked

(* A bound gadget has links.                                               *)
BoundInv == links = {} => host = {}

(* Where a request is says what it has established.                        *)
StepInv == /\ pc \in {"stop", "join", "sleep", "ids", "vendor"} => links = {}
           /\ pc \in {"sleep", "ids", "vendor", "link", "udc", "spawn"} => mon = "off"
           /\ pc \in {"udc", "spawn", "wait"} => links = Linked(current)
           /\ pc \in {"ids", "vendor", "link", "udc", "spawn", "wait"} => current # {}

(* What a waiting request may be told, or was told, is what the host saw.  *)
WaitInv == pc = "wait" => /\ mon = "publish" => shown = links
                          /\ gadgetPullup => shown = links /\ applied
ReplyInv == /\ pc # "idle" => reply = NoReply
            /\ reply.status = "SUCCESS" =>
                 /\ reply.functions = current
                 /\ IF current = {} THEN links = {} /\ shown = {}
                                    ELSE links = Linked(current) /\ shown = links /\ applied

Inv == BoundInv /\ StepInv /\ WaitInv /\ ReplyInv

LEMMA InvInit == Init => Inv
BY DEF Init, Inv, BoundInv, StepInv, WaitInv, ReplyInv, NoReply

(* The beginning of a request and the teardown.                            *)
LEMMA TeardownStep ==
  Inv /\ ((\E functions \in Requests : Call(functions)) \/ ClearApplied \/ PullDown \/ ClearClass
          \/ Unlink \/ Unlinked \/ StopMonitor \/ Join \/ Slept) => Inv'
<1> SUFFICES ASSUME Inv,
                    \/ \E functions \in Requests : Call(functions)
                    \/ ClearApplied \/ PullDown \/ ClearClass \/ Unlink \/ Unlinked
                    \/ StopMonitor \/ Join \/ Slept
             PROVE  Inv'
  OBVIOUS
<1> USE DEF Inv, BoundInv, StepInv, WaitInv, ReplyInv, NoReply, Linked
<1>1. CASE \E functions \in Requests : Call(functions)
  <2>1. PICK functions \in Requests : Call(functions)
    BY <1>1
  <2> QED
    BY <2>1 DEF Call, monitor, fds, configfs, udc
<1>2. CASE ClearApplied
  BY <1>2 DEF ClearApplied, monitor, fds, configfs, udc
<1>3. CASE PullDown
  BY <1>3 DEF PullDown, monitor, fds, configfs
<1>4. CASE ClearClass
  BY <1>4 DEF ClearClass, Reply, monitor, fds, configfs, udc
<1>5. CASE Unlink
  BY <1>5 DEF Unlink, request, monitor, fds
<1>6. CASE Unlinked
  BY <1>6 DEF Unlinked, Reply, monitor, fds, configfs, udc
<1>7. CASE StopMonitor
  BY <1>7 DEF StopMonitor, CloseFds, monitor, configfs, udc
<1>8. CASE Join
  BY <1>8 DEF Join, CloseFds, configfs, udc
<1>9. CASE Slept
  BY <1>9 DEF Slept, Reply, monitor, fds, configfs
<1> QED
  BY <1>1, <1>2, <1>3, <1>4, <1>5, <1>6, <1>7, <1>8, <1>9

(* The setup.                                                              *)
LEMMA SetupStep ==
  Inv /\ (SetVidPid \/ ReadVendor \/ Link \/ AllLinked \/ PullUpNow \/ Spawn \/ Waited) => Inv'
<1> SUFFICES ASSUME Inv, SetVidPid \/ ReadVendor \/ Link \/ AllLinked \/ PullUpNow \/ Spawn \/ Waited
             PROVE  Inv'
  OBVIOUS
<1> USE DEF Inv, BoundInv, StepInv, WaitInv, ReplyInv, NoReply, Linked
<1>1. CASE SetVidPid \/ ReadVendor
  BY <1>1 DEF SetVidPid, ReadVendor, Reply, monitor, fds, configfs, udc
<1>2. CASE Link
  BY <1>2 DEF Link, request, monitor, udc
<1>3. CASE AllLinked
  BY <1>3 DEF AllLinked, SetupFails, Reply, monitor, configfs, udc
<1>4. CASE PullUpNow
  BY <1>4 DEF PullUpNow, Bind, BindFails, Reply, monitor, fds, configfs, udc
<1>5. CASE Spawn
  BY <1>5 DEF Spawn, SetupFails, Reply, monitor, fds, configfs, udc
<1>6. CASE Waited
  BY <1>6 DEF Waited, Reply, monitor, fds, configfs, udc
<1> QED
  BY <1>1, <1>2, <1>3, <1>4, <1>5, <1>6

(* Whoever else binds the gadget binds what is linked.                     *)
LEMMA OthersStep == Inv /\ (Reset \/ DataSignal \/ Monitor \/ Daemon) => Inv'
<1> SUFFICES ASSUME Inv, Reset \/ DataSignal \/ Monitor \/ Daemon
             PROVE  Inv'
  OBVIOUS
<1> USE DEF Inv, BoundInv, StepInv, WaitInv, ReplyInv, Linked
<1>1. CASE Reset
  BY <1>1 DEF Reset, request, monitor, fds, configfs
<1>2. CASE DataSignal
  BY <1>2 DEF DataSignal, Bind, CanBind, request, monitor, fds, configfs
<1>3. CASE MonStart
  BY <1>3 DEF MonStart, request, fds, configfs, udc
<1>4. CASE MonEpoll
  BY <1>4 DEF MonEpoll, request, fds, configfs, udc
<1>5. CASE MonEvent
  BY <1>5 DEF MonEvent, NextRound, request, configfs, udc
<1>6. CASE MonPull
  BY <1>6 DEF MonPull, Bind, BindFails, CanBind, NextRound, request, fds, configfs, udc
<1>7. CASE MonPublish
  BY <1>7 DEF MonPublish, NextRound, request, fds, configfs, udc
<1>8. CASE Daemon
  BY <1>8 DEF Daemon, DaemonUp, DaemonDies, DaemonReturns, request, monitor, configfs, udc
<1> QED
  BY <1>1, <1>2, <1>3, <1>4, <1>5, <1>6, <1>7, <1>8 DEF Monitor

(* Inv is preserved whatever writes fail and whoever interferes.           *)
THEOREM InvariantHolds == Spec => []Inv
<1>1. Inv /\ UNCHANGED vars => Inv'
  BY DEF Inv, BoundInv, StepInv, WaitInv, ReplyInv, vars, Linked
<1>2. Inv /\ Next => Inv'
  BY TeardownStep, SetupStep, OthersStep DEF Next, Step, Request
<1> QED
  BY InvInit, <1>1, <1>2, PTL DEF Spec

(* Nothing pulls the gadget up between the teardown and the setup, not     *)
(* even enableUsbDataSignal, and no monitor is left during the setup.      *)
THEOREM HostSensesDisconnect == Spec => []StaysDown
<1>1. Inv => StaysDown
  BY DEF Inv, BoundInv, StepInv, StaysDown
<1> QED
  BY InvariantHolds, <1>1, PTL

(* A callback that was told SUCCESS was told what the host saw.            *)
THEOREM RepliesTrue == Spec => []ReplyTrue
<1>1. Inv => ReplyTrue
  BY DEF Inv, ReplyInv, ReplyTrue
<1> QED
  BY InvariantHolds, <1>1, PTL

LEMMA ReplyType ==
  ASSUME TypeOK, NEW status \in Statuses, Reply(status)
  PROVE  /\ reply' \in [functions : Requests \cup {{}}, status : Statuses]
         /\ pc' = "idle"
BY DEF TypeOK, Reply

LEMMA EitherBoolean == \A a, b : (a \/ b) \in BOOLEAN
OBVIOUS

LEMMA TypeStep == TypeOK /\ [Next]_vars => TypeOK'
<1> SUFFICES ASSUME TypeOK, [Next]_vars
             PROVE  TypeOK'
  OBVIOUS
<1>0. rough' \in BOOLEAN
  BY Zenon DEF TypeOK, Next, vars
<1> USE <1>0, RequestsAssumption, VendorAssumption DEF TypeOK, Functions, Linked, Statuses, NoReply
<1>1. CASE UNCHANGED vars
  BY <1>1 DEF vars
<1>2. CASE \E functions \in Requests : Call(functions)
  <2>1. PICK functions \in Requests : Call(functions)
    BY <1>2
  <2> QED
    BY <2>1 DEF Call, monitor, fds, configfs, udc
<1>3. CASE ClearApplied
  BY <1>3 DEF ClearApplied, monitor, fds, configfs, udc
<1>4. CASE PullDown
  BY <1>4 DEF PullDown, monitor, fds, configfs
<1>5. CASE ClearClass
  <2>1. CASE pc' = "unlink" /\ UNCHANGED reply
    BY <1>5, <2>1 DEF ClearClass, monitor, fds, configfs, udc
  <2>2. CASE Reply("ERROR")
    BY <1>5, <2>2, ReplyType DEF ClearClass, monitor, fds, configfs, udc
  <2> QED
    BY <1>5, <2>1, <2>2 DEF ClearClass
<1>6. CASE Unlink \/ Unlinked
  BY <1>6, ReplyType DEF Unlink, Unlinked, request, monitor, fds, configfs, udc
<1>7. CASE StopMonitor
  BY <1>7 DEF StopMonitor, CloseFds, monitor, configfs, udc
<1>8. CASE Join
  BY <1>8 DEF Join, CloseFds, configfs, udc
<1>9. CASE Slept
  BY <1>9, ReplyType DEF Slept, monitor, fds, configfs
<1>10. CASE SetVidPid
  <2>1. pid' \subseteq Functions
    BY <1>10 DEF SetVidPid
  <2>2. reply' \in [functions : Requests \cup {{}}, status : Statuses] /\ pc' \in {"vendor", "idle"}
    BY <1>10, ReplyType DEF SetVidPid
  <2> QED
    BY <1>10, <2>1, <2>2 DEF SetVidPid, monitor, fds, udc
<1>22. CASE ReadVendor
  BY <1>22 DEF ReadVendor, monitor, fds, configfs, udc
<1>11. CASE Link
  BY <1>11 DEF Link, request, monitor, udc
<1>12. CASE AllLinked
  BY <1>12, ReplyType DEF AllLinked, SetupFails, monitor, configfs, udc
<1>13. CASE PullUpNow
  <2>1. CASE Bind /\ applied' = TRUE /\ Reply("SUCCESS")
    BY <1>13, <2>1, ReplyType DEF PullUpNow, Bind, monitor, fds, configfs
  <2>2. CASE BindFails /\ UNCHANGED applied /\ Reply("ERROR")
    BY <1>13, <2>2, ReplyType DEF PullUpNow, BindFails, monitor, fds, configfs, udc
  <2> QED
    BY <1>13, <2>1, <2>2 DEF PullUpNow
<1>14. CASE Spawn
  BY <1>14, ReplyType DEF Spawn, SetupFails, monitor, fds, configfs, udc
<1>15. CASE Waited
  BY <1>15, ReplyType DEF Waited, monitor, fds, configfs, udc
<1>16. CASE Reset \/ DataSignal
  BY <1>16 DEF Reset, DataSignal, Bind, request, monitor, fds, configfs
<1>17. CASE MonStart \/ MonEpoll
  BY <1>17 DEF MonStart, MonEpoll, request, fds, configfs, udc
<1>18. CASE MonEvent
  <2>1. writeUdc' \in BOOLEAN
    BY <1>18, EitherBoolean, Zenon DEF MonEvent
  <2> QED
    BY <1>18, <2>1 DEF MonEvent, NextRound, request, configfs, udc
<1>19. CASE MonPull
  BY <1>19 DEF MonPull, Bind, BindFails, NextRound, request, fds, configfs, udc
<1>20. CASE MonPublish
  BY <1>20 DEF MonPublish, NextRound, request, fds, configfs, udc
<1>21. CASE Daemon
  <2>1. pending' \in BOOLEAN
    BY <1>21, EitherBoolean, Zenon DEF Daemon, DaemonUp, DaemonDies, DaemonReturns, Event
  <2>2. daemon' \in [Ffs -> {"new", "up", "dead"}]
    BY <1>21 DEF Daemon, DaemonUp, DaemonDies, DaemonReturns
  <2> QED
    BY <1>21, <2>1, <2>2
       DEF Daemon, DaemonUp, DaemonDies, DaemonReturns, request, monitor, configfs, udc
<1> QED
  BY <1>1, <1>2, <1>3, <1>4, <1>5, <1>6, <1>7, <1>8, <1>9, <1>10, <1>11, <1>12, <1>13, <1>14,
     <1>15, <1>16, <1>17, <1>18, <1>19, <1>20, <1>21, <1>22 DEF Next, Step, Request, Monitor

(* Every variable keeps its type.                                          *)
THEOREM TypeCorrect == Spec => []TypeOK
<1>1. Init => TypeOK
  <2>1. NoReply \in [functions : Requests \cup {{}}, status : Statuses]
    BY DEF NoReply, Statuses
  <2> QED
    BY <2>1 DEF Init, TypeOK
<1> QED
  BY <1>1, TypeStep, PTL DEF Spec

(* Without failing writes and without enableUsbDataSignal, what can be     *)
(* bound is nothing or everything, and while links are removed a part.     *)
IdentityInv ==
  ~rough => /\ pc \notin {"unlink", "link"} => links \in {{}, Announced}
            /\ pc = "unlink" => links \subseteq Announced
            /\ pc = "vendor" => pid \ Vendor = current
            /\ pc \in {"link", "udc", "spawn"} => host = {} /\ Linked(current) = Announced
            /\ HostIdentity

LEMMA IdentityStep ==
  ASSUME Inv, TypeOK, IdentityInv, Next
  PROVE  IdentityInv'
<1> SUFFICES ASSUME ~rough, ~rough'
             PROVE  IdentityInv'
  BY DEF IdentityInv, Next
<1> USE DEF IdentityInv, HostIdentity, Announced, Inv, BoundInv, StepInv, Linked
<1>1. CASE \E functions \in Requests : Call(functions)
  <2>1. PICK functions \in Requests : Call(functions)
    BY <1>1
  <2> QED
    BY <2>1 DEF Call, configfs, udc
<1>2. CASE ClearApplied \/ PullDown \/ ClearClass \/ Unlink \/ Unlinked
  BY <1>2 DEF ClearApplied, PullDown, ClearClass, Unlink, Unlinked, Reply, configfs, udc, request
<1>3. CASE StopMonitor \/ Join \/ Slept
  BY <1>3 DEF StopMonitor, Join, Slept, Reply, configfs, udc
<1>4. CASE SetVidPid
  <2>1. current \cap Vendor = {} /\ \A v \in VendorConfigs : VendorLinks[v] \subseteq Vendor
    BY RequestsAssumption, VendorAssumption DEF TypeOK
  <2>2. links = {} /\ UNCHANGED <<links, host, current, vendorFunctions>> /\ host = {}
    BY <1>4 DEF SetVidPid, udc
  <2>3. pc' = "vendor" => pid' \ Vendor = current
    BY <1>4, <2>1 DEF SetVidPid, Reply
  <2>4. pc' \in {"vendor", "idle"}
    BY <1>4 DEF SetVidPid, Reply
  <2> QED
    BY <2>2, <2>3, <2>4
<1>13. CASE ReadVendor
  BY <1>13 DEF ReadVendor, configfs, udc
<1>5. CASE Link
  BY <1>5 DEF Link, request, udc
<1>6. CASE AllLinked
  BY <1>6 DEF AllLinked, Reply, configfs, udc
<1>7. CASE PullUpNow \/ Spawn \/ Waited
  BY <1>7 DEF PullUpNow, Spawn, Waited, Bind, BindFails, Reply, configfs, udc
<1>8. CASE Reset
  BY <1>8 DEF Reset, request, configfs
<1>9. CASE MonStart \/ MonEpoll \/ MonEvent \/ MonPublish
  BY <1>9 DEF MonStart, MonEpoll, MonEvent, MonPublish, request, configfs, udc
<1>10. CASE MonPull
  BY <1>10 DEF MonPull, Bind, BindFails, request, configfs, udc
<1>11. CASE Daemon
  BY <1>11 DEF Daemon, DaemonUp, DaemonDies, DaemonReturns, request, configfs, udc
<1>12. ~DataSignal
  BY DEF DataSignal
<1> QED
  BY <1>1, <1>2, <1>3, <1>4, <1>5, <1>6, <1>7, <1>8, <1>9, <1>10, <1>11, <1>12, <1>13
     DEF Next, Step, Request, Monitor

(* Without failing writes and data signals the host sees all functions its *)
(* ids announce and the vendor functions, or none, and while links are     *)
(* removed a part of them.                                                 *)
THEOREM HostSeesAll == Spec => []HostIdentity
<1>1. Init => IdentityInv
  BY DEF Init, IdentityInv, HostIdentity, Announced
<1>2. Inv /\ TypeOK /\ IdentityInv /\ [Next]_vars => IdentityInv'
  <2>1. IdentityInv /\ UNCHANGED vars => IdentityInv'
    BY DEF IdentityInv, HostIdentity, Announced, vars, Linked
  <2> QED
    BY IdentityStep, <2>1
<1>3. IdentityInv => HostIdentity
  BY DEF IdentityInv, HostIdentity
<1> QED
  BY InvariantHolds, TypeCorrect, <1>1, <1>2, <1>3, PTL DEF Spec

-----------------------------------------------------------------------------
(* What TLC shows with fairness, RequestReturns and PullsUp, is proved here *)
(* but for fairness itself: who may go on, and what falls when it does.    *)

(* The steps a request has left, and in a loop the links it has left.      *)
StepsLeft == CASE pc = "begin" -> 12 [] pc = "none" -> 11 [] pc = "class" -> 10 [] pc = "unlink" -> 9
               [] pc = "stop" -> 8 [] pc = "join" -> 7 [] pc = "sleep" -> 6 [] pc = "ids" -> 5
               [] pc = "vendor" -> 4 [] pc = "link" -> 3 [] pc \in {"udc", "spawn"} -> 2 [] pc = "wait" -> 1 [] OTHER -> 0
LinksLeft == CASE pc = "unlink" -> links [] pc = "link" -> Linked(current) \ links [] OTHER -> {}

(* The steps of a monitor that mEventFd is written for.                    *)
MonitorLeft == CASE mon \in {"start", "event"} -> (IF sawStop THEN 3 ELSE 7)
                 [] mon = "pull" -> (IF sawStop THEN 2 ELSE 6)
                 [] mon = "publish" -> (IF sawStop THEN 1 ELSE 5)
                 [] mon = "wait" -> 4
                 [] OTHER -> 0

(* A request that joins the monitor finds it at its end or able to take a  *)
(* step, mLock free; one that links functions has one left or is done.     *)
NeverBlocked ==
  /\ pc = "join" => \/ mon \in {"start", "event", "pull", "done"}
                    \/ mon = "wait" /\ flag
                    \/ mon = "publish" /\ ~LockHeld
  /\ pc = "link" => links = Linked(current) \/ \E f \in Linked(current) : f \notin links

(* Every step of a request brings it nearer to its reply, nobody else      *)
(* takes it back, and while it joins the monitor every step of the monitor *)
(* brings that one nearer to its end.                                      *)
RequestGoesOn ==
  [][/\ Request => \/ StepsLeft' < StepsLeft
                   \/ /\ StepsLeft' = StepsLeft
                      /\ LinksLeft' \subseteq LinksLeft /\ LinksLeft' # LinksLeft
     /\ ~Request /\ pc # "idle" => UNCHANGED <<StepsLeft, LinksLeft>>
     /\ ~Request /\ pc = "join" =>
          IF Monitor THEN MonitorLeft' < MonitorLeft ELSE MonitorLeft' = MonitorLeft]_vars

(* mEventFd is written for a monitor that is then joined; only then does a *)
(* monitor see it.                                                         *)
StopInv == /\ flag <=> pc = "join"
           /\ mon # "off" /\ sawStop => flag
           /\ mon = "start" => ~sawStop
           /\ mon = "done" => flag
           /\ pc = "join" => mon # "off"
           /\ pc = "link" => links \subseteq Linked(current)

LEMMA StopStep ==
  ASSUME Inv, StopInv, [Next]_vars
  PROVE  StopInv'
<1> USE DEF StopInv, Linked
<1>1. CASE UNCHANGED vars
  BY <1>1 DEF vars
<1>2. CASE \E functions \in Requests : Call(functions)
  BY <1>2 DEF Call, monitor, fds, configfs
<1>3. CASE ClearApplied \/ PullDown \/ ClearClass
  BY <1>3 DEF ClearApplied, PullDown, ClearClass, Reply, monitor, fds, configfs
<1>4. CASE Unlink \/ Unlinked
  BY <1>4 DEF Unlink, Unlinked, Reply, request, monitor, fds, configfs
<1>5. CASE StopMonitor
  BY <1>5 DEF StopMonitor, CloseFds, monitor, configfs
<1>6. CASE Join
  BY <1>6 DEF Join, CloseFds, configfs
<1>7. CASE Slept
  BY <1>7 DEF Slept, Reply, monitor, fds, configfs
<1>8. CASE SetVidPid \/ ReadVendor
  BY <1>8 DEF SetVidPid, ReadVendor, Reply, monitor, fds, configfs, Inv, StepInv
<1>9. CASE Link
  BY <1>9 DEF Link, request, monitor
<1>10. CASE AllLinked
  BY <1>10 DEF AllLinked, SetupFails, Reply, monitor, configfs
<1>11. CASE PullUpNow \/ Waited
  BY <1>11 DEF PullUpNow, Waited, Reply, monitor, fds, configfs
<1>12. CASE Spawn
  BY <1>12 DEF Spawn, SetupFails, Reply, monitor, fds, configfs
<1>13. CASE Reset \/ DataSignal
  BY <1>13 DEF Reset, DataSignal, request, monitor, fds, configfs
<1>14. CASE Monitor
  BY <1>14 DEF Monitor, MonStart, MonEpoll, MonEvent, MonPull, MonPublish, NextRound, request, fds,
     configfs
<1>15. CASE Daemon
  BY <1>15 DEF Daemon, request, monitor, configfs
<1> QED
  BY <1>1, <1>2, <1>3, <1>4, <1>5, <1>6, <1>7, <1>8, <1>9, <1>10, <1>11, <1>12, <1>13, <1>14,
     <1>15 DEF Next, Step, Request


LEMMA StopInvHolds == Spec => []StopInv
<1>1. Init => StopInv
  BY DEF Init, StopInv
<1>2. Inv /\ StopInv /\ [Next]_vars => StopInv'
  BY StopStep
<1> QED
  BY InvariantHolds, <1>1, <1>2, PTL DEF Spec

(* Nobody waits for ever: the join has a monitor that can go on.           *)
THEOREM NobodyBlocked == Spec => []NeverBlocked
<1>1. TypeOK /\ StopInv => NeverBlocked
  <2> SUFFICES ASSUME TypeOK, StopInv
               PROVE  NeverBlocked
    OBVIOUS
  <2>1. pc = "join" => mon \in {"start", "event", "pull", "done", "wait", "publish"} /\ flag /\ ~LockHeld
    BY DEF TypeOK, StopInv, LockHeld
  <2>2. pc = "link" => links = Linked(current) \/ \E f \in Linked(current) : f \notin links
    BY DEF StopInv
  <2> QED
    BY <2>1, <2>2 DEF NeverBlocked
<1> QED
  BY TypeCorrect, StopInvHolds, <1>1, PTL

(* A step of a request takes it forward.                                   *)
LEMMA RequestDescends ==
  ASSUME Request
  PROVE  \/ StepsLeft' < StepsLeft
         \/ /\ StepsLeft' = StepsLeft
            /\ LinksLeft' \subseteq LinksLeft /\ LinksLeft' # LinksLeft
<1> USE DEF StepsLeft, Reply
<1>1. CASE ClearApplied \/ PullDown \/ ClearClass
  BY <1>1 DEF ClearApplied, PullDown, ClearClass
<1>2. CASE Unlink
  BY <1>2 DEF Unlink, request, LinksLeft
<1>3. CASE Unlinked \/ StopMonitor \/ Join \/ Slept
  BY <1>3 DEF Unlinked, StopMonitor, Join, Slept
<1>4. CASE SetVidPid \/ ReadVendor
  BY <1>4 DEF SetVidPid, ReadVendor
<1>5. CASE Link
  BY <1>5 DEF Link, request, LinksLeft, Linked
<1>6. CASE AllLinked
  BY <1>6 DEF AllLinked, SetupFails
<1>7. CASE PullUpNow \/ Spawn \/ Waited
  BY <1>7 DEF PullUpNow, Spawn, SetupFails, Waited
<1> QED
  BY <1>1, <1>2, <1>3, <1>4, <1>5, <1>6, <1>7 DEF Request

(* A step of the monitor takes it towards the end of a join.               *)
LEMMA MonitorDescends ==
  ASSUME StopInv, pc = "join", Monitor
  PROVE  MonitorLeft' < MonitorLeft
<1> USE DEF MonitorLeft, StopInv, NextRound
<1>1. CASE MonStart
  BY <1>1 DEF MonStart
<1>2. CASE MonEpoll
  BY <1>2 DEF MonEpoll
<1>3. CASE MonEvent
  BY <1>3 DEF MonEvent
<1>4. CASE MonPull
  BY <1>4 DEF MonPull
<1>5. CASE MonPublish
  BY <1>5 DEF MonPublish
<1> QED
  BY <1>1, <1>2, <1>3, <1>4, <1>5 DEF Monitor

(* Nobody but a request moves it, and nobody but the monitor the monitor.  *)
LEMMA OthersKeep ==
  ASSUME [Next]_vars, ~Request, pc # "idle"
  PROVE  /\ UNCHANGED <<request, links>>
         /\ ~Monitor => UNCHANGED monitor
<1>1. CASE UNCHANGED vars
  BY <1>1 DEF vars, request, monitor
<1>2. ~(\E functions \in Requests : Call(functions))
  BY DEF Call
<1>3. CASE Reset \/ DataSignal \/ Daemon
  BY <1>3 DEF Reset, DataSignal, Daemon, configfs
<1>4. CASE Monitor
  BY <1>4 DEF Monitor, MonStart, MonEpoll, MonEvent, MonPull, MonPublish, configfs
<1> QED
  BY <1>1, <1>2, <1>3, <1>4 DEF Next, Step

(* RequestReturns without the fairness: a request that is scheduled, and   *)
(* the monitor it joins, come nearer to their end with every step, for any *)
(* finite sets of functions.                                               *)
THEOREM RequestsGoOn == Spec => RequestGoesOn
<1> DEFINE Falls == \/ StepsLeft' < StepsLeft
                    \/ /\ StepsLeft' = StepsLeft
                       /\ LinksLeft' \subseteq LinksLeft /\ LinksLeft' # LinksLeft
<1>1. ASSUME [Next]_vars, ~Request, pc # "idle"
      PROVE  UNCHANGED <<StepsLeft, LinksLeft>>
  BY <1>1, OthersKeep DEF request, StepsLeft, LinksLeft, Linked
<1>2. ASSUME [Next]_vars, ~Request, pc = "join", ~Monitor
      PROVE  MonitorLeft' = MonitorLeft
  BY <1>2, OthersKeep DEF monitor, MonitorLeft
<1>3. StopInv /\ [Next]_vars
      => [/\ Request => Falls
          /\ ~Request /\ pc # "idle" => UNCHANGED <<StepsLeft, LinksLeft>>
          /\ ~Request /\ pc = "join" =>
               IF Monitor THEN MonitorLeft' < MonitorLeft ELSE MonitorLeft' = MonitorLeft]_vars
  BY <1>1, <1>2, RequestDescends, MonitorDescends
<1> QED
  BY StopInvHolds, <1>3, PTL DEF Spec, RequestGoesOn

-----------------------------------------------------------------------------
(* A pull-up the monitor owes the host: the premise of PullsUp.            *)
PullDue == Undisturbed /\ Noticed /\ host = {}

(* The monitor is then awake, about to be woken, or about to bind a gadget *)
(* that can be bound: no wake-up is lost.                                  *)
NoLostWakeup == PullDue => \/ mon \in {"start", "event"}
                           \/ mon = "wait" /\ pending
                           \/ mon = "pull" /\ CanBind

PullLeft == CASE mon = "wait" -> 3 [] mon \in {"start", "event"} -> 2 [] mon = "pull" -> 1 [] OTHER -> 0

(* Every step of the monitor brings a due pull-up nearer, and no other     *)
(* step puts it off.                                                       *)
PullGoesOn ==
  [][PullDue => \/ host' # {} \/ ~Undisturbed'
                \/ PullDue' /\ IF Monitor THEN PullLeft' < PullLeft ELSE PullLeft' = PullLeft]_vars

(* While no write fails, what is listed and watched is what is linked; a   *)
(* monitor whose look missed a daemon is told of the next change.          *)
ListedInv ==
  ~rough =>
    /\ pc \in {"sleep", "ids", "vendor"} => endpoints = {} /\ watched = {}
    /\ pc \in {"link", "udc", "spawn"} \/ (pc \in {"idle", "wait"} /\ mon # "off")
         => endpoints = links \cap Ffs /\ endpoints \subseteq watched
    /\ \A f \in host \cap Ffs : daemon[f] # "new"
WakeInv ==
  ~rough /\ pc \in {"idle", "wait"} /\ mon # "off" =>
    /\ links # {}
    /\ mon \in {"start", "pull"} => writeUdc
    /\ writeUdc /\ mon # "publish" /\ host # {} => \E f \in endpoints : daemon[f] = "dead"
    /\ writeUdc /\ mon = "wait" /\ DescriptorsPresent => pending

LEMMA ListedStep ==
  ASSUME Inv, TypeOK, ListedInv, [Next]_vars, ~rough, ~rough'
  PROVE  ListedInv'
<1> USE DEF ListedInv, Inv, StepInv, TypeOK
<1>1. CASE UNCHANGED vars
  BY <1>1 DEF vars
<1>2. CASE \E functions \in Requests : Call(functions)
  BY <1>2 DEF Call, monitor, fds, configfs, udc
<1>3. CASE ClearApplied \/ PullDown \/ ClearClass
  BY <1>3 DEF ClearApplied, PullDown, ClearClass, Reply, monitor, fds, configfs, udc
<1>4. CASE Unlink \/ Unlinked
  BY <1>4 DEF Unlink, Unlinked, Reply, request, monitor, fds, configfs, udc
<1>5. CASE StopMonitor \/ Join
  BY <1>5 DEF StopMonitor, Join, CloseFds, monitor, configfs, udc
<1>6. CASE Slept
  BY <1>6 DEF Slept, Reply, monitor, fds, configfs
<1>7. CASE SetVidPid \/ ReadVendor
  BY <1>7 DEF SetVidPid, ReadVendor, Reply, monitor, fds, configfs, udc
<1>8. CASE Link
  <2>1. PICK f \in Linked(current) \ links :
          /\ links' = links \cup {f}
          /\ endpoints' = endpoints \cup ({f} \cap Ffs)
          /\ watched' = watched \cup ({f} \cap Ffs)
    BY <1>8 DEF Link
  <2>2. pc = "link" /\ pc' = "link" /\ UNCHANGED <<host, daemon>>
    BY <1>8 DEF Link, request, udc
  <2>3. endpoints' = links' \cap Ffs /\ endpoints' \subseteq watched'
    BY <2>1, <2>2
  <2> QED
    BY <2>2, <2>3
<1>9. CASE AllLinked
  BY <1>9 DEF AllLinked, SetupFails, Reply, monitor, configfs, udc
<1>10. CASE PullUpNow \/ Waited
  BY <1>10 DEF PullUpNow, Waited, Bind, BindFails, CanBind, Reply, monitor, fds, configfs, udc
<1>11. CASE Spawn
  BY <1>11 DEF Spawn, SetupFails, Reply, monitor, fds, configfs, udc
<1>12. CASE Reset \/ DataSignal
  BY <1>12 DEF Reset, DataSignal, request, monitor, fds, configfs
<1>13. CASE MonStart \/ MonEpoll \/ MonEvent \/ MonPublish
  BY <1>13 DEF MonStart, MonEpoll, MonEvent, MonPublish, request, fds, configfs, udc, NextRound
<1>14. CASE MonPull
  BY <1>14 DEF MonPull, Bind, BindFails, CanBind, request, fds, configfs, udc, NextRound
<1>15. CASE Daemon
  <2>1. UNCHANGED <<pc, mon, links, endpoints, watched>>
    BY <1>15 DEF Daemon, request, monitor, configfs
  <2>2. PICK f \in Ffs : DaemonUp(f) \/ DaemonDies(f) \/ DaemonReturns(f)
    BY <1>15 DEF Daemon
  <2>3. \A g \in host' \cap Ffs : daemon'[g] # "new"
    BY <2>2 DEF DaemonUp, DaemonDies, DaemonReturns, udc
  <2> QED
    BY <2>1, <2>3
<1> QED
  BY <1>1, <1>2, <1>3, <1>4, <1>5, <1>6, <1>7, <1>8, <1>9, <1>10, <1>11, <1>12, <1>13, <1>14,
     <1>15 DEF Next, Step, Request, Monitor

LEMMA WakeStep ==
  ASSUME Inv, TypeOK, IdentityInv, StopInv, ListedInv, WakeInv, [Next]_vars, ~rough, ~rough'
  PROVE  WakeInv'
<1> USE DEF WakeInv, DescriptorsPresent
<1>1. CASE UNCHANGED vars
  BY <1>1 DEF vars
<1>2. CASE \E functions \in Requests : Call(functions)
  BY <1>2 DEF Call
<1>3. CASE ClearApplied \/ PullDown \/ ClearClass
  BY <1>3 DEF ClearApplied, PullDown, ClearClass
<1>4. CASE Unlink \/ Unlinked
  BY <1>4 DEF Unlink, Unlinked, request
<1>5. CASE StopMonitor \/ Join
  BY <1>5 DEF StopMonitor, Join
<1>6. CASE Slept \/ SetVidPid \/ ReadVendor
  BY <1>6 DEF Slept, SetVidPid, ReadVendor, Reply, monitor, Inv, StepInv
<1>7. CASE Link \/ AllLinked
  BY <1>7 DEF Link, AllLinked, request
<1>8. CASE PullUpNow
  BY <1>8 DEF PullUpNow, Reply, monitor, Inv, StepInv
<1>9. CASE Spawn
  <2>1. host = {}
    BY <1>9 DEF Spawn, Inv, StepInv, IdentityInv, HostIdentity
  <2> QED
    BY <1>9, <2>1 DEF Spawn, configfs, udc, Inv, StepInv, Linked
<1>10. CASE Waited
  BY <1>10 DEF Waited, Reply, monitor, fds, configfs, udc
<1>11. CASE Reset \/ DataSignal
  BY <1>11 DEF Reset, DataSignal, request, monitor, fds, configfs
<1>12. CASE Monitor /\ pc \in {"idle", "wait"}
  <2>0. /\ ~sawStop /\ ~flag /\ mon # "off" /\ mon # "done"
        /\ endpoints = links \cap Ffs
        /\ host # {} => host = links
    BY <1>12 DEF Monitor, MonStart, MonEpoll, MonEvent, MonPull, MonPublish, StopInv, ListedInv,
       IdentityInv, HostIdentity, Inv, BoundInv
  <2> USE <1>12, <2>0
  <2>1. CASE MonStart
    BY <2>1 DEF MonStart, request, fds, configfs, udc
  <2>2. CASE MonEpoll
    BY <2>2 DEF MonEpoll, request, fds, configfs, udc
  <2>3. CASE MonEvent
    <3>1. ~DescriptorsPresent /\ host # {} => \E f \in endpoints : daemon[f] = "dead"
      BY DEF ListedInv, TypeOK
    <3>2. UNCHANGED <<pc, links, endpoints, host, daemon>>
      BY <2>3 DEF MonEvent, request, configfs, udc
    <3> QED
      BY <2>3, <3>1, <3>2 DEF MonEvent, NextRound
  <2>4. CASE MonPull
    <3>1. ~CanBind => ~DescriptorsPresent
      BY <2>4 DEF MonPull, CanBind
    <3> QED
      BY <2>4, <3>1 DEF MonPull, Bind, BindFails, NextRound, request, fds, configfs, udc
  <2>5. CASE MonPublish
    BY <2>5 DEF MonPublish, NextRound, request, fds, configfs, udc
  <2> QED
    BY <2>1, <2>2, <2>3, <2>4, <2>5 DEF Monitor
<1>13. CASE Monitor /\ pc \notin {"idle", "wait"}
  BY <1>13 DEF Monitor, MonStart, MonEpoll, MonEvent, MonPull, MonPublish, request
<1>14. CASE Daemon
  <2>1. UNCHANGED <<pc, mon, writeUdc, links, endpoints, watched>>
    BY <1>14 DEF Daemon, request, monitor, configfs
  <2>2. PICK f \in Ffs : DaemonUp(f) \/ DaemonDies(f) \/ DaemonReturns(f)
    BY <1>14 DEF Daemon
  <2> SUFFICES ASSUME pc \in {"idle", "wait"}, mon # "off"
               PROVE  WakeInv'
    BY <2>1
  <2>3. /\ endpoints = links \cap Ffs /\ endpoints \subseteq watched
        /\ host # {} => host = links
    BY DEF ListedInv, IdentityInv, HostIdentity, Inv, BoundInv
  <2>4. writeUdc /\ mon # "publish" /\ host' # {} => \E g \in endpoints : daemon'[g] = "dead"
    BY <2>2, <2>3 DEF DaemonUp, DaemonDies, DaemonReturns, udc, TypeOK
  <2>5. DescriptorsPresent' => DescriptorsPresent \/ pending'
    BY <2>1, <2>2, <2>3 DEF DaemonUp, DaemonDies, DaemonReturns, Event, TypeOK
  <2>6. pending => pending'
    BY <2>2 DEF DaemonUp, DaemonDies, DaemonReturns, Event
  <2> QED
    BY <2>1, <2>4, <2>5, <2>6
<1> QED
  BY <1>1, <1>2, <1>3, <1>4, <1>5, <1>6, <1>7, <1>8, <1>9, <1>10, <1>11, <1>12, <1>13, <1>14
     DEF Next, Step, Request

(* What the last two theorems rest on.                                     *)
PullInv == Inv /\ TypeOK /\ IdentityInv /\ StopInv /\ ListedInv /\ WakeInv

LEMMA PullInvHolds == Spec => []PullInv
<1>1. Init => IdentityInv /\ ListedInv /\ WakeInv
  BY DEF Init, IdentityInv, HostIdentity, ListedInv, WakeInv
<1>2. Inv /\ TypeOK /\ StopInv /\ IdentityInv /\ ListedInv /\ WakeInv /\ [Next]_vars
      => IdentityInv' /\ ListedInv' /\ WakeInv'
  <2> SUFFICES ASSUME Inv, TypeOK, StopInv, IdentityInv, ListedInv, WakeInv, [Next]_vars
               PROVE  IdentityInv' /\ ListedInv' /\ WakeInv'
    OBVIOUS
  <2>1. UNCHANGED rough
    BY DEF Next, vars
  <2>2. CASE rough
    BY <2>1, <2>2 DEF IdentityInv, ListedInv, WakeInv
  <2>3. CASE ~rough
    <3>1. IdentityInv'
      <4>1. CASE UNCHANGED vars
        BY <4>1 DEF IdentityInv, HostIdentity, Announced, vars, Linked
      <4> QED
        BY <4>1, IdentityStep
    <3> QED
      BY <2>1, <2>3, <3>1, ListedStep, WakeStep
  <2> QED
    BY <2>2, <2>3
<1> QED
  BY InvariantHolds, TypeCorrect, StopInvHolds, <1>1, <1>2, PTL DEF Spec, PullInv

LEMMA DueIsAwake ==
  ASSUME PullInv
  PROVE  NoLostWakeup
<1> SUFFICES ASSUME PullDue
             PROVE  \/ mon \in {"start", "event"}
                    \/ mon = "wait" /\ pending
                    \/ mon = "pull" /\ CanBind
  BY DEF NoLostWakeup
<1> USE DEF PullDue, Undisturbed, Noticed, PullInv
<1>1. mon \in {"start", "event", "wait", "pull"}
  BY DEF TypeOK, StopInv
<1>2. mon = "wait" => pending
  BY DEF WakeInv
<1>3. mon = "pull" => CanBind
  BY DEF WakeInv, ListedInv, DescriptorsPresent, CanBind
<1> QED
  BY <1>1, <1>2, <1>3

(* Whenever a monitor owes the host a pull-up, it is awake or its wake-up  *)
(* is waiting in inotify, for any daemons that come and go.                *)
THEOREM WakeupsArrive == Spec => []NoLostWakeup
BY PullInvHolds, DueIsAwake, PTL

LEMMA MonitorPulls ==
  ASSUME PullInv, PullDue, UNCHANGED rough, Monitor
  PROVE  host' # {} \/ (PullDue' /\ PullLeft' < PullLeft)
<1> USE DEF PullDue, Undisturbed, Noticed, PullLeft, DescriptorsPresent
<1>1. ~sawStop /\ ~flag
  BY DEF PullInv, StopInv
<1>2. CASE MonStart
  BY <1>2 DEF MonStart, request, fds, configfs, udc
<1>3. CASE MonEpoll
  BY <1>1, <1>3 DEF MonEpoll, request, fds, configfs, udc
<1>4. CASE MonEvent
  <2>1. writeUdc'
    BY <1>4, Zenon DEF MonEvent
  <2>2. mon = "event" /\ mon' = "pull" /\ UNCHANGED <<pc, host, endpoints, daemon>>
    BY <1>4 DEF MonEvent, request, udc
  <2> QED
    BY <2>1, <2>2
<1>5. CASE MonPull
  <2>1. CanBind /\ links # {}
    BY <1>5, DueIsAwake DEF MonPull, CanBind, NoLostWakeup
  <2> QED
    BY <1>5, <2>1 DEF MonPull, Bind, BindFails
<1>6. ~MonPublish
  BY DEF MonPublish
<1> QED
  BY <1>2, <1>3, <1>4, <1>5, <1>6 DEF Monitor

LEMMA OthersLeavePull ==
  ASSUME PullInv, PullDue, [Next]_vars, ~Monitor
  PROVE  ~Undisturbed' \/ (PullDue' /\ PullLeft' = PullLeft)
<1> USE DEF PullDue, Undisturbed, Noticed, PullLeft
<1>1. CASE UNCHANGED vars
  BY <1>1 DEF vars, DescriptorsPresent
<1>2. CASE \E functions \in Requests : Call(functions)
  BY <1>2 DEF Call
<1>3. CASE Request
  <2>1. Request => Waited \/ pc \notin {"idle", "wait"}
    BY DEF Request, ClearApplied, PullDown, ClearClass, Unlink, Unlinked, StopMonitor, Join, Slept,
       SetVidPid, ReadVendor, Link, AllLinked, PullUpNow, Spawn
  <2>2. Waited
    BY <1>3, <2>1
  <2> QED
    BY <2>2, <1>3 DEF Waited, Reply, monitor, fds, udc, DescriptorsPresent, Next, vars
<1>4. ~Reset /\ ~DataSignal
  BY DEF Reset, DataSignal
<1>5. CASE Daemon
  <2>1. UNCHANGED <<pc, mon, writeUdc>>
    BY <1>5 DEF Daemon, request, monitor
  <2>2. host' = {}
    BY <1>5 DEF Daemon, DaemonUp, DaemonDies, DaemonReturns, udc
  <2> QED
    BY <2>1, <2>2
<1> QED
  BY <1>1, <1>2, <1>3, <1>4, <1>5 DEF Next, Step

(* PullsUp without the fairness: a pull-up that is due stays due until the *)
(* host sees the gadget or something undoes its premise, and is at most    *)
(* three steps of the monitor away.                                        *)
THEOREM PullsGoOn == Spec => PullGoesOn
<1>1. PullInv /\ [Next]_vars
      => [PullDue => \/ host' # {} \/ ~Undisturbed'
                     \/ PullDue' /\ IF Monitor THEN PullLeft' < PullLeft
                                                ELSE PullLeft' = PullLeft]_vars
  <2> SUFFICES ASSUME PullInv, [Next]_vars, PullDue
               PROVE  \/ host' # {} \/ ~Undisturbed'
                      \/ PullDue' /\ IF Monitor THEN PullLeft' < PullLeft
                                                 ELSE PullLeft' = PullLeft
    OBVIOUS
  <2>1. UNCHANGED rough
    BY DEF Next, vars
  <2>2. CASE Monitor
    BY <2>1, <2>2, MonitorPulls
  <2>3. CASE ~Monitor
    BY <2>3, OthersLeavePull
  <2> QED
    BY <2>2, <2>3
<1> QED
  BY PullInvHolds, <1>1, PTL DEF Spec, PullGoesOn
=============================================================================
