---------------------------- MODULE UsbPortProofs ----------------------------
(***************************************************************************)
(* Proofs about the USB HAL, for any number of binder threads and workers, *)
(* any calls and any length of the uevent queues.                          *)
(***************************************************************************)
EXTENDS UsbPort, TLAPS

BinderAt == {"idle", "set", "kill", "join", "switch", "write", "swap", "waiting", "relock", "drp",
             "report", "cast", "query", "notify"}
WorkerAt == {"none", "exited", "failed", "start", "check", "enter", "poll", "signal", "cast", "query",
             "notify", "trylock", "probe", "restore"}

(* Threads are where their code is; setCallback joins workers only.        *)
PcInv == /\ pc \in [Threads -> BinderAt \cup WorkerAt]
         /\ \A b \in Binders : pc[b] \in BinderAt
         /\ \A w \in Workers : pc[w] \in WorkerAt
JoinInv == /\ mPoll \in Workers \cup {Free}
           /\ joins \in [Binders -> Workers \cup {Free}]
DataInv == /\ callback \in Callbacks \cup {Free}
           /\ arg \in [Threads -> Callbacks \cup {Free, "mode", "power"}]
           /\ result \in [Binders -> {"none", "ok", "ETIMEDOUT", "SUCCESS", "ERROR"}]
           /\ mode \in {"dual", "ufp"}

(* mRoleSwitchLock is held wherever the port's role is decided.            *)
InSwitch(t) == pc[t] \in {"write", "swap", "waiting", "relock", "drp", "report", "probe", "restore"}
LockInv == \A t \in Threads : InSwitch(t) => mRoleSwitchLock = t

(* While mPartnerLock is held no partner is announced.                     *)
SignalInv == mPartnerLock # Free => ~mPartnerUp

(* setCallback's argument is a callback; only a mode switch goes through   *)
(* switchMode.                                                             *)
ArgInv == \A b \in Binders : /\ pc[b] = "set" => arg[b] \in Callbacks \cup {Free}
                             /\ pc[b] = "swap" => arg[b] # "mode"

Inv == /\ PcInv /\ JoinInv /\ DataInv /\ LockInv /\ SignalInv /\ ArgInv
       /\ NoLostSignal /\ SwitchUndisturbed /\ FailureRestores

(* setCallback keeps away from the port's role.                            *)
LEMMA SetCallbackStep ==
  ASSUME Inv, NEW b \in Binders,
         \/ CallSetCallback(b) \/ UpdateCallback(b) \/ Unregister(b) \/ Register(b)
         \/ Kill(b) \/ Join(b)
  PROVE  Inv'
<1> USE CallsAssumption DEF Goto, At, locks, worker, port, Threads, Inv, PcInv, JoinInv, DataInv,
        LockInv, InSwitch, SignalInv, ArgInv, NoLostSignal, SwitchUndisturbed, FailureRestores,
        BinderAt, WorkerAt
<1>1. CASE CallSetCallback(b)
  BY <1>1 DEF CallSetCallback
<1>2. CASE UpdateCallback(b)
  BY <1>2 DEF UpdateCallback
<1>3. CASE Unregister(b)
  BY <1>3 DEF Unregister
<1>4. CASE Register(b)
  <2>1. CASE Goto(b, "idle") /\ UNCHANGED <<mPoll, callback>>
    BY <1>4, <2>1 DEF Register
  <2>2. CASE \E w \in Workers : /\ Unused(w)
                                /\ mPoll' = w
                                /\ pc' = [pc EXCEPT ![b] = "idle", ![w] = "start"]
    <3>1. PICK w \in Workers : /\ Unused(w)
                               /\ mPoll' = w
                               /\ pc' = [pc EXCEPT ![b] = "idle", ![w] = "start"]
      BY <2>2
    <3>2. /\ callback' = arg[b]
          /\ UNCHANGED <<joins, mRoleSwitchLock, mPartnerLock, mPartnerUp, arg, result, port>>
      BY <1>4, <3>1, <2>2 DEF Register, Unused, Asleep, Ended
    <3>3. \A t \in Threads : pc'[t] = IF t = w THEN "start" ELSE IF t = b THEN "idle" ELSE pc[t]
      BY <3>1
    <3>4. PcInv' /\ JoinInv' /\ ArgInv'
      BY <3>1, <3>2, <3>3
    <3>5. DataInv'
      BY <1>4, <3>2 DEF Register
    <3>6. LockInv' /\ SignalInv' /\ NoLostSignal' /\ SwitchUndisturbed' /\ FailureRestores'
      BY <3>2, <3>3
    <3> QED
      BY <3>4, <3>5, <3>6
  <2> QED
    BY <1>4, <2>1, <2>2 DEF Register
<1>5. CASE Kill(b)
  BY <1>5 DEF Kill
<1>6. CASE Join(b)
  <2>1. CASE joins[b] = Free
    BY <1>6, <2>1 DEF Join
  <2>2. CASE joins[b] # Free
    <3>1. PICK w \in Workers : w = joins[b]
      BY <2>2 DEF Inv, JoinInv
    <3> QED
      BY <1>6, <2>2, <3>1 DEF Join
  <2> QED
    BY <2>1, <2>2
<1> QED
  BY <1>1, <1>2, <1>3, <1>4, <1>5, <1>6

LEMMA SwitchRoleStep ==
  ASSUME Inv, NEW b \in Binders,
         \/ CallSwitchRole(b) \/ SwitchRole(b) \/ SwapRole(b) \/ LockPartner(b) \/ WriteMode(b)
         \/ Timeout(b) \/ SpuriousWakeup(b) \/ Wakeup(b) \/ SwitchToDrp(b) \/ Report(b)
  PROVE  Inv'
<1> USE CallsAssumption DEF Goto, At, locks, worker, port, Threads, Inv, PcInv, JoinInv, DataInv,
        LockInv, InSwitch, SignalInv, ArgInv, NoLostSignal, SwitchUndisturbed, FailureRestores,
        BinderAt
<1>1. CASE CallSwitchRole(b)
  BY <1>1 DEF CallSwitchRole
<1>2. CASE SwitchRole(b)
  BY <1>2 DEF SwitchRole
<1>3. CASE SwapRole(b)
  BY <1>3 DEF SwapRole
<1>4. CASE LockPartner(b)
  BY <1>4 DEF LockPartner
<1>5. CASE WriteMode(b)
  BY <1>5 DEF WriteMode
<1>6. CASE Timeout(b)
  BY <1>6 DEF Timeout
<1>7. CASE SpuriousWakeup(b)
  BY <1>7 DEF SpuriousWakeup
<1>8. CASE Wakeup(b)
  BY <1>8 DEF Wakeup
<1>9. CASE SwitchToDrp(b)
  BY <1>9 DEF SwitchToDrp
<1>10. CASE Report(b)
  BY <1>10 DEF Report
<1> QED
  BY <1>1, <1>2, <1>3, <1>4, <1>5, <1>6, <1>7, <1>8, <1>9, <1>10

(* queryVersionHelper leaves the role alone, whichever thread calls it.    *)
LEMMA QueryStep ==
  ASSUME Inv, NEW t \in Threads,
         \/ t \in Binders /\ CallQuery(t)
         \/ Cast(t) \/ Query(t) \/ Notify(t)
  PROVE  Inv'
<1> USE CallsAssumption DEF Goto, At, locks, worker, port, Threads, Inv, PcInv, JoinInv, DataInv,
        LockInv, InSwitch, SignalInv, ArgInv, NoLostSignal, SwitchUndisturbed, FailureRestores,
        BinderAt, WorkerAt
<1>0. callback \in Callbacks \cup {Free}
  OBVIOUS
<1>1. CASE t \in Binders /\ CallQuery(t)
  BY <1>1 DEF CallQuery
<1>2. CASE Cast(t)
  BY <1>0, <1>2 DEF Cast
<1>3. CASE Query(t)
  BY <1>3 DEF Query
<1>4. CASE Notify(t)
  BY <1>4 DEF Notify
<1> QED
  BY <1>1, <1>2, <1>3, <1>4

(* The worker touches the role only between TryLock and Restore, and no    *)
(* thread waits for a partner any more once one is announced.              *)
LEMMA WorkerStep ==
  ASSUME Inv, NEW w \in Workers,
         \/ OpenSocket(w) \/ CheckDestroy(w) \/ EnterPoll(w) \/ ReadUevent(w)
         \/ SignalPartner(w) \/ TryLock(w) \/ Probe(w) \/ Restore(w) \/ Handle(w)
  PROVE  Inv'
<1> USE CallsAssumption DEF Goto, At, locks, worker, port, Threads, Inv, PcInv, JoinInv, DataInv,
        LockInv, InSwitch, SignalInv, ArgInv, NoLostSignal, SwitchUndisturbed, FailureRestores,
        BinderAt, WorkerAt
<1>1. CASE OpenSocket(w)
  BY <1>1 DEF OpenSocket, Fails, Ends
<1>2. CASE CheckDestroy(w)
  BY <1>2 DEF CheckDestroy, Ends
<1>3. CASE EnterPoll(w)
  BY <1>3 DEF EnterPoll, Fails, Ends
<1>4. CASE ReadUevent(w)
  BY <1>4 DEF ReadUevent
<1>5. CASE SignalPartner(w)
  BY <1>5 DEF SignalPartner, Woken
<1>6. CASE TryLock(w)
  BY <1>6 DEF TryLock
<1>7. CASE Probe(w)
  BY <1>7 DEF Probe, Release
<1>8. CASE Restore(w)
  BY <1>8 DEF Restore, Release
<1>9. CASE Handle(w)
  BY <1>9 DEF Handle
<1> QED
  BY <1>1, <1>2, <1>3, <1>4, <1>5, <1>6, <1>7, <1>8, <1>9

(* The inductive invariant holds.  PartnerChange touches none of it.       *)
THEOREM InvariantHolds == Spec => []Inv
<1>1. Init => Inv
  BY CallsAssumption DEF Init, Inv, PcInv, JoinInv, DataInv, LockInv, InSwitch, SignalInv, ArgInv,
     NoLostSignal, SwitchUndisturbed, FailureRestores, At, Threads, BinderAt, WorkerAt
<1>2. Inv /\ [Next]_vars => Inv'
  <2> SUFFICES ASSUME Inv, [Next]_vars PROVE Inv'
    OBVIOUS
  <2>1. CASE \E b \in Binders : Call(b) \/ Binder(b) \/ Timeout(b) \/ SpuriousWakeup(b)
    <3>1. PICK b \in Binders : Call(b) \/ Binder(b) \/ Timeout(b) \/ SpuriousWakeup(b)
      BY <2>1
    <3>2. b \in Threads
      BY DEF Threads
    <3> QED
      BY <3>1, <3>2, SetCallbackStep, SwitchRoleStep, QueryStep DEF Call, Binder
  <2>2. CASE \E w \in Workers : Worker(w) \/ Handle(w)
    <3>1. PICK w \in Workers : Worker(w) \/ Handle(w)
      BY <2>2
    <3>2. w \in Threads
      BY DEF Threads
    <3> QED
      BY <3>1, <3>2, WorkerStep, QueryStep DEF Worker
  <2>3. CASE PartnerChange
    BY <2>3 DEF PartnerChange, Inv, PcInv, JoinInv, DataInv, LockInv, InSwitch, SignalInv, ArgInv,
       NoLostSignal, SwitchUndisturbed, FailureRestores, At, worker, locks
  <2>4. CASE UNCHANGED vars
    BY <2>4 DEF vars, Inv, PcInv, JoinInv, DataInv, LockInv, InSwitch, SignalInv, ArgInv,
       NoLostSignal, SwitchUndisturbed, FailureRestores, At
  <2> QED
    BY <2>1, <2>2, <2>3, <2>4 DEF Next
<1> QED
  BY <1>1, <1>2, PTL DEF Spec

(* However many workers hear of the partner, a switch never sleeps on      *)
(* after its arrival was announced ("to prevent loosing connected          *)
(* signals").                                                              *)
THEOREM ArrivalHeard == Spec => []NoLostSignal
<1>1. Inv => NoLostSignal
  BY DEF Inv
<1> QED
  BY <1>1, InvariantHolds, PTL

(* No worker and no other switch changes the role a waiting switch wrote.  *)
THEOREM RoleStays == Spec => []SwitchUndisturbed
<1>1. Inv => SwitchUndisturbed
  BY DEF Inv
<1> QED
  BY <1>1, InvariantHolds, PTL

(* switchRole reports a failed mode switch with the port dual-role again,  *)
(* unless writing that failed as well, which the code only logs.           *)
THEOREM BackToDrp == Spec => []FailureRestores
<1>1. Inv => FailureRestores
  BY DEF Inv
<1> QED
  BY <1>1, InvariantHolds, PTL

(* What Inv says nothing of: flags, mutexes, signals and sockets.          *)
LockType == /\ mLock \in Threads \cup {Free}
            /\ mRoleSwitchLock \in Threads \cup {Free}
            /\ mPartnerLock \in Threads \cup {Free}
            /\ wrote \in {"dual", "ufp"}
FlagType == /\ destroyThread \in BOOLEAN /\ mPartnerUp \in BOOLEAN
            /\ signalled \in [Workers -> BOOLEAN]
            /\ partner \in BOOLEAN /\ drpFailed \in BOOLEAN
QueueType == queue \in [Workers -> Seq({"add", "remove"})]

LEMMA BinderTypes ==
  ASSUME mode \in {"dual", "ufp"}, LockType, FlagType, QueueType, NEW b \in Binders,
         Call(b) \/ Binder(b) \/ Timeout(b) \/ SpuriousWakeup(b)
  PROVE  LockType' /\ FlagType' /\ QueueType'
<1> USE DEF locks, worker, port, Threads, LockType, FlagType, QueueType
<1>1. CASE Call(b) \/ UpdateCallback(b) \/ Unregister(b) \/ Register(b) \/ Kill(b) \/ Join(b)
  BY <1>1 DEF Call, CallSetCallback, CallSwitchRole, CallQuery, UpdateCallback, Unregister,
     Register, Kill, Join
<1>2. CASE SwitchRole(b) \/ SwapRole(b) \/ LockPartner(b) \/ WriteMode(b)
  BY <1>2 DEF SwitchRole, SwapRole, LockPartner, WriteMode
<1>3. CASE Timeout(b) \/ SpuriousWakeup(b)
  BY <1>3 DEF Timeout, SpuriousWakeup
<1>4. CASE Wakeup(b)
  BY <1>4 DEF Wakeup
<1>5. CASE SwitchToDrp(b) \/ Report(b)
  BY <1>5 DEF SwitchToDrp, Report
<1>6. CASE Cast(b) \/ Query(b) \/ Notify(b)
  BY <1>6 DEF Cast, Query, Notify
<1> QED
  BY <1>1, <1>2, <1>3, <1>4, <1>5, <1>6 DEF Binder

LEMMA WorkerTypes ==
  ASSUME mode \in {"dual", "ufp"}, LockType, FlagType, QueueType, NEW w \in Workers,
         Worker(w) \/ Handle(w)
  PROVE  LockType' /\ FlagType' /\ QueueType'
<1> USE DEF locks, worker, port, Threads, LockType, FlagType, QueueType
<1>1. << >> \in Seq({"add", "remove"})
  OBVIOUS
<1>2. CASE OpenSocket(w)
  BY <1>1, <1>2 DEF OpenSocket, Fails, Ends
<1>3. CASE CheckDestroy(w)
  BY <1>1, <1>3 DEF CheckDestroy, Ends
<1>4. CASE EnterPoll(w)
  BY <1>1, <1>4 DEF EnterPoll, Fails, Ends
<1>5. CASE ReadUevent(w)
  BY <1>5 DEF ReadUevent
<1>6. CASE SignalPartner(w) \/ TryLock(w)
  BY <1>6 DEF SignalPartner, TryLock
<1>7. CASE Probe(w) \/ Restore(w)
  BY <1>7 DEF Probe, Restore, Release
<1>8. CASE Handle(w)
  BY <1>8 DEF Handle
<1>9. CASE Cast(w) \/ Query(w) \/ Notify(w)
  BY <1>9 DEF Cast, Query, Notify
<1> QED
  BY <1>1, <1>2, <1>3, <1>4, <1>5, <1>6, <1>7, <1>8, <1>9 DEF Worker

(* Every variable keeps its type: what is kept as the callback is always a *)
(* client's object, and the role written is one the port knows.            *)
THEOREM TypeCorrect == Spec => []TypeOK
<1> DEFINE Types == LockType /\ FlagType /\ QueueType
<1>1. Init => Types
  <2> SUFFICES ASSUME Init PROVE Types
    OBVIOUS
  <2>1. LockType
    BY DEF Init, LockType
  <2>2. FlagType
    BY DEF Init, FlagType
  <2>3. << >> \in Seq({"add", "remove"})
    OBVIOUS
  <2>4. QueueType
    BY <2>3 DEF Init, QueueType
  <2> QED
    BY <2>1, <2>2, <2>4
<1>2. Inv /\ Types /\ [Next]_vars => Types'
  <2> SUFFICES ASSUME Inv, Types, [Next]_vars PROVE Types'
    OBVIOUS
  <2>0. mode \in {"dual", "ufp"}
    BY DEF Inv, DataInv
  <2>1. CASE PartnerChange
    <3>1. LockType'
      BY <2>1 DEF PartnerChange, LockType, locks
    <3>2. FlagType'
      BY <2>1 DEF PartnerChange, FlagType, worker
    <3>3. QueueType'
      BY <2>1 DEF PartnerChange, QueueType
    <3> QED
      BY <3>1, <3>2, <3>3
  <2>2. CASE UNCHANGED vars
    BY <2>2 DEF vars, LockType, FlagType, QueueType
  <2> QED
    BY <2>0, <2>1, <2>2, BinderTypes, WorkerTypes DEF Next
<1>3. Inv /\ Types => TypeOK
  BY DEF Inv, PcInv, JoinInv, DataInv, BinderAt, WorkerAt, Asleep, Ended, TypeOK, LockType, FlagType,
     QueueType, Threads
<1> QED
  BY <1>1, <1>2, <1>3, InvariantHolds, PTL DEF Spec

-----------------------------------------------------------------------------
(* The worker and the callback, when c is the one thread that calls        *)
(* setCallback: there is no worker but the one created last; while the     *)
(* callback is registered nothing tells that one to end, so that only an   *)
(* error of its own ends it; and c is the only thread that waits for it.   *)
Ending == {"kill", "join"}

ClientInv(c) ==
  /\ \A b \in Binders \ {c} : pc[b] \notin {"set"} \cup Ending
  /\ \A w \in Workers : w # mPoll => pc[w] \in Asleep
  /\ \A w \in Workers : pc[w] \in Asleep => signalled[w] = FALSE
  /\ pc[c] \in Ending => callback = Free /\ mPoll \in Workers
  /\ pc[c] = "join" => destroyThread \/ signalled[mPoll] \/ pc[mPoll] \in Ended
  /\ joins[c] # Free => pc[c] = "join" /\ joins[c] = mPoll
  /\ callback # Free \/ pc[c] = "kill" =>
       /\ mPoll \in Workers /\ pc[mPoll] \notin {"none", "exited"}
       /\ destroyThread = FALSE /\ signalled[mPoll] = FALSE
  /\ callback = Free /\ pc[c] \notin Ending => \A w \in Workers : pc[w] \in Asleep

OneClient(c) == \A b \in Binders \ {c} : "setCallback" \notin Calls[b]

LEMMA ClientBinder ==
  ASSUME Inv, FlagType, NEW c \in Binders, OneClient(c), ClientInv(c), NEW b \in Binders,
         Call(b) \/ Binder(b) \/ Timeout(b) \/ SpuriousWakeup(b)
  PROVE  ClientInv(c)'
<1> USE CallsAssumption DEF ClientInv, Ending, Goto, At, locks, worker, port, Threads, Asleep, Ended,
        Inv, PcInv, JoinInv, FlagType, BinderAt, WorkerAt
<1>1. CASE CallSetCallback(b)
  BY <1>1 DEF CallSetCallback, OneClient
<1>2. CASE UpdateCallback(b)
  BY <1>2 DEF UpdateCallback
<1>3. CASE Unregister(b)
  BY <1>3 DEF Unregister
<1>4. CASE Register(b)
  BY <1>4 DEF Register, Unused
<1>5. CASE Kill(b)
  BY <1>5 DEF Kill
<1>6. CASE Join(b)
  BY <1>6 DEF Join
<1>7. CASE CallSwitchRole(b) \/ CallQuery(b) \/ SwitchRole(b) \/ SwapRole(b)
  BY <1>7 DEF CallSwitchRole, CallQuery, SwitchRole, SwapRole
<1>8. CASE LockPartner(b) \/ WriteMode(b) \/ Timeout(b) \/ SpuriousWakeup(b) \/ Wakeup(b)
  BY <1>8 DEF LockPartner, WriteMode, Timeout, SpuriousWakeup, Wakeup
<1>9. CASE SwitchToDrp(b) \/ Report(b) \/ Cast(b) \/ Query(b) \/ Notify(b)
  BY <1>9 DEF SwitchToDrp, Report, Cast, Query, Notify
<1> QED
  BY <1>1, <1>2, <1>3, <1>4, <1>5, <1>6, <1>7, <1>8, <1>9 DEF Call, Binder

LEMMA ClientWorker ==
  ASSUME Inv, FlagType, NEW c \in Binders, ClientInv(c), NEW w \in Workers,
         Worker(w) \/ Handle(w)
  PROVE  ClientInv(c)'
<1> USE CallsAssumption DEF ClientInv, Ending, Goto, At, locks, worker, port, Threads, Asleep, Ended,
        Inv, PcInv, JoinInv, FlagType, BinderAt, WorkerAt
<1>1. CASE OpenSocket(w) \/ EnterPoll(w) \/ ReadUevent(w)
  BY <1>1 DEF OpenSocket, EnterPoll, ReadUevent, Fails, Ends
<1>2. CASE CheckDestroy(w)
  BY <1>2 DEF CheckDestroy, Ends
<1>3. CASE SignalPartner(w)
  BY <1>3 DEF SignalPartner, Woken
<1>4. CASE Cast(w) \/ Query(w) \/ Notify(w)
  BY <1>4 DEF Cast, Query, Notify
<1>5. CASE TryLock(w) \/ Probe(w) \/ Restore(w)
  BY <1>5 DEF TryLock, Probe, Restore
<1>6. CASE Handle(w)
  BY <1>6 DEF Handle
<1> QED
  BY <1>1, <1>2, <1>3, <1>4, <1>5, <1>6 DEF Worker

LEMMA ClientInvHolds ==
  ASSUME NEW c \in Binders, OneClient(c)
  PROVE  Spec => []ClientInv(c)
<1>1. Init => ClientInv(c)
  BY CallsAssumption DEF Init, ClientInv, Ending, Asleep, Ended, Threads
<1>2. Inv /\ TypeOK /\ ClientInv(c) /\ [Next]_vars => ClientInv(c)'
  <2> SUFFICES ASSUME Inv, TypeOK, ClientInv(c), [Next]_vars PROVE ClientInv(c)'
    OBVIOUS
  <2>1. FlagType
    BY DEF TypeOK, FlagType
  <2>2. CASE \E b \in Binders : Call(b) \/ Binder(b) \/ Timeout(b) \/ SpuriousWakeup(b)
    BY <2>1, <2>2, ClientBinder
  <2>3. CASE \E w \in Workers : Worker(w) \/ Handle(w)
    BY <2>1, <2>3, ClientWorker
  <2>4. CASE PartnerChange
    BY <2>4 DEF PartnerChange, ClientInv, worker
  <2>5. CASE UNCHANGED vars
    BY <2>5 DEF vars, ClientInv
  <2> QED
    BY <2>2, <2>3, <2>4, <2>5 DEF Next
<1> QED
  BY <1>1, <1>2, InvariantHolds, TypeCorrect, PTL DEF Spec

(* For any number of other binder threads that switch roles and ask for    *)
(* the status, and whatever uevents come: a registered callback has a      *)
(* worker that nothing tells to end and that has not ended unless on an    *)
(* error of its own, and after setCallback(NULL) no worker is left,        *)
(* however often the client registers and removes its callback.            *)
THEOREM WorkerStays ==
  ASSUME NEW c \in Binders, OneClient(c)
  PROVE  Spec => []WorkerFollowsCallback
<1>1. ClientInv(c) => WorkerFollowsCallback
  BY DEF ClientInv, Ending, WorkerFollowsCallback, Alive, Asleep, Ended, At
<1> QED
  BY <1>1, ClientInvHolds, PTL

(* The client that waits for the end of its worker has told it to end:     *)
(* SIGUSR1 is pending, the flag it sets is set, or the worker has ended.   *)
(* That the worker looks at the flag again is what BusyUnregister needs    *)
(* uevents for.                                                            *)
EndIsTold == \A b \in Binders : At(b, "join") => \/ destroyThread
                                                \/ signalled[mPoll]
                                                \/ pc[mPoll] \in Ended

THEOREM JoinedIsTold ==
  ASSUME NEW c \in Binders, OneClient(c)
  PROVE  Spec => []EndIsTold
<1>1. ClientInv(c) => EndIsTold
  BY DEF ClientInv, Ending, EndIsTold, At
<1> QED
  BY <1>1, ClientInvHolds, PTL

-----------------------------------------------------------------------------
(* The order of the locks: mRoleSwitchLock, mPartnerLock, mLock.  Whoever  *)
(* asks for one of them holds neither it nor a later one, and whoever      *)
(* joins the worker, which may ask for any, holds none: no threads wait    *)
(* for each other in a circle.                                             *)
AsksRoleSwitchLock(t) == pc[t] = "switch"
AsksPartnerLock(t) == pc[t] \in {"relock", "signal"} \/ (pc[t] = "write" /\ mPartnerLock # t)
AsksLock(t) == pc[t] \in {"set", "query", "report"}

LocksOrdered ==
  \A t \in Threads : /\ AsksRoleSwitchLock(t) \/ pc[t] = "join"
                       => t \notin {mRoleSwitchLock, mPartnerLock, mLock}
                     /\ AsksPartnerLock(t) => t \notin {mPartnerLock, mLock}
                     /\ AsksLock(t) => t # mLock

(* Where a thread is that holds a mutex.                                   *)
HoldInv == \A t \in Threads : /\ mLock = t => pc[t] = "notify"
                              /\ mPartnerLock = t => pc[t] = "write"
                              /\ mRoleSwitchLock = t => InSwitch(t)

LEMMA HoldBinder ==
  ASSUME Inv, HoldInv, NEW b \in Binders,
         Call(b) \/ Binder(b) \/ Timeout(b) \/ SpuriousWakeup(b)
  PROVE  HoldInv'
<1> USE CallsAssumption DEF HoldInv, InSwitch, Goto, At, locks, Threads, Inv, PcInv, BinderAt, WorkerAt
<1>1. CASE CallSetCallback(b) \/ CallSwitchRole(b) \/ CallQuery(b)
  BY <1>1 DEF CallSetCallback, CallSwitchRole, CallQuery
<1>2. CASE UpdateCallback(b) \/ Unregister(b) \/ Kill(b)
  BY <1>2 DEF UpdateCallback, Unregister, Kill
<1>3. CASE Register(b)
  BY <1>3 DEF Register, Unused, Asleep, Ended
<1>4. CASE Join(b)
  BY <1>4 DEF Join, JoinInv, Ended
<1>5. CASE SwitchRole(b) \/ SwapRole(b)
  BY <1>5 DEF SwitchRole, SwapRole
<1>6. CASE LockPartner(b)
  BY <1>6 DEF LockPartner
<1>7. CASE WriteMode(b)
  BY <1>7 DEF WriteMode
<1>8. CASE Timeout(b) \/ SpuriousWakeup(b) \/ Wakeup(b)
  BY <1>8 DEF Timeout, SpuriousWakeup, Wakeup
<1>9. CASE SwitchToDrp(b) \/ Report(b)
  BY <1>9 DEF SwitchToDrp, Report
<1>10. CASE Cast(b) \/ Query(b) \/ Notify(b)
  BY <1>10 DEF Cast, Query, Notify
<1> QED
  BY <1>1, <1>2, <1>3, <1>4, <1>5, <1>6, <1>7, <1>8, <1>9, <1>10 DEF Call, Binder

LEMMA HoldWorker ==
  ASSUME Inv, HoldInv, NEW w \in Workers, Worker(w) \/ Handle(w)
  PROVE  HoldInv'
<1> USE CallsAssumption DEF HoldInv, InSwitch, Goto, At, locks, Threads, Inv, PcInv, BinderAt, WorkerAt
<1>1. CASE OpenSocket(w) \/ CheckDestroy(w) \/ EnterPoll(w) \/ ReadUevent(w)
  BY <1>1 DEF OpenSocket, CheckDestroy, EnterPoll, ReadUevent, Fails, Ends
<1>2. CASE SignalPartner(w)
  BY <1>2 DEF SignalPartner, Woken
<1>3. CASE Cast(w) \/ Query(w) \/ Notify(w)
  BY <1>3 DEF Cast, Query, Notify
<1>4. CASE TryLock(w) \/ Probe(w) \/ Restore(w)
  BY <1>4 DEF TryLock, Probe, Restore, Release
<1>5. CASE Handle(w)
  BY <1>5 DEF Handle
<1> QED
  BY <1>1, <1>2, <1>3, <1>4, <1>5 DEF Worker

LEMMA HoldInvHolds == Spec => []HoldInv
<1>1. Init => HoldInv
  BY CallsAssumption DEF Init, HoldInv
<1>2. Inv /\ HoldInv /\ [Next]_vars => HoldInv'
  <2> SUFFICES ASSUME Inv, HoldInv, [Next]_vars PROVE HoldInv'
    OBVIOUS
  <2>1. CASE PartnerChange
    BY <2>1 DEF PartnerChange, HoldInv, InSwitch, locks
  <2>2. CASE UNCHANGED vars
    BY <2>2 DEF vars, HoldInv, InSwitch
  <2> QED
    BY <2>1, <2>2, HoldBinder, HoldWorker DEF Next
<1> QED
  BY <1>1, <1>2, InvariantHolds, PTL DEF Spec

(* For any number of threads no circle of waiting threads can close.       *)
THEOREM NoCircularWait == Spec => []LocksOrdered
<1>1. HoldInv => LocksOrdered
  BY DEF HoldInv, LocksOrdered, AsksRoleSwitchLock, AsksPartnerLock, AsksLock, InSwitch
<1> QED
  BY <1>1, HoldInvHolds, PTL

(* The steps switchRole has left.  A wake-up without a partner leads back  *)
(* to the wait; the timeout alone ends that.                               *)
SwitchLeft(b) == CASE pc[b] = "switch" -> 7
                   [] pc[b] = "write" -> (IF mPartnerLock = b THEN 5 ELSE 6)
                   [] pc[b] = "waiting" -> 4
                   [] pc[b] = "relock" -> (IF result[b] = "ETIMEDOUT" \/ mPartnerUp THEN 3 ELSE 4)
                   [] pc[b] \in {"swap", "drp"} -> 2
                   [] pc[b] = "report" -> 1
                   [] OTHER -> 0
WaitsAgain(b) == pc[b] = "relock" /\ result[b] = "ok" /\ ~mPartnerUp

(* Every step of a switch, and its timeout, brings its end nearer, unless  *)
(* it waits again, and no step of another thread takes it back.            *)
SwitchGoesOn ==
  [][\A b \in Binders : Switching(b) =>
        /\ SwitchLeft(b)' <= SwitchLeft(b)
        /\ (Binder(b) /\ ~WaitsAgain(b)) \/ Timeout(b) => SwitchLeft(b)' < SwitchLeft(b)]_vars

LEMMA OwnStepDescends ==
  ASSUME Inv, NEW b \in Binders, Switching(b),
         Call(b) \/ Binder(b) \/ Timeout(b) \/ SpuriousWakeup(b)
  PROVE  /\ SwitchLeft(b)' <= SwitchLeft(b)
         /\ (Binder(b) /\ ~WaitsAgain(b)) \/ Timeout(b) => SwitchLeft(b)' < SwitchLeft(b)
<1> USE DEF SwitchLeft, Switching, Goto, At, Threads, Inv, PcInv
<1>0. b # Free
  BY CallsAssumption
<1>1. ~(\/ Call(b) \/ UpdateCallback(b) \/ Unregister(b) \/ Register(b) \/ Kill(b) \/ Join(b)
        \/ Cast(b) \/ Query(b) \/ Notify(b))
  BY DEF Call, CallSetCallback, CallSwitchRole, CallQuery, UpdateCallback, Unregister, Register, Kill,
     Join, Cast, Query, Notify
<1>2. CASE SwitchRole(b)
  BY <1>2 DEF SwitchRole
<1>3. CASE SwapRole(b) \/ SwitchToDrp(b) \/ Report(b)
  BY <1>3 DEF SwapRole, SwitchToDrp, Report
<1>4. CASE LockPartner(b)
  BY <1>0, <1>4 DEF LockPartner
<1>5. CASE WriteMode(b)
  BY <1>5 DEF WriteMode
<1>6. CASE Timeout(b)
  BY <1>6 DEF Timeout, DataInv
<1>7. CASE SpuriousWakeup(b)
  <2>1. pc[b] = "waiting" /\ result'[b] = "ok" /\ ~mPartnerUp
    BY <1>7 DEF SpuriousWakeup, DataInv, NoLostSignal
  <2>2. ~Timeout(b)
    BY <2>1 DEF Timeout, DataInv
  <2>3. ~Binder(b)
    BY <1>1, <2>1 DEF Binder, SwitchRole, SwapRole, LockPartner, WriteMode, Wakeup, SwitchToDrp, Report
  <2>4. pc'[b] = "relock" /\ ~mPartnerUp'
    BY <1>7, <2>1 DEF SpuriousWakeup
  <2>5. SwitchLeft(b)' <= SwitchLeft(b)
    BY <2>1, <2>4
  <2> QED
    BY <2>2, <2>3, <2>5, Zenon
<1>8. CASE Wakeup(b)
  <2>1. ~Timeout(b)
    BY <1>8 DEF Wakeup, Timeout
  <2> QED
    BY <1>8, <2>1 DEF Wakeup, WaitsAgain, DataInv
<1> QED
  BY <1>1, <1>2, <1>3, <1>4, <1>5, <1>6, <1>7, <1>8 DEF Binder

(* Another thread moves a switch only by announcing its partner.           *)
LEMMA OthersHelp ==
  ASSUME Inv, NEW b \in Binders, Switching(b), NEW t \in Threads \ {b},
         \/ t \in Binders /\ (Call(t) \/ Binder(t) \/ Timeout(t) \/ SpuriousWakeup(t))
         \/ t \in Workers /\ (Worker(t) \/ Handle(t))
  PROVE  SwitchLeft(b)' <= SwitchLeft(b)
<1> DEFINE Same == /\ pc'[b] = pc[b] /\ result'[b] = result[b]
                   /\ pc[b] = "write" => mPartnerLock' = mPartnerLock
                   /\ pc[b] = "relock" => mPartnerUp' = mPartnerUp
<1>1. Same => SwitchLeft(b)' <= SwitchLeft(b)
  BY DEF SwitchLeft
<1>2. pc[b] # "switch" => mRoleSwitchLock = b
  BY DEF Inv, LockInv, InSwitch, Switching, Threads
<1>3. b \notin Workers /\ b # Free
  BY CallsAssumption DEF Threads
<1>4. InSwitch(t) => pc[b] = "switch"
  BY <1>2 DEF Inv, LockInv
<1> USE DEF Goto, At, Threads, Inv, PcInv, worker, locks, port
<1>5. CASE t \in Binders /\ (Call(t) \/ UpdateCallback(t) \/ Unregister(t) \/ Kill(t))
  BY <1>1, <1>5 DEF Call, CallSetCallback, CallSwitchRole, CallQuery, UpdateCallback, Unregister, Kill
<1>6. CASE t \in Binders /\ (Register(t) \/ Join(t))
  <2>1. UNCHANGED <<result, mPartnerLock, mPartnerUp>>
    BY <1>6 DEF Register, Join
  <2>2. pc'[b] = pc[b]
    BY <1>3, <1>6 DEF Register, Join, JoinInv
  <2> QED
    BY <1>1, <2>1, <2>2
<1>7. CASE t \in Binders /\ (SwitchRole(t) \/ SwapRole(t) \/ SwitchToDrp(t) \/ Report(t))
  BY <1>1, <1>7 DEF SwitchRole, SwapRole, SwitchToDrp, Report, DataInv
<1>8. CASE t \in Binders /\ (LockPartner(t) \/ WriteMode(t))
  <2>1. pc[b] = "switch"
    BY <1>4, <1>8, CallsAssumption DEF LockPartner, WriteMode, InSwitch
  <2> QED
    BY <1>1, <1>8, <2>1 DEF LockPartner, WriteMode
<1>9. CASE t \in Binders /\ (Timeout(t) \/ SpuriousWakeup(t) \/ Wakeup(t))
  BY <1>1, <1>9 DEF Timeout, SpuriousWakeup, Wakeup, DataInv
<1>10. CASE Cast(t) \/ Query(t) \/ Notify(t)
  BY <1>1, <1>10 DEF Cast, Query, Notify
<1>11. CASE t \in Workers /\ SignalPartner(t)
  <2>1. CASE pc[b] = "waiting"
    <3>1. pc'[b] = "relock" /\ mPartnerUp'
      BY <1>11, <2>1, <1>3 DEF SignalPartner, Woken
    <3> QED
      BY <2>1, <3>1 DEF SwitchLeft
  <2>2. CASE pc[b] # "waiting"
    <3>1. /\ pc'[b] = pc[b] /\ result'[b] = result[b]
          /\ UNCHANGED mPartnerLock /\ mPartnerUp'
      BY <1>11, <2>2, <1>3 DEF SignalPartner, Woken
    <3> QED
      BY <3>1 DEF SwitchLeft
  <2> QED
    BY <2>1, <2>2
<1>12. CASE t \in Workers /\ (OpenSocket(t) \/ CheckDestroy(t) \/ EnterPoll(t) \/ ReadUevent(t))
  BY <1>1, <1>12 DEF OpenSocket, CheckDestroy, EnterPoll, ReadUevent, Fails, Ends
<1>13. CASE t \in Workers /\ (TryLock(t) \/ Probe(t) \/ Restore(t) \/ Handle(t))
  BY <1>1, <1>13 DEF TryLock, Probe, Restore, Handle
<1> QED
  BY <1>5, <1>6, <1>7, <1>8, <1>9, <1>10, <1>11, <1>12, <1>13 DEF Binder, Worker

(* SwitchReturns without the fairness: what a switch needs to return is    *)
(* that its thread runs, that it gets the locks, whose holders wait for    *)
(* nobody that waits for it (NoCircularWait), and its timeout.             *)
THEOREM SwitchesGoOn == Spec => SwitchGoesOn
<1> DEFINE Own(b) == Call(b) \/ Binder(b) \/ Timeout(b) \/ SpuriousWakeup(b)
           Nearer(b) == /\ SwitchLeft(b)' <= SwitchLeft(b)
                        /\ (Binder(b) /\ ~WaitsAgain(b)) \/ Timeout(b)
                             => SwitchLeft(b)' < SwitchLeft(b)
<1>1. ASSUME Inv, NEW b \in Binders, Switching(b), [Next]_vars
      PROVE  Nearer(b)
  <2>1. CASE Own(b)
    BY <1>1, <2>1, OwnStepDescends
  <2>2. CASE ~Own(b)
    <3>1. SwitchLeft(b)' <= SwitchLeft(b)
      <4>1. CASE \E t \in Binders : Own(t)
        BY <1>1, <2>2, <4>1, OthersHelp DEF Threads
      <4>2. CASE \E w \in Workers : Worker(w) \/ Handle(w)
        BY <1>1, <4>2, OthersHelp, CallsAssumption DEF Threads
      <4>3. CASE PartnerChange \/ UNCHANGED vars
        BY <1>1, <4>3 DEF PartnerChange, vars, locks, SwitchLeft
      <4> QED
        BY <1>1, <4>1, <4>2, <4>3 DEF Next
    <3> QED
      BY <2>2, <3>1, Zenon
  <2> QED
    BY <2>1, <2>2
<1>2. Inv /\ [Next]_vars => [\A b \in Binders : Switching(b) => Nearer(b)]_vars
  BY <1>1
<1> QED
  BY InvariantHolds, <1>2, PTL DEF Spec, SwitchGoesOn
=============================================================================
