------------------------------- MODULE UsbPort -------------------------------
(***************************************************************************)
(* The USB HAL (usb/Usb.cpp) with one Type-C port: binder threads call     *)
(* setCallback, switchRole and queryPortStatus; a worker thread per        *)
(* registration reads the kernel's uevents, tells the callback and returns *)
(* a disconnected port to dual-role.  Callbacks are 1.2 objects.           *)
(*                                                                         *)
(* Every thread has its program counter in pc.  A mutex is the thread that *)
(* holds it.  One port_type, "ufp", stands for the single roles.           *)
(***************************************************************************)
EXTENDS Sequences, Integers

CONSTANTS Binders,      \* binder threads of the pool of service.cpp
          Workers,      \* identities of worker threads (bound)
          Callbacks,    \* the callback objects of clients
          Calls,        \* Calls[b]: the calls clients make through thread b
          MaxQueue,     \* bound on unread uevents
          Free          \* nobody, nothing

Threads == Binders \cup Workers

ASSUME CallsAssumption == /\ Calls \in [Binders -> SUBSET {"setCallback", "mode", "power", "query"}]
                          /\ MaxQueue \in Nat
                          /\ Free \notin Threads \cup Callbacks
                          /\ Binders \cap Workers = {}

VARIABLES
  callback,         \* mCallback_1_0; Free: NULL
  destroyThread,    \* the global of the same name
  mPoll,            \* the worker created last
  mLock, mRoleSwitchLock, mPartnerLock,
  mPartnerUp,
  pc,               \* pc[t]: where thread t is
  arg,              \* arg[t]: the argument of the call; what queryVersionHelper cast
  result,           \* result[b]: what pthread_cond_timedwait or switchRole found
  joins,            \* joins[b]: the thread pthread_join waits for
  signalled,        \* signalled[w]: SIGUSR1 is pending
  queue,            \* queue[w]: its uevent socket
  mode,             \* port_type of the port
  partner,          \* is a partner attached?
  (* What happened, read by no guard.                                      *)
  wrote,            \* port_type after the last write of the mode switch in progress
  drpFailed         \* its switchToDrp wrote nothing

worker == <<destroyThread, mPoll, signalled, joins>>
locks == <<mLock, mRoleSwitchLock, mPartnerLock>>
port == <<mode, partner, wrote, drpFailed>>
vars == <<callback, destroyThread, mPoll, mLock, mRoleSwitchLock, mPartnerLock, mPartnerUp,
          pc, arg, result, joins, signalled, queue, mode, partner, wrote, drpFailed>>

(* A thread has ended once told to ("exited") or on an error of its own.  *)
Ended == {"exited", "failed"}
Asleep == Ended \cup {"none"}

TypeOK == /\ callback \in Callbacks \cup {Free}
          /\ {destroyThread, mPartnerUp, partner, drpFailed} \subseteq BOOLEAN
          /\ mPoll \in Workers \cup {Free}
          /\ {mLock, mRoleSwitchLock, mPartnerLock} \subseteq Threads \cup {Free}
          /\ pc \in [Threads -> Asleep \cup
                     {"idle", "set", "kill", "join", "switch", "write", "swap", "waiting", "relock",
                      "drp", "report", "start", "check", "enter", "poll", "signal", "cast", "query",
                      "notify", "trylock", "probe", "restore"}]
          /\ arg \in [Threads -> Callbacks \cup {Free, "mode", "power"}]
          /\ result \in [Binders -> {"none", "ok", "ETIMEDOUT", "SUCCESS", "ERROR"}]
          /\ joins \in [Binders -> Workers \cup {Free}]
          /\ signalled \in [Workers -> BOOLEAN]
          /\ queue \in [Workers -> Seq({"add", "remove"})]
          /\ mode \in {"dual", "ufp"} /\ wrote \in {"dual", "ufp"}

Init == /\ callback = Free /\ destroyThread = FALSE /\ mPoll = Free
        /\ mLock = Free /\ mRoleSwitchLock = Free /\ mPartnerLock = Free
        /\ mPartnerUp = FALSE
        /\ pc = [t \in Threads |-> IF t \in Binders THEN "idle" ELSE "none"]
        /\ arg = [t \in Threads |-> Free]
        /\ result = [b \in Binders |-> "none"]
        /\ joins = [b \in Binders |-> Free]
        /\ signalled = [w \in Workers |-> FALSE]
        /\ queue = [w \in Workers |-> << >>]
        /\ mode = "dual" /\ partner \in BOOLEAN
        /\ wrote = "dual" /\ drpFailed = FALSE

Goto(t, where) == pc' = [pc EXCEPT ![t] = where]
At(t, where) == pc[t] = where

-----------------------------------------------------------------------------
(* setCallback                                                             *)

CallSetCallback(b) == /\ At(b, "idle") /\ "setCallback" \in Calls[b]
                      /\ \E new \in Callbacks \cup {Free} : arg' = [arg EXCEPT ![b] = new]
                      /\ Goto(b, "set")
                      /\ UNCHANGED <<callback, worker, locks, mPartnerUp, result, queue, port>>

(* Both values NULL, or none: no thread is created or killed.              *)
UpdateCallback(b) == /\ At(b, "set") /\ mLock = Free
                     /\ (callback = Free) <=> (arg[b] = Free)
                     /\ callback' = arg[b]
                     /\ Goto(b, "idle")
                     /\ UNCHANGED <<worker, locks, mPartnerUp, arg, result, queue, port>>

Unregister(b) == /\ At(b, "set") /\ mLock = Free
                 /\ callback # Free /\ arg[b] = Free
                 /\ callback' = Free
                 /\ Goto(b, "kill")
                 /\ UNCHANGED <<worker, locks, mPartnerUp, arg, result, queue, port>>

(* Another thread: one that never ran, was joined, or was left unjoined    *)
(* because Kill did not find it.                                           *)
Unused(w) == pc[w] \in Asleep /\ \A b \in Binders : joins[b] # w

(* Mutant: destroyThread is not reset.                                     *)
Register_stale_flag(b) == /\ At(b, "set") /\ mLock = Free
                          /\ callback = Free /\ arg[b] # Free
                          /\ \E w \in Workers :
                               /\ Unused(w)
                               /\ mPoll' = w
                               /\ pc' = [pc EXCEPT ![b] = "idle", ![w] = "start"]
                          /\ callback' = arg[b]
                          /\ UNCHANGED <<destroyThread, joins, signalled, locks, mPartnerUp, arg, result,
                                         queue, port>>

(* A failed pthread_create takes the callback back.                        *)
Register(b) == /\ At(b, "set") /\ mLock = Free
               /\ callback = Free /\ arg[b] # Free
               /\ \/ \E w \in Workers :
                       /\ Unused(w)
                       /\ mPoll' = w
                       /\ pc' = [pc EXCEPT ![b] = "idle", ![w] = "start"]
                       /\ callback' = arg[b]
                  \/ Goto(b, "idle") /\ UNCHANGED <<mPoll, callback>>
               /\ destroyThread' = FALSE
               /\ UNCHANGED <<joins, signalled, locks, mPartnerUp, arg, result, queue, port>>

(* Mutant: the worker is only joined.                                      *)
Kill_joins_only(b) == /\ At(b, "kill")
                      /\ Goto(b, IF pc[mPoll] \in Asleep THEN "idle" ELSE "join")
                      /\ UNCHANGED <<callback, worker, locks, mPartnerUp, arg, result, queue, port>>

(* pthread_kill finds no thread once it has ended.                         *)
Kill(b) == /\ At(b, "kill")
           /\ IF pc[mPoll] \in Asleep
                THEN Goto(b, "idle") /\ UNCHANGED signalled
                ELSE /\ signalled' = [signalled EXCEPT ![mPoll] = TRUE]
                     /\ Goto(b, "join")
           /\ UNCHANGED <<callback, destroyThread, mPoll, joins, locks, mPartnerUp, arg, result,
                          queue, port>>

(* mPoll is read again for pthread_join.                                   *)
Join(b) == /\ At(b, "join")
           /\ IF joins[b] = Free
                THEN joins' = [joins EXCEPT ![b] = mPoll] /\ UNCHANGED pc
                ELSE /\ pc[joins[b]] \in Ended
                     /\ pc' = [pc EXCEPT ![b] = "idle", ![joins[b]] = "none"]
                     /\ joins' = [joins EXCEPT ![b] = Free]
           /\ UNCHANGED <<callback, destroyThread, mPoll, signalled, locks, mPartnerUp, arg,
                          result, queue, port>>

-----------------------------------------------------------------------------
(* switchRole                                                              *)

CallSwitchRole(b) == /\ At(b, "idle")
                     /\ \E type \in {"mode", "power"} \cap Calls[b] : arg' = [arg EXCEPT ![b] = type]
                     /\ Goto(b, "switch")
                     /\ UNCHANGED <<callback, worker, locks, mPartnerUp, result, queue, port>>

SwitchRole(b) == /\ At(b, "switch") /\ mRoleSwitchLock = Free
                 /\ mRoleSwitchLock' = b
                 /\ Goto(b, IF arg[b] = "mode" THEN "write" ELSE "swap")
                 /\ result' = [result EXCEPT ![b] = "none"]
                 /\ UNCHANGED <<callback, worker, mLock, mPartnerLock, mPartnerUp, arg, queue, port>>

(* A data or power role is written and read back.                          *)
SwapRole(b) == /\ At(b, "swap")
               /\ \E status \in {"SUCCESS", "ERROR"} : result' = [result EXCEPT ![b] = status]
               /\ Goto(b, "report")
               /\ UNCHANGED <<callback, worker, locks, mPartnerUp, arg, queue, port>>

(* switchMode: mPartnerLock is taken before the role is written,           *)
(* unless fopen fails ...                                                  *)
LockPartner(b) == /\ At(b, "write")
                  /\ \/ /\ mPartnerLock = Free
                        /\ mPartnerLock' = b
                        /\ mPartnerUp' = FALSE
                        /\ UNCHANGED pc
                     \/ /\ mPartnerLock # b
                        /\ Goto(b, "drp")
                        /\ UNCHANGED <<mPartnerLock, mPartnerUp>>
                  /\ UNCHANGED <<callback, worker, mLock, mRoleSwitchLock, arg, result, queue, port>>

(* ... and released by the wait, or after fputs failed.  A write that      *)
(* fails only when fclose flushes it is taken for a success.               *)
WriteMode(b) == /\ At(b, "write") /\ mPartnerLock = b
                /\ mPartnerLock' = Free
                /\ \/ mode' \in {"ufp", mode} /\ Goto(b, "waiting")
                   \/ UNCHANGED mode /\ Goto(b, "drp")
                /\ wrote' = mode'
                /\ UNCHANGED <<callback, worker, mLock, mRoleSwitchLock, mPartnerUp, arg, result, queue,
                               partner, drpFailed>>

(* mCond's wait ends in one of three ways; each needs mPartnerLock again.   *)
Timeout(b) == /\ At(b, "waiting")
              /\ result' = [result EXCEPT ![b] = "ETIMEDOUT"]
              /\ Goto(b, "relock")
              /\ UNCHANGED <<callback, worker, locks, mPartnerUp, arg, queue, port>>

SpuriousWakeup(b) == /\ At(b, "waiting")
                     /\ result' = [result EXCEPT ![b] = "ok"]
                     /\ Goto(b, "relock")
                     /\ UNCHANGED <<callback, worker, locks, mPartnerUp, arg, queue, port>>

(* Mutants: a timeout leaves the role; only a partner ends the wait.       *)
Wakeup_leaves_role(b) == /\ At(b, "relock") /\ mPartnerLock = Free
                         /\ \/ /\ result[b] = "ETIMEDOUT"
                               /\ Goto(b, "report")
                               /\ result' = [result EXCEPT ![b] = "ERROR"]
                            \/ /\ result[b] = "ok" /\ mPartnerUp
                               /\ Goto(b, "report")
                               /\ result' = [result EXCEPT ![b] = "SUCCESS"]
                            \/ /\ result[b] = "ok" /\ ~mPartnerUp
                               /\ Goto(b, "waiting") /\ UNCHANGED result
                         /\ UNCHANGED <<callback, worker, locks, mPartnerUp, arg, queue, port>>

Wakeup_insists(b) == /\ At(b, "relock") /\ mPartnerLock = Free
                     /\ IF mPartnerUp
                          THEN Goto(b, "report") /\ result' = [result EXCEPT ![b] = "SUCCESS"]
                          ELSE Goto(b, "waiting") /\ UNCHANGED result
                     /\ UNCHANGED <<callback, worker, locks, mPartnerUp, arg, queue, port>>

(* pthread_cond_timedwait returns with mPartnerLock, which is released     *)
(* again by the next wait or at the end.                                   *)
Wakeup(b) == /\ At(b, "relock") /\ mPartnerLock = Free
             /\ \/ /\ result[b] = "ETIMEDOUT"
                   /\ Goto(b, "drp") /\ UNCHANGED result
                \/ /\ result[b] = "ok" /\ mPartnerUp
                   /\ Goto(b, "report")
                   /\ result' = [result EXCEPT ![b] = "SUCCESS"]
                \/ /\ result[b] = "ok" /\ ~mPartnerUp
                   /\ Goto(b, "waiting") /\ UNCHANGED result
             /\ UNCHANGED <<callback, worker, locks, mPartnerUp, arg, queue, port>>

(* Mutant: the wrong word is written.                                      *)
SwitchToDrp_none(b) == /\ At(b, "drp")
                       /\ mode' = "none" /\ drpFailed' = FALSE
                       /\ result' = [result EXCEPT ![b] = "ERROR"]
                       /\ Goto(b, "report")
                       /\ UNCHANGED <<callback, worker, locks, mPartnerUp, arg, queue, partner, wrote>>

(* A failed switch returns the port to dual-role; that this fails as well  *)
(* is only logged, or not even noticed.                                    *)
SwitchToDrp(b) == /\ At(b, "drp")
                  /\ \/ mode' = "dual" /\ drpFailed' = FALSE
                     \/ UNCHANGED mode /\ drpFailed' = TRUE
                  /\ wrote' = mode'
                  /\ result' = [result EXCEPT ![b] = "ERROR"]
                  /\ Goto(b, "report")
                  /\ UNCHANGED <<callback, worker, locks, mPartnerUp, arg, queue, partner>>

(* notifyRoleSwitchStatus, under mLock, if there is a callback;            *)
(* the call's locals are gone.                                             *)
Report(b) == /\ At(b, "report") /\ mLock = Free
             /\ mRoleSwitchLock' = Free
             /\ Goto(b, "idle")
             /\ arg' = [arg EXCEPT ![b] = Free] /\ result' = [result EXCEPT ![b] = "none"]
             /\ wrote' = "dual" /\ drpFailed' = FALSE
             /\ UNCHANGED <<callback, worker, mLock, mPartnerLock, mPartnerUp, queue, mode, partner>>

-----------------------------------------------------------------------------
(* queryVersionHelper, called by binder threads and workers                *)

CallQuery(b) == /\ At(b, "idle") /\ "query" \in Calls[b]
                /\ Goto(b, "cast")
                /\ UNCHANGED <<callback, worker, locks, mPartnerUp, arg, result, queue, port>>

(* castFrom, before mLock is taken.                                        *)
Cast(t) == /\ At(t, "cast")
           /\ arg' = [arg EXCEPT ![t] = callback]
           /\ Goto(t, "query")
           /\ UNCHANGED <<callback, worker, locks, mPartnerUp, result, queue, port>>

(* Without a callback no status is collected, and no port is looked at.    *)
Query(t) == /\ At(t, "query") /\ mLock = Free
            /\ IF callback # Free
                 THEN mLock' = t /\ Goto(t, "notify")
                 ELSE Goto(t, IF t \in Binders THEN "idle" ELSE "check") /\ UNCHANGED mLock
            /\ UNCHANGED <<callback, worker, mRoleSwitchLock, mPartnerLock, mPartnerUp, arg, result,
                           queue, port>>

Notify(t) == /\ At(t, "notify")
             /\ mLock' = Free
             /\ Goto(t, IF t \in Binders THEN "idle" ELSE "trylock")
             /\ UNCHANGED <<callback, worker, mRoleSwitchLock, mPartnerLock, mPartnerUp, arg, result,
                            queue, port>>

Binder(b) == \/ UpdateCallback(b) \/ Unregister(b) \/ Register(b) \/ Kill(b) \/ Join(b)
             \/ SwitchRole(b) \/ SwapRole(b) \/ LockPartner(b) \/ WriteMode(b) \/ Wakeup(b)
             \/ SwitchToDrp(b) \/ Report(b) \/ Cast(b) \/ Query(b) \/ Notify(b)

Call(b) == CallSetCallback(b) \/ CallSwitchRole(b) \/ CallQuery(b)

-----------------------------------------------------------------------------
(* work and uevent_event                                                   *)

(* The thread returns and its descriptors are closed.                      *)
Ends(w) == /\ signalled' = [signalled EXCEPT ![w] = FALSE]
           /\ queue' = [queue EXCEPT ![w] = << >>]

Fails(w) == Goto(w, "failed") /\ Ends(w)

(* The socket hears what is sent from now on.  Without a socket or an      *)
(* epoll instance the thread ends.                                         *)
OpenSocket(w) == /\ At(w, "start")
                 /\ \/ /\ queue' = [queue EXCEPT ![w] = << >>]
                       /\ Goto(w, "check")
                       /\ UNCHANGED signalled
                    \/ Fails(w)
                 /\ UNCHANGED <<callback, destroyThread, mPoll, joins, locks, mPartnerUp, arg, result,
                                port>>

(* while (!destroyThread)                                                  *)
CheckDestroy(w) == /\ At(w, "check")
                   /\ IF destroyThread
                        THEN Goto(w, "exited") /\ Ends(w)
                        ELSE Goto(w, "enter") /\ UNCHANGED <<signalled, queue>>
                   /\ UNCHANGED <<callback, destroyThread, mPoll, joins, locks, mPartnerUp, arg,
                                  result, port>>

(* epoll_wait waits, or fails at once, which ends the thread.              *)
EnterPoll(w) == /\ At(w, "enter")
                /\ \/ Goto(w, "poll") /\ UNCHANGED <<signalled, queue>>
                   \/ Fails(w)
                /\ UNCHANGED <<callback, destroyThread, mPoll, joins, locks, mPartnerUp, arg, result, port>>

ReadUevent(w) == /\ At(w, "poll") /\ queue[w] # << >>
                 /\ queue' = [queue EXCEPT ![w] = Tail(@)]
                 /\ Goto(w, IF Head(queue[w]) = "add" THEN "signal" ELSE "cast")
                 /\ UNCHANGED <<callback, worker, locks, mPartnerUp, arg, result, port>>

Woken(t) == pc[t] = "waiting"

(* Mutant: without mPartnerLock.                                           *)
SignalPartner_unlocked(w) == /\ At(w, "signal")
                             /\ mPartnerUp' = TRUE
                             /\ pc' = [t \in Threads |-> IF t = w THEN "cast"
                                                         ELSE IF Woken(t) THEN "relock" ELSE pc[t]]
                             /\ result' = [b \in Binders |-> IF Woken(b) THEN "ok" ELSE result[b]]
                             /\ UNCHANGED <<callback, worker, locks, arg, queue, port>>

(* mPartnerUp is set and mPartnerCV signalled under mPartnerLock.          *)
SignalPartner(w) == /\ At(w, "signal") /\ mPartnerLock = Free
                    /\ mPartnerUp' = TRUE
                    /\ pc' = [t \in Threads |-> IF t = w THEN "cast"
                                                ELSE IF Woken(t) THEN "relock" ELSE pc[t]]
                    /\ result' = [b \in Binders |-> IF Woken(b) THEN "ok" ELSE result[b]]
                    /\ UNCHANGED <<callback, worker, locks, arg, queue, port>>

(* Mutant: the failure of pthread_mutex_trylock is not looked at.          *)
TryLock_ignored(w) == /\ At(w, "trylock")
                      /\ Goto(w, "probe")
                      /\ UNCHANGED <<callback, worker, locks, mPartnerUp, arg, result, queue, port>>

(* Only when no role switch is in progress ...                             *)
TryLock(w) == /\ At(w, "trylock")
              /\ IF mRoleSwitchLock = Free
                   THEN mRoleSwitchLock' = w /\ Goto(w, "probe")
                   ELSE Goto(w, "check") /\ UNCHANGED mRoleSwitchLock
              /\ UNCHANGED <<callback, worker, mLock, mPartnerLock, mPartnerUp, arg, result, queue, port>>

Release(w) == mRoleSwitchLock' = IF mRoleSwitchLock = w THEN Free ELSE mRoleSwitchLock

(* ... and the partner's directory is gone ...                             *)
Probe(w) == /\ At(w, "probe")
            /\ IF partner THEN Release(w) /\ Goto(w, "check")
                          ELSE Goto(w, "restore") /\ UNCHANGED mRoleSwitchLock
            /\ UNCHANGED <<callback, worker, mLock, mPartnerLock, mPartnerUp, arg, result, queue, port>>

(* ... the port is made dual-role again, if that can be written.           *)
Restore(w) == /\ At(w, "restore")
              /\ mode' \in {"dual", mode}
              /\ Release(w)
              /\ Goto(w, "check")
              /\ UNCHANGED <<callback, worker, mLock, mPartnerLock, mPartnerUp, arg, result, queue, partner,
                             wrote, drpFailed>>

Worker(w) == \/ OpenSocket(w) \/ CheckDestroy(w) \/ EnterPoll(w) \/ ReadUevent(w) \/ SignalPartner(w)
             \/ Cast(w) \/ Query(w) \/ Notify(w) \/ TryLock(w) \/ Probe(w) \/ Restore(w)

(* sighandler runs in the worker; only epoll_wait is interrupted by it.    *)
Handle(w) == /\ signalled[w]
             /\ signalled' = [signalled EXCEPT ![w] = FALSE]
             /\ destroyThread' = TRUE
             /\ pc' = [pc EXCEPT ![w] = IF @ = "poll" THEN "check" ELSE @]
             /\ UNCHANGED <<callback, mPoll, joins, locks, mPartnerUp, arg, result, queue, port>>

(* A partner is attached or detached; every open socket gets the uevent.   *)
Listening == {w \in Workers : pc[w] \notin Asleep \cup {"start"}}
PartnerChange == /\ \A w \in Listening : Len(queue[w]) < MaxQueue
                 /\ partner' = ~partner
                 /\ queue' = [w \in Workers |-> IF w \in Listening
                                                THEN Append(queue[w], IF partner THEN "remove" ELSE "add")
                                                ELSE queue[w]]
                 /\ UNCHANGED <<callback, worker, locks, mPartnerUp, pc, arg, result, mode, wrote, drpFailed>>

Next == \/ \E b \in Binders : Call(b) \/ Binder(b) \/ Timeout(b) \/ SpuriousWakeup(b)
        \/ \E w \in Workers : Worker(w) \/ Handle(w)
        \/ PartnerChange

(* Threads run and get the mutexes they ask for again and again; a timed   *)
(* wait ends; a pending signal is handled.                                 *)
Spec == /\ Init /\ [][Next]_vars
        /\ \A b \in Binders : SF_vars(Binder(b)) /\ SF_vars(Timeout(b))
        /\ \A w \in Workers : SF_vars(Worker(w)) /\ WF_vars(Handle(w))

-----------------------------------------------------------------------------
(* "Hold the lock here to prevent loosing connected signals": no thread    *)
(* waits for a partner that has been announced since the role was written. *)
NoLostSignal == \A b \in Binders : At(b, "waiting") => ~mPartnerUp

(* While a role switch waits for its partner nothing else, in particular   *)
(* no worker, changes the role that its write left.                        *)
SwitchUndisturbed == \A b \in Binders : pc[b] \in {"waiting", "relock"} => mode = wrote

(* A mode switch that reports an error has returned the port to dual-role, *)
(* unless that write failed too ("Fatal: Error while switching back to     *)
(* drp"): whatever failed before, the switch tries it.                     *)
FailureRestores == \A b \in Binders : At(b, "report") /\ arg[b] = "mode" /\ result[b] = "ERROR"
                                        => mode = "dual" \/ drpFailed

(* Every switchRole returns, with or without a worker.                     *)
Switching(b) == pc[b] \in {"switch", "write", "swap", "waiting", "relock", "drp", "report"}
SwitchReturns == \A b \in Binders : Switching(b) ~> ~Switching(b)

(* One client at a time: a registered callback has a worker that nothing   *)
(* tells to end, unless it ended on an error of its own; after             *)
(* setCallback(NULL) none is left.                                         *)
Alive(w) == pc[w] \notin Asleep
WorkerFollowsCallback ==
  (\A b \in Binders : At(b, "idle")) =>
    IF callback = Free THEN \A w \in Workers : ~Alive(w)
                       ELSE (Alive(mPoll) \/ At(mPoll, "failed")) /\ ~destroyThread /\ ~signalled[mPoll]

(* "Kill the worker thread if the new callback is NULL": setCallback(NULL) *)
(* returns, if only uevents keep coming.                                   *)
BusyUnregister == []<><<PartnerChange>>_vars =>
                    \A b \in Binders : At(b, "join") ~> ~At(b, "join")
=============================================================================
