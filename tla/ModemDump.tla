------------------------------ MODULE ModemDump ------------------------------
(***************************************************************************)
(* The dumpstate HAL (dumpstate/DumpstateDevice.cpp): dumpstateBoard_1_1   *)
(* writes the board's state to one descriptor, while a second thread stops *)
(* the modem logger diag_mdlog, collects its logs and others in a          *)
(* directory, packs them into a tar file, sends that to a second           *)
(* descriptor, removes both, and starts the logger again.                  *)
(*                                                                         *)
(* The HAL has one binder thread (service.cpp) and exits after every dump. *)
(* The logger is a service of init: the HAL sets properties, init handles  *)
(* their changes in order and starts services                              *)
(* (init.hardware.diag.rc.user, init.hardware.diag.rc.userdebug).          *)
(* diag_mdlog itself is external, modelled from what those files and the   *)
(* HAL expect of it: -k tells it to end, mdlog_on says whether it runs.    *)
(* A client that loses patience may have the HAL killed at any point.      *)
(***************************************************************************)
EXTENDS Integers, Sequences

CONSTANTS MaxQueue,     \* bound: no new call while more changes wait for init
          Kills         \* may the process be killed?

ASSUME MaxQueueAssumption == MaxQueue \in Nat
ASSUME KillsAssumption == Kills \in BOOLEAN

Builds == {"user", "userdebug"}

(* What the files that are collected come from.                            *)
Dumps == {"this", "earlier"}

VARIABLES
  build,          \* the build variant of the system, fixed
  verbose,        \* persist.vendor.verbose_logging_enabled
  enabled,        \* persist.vendor.sys.modem.diag.mdlog
  switch,         \* vendor.sys.modem.diag.mdlog
  queue,          \* property changes that wait for init
  logger,         \* the service diag_mdlog_start
  pc,             \* dumpstateBoard_1_1; "down": no dump is in progress
  mt,             \* dumpModemThread
  logEnabled,     \* its diagLogEnabled
  logStarted,     \* its diagLogStarted
  dirThere,       \* does the directory modem_log exist?
  dir,            \* the dumps its files come from
  tar,            \* the dumps the entries of the tar file come from
  leftover,       \* history: a dump did not remove all of its files
  disturbed       \* history: the last call came while a logger was ending or a
                  \* property changed, or since then the wait timed out, the
                  \* HAL was killed, or verbose logging was set

props == <<verbose, enabled, switch, queue>>
locals == <<logEnabled, logStarted>>
files == <<dirThere, dir, tar, leftover>>
vars == <<build, verbose, enabled, switch, queue, logger, pc, mt, logEnabled, logStarted,
          dirThere, dir, tar, leftover, disturbed>>

(* vendor.sys.modem.diag.mdlog_on                                          *)
Status == logger \in {"running", "ending"}

TypeOK == /\ build \in Builds
          /\ queue \in Seq({"verbose", "enabled", "switch"} \X BOOLEAN)
          /\ logger \in {"stopped", "starting", "running", "ending"}
          /\ pc \in {"down", "notify", "board", "join", "replied"}
          /\ mt \in {"none", "start", "status", "stop", "wait", "mkdir", "copy", "restart",
                     "poweron", "efs", "tar", "send", "rmdir", "rmtar", "done"}
          /\ {verbose, enabled, switch, logEnabled, logStarted, dirThere, leftover,
              disturbed} \subseteq BOOLEAN
          /\ dir \subseteq Dumps /\ tar \subseteq Dumps
          (* There are files in a directory only, and only a logger that was *)
          (* enabled and running is told to end.                             *)
          /\ dir # {} => dirThere
          /\ mt \in {"stop", "wait"} => logEnabled /\ logStarted

(* After boot init has set mdlog from the persistent property.             *)
Init == /\ build \in Builds
        /\ verbose \in BOOLEAN
        /\ enabled \in BOOLEAN
        /\ build = "user" => enabled = verbose
        /\ switch = enabled
        /\ queue = <<<<"switch", switch>>>>
        /\ logger = "stopped"
        /\ pc = "down" /\ mt = "none"
        /\ logEnabled = FALSE /\ logStarted = FALSE
        /\ dirThere = FALSE /\ dir = {} /\ tar = {}
        /\ leftover = FALSE /\ disturbed = FALSE

SetProperty(p, b) == queue' = Append(queue, <<p, b>>)

-----------------------------------------------------------------------------
(* setVerboseLoggingEnabled and dumpstateBoard_1_1                         *)

SetVerbose(b) == /\ pc = "down"
                 /\ Len(queue) <= MaxQueue
                 /\ verbose' = b
                 /\ SetProperty("verbose", b)
                 /\ disturbed' = TRUE
                 /\ UNCHANGED <<build, enabled, switch, logger, pc, mt, locals, files>>

(* What an earlier dump left is now an earlier dump's.                     *)
Aged(made) == IF made = {} THEN {} ELSE {"earlier"}

(* A call without a descriptor or with a mode of other devices is refused. *)
Call(accepted) == /\ pc = "down"
                  /\ Len(queue) <= MaxQueue
                  /\ pc' = IF accepted THEN "notify" ELSE "replied"
                  /\ dir' = Aged(dir) /\ tar' = Aged(tar)
                  /\ disturbed' = (queue # <<>> \/ logger = "ending")
                  /\ UNCHANGED <<build, props, logger, mt, locals, dirThere, leftover>>

(* The thread needs verbose logging and a second descriptor.               *)
StartThread == /\ pc = "notify"
               /\ pc' = "board"
               /\ \/ verbose /\ mt' = "start"
                  \/ UNCHANGED mt
               /\ UNCHANGED <<build, props, logger, locals, files, disturbed>>

DumpBoard == /\ pc = "board"
             /\ pc' = "join"
             /\ UNCHANGED <<build, props, logger, mt, locals, files, disturbed>>

(* Mutant: the modem thread is not joined.                                 *)
Join_skipped == /\ pc = "join"
                /\ pc' = "replied"
                /\ UNCHANGED <<build, props, logger, mt, locals, files, disturbed>>

Join == /\ pc = "join"
        /\ mt \in {"none", "done"}
        /\ pc' = "replied"
        /\ UNCHANGED <<build, props, logger, mt, locals, files, disturbed>>

(* The post-command task: exit(0).                                         *)
Exit == /\ pc = "replied"
        /\ pc' = "down"
        /\ mt' = "none"
        /\ UNCHANGED <<build, props, logger, locals, files, disturbed>>

Main == StartThread \/ DumpBoard \/ Join \/ Exit

(* The process is killed; properties and files stay as they are.           *)
Kill == /\ Kills
        /\ pc # "down"
        /\ pc' = "down" /\ mt' = "none"
        /\ leftover' = (leftover \/ mt \notin {"none", "done"})
        /\ disturbed' = TRUE
        /\ UNCHANGED <<build, props, logger, locals, dirThere, dir, tar>>

-----------------------------------------------------------------------------
(* dumpModemThread                                                         *)

ReadEnabled == /\ mt = "start"
               /\ logEnabled' = enabled
               /\ mt' = "status"
               /\ UNCHANGED <<build, props, logger, pc, logStarted, files, disturbed>>

(* Mutant: the status is read but not looked at.                           *)
ReadStarted_enabled_only == /\ mt = "status"
                            /\ logStarted' = Status
                            /\ mt' = IF logEnabled THEN "stop" ELSE "mkdir"
                            /\ UNCHANGED <<build, props, logger, pc, logEnabled, files, disturbed>>

ReadStarted == /\ mt = "status"
               /\ logStarted' = Status
               /\ mt' = IF logEnabled /\ Status THEN "stop" ELSE "mkdir"
               /\ UNCHANGED <<build, props, logger, pc, logEnabled, files, disturbed>>

StopLogger == /\ mt = "stop"
              /\ switch' = FALSE
              /\ SetProperty("switch", FALSE)
              /\ mt' = "wait"
              /\ UNCHANGED <<build, verbose, enabled, logger, pc, locals, files, disturbed>>

(* Mutant: the thread waits for the logger without a timeout.              *)
WaitStopped_forever == /\ mt = "wait"
                       /\ ~Status
                       /\ mt' = "mkdir"
                       /\ UNCHANGED <<build, props, logger, pc, locals, files, disturbed>>

(* WaitForProperty: the logger ended or ten seconds passed.                *)
WaitStopped == /\ mt = "wait"
               /\ mt' = "mkdir"
               /\ disturbed' = (disturbed \/ Status)
               /\ UNCHANGED <<build, props, logger, pc, locals, files>>

(* mkdir -p, killed after two seconds                                      *)
MakeDir == /\ mt = "mkdir"
           /\ dirThere' \in {dirThere, TRUE}
           /\ mt' = IF logEnabled THEN "copy" ELSE "poweron"
           /\ UNCHANGED <<build, props, logger, pc, locals, dir, tar, leftover, disturbed>>

(* Files are copied where there are any and the directory exists.          *)
CopyLogs == /\ dir' \in {dir, IF dirThere THEN dir \cup {"this"} ELSE dir}
            /\ UNCHANGED <<dirThere, tar, leftover>>

(* Mutant: the status is read again after the logger was stopped.          *)
CopyDiagLogs_asks_again == /\ mt = "copy"
                           /\ CopyLogs
                           /\ mt' = IF Status THEN "restart" ELSE "poweron"
                           /\ UNCHANGED <<build, props, logger, pc, locals, disturbed>>

CopyDiagLogs == /\ mt = "copy"
                /\ CopyLogs
                /\ mt' = IF logStarted THEN "restart" ELSE "poweron"
                /\ UNCHANGED <<build, props, logger, pc, locals, disturbed>>

RestartLogger == /\ mt = "restart"
                 /\ switch' = TRUE
                 /\ SetProperty("switch", TRUE)
                 /\ mt' = "poweron"
                 /\ UNCHANGED <<build, verbose, enabled, logger, pc, locals, files, disturbed>>

CopyPoweronLog == /\ mt = "poweron"
                  /\ CopyLogs
                  /\ mt' = IF build = "user" THEN "tar" ELSE "efs"
                  /\ UNCHANGED <<build, props, logger, pc, locals, disturbed>>

(* The logs of tcpdump, RIL, netmgr, ... and the modem's EFS, which is     *)
(* dumped while the property efsdump is true.                              *)
CopyDebugLogs == /\ mt = "efs"
                 /\ CopyLogs
                 /\ mt' = "tar"
                 /\ UNCHANGED <<build, props, logger, pc, locals, disturbed>>

(* createTarFile opens the file without truncating it: the end of a longer *)
(* one stays; writes may fail.  Without the directory nothing is written.  *)
CreateTarFile == /\ mt = "tar"
                 /\ tar' \in IF dirThere THEN SUBSET (dir \cup tar) ELSE {tar}
                 /\ mt' = "send"
                 /\ UNCHANGED <<build, props, logger, pc, locals, dirThere, dir, leftover, disturbed>>

Send == /\ mt = "send"
        /\ mt' = "rmdir"
        /\ UNCHANGED <<build, props, logger, pc, locals, files, disturbed>>

(* rm -r of the directory, killed after two seconds                        *)
RemoveDir == /\ mt = "rmdir"
             /\ \/ dir' = {} /\ dirThere' = FALSE
                \/ dir' \in SUBSET dir /\ UNCHANGED dirThere
             /\ mt' = "rmtar"
             /\ UNCHANGED <<build, props, logger, pc, locals, tar, leftover, disturbed>>

RemoveTar == /\ mt = "rmtar"
             /\ \/ tar' = {} /\ leftover' = dirThere
                \/ UNCHANGED tar /\ leftover' = TRUE
             /\ mt' = "done"
             /\ UNCHANGED <<build, props, logger, pc, locals, dirThere, dir, disturbed>>

Thread == \/ ReadEnabled \/ ReadStarted \/ StopLogger \/ WaitStopped \/ MakeDir
          \/ CopyDiagLogs \/ RestartLogger \/ CopyPoweronLog \/ CopyDebugLogs
          \/ CreateTarFile \/ Send \/ RemoveDir \/ RemoveTar

-----------------------------------------------------------------------------
(* init and diag_mdlog                                                     *)

(* start does nothing while the service runs.                              *)
StartService == logger' = IF logger = "stopped" THEN "starting" ELSE logger

(* diag_mdlog -k                                                           *)
StopService == logger' = IF logger = "stopped" THEN logger ELSE "ending"

(* On a user build a property sets the next one.                           *)
UserTrigger(p, b) ==
  \/ /\ p = "verbose"
     /\ enabled' = b
     /\ queue' = Append(Tail(queue), <<"enabled", b>>)
     /\ UNCHANGED <<switch, logger>>
  \/ /\ p = "enabled"
     /\ switch' = b
     /\ queue' = Append(Tail(queue), <<"switch", b>>)
     /\ UNCHANGED <<enabled, logger>>
  \/ /\ p = "switch"
     /\ IF b THEN StartService ELSE StopService
     /\ queue' = Tail(queue)
     /\ UNCHANGED <<enabled, switch>>

(* On other builds the logger starts when both properties are true.        *)
DebugTrigger(p, b) ==
  /\ \/ b /\ verbose /\ switch /\ StartService
     \/ b /\ ~(verbose /\ switch) /\ UNCHANGED logger
     \/ p = "switch" /\ ~b /\ StopService
     \/ p = "verbose" /\ ~b /\ UNCHANGED logger
  /\ queue' = Tail(queue)
  /\ UNCHANGED <<enabled, switch>>

Trigger == /\ queue # <<>>
           /\ LET p == Head(queue)[1]
                  b == Head(queue)[2]
              IN  IF build = "user" THEN UserTrigger(p, b) ELSE DebugTrigger(p, b)
           /\ UNCHANGED <<build, verbose, pc, mt, locals, files, disturbed>>

LoggerRuns == /\ logger = "starting"
              /\ logger' = "running"
              /\ UNCHANGED <<build, props, pc, mt, locals, files, disturbed>>

LoggerEnds == /\ logger = "ending"
              /\ logger' = "stopped"
              /\ UNCHANGED <<build, props, pc, mt, locals, files, disturbed>>

Next == \/ \E b \in BOOLEAN : SetVerbose(b) \/ Call(b)
        \/ Main \/ Thread \/ Kill \/ Trigger \/ LoggerRuns \/ LoggerEnds

(* Threads and init are scheduled and a started logger comes up; that it   *)
(* ends when told to is not assumed.                                       *)
Spec == /\ Init /\ [][Next]_vars
        /\ WF_vars(Main) /\ WF_vars(Thread) /\ WF_vars(Trigger) /\ WF_vars(LoggerRuns)

-----------------------------------------------------------------------------
(* The descriptors belong to the call: no thread uses them after it ended, *)
(* and exit(0) cuts no dump short.                                         *)
ThreadInCall == mt \notin {"none", "done"} => pc \in {"board", "join"}

(* The client gets no files of an earlier dump, unless one was killed or   *)
(* could not remove its files.                                             *)
OnlyThisDump == mt = "rmdir" /\ "earlier" \in tar => leftover

(* Every call returns, though the logger may not end when it is told to.   *)
CallReturns == pc # "down" ~> pc = "down"

(* A logger that ended because of a dump runs again, unless the dump began *)
(* while an earlier change was on its way, the wait for the end timed out, *)
(* the HAL was killed or verbose logging was set.                          *)
LoggerBack == (mt = "mkdir" /\ logEnabled /\ logStarted /\ logger = "stopped")
                ~> (logger = "running" \/ disturbed)
=============================================================================
