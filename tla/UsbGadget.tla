------------------------------ MODULE UsbGadget ------------------------------
(***************************************************************************)
(* The USB gadget HAL (usb/UsbGadget.cpp): setCurrentUsbFunctions tears    *)
(* the gadget down, links the requested functions in configfs and pulls    *)
(* the gadget up, itself or through a monitor thread that waits for the    *)
(* daemons of the functionfs functions (adbd, the MTP server).             *)
(*                                                                         *)
(* setCurrentUsbFunctions holds mLockSetCurrentFunction from its first     *)
(* line to its last, so one request is in progress at a time and pc is its *)
(* program counter.  The kernel's configfs, functionfs and inotify are     *)
(* modelled from how the code uses them: writing the controller's name to  *)
(* UDC fails when the gadget is bound or a function is not ready; removing *)
(* a link unbinds; with the mount option no_disconnect=1                   *)
(* (init.hardware.usb.rc:45) a gadget stays bound when the daemon dies and *)
(* is unbound when the daemon opens ep0 again.                             *)
(***************************************************************************)
EXTENDS Integers

CONSTANTS Ffs,          \* functions of a user-space daemon: adb, mtp, ptp
          Plain,        \* functions of the kernel: midi, accessory, rndis, ...
          Vendor,       \* functions for debugging: diag, serial_cdev, rmnet_gsi
          VendorConfigs,\* what getVendorFunctions may return: "user", "diag", ...
          VendorLinks,  \* the vendor functions linked for such a value
          Requests,     \* the sets of functions asked for
          Supported,    \* <<request, value>>: validateAndSetVidPid has an id for both
          AnyVendor,    \* requests with an id of their own whatever the value is:
                        \* accessory and audio_source
          Resets        \* may a client call reset()?

Functions == Ffs \cup Plain \cup Vendor

ASSUME RequestsAssumption == /\ Requests \subseteq SUBSET (Ffs \cup Plain)
                             /\ Supported \subseteq Requests \X VendorConfigs
                             /\ AnyVendor \subseteq Requests
                             /\ Resets \in BOOLEAN
ASSUME VendorAssumption == /\ VendorConfigs # {}
                           /\ VendorLinks \in [VendorConfigs -> SUBSET Vendor]
                           /\ Vendor \cap (Ffs \cup Plain) = {}

NoReply == [functions |-> {}, status |-> "NONE"]
Statuses == {"NONE", "SUCCESS", "ERROR", "CONFIGURATION_NOT_SUPPORTED"}

VARIABLES
  current,        \* mCurrentUsbFunctions
  applied,        \* mCurrentUsbFunctionsApplied
  pc,             \* the request in progress
  vendorFunctions,\* what its setupFunctions links beside the request
  reply,          \* what setCurrentUsbFunctionsCb was last told
  mon,            \* the monitor thread; "off": mMonitorCreated is false
  sawStop,        \* did its last epoll_wait return mEventFd?
  writeUdc,       \* its local writeUdc
  gadgetPullup,   \* the global of the same name
  endpoints,      \* mEndpointList, as the functions whose endpoints it lists
  watched,        \* the directories mInotifyFd watches
  pending,        \* an inotify event waits to be read
  flag,           \* mEventFd was written
  links,          \* symlinks in configs/b.1
  pid,            \* idVendor and idProduct, as the functions they stand for;
                  \* {}: none, or the new vendor with the old product
  host,           \* the functions the UDC is bound with; {}: pulled down
  shown,          \* the functions the host saw last since it sensed a disconnect
  daemon,         \* daemon[f]: functionfs instance f
  rough           \* in this behaviour writes to configfs may fail and a client may
                  \* call enableUsbDataSignal() of the USB HAL

asked == <<current, vendorFunctions>>
request == <<asked, pc, reply>>
monitor == <<mon, sawStop, writeUdc>>
fds == <<endpoints, watched, pending, flag>>
configfs == <<links, pid>>
udc == <<host, shown>>
vars == <<current, vendorFunctions, applied, pc, reply, mon, sawStop, writeUdc, gadgetPullup,
          endpoints, watched, pending, flag, links, pid, host, shown, daemon, rough>>

TypeOK == /\ current \in Requests \cup {{}}
          /\ applied \in BOOLEAN
          /\ pc \in {"idle", "begin", "none", "class", "unlink", "stop", "join", "sleep",
                     "ids", "vendor", "link", "udc", "spawn", "wait"}
          /\ vendorFunctions \subseteq Vendor
          /\ reply \in [functions : Requests \cup {{}}, status : Statuses]
          /\ mon \in {"off", "start", "wait", "event", "pull", "publish", "done"}
          /\ {sawStop, writeUdc, gadgetPullup, pending, flag} \subseteq BOOLEAN
          /\ endpoints \subseteq Ffs /\ watched \subseteq Ffs
          /\ {links, pid, host, shown} \subseteq SUBSET Functions
          /\ daemon \in [Ffs -> {"new", "up", "dead"}]
          /\ rough \in BOOLEAN

(* UsbGadget::UsbGadget in a process that is the first to touch the gadget *)
Init == /\ current = {} /\ applied = FALSE
        /\ pc = "idle" /\ vendorFunctions = {} /\ reply = NoReply
        /\ mon = "off" /\ sawStop = FALSE /\ writeUdc = TRUE /\ gadgetPullup = FALSE
        /\ endpoints = {} /\ watched = {} /\ pending = FALSE /\ flag = FALSE
        /\ links = {} /\ pid = {} /\ host = {} /\ shown = {}
        /\ daemon = [f \in Ffs |-> "new"]
        /\ rough \in BOOLEAN

(* The functions linked for a request.                                     *)
Linked(functions) == functions \cup vendorFunctions

(* All endpoints of mEndpointList are readable.                            *)
DescriptorsPresent == \A f \in endpoints : daemon[f] = "up"

(* Writing GADGET_NAME to UDC works.                                       *)
CanBind == host = {} /\ links # {} /\ \A f \in links \cap Ffs : daemon[f] # "new"

Bind == CanBind /\ host' = links /\ shown' = links
BindFails == (rough \/ ~CanBind) /\ UNCHANGED udc

(* Mutant: tearDownGadget holds mLock as well.                             *)
LockHeld_in_join == pc \in {"vendor", "link", "udc", "spawn", "join"}

(* mLock is held by setupFunctions, except inside mCv.wait_for.            *)
LockHeld == pc \in {"vendor", "link", "udc", "spawn"}

-----------------------------------------------------------------------------
(* setCurrentUsbFunctions                                                  *)

Reply(status) == /\ pc' = "idle"
                 /\ reply' = [functions |-> current, status |-> status]

Call(functions) == /\ pc = "idle"
                   /\ current' = functions
                   /\ reply' = NoReply
                   /\ pc' = "begin"
                   /\ UNCHANGED <<vendorFunctions, applied, monitor, gadgetPullup, fds, configfs, udc, daemon>>

ClearApplied == /\ pc = "begin"
                /\ applied' = FALSE
                /\ pc' = "none"
                /\ UNCHANGED <<asked, reply, monitor, gadgetPullup, fds, configfs, udc, daemon>>

(* A failure to pull the gadget down is only logged.                       *)
PullDown == /\ pc = "none"
            /\ \/ host' = {}
               \/ rough /\ UNCHANGED host
            /\ pc' = "class"
            /\ UNCHANGED <<asked, reply, applied, monitor, gadgetPullup, fds, configfs, shown, daemon>>

(* The device class, subclass and protocol and os_desc/use are zeroed.     *)
ClearClass == /\ pc = "class"
              /\ \/ pc' = "unlink" /\ UNCHANGED reply
                 \/ rough /\ Reply("ERROR")
              /\ UNCHANGED <<asked, applied, monitor, gadgetPullup, fds, configfs, udc, daemon>>

(* unlinkFunctions: one link after the other; the kernel unbinds first.    *)
Unlink == /\ pc = "unlink"
          /\ \E f \in links : links' = links \ {f}
          /\ host' = {}
          /\ UNCHANGED <<request, applied, monitor, gadgetPullup, fds, pid, shown, daemon>>

(* Mutant: the result of unlinkFunctions is not looked at.                 *)
Unlinked_ignored == /\ pc = "unlink"
                    /\ links = {} \/ rough
                    /\ pc' = "stop"
                    /\ UNCHANGED <<asked, reply, applied, monitor, gadgetPullup, fds, configfs,
                                   udc, daemon>>

Unlinked == /\ pc = "unlink"
            /\ \/ links = {} /\ pc' = "stop" /\ UNCHANGED reply
               \/ rough /\ Reply("ERROR")
            /\ UNCHANGED <<asked, applied, monitor, gadgetPullup, fds, configfs, udc, daemon>>

(* The three descriptors are closed and mEndpointList is cleared.          *)
CloseFds == /\ endpoints' = {} /\ watched' = {}
            /\ pending' = FALSE /\ flag' = FALSE

StopMonitor == /\ pc = "stop"
               /\ IF mon = "off" THEN /\ pc' = "sleep"
                                      /\ CloseFds
                                 ELSE /\ pc' = "join"
                                      /\ flag' = TRUE
                                      /\ UNCHANGED <<endpoints, watched, pending>>
               /\ UNCHANGED <<asked, reply, applied, monitor, gadgetPullup, configfs, udc, daemon>>

Join == /\ pc = "join"
        /\ mon = "done"
        /\ mon' = "off"
        /\ CloseFds
        /\ pc' = "sleep"
        /\ UNCHANGED <<asked, reply, applied, sawStop, writeUdc, gadgetPullup, configfs, udc, daemon>>

(* DISCONNECT_WAIT_US have passed: the host has sensed the disconnect.     *)
Slept == /\ pc = "sleep"
         /\ shown' = {}
         /\ IF current = {} THEN Reply("SUCCESS")
                            ELSE pc' = "ids" /\ UNCHANGED reply
         /\ UNCHANGED <<asked, applied, monitor, gadgetPullup, fds, configfs, host, daemon>>

(* Mutant: the product id of the last request stays.                       *)
SetVidPid_late ==
  /\ pc = "ids"
  /\ \/ /\ current \in AnyVendor \/ \E v \in VendorConfigs : <<current, v>> \in Supported
        /\ pc' = "vendor" /\ UNCHANGED reply
     \/ /\ current \notin AnyVendor /\ \E v \in VendorConfigs : <<current, v>> \notin Supported
        /\ Reply("CONFIGURATION_NOT_SUPPORTED")
  /\ UNCHANGED <<asked, applied, monitor, gadgetPullup, fds, configfs, udc, daemon>>

(* The value of getVendorFunctions selects the id; accessory and           *)
(* audio_source have one id, and a value they cannot have is only logged.  *)
(* idVendor is written before idProduct.                                   *)
SetVidPid ==
  /\ pc = "ids"
  /\ \/ /\ pc' = "vendor"
        /\ \/ \E v \in VendorConfigs :
                <<current, v>> \in Supported /\ pid' = current \cup VendorLinks[v]
           \/ current \in AnyVendor /\ pid' = current
        /\ UNCHANGED reply
     \/ /\ \E v \in VendorConfigs : <<current, v>> \notin Supported
        /\ current \notin AnyVendor
        /\ Reply("CONFIGURATION_NOT_SUPPORTED")
        /\ UNCHANGED pid
     \/ rough /\ Reply("ERROR") /\ pid' \in {pid, {}}
  /\ UNCHANGED <<asked, applied, monitor, gadgetPullup, fds, links, udc, daemon>>

(* setupFunctions calls getVendorFunctions again, and the properties it    *)
(* reads may have changed.                                                 *)
ReadVendor == /\ pc = "vendor"
              /\ \E v \in VendorConfigs : vendorFunctions' = VendorLinks[v]
              /\ pc' = "link"
              /\ UNCHANGED <<current, reply, applied, monitor, gadgetPullup, fds, configfs, udc, daemon>>

(* Mutant: every function is listed as an endpoint.                        *)
Link_all_endpoints == /\ pc = "link"
                      /\ \E f \in Linked(current) \ links :
                           /\ links' = links \cup {f}
                           /\ endpoints' = endpoints \cup {f}
                           /\ watched' = watched \cup ({f} \cap Ffs)
                      /\ UNCHANGED <<request, applied, monitor, gadgetPullup, pending, flag, pid, udc,
                                     daemon>>

(* A functionfs directory is watched before its function is linked.        *)
Link == /\ pc = "link"
        /\ \E f \in Linked(current) \ links :
             /\ links' = links \cup {f}
             /\ endpoints' = endpoints \cup ({f} \cap Ffs)
             /\ watched' = watched \cup ({f} \cap Ffs)
        /\ UNCHANGED <<request, applied, monitor, gadgetPullup, pending, flag, pid, udc, daemon>>

(* On an error the local descriptors are closed and the links stay.        *)
SetupFails == /\ watched' = {} /\ pending' = FALSE
              /\ Reply("ERROR")
              /\ UNCHANGED endpoints

AllLinked == /\ pc = "link"
             /\ \/ /\ links = Linked(current)
                   /\ pc' = IF current \cap Ffs = {} THEN "udc" ELSE "spawn"
                   /\ UNCHANGED <<reply, endpoints, watched, pending>>
                \/ rough /\ SetupFails
             /\ UNCHANGED <<asked, applied, monitor, gadgetPullup, flag, configfs, udc, daemon>>

PullUpNow == /\ pc = "udc"
             /\ \/ Bind /\ applied' = TRUE /\ Reply("SUCCESS")
                \/ BindFails /\ UNCHANGED applied /\ Reply("ERROR")
             /\ UNCHANGED <<asked, monitor, gadgetPullup, fds, configfs, daemon>>

(* Mutant: gadgetPullup of the last request stays.                         *)
Spawn_keeps_pullup == /\ pc = "spawn"
                      /\ mon' = "start" /\ writeUdc' = TRUE /\ sawStop' = FALSE
                      /\ pc' \in {"wait", "idle"}
                      /\ UNCHANGED <<reply, fds, gadgetPullup, asked, applied, configfs, udc, daemon>>

(* The monitor is created; without a callback the request ends here.       *)
Spawn == /\ pc = "spawn"
         /\ \/ /\ gadgetPullup' = FALSE
               /\ mon' = "start" /\ writeUdc' = TRUE /\ sawStop' = FALSE
               /\ pc' \in {"wait", "idle"}
               /\ UNCHANGED <<reply, fds>>
            \/ /\ rough /\ SetupFails
               /\ UNCHANGED <<monitor, gadgetPullup, flag>>
         /\ UNCHANGED <<asked, applied, configfs, udc, daemon>>

(* mCv.wait_for: the monitor signalled or the timeout passed.              *)
Waited == /\ pc = "wait"
          /\ Reply(IF gadgetPullup THEN "SUCCESS" ELSE "ERROR")
          /\ UNCHANGED <<asked, applied, monitor, gadgetPullup, fds, configfs, udc, daemon>>

Request == \/ ClearApplied \/ PullDown \/ ClearClass \/ Unlink \/ Unlinked \/ StopMonitor
           \/ Join \/ Slept \/ SetVidPid \/ ReadVendor \/ Link \/ AllLinked \/ PullUpNow \/ Spawn \/ Waited

(* reset() takes no lock.                                                  *)
Reset == /\ Resets
         /\ host # {}
         /\ host' = {}
         /\ UNCHANGED <<request, applied, monitor, gadgetPullup, fds, configfs, shown, daemon>>

(* enableUsbDataSignal, on the other binder thread of the process, writes  *)
(* UDC as well and shares no lock with the gadget HAL.                     *)
DataSignal == /\ rough
              /\ \/ Bind
                 \/ host # {} /\ host' = {} /\ UNCHANGED shown
              /\ UNCHANGED <<request, applied, monitor, gadgetPullup, fds, configfs, daemon>>

-----------------------------------------------------------------------------
(* monitorFfs                                                              *)

NextRound == IF sawStop THEN "done" ELSE "wait"

MonStart == /\ mon = "start"
            /\ mon' = IF DescriptorsPresent THEN "pull" ELSE "wait"
            /\ UNCHANGED <<request, applied, sawStop, writeUdc, gadgetPullup, fds, configfs, udc, daemon>>

(* epoll_wait; mEventFd may come before or after mInotifyFd in the array.  *)
MonEpoll == /\ mon = "wait"
            /\ sawStop' = flag
            /\ \/ pending /\ mon' = "event"
               \/ flag /\ mon' = "done"
            /\ UNCHANGED <<request, applied, writeUdc, gadgetPullup, fds, configfs, udc, daemon>>

(* Mutant: a gadget that was pulled up is never pulled up again.           *)
MonEvent_once == /\ mon = "event"
                 /\ pending' = FALSE
                 /\ mon' = IF DescriptorsPresent /\ writeUdc /\ ~gadgetPullup THEN "pull" ELSE NextRound
                 /\ writeUdc' = (writeUdc \/ ~DescriptorsPresent)
                 /\ UNCHANGED <<request, applied, sawStop, gadgetPullup, endpoints, watched, flag,
                                configfs, udc, daemon>>

MonEvent == /\ mon = "event"
            /\ pending' = FALSE
            /\ mon' = IF DescriptorsPresent /\ writeUdc THEN "pull" ELSE NextRound
            /\ writeUdc' = (writeUdc \/ ~DescriptorsPresent)
            /\ UNCHANGED <<request, applied, sawStop, gadgetPullup, endpoints, watched, flag, configfs,
                           udc, daemon>>

(* PULL_UP_DELAY has passed; UDC is written without mLock.                 *)
MonPull == /\ mon = "pull"
           /\ \/ Bind /\ mon' = "publish"
              \/ BindFails /\ mon' = NextRound
           /\ UNCHANGED <<request, applied, sawStop, writeUdc, gadgetPullup, fds, configfs, daemon>>

MonPublish == /\ mon = "publish"
              /\ ~LockHeld
              /\ applied' = TRUE
              /\ gadgetPullup' = TRUE
              /\ writeUdc' = FALSE
              /\ mon' = NextRound
              /\ UNCHANGED <<request, sawStop, fds, configfs, udc, daemon>>

Monitor == MonStart \/ MonEpoll \/ MonEvent \/ MonPull \/ MonPublish

-----------------------------------------------------------------------------
(* functionfs and its daemons                                              *)

Event(f) == pending' = (pending \/ f \in watched)

(* A daemon writes its descriptors and opens the endpoints.                *)
DaemonUp(f) == /\ daemon[f] = "new"
               /\ daemon' = [daemon EXCEPT ![f] = "up"]
               /\ Event(f)
               /\ UNCHANGED udc

DaemonDies(f) == /\ daemon[f] = "up"
                 /\ daemon' = [daemon EXCEPT ![f] = "dead"]
                 /\ Event(f)
                 /\ UNCHANGED udc

(* It opens ep0 again, which resets the instance and unbinds the gadget.   *)
DaemonReturns(f) == /\ daemon[f] = "dead"
                    /\ daemon' = [daemon EXCEPT ![f] = "new"]
                    /\ Event(f)
                    /\ host' = IF f \in host THEN {} ELSE host
                    /\ UNCHANGED shown

Daemon == /\ \E f \in Ffs : DaemonUp(f) \/ DaemonDies(f) \/ DaemonReturns(f)
          /\ UNCHANGED <<request, applied, monitor, gadgetPullup, endpoints, watched, flag, configfs>>

Step == \/ \E functions \in Requests : Call(functions)
        \/ Request \/ Reset \/ DataSignal \/ Monitor \/ Daemon

Next == Step /\ UNCHANGED rough

(* The two threads are scheduled; clients and daemons may do nothing.      *)
Spec == Init /\ [][Next]_vars /\ WF_vars(Request /\ UNCHANGED rough)
                             /\ WF_vars(Monitor /\ UNCHANGED rough)

-----------------------------------------------------------------------------
(* What a callback is told is what happened: after SUCCESS the gadget was  *)
(* pulled up with exactly the functions of the request, or for NONE the    *)
(* host has seen it go.  No pull-up of an earlier request counts, and what *)
(* getCurrentUsbFunctions says of the applied functions agrees.            *)
ReplyTrue ==
  reply.status = "SUCCESS" =>
    IF reply.functions = {} THEN shown = {}
                            ELSE shown = Linked(reply.functions) /\ applied

(* "Leave the gadget pulled down to give time for the host to sense        *)
(* disconnect": nothing pulls it up between the teardown and the setup,    *)
(* and no monitor is left that could do so later or that reads             *)
(* mEndpointList while setupFunctions rebuilds it.                         *)
StaysDown == /\ pc \in {"sleep", "ids"} => host = {}
             /\ pc \in {"sleep", "ids", "vendor", "link", "udc", "spawn"} => mon = "off"

(* While no write fails and enableUsbDataSignal stays away, the host sees  *)
(* nothing or exactly the functions that idVendor and idProduct announce,  *)
(* with the vendor functions linked when they were linked.  Only while     *)
(* links are removed it may see a part of them, and never a foreign one.   *)
(* An id leaves the vendor functions out for accessory and audio_source,   *)
(* or when a property changed between the two reads of getVendorFunctions. *)
Announced == (pid \ Vendor) \cup vendorFunctions

HostIdentity ==
  ~rough => /\ host \subseteq Announced
            /\ pc # "unlink" => host \in {{}, Announced}

(* Every request returns: joining the monitor never waits for ever, though *)
(* the monitor may need mLock to end.                                      *)
RequestReturns == pc # "idle" ~> pc = "idle"

(* A monitor that noticed that the gadget is down pulls it up once the     *)
(* descriptors are there, unless they go away, a request tears it down or  *)
(* writes may fail.                                                        *)
Undisturbed == ~rough /\ pc \in {"idle", "wait"} /\ mon # "off" /\ DescriptorsPresent
Noticed == writeUdc /\ mon # "publish"
PullsUp == (Undisturbed /\ Noticed /\ host = {}) ~> (host # {} \/ ~Undisturbed)

(* UsbGadget.cpp:607-609: the monitor "also takes [care] of the pulling up *)
(* the gadget again if the userspace process dies and restarts".           *)
RestartPullsUp == (Undisturbed /\ host = {}) ~> (host # {} \/ ~Undisturbed)
=============================================================================
