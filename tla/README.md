# Verification of the crosshatch / blueline device tree

TLA+ models of the programs in this repository that keep state and meet
concurrency, failures or power cuts: the boot-partition updater in `gpt-utils`,
the two USB HALs, the battery level control of the health HAL, the dump of the
modem's logs, the vibrator HAL, and the two start-up scripts that copy or retry.
TLC checks the models on small instances, TLAPS proves the central invariants for every
value of the constants.

Contents: [system](#1-the-system), [plan](#2-plan), [models](#3-the-models),
[runs](#4-the-runs), [fairness](#5-fairness), [proofs](#6-proofs),
[where code and text disagree](#7-where-the-code-and-its-comments-disagree),
[not modelled](#8-what-is-not-modelled).

To repeat a run: `tlc -config X.cfg M`, with the pairs of the table in section
4; to repeat the proofs: `tlapm M` for the modules whose names end in `Proofs`.

## 1. The system

The tree is a device configuration: most files are data (overlays, audio
calibration, kernel headers, makefiles).  These parts are programs.

| part | source | state it keeps | operations | what is hard | what makes it correct |
|---|---|---|---|---|---|
| fail-safe boot update | `gpt-utils.cpp` `prepare_boot_update` and below | two GPTs on every LUN, the boot LUN attribute of UFS; in memory only the LUN index and an error flag | `UPDATE_MAIN`, `UPDATE_BACKUP`, `UPDATE_FINALIZE` over a list of LUNs | power cuts and I/O errors between any two writes; LUNs left in different stages; repeated calls | a complete boot chain can always be booted; what is released for writing is not running; retries converge |
| `gpt_disk` handles | `gpt-utils.cpp:1133-1548` | a copy of both headers and arrays per handle | alloc, get_disk_info, get_pentry, update_crc, commit, free | torn writes; two handles at once; unfilled handles | a valid table remains; a successful commit is on the disk |
| USB gadget HAL | `usb/UsbGadget.cpp` | requested functions, applied flag, endpoint list, three descriptors, monitor thread; configfs | `setCurrentUsbFunctions`, `getCurrentUsbFunctions`, `reset`, `monitorFfs` | a monitor thread beside the request, two locks, a timeout, daemons that die and return, failing sysfs writes | the callback is told the truth; the host sees what was asked for; requests return |
| USB HAL | `usb/Usb.cpp` | callback, worker thread, three mutexes, partner flag | `setCallback`, `switchRole`, `queryPortStatus`, `enableUsbDataSignal`, uevent worker | binder threads beside the worker, a signal that ends the worker, a timed wait | no partner is missed; switches return and are not disturbed; a worker lives while a callback is registered |
| battery recharging control | `health/BatteryRechargingControl.cpp` | a state of five, start time, recharging level | `updateBatteryProperties` at every poll | charger plugged in and out within a transition, irregular polls, failing reads | the level shown is between the gauge and 100%, has no jumps, converges |
| health service | `health/HealthService.cpp` | one flag | healthd's hooks | none of its own | |
| vibrator HAL | `vibrator/Vibrator.cpp` | five output streams with their failure state, the device's scale, queue and index | on, off, setAmplitude, perform | a failure that sticks to a stream; settings that stay for the next call | what is reported is what the device was told; each start plays one request |
| dumpstate HAL | `dumpstate/DumpstateDevice.cpp` | properties that drive `diag_mdlog` and the EFS dump | dumpstateBoard, modem thread | a second thread, timeouts, exit of the lazy HAL | the logger runs again afterwards |
| radio start-up script | `init.radio.sh` | the modem's database and configuration, the version they belong to, two flags | one run per boot | power cuts and failures in the middle of copies, another firmware after a boot | what the flag announces is whole |
| fingerprint start-up script | `init.fingerprint.sh`, `init.hardware.rc:814-829` | two properties, a retry counter | one run per boot and per death of the service | deaths before and after the samples, property changes init handles later | a death is answered; the retries end |
| first-boot and one-shot scripts | other `init.*.sh` | none that outlives a run | one run per boot | | |
| StrongBox wait, recovery, powerstats, pixelstats, small HALs, converters | see `PROJECT.json` | none that outlives a call | | | |

Interactions.  `service.cpp` runs the USB HAL and the gadget HAL in one process
with a pool of two binder threads; both write the `UDC` file, with no common
lock.  The dumpstate HAL and the modem logger, and the fingerprint service and its
start-up script, meet through properties whose changes init handles one after
the other.  The gadget HAL meets adbd and the MTP server only through functionfs and
inotify, the USB HAL meets the kernel's Type-C class through sysfs and uevents.
The health service feeds the recharging control and hands its result on.  The
boot control HAL, whose code is elsewhere, calls the `gpt_disk` functions; an
over-the-air updater, elsewhere too, calls `prepare_boot_update`.  Both work on
the same partition tables.

`PROJECT.json` lists the hazards of this code line by line, each with the
properties that cover it or the reason why none does.

## 2. Plan

In order of what a failure costs:

1. **GptUpdate**, **GptUpdateScript**, abstract **FailsafeUpdate**: a device
   that does not boot.  Done, with refinement; proved.
2. **GptDisk**: the other writer of the tables.  Done; main property proved.
3. **UsbGadget**: the most concurrent code of the tree.  Done; its four
   safety properties proved.
4. **UsbPort**.  Done (`enableUsbDataSignal`, which shares only the `UDC` file,
   is in UsbGadget); its role switches proved, and the worker's life for one client.
5. **BatteryRecharging**.  Done; all but liveness proved.
6. **ModemDump**: the modem thread, `diag_mdlog` and init's triggers, kills.  Done;
   safety proved.
7. **Vibrator**: streams with a failure state, effects as a table.  Done; proved.
8. **RadioScript**, **FingerprintScript**, composed in **BootScripts** with power
   cuts.  Done; safety proved.
9. What the liveness properties rest on beside fairness: measures that fall with every
   step, and that who waits can go on.  Done for all of them but `BusyUnregister`,
   of which half is proved (section 6).
10. Left: the parts listed in section 8.

Modules that theorems are about declare no recursive operator, take their
bounds as constants with named assumptions, and have one action per step that
another actor can see.

## 3. The models

`PROJECT.json` maps every definition to the lines it stands for.  Definitions
named `X_word` directly before `X` are deliberately wrong variants of `X`: a
property is worth its run when some such variant breaks it.

### GptUpdate

`gpt[l][g]` is GPT `g` of LUN `l` reduced to what the code and the boot loader
tell apart: the state of the header (good, signature spoilt, CRC wrong), the
array its partition CRC belongs to, and the array that is there (`"normal"`:
the boot chain's names lead to the primary copies; `"backup"`: to the backup
copies; `"torn"`: half written).  `prepare_boot_update` is a program counter with one action
per durable write: `Call`, `CheckStage` (header states of both GPTs, expected
stage), `SetBootLun` (the ioctl on UFS), `WriteHeader` and `WriteEntries`
(`gpt2_set_boot_chain`), `SetPrimary` and `SetSecondary` (`gpt_set_state`),
`Return`.  `IoError` is the failure of any of them, before or after the write
took effect, or in the middle for the array, which is the only write of more
than one block.  `Crash` cuts the power at any point.  Like the code, the loop
goes on with the next LUN after a failure and remembers it in `isError`.

External: the boot loader's choice (`Selected`: the primary GPT when valid, else
the secondary), and an updater that rewrites only what the last successful call
released, and completes a copy before it calls the next stage (`MayCall`,
`Flash`).  Which LUNs hold critical images, and whether they have `bak`
partitions, are the constants `NumLuns` and `Twin`.

`FailsafeUpdate` is the promise without tables: every unit has two copies and
runs one; a step switches a unit to its other, complete copy or writes a copy
that is not running.  `ImplementsFailsafe` maps `selected` to the boot loader's
choice.

### GptUpdateScript

Adds an updater that runs the three stages in order, rewrites everything a stage
released, and starts over after a failure or a power cut with no memory but the
images themselves.  When a repeated `UPDATE_MAIN` is refused although the
primary copies are new, it goes on with `UPDATE_BACKUP`: that is what the
return codes allow a client to do.

### GptDisk

A handle is a copy of `struct gpt_disk`; arrays are numbered by the edit that
made them, and an array that was read or written in part is `Torn`: `blk_rw` takes a
read or write of fewer bytes for a success (`gpt-utils.cpp:155`), so `GetDiskInfo` may
fill a handle with a torn array and `CommitEntries` may return 0 over one.  `GetDiskInfo` fills a handle, reading both headers with
`PRIMARY_GPT` as the code does; `Edit` stands for changes through
`gpt_disk_get_pentry`; `UpdateCrc`, `CommitHeader` and `CommitEntries` are the
rest.  A failed `get_disk_info` leaves a handle its owner may go on to use;
`Refused` is the check of `is_initialized`.  Two history variables say whom a state of
the disk is to be blamed on: `writer`, the handle that wrote the primary header and the
primary array last, and `short`, the handles whose last commit was cut short
unnoticed.  Edits are bounded by `MaxEdits`.

### UsbGadget

A request is a program counter through `setCurrentUsbFunctions`, `tearDownGadget`,
`validateAndSetVidPid` and `setupFunctions`; one suffices because
`mLockSetCurrentFunction` is held throughout.  `mon` is where `monitorFfs` is:
between the write of `UDC` (`MonPull`) and the publication of its success under
`mLock` (`MonPublish`) other threads run.  `endpoints`, `watched`, `pending` and
`flag` are the endpoint list, the inotify watches, an unread event and the
eventfd.  `host` is what the controller is bound with and `shown` what the host
saw last, so that a reply can be compared with what happened.

Product ids are the sets of functions they stand for (`pid`), and they are not tied to
what is linked.  `getVendorFunctions` is read twice, by `SetVidPid` for the id and by
`ReadVendor` for the links, and the properties it reads may change in between.  A value
without an id refuses the request (`Supported`), except for accessory and audio_source
(`AnyVendor`): there the value is only logged, and the id has no vendor functions
although they are linked (`UsbGadget.cpp:444-474`).  A failed write of `idProduct`
leaves the new vendor with the old product, which stands for nothing.

External: configfs (a bound gadget or a functionfs function without descriptors
cannot be bound; removing a link unbinds), functionfs with `no_disconnect=1`
(`init.hardware.usb.rc:45`: a daemon's death leaves the gadget up, its return
unbinds it), inotify.  `rough` says of a whole behaviour whether writes may fail and
`enableUsbDataSignal` of the other HAL may come (`DataSignal`; its other files
are attributes of the kernel that the gadget HAL never reads).  It is chosen
once, so that one run checks both what survives these disturbances and what
holds without them.  With `Resets` `reset()` may come at any time.

### UsbPort

Every thread has a program counter; a mutex is the thread that holds it.
`setCallback` is `CallSetCallback`, one of `UpdateCallback`, `Register`,
`Unregister`, then `Kill` and `Join` outside the lock.  `switchRole` nests
`LockPartner`, `WriteMode`, a timed wait with timeout and spurious wakeup, and
`SwitchToDrp` in `mRoleSwitchLock`.  A mutex that no other step can be interleaved
with is not a step of its own.  The worker opens its socket, tests
`destroyThread`, blocks in `epoll_wait`, and handles an event: a partner added
(`SignalPartner`), otherwise status to the callback (`Cast`, `Query`, `Notify`)
and the return to dual-role (`TryLock`, `Probe`, `Restore`).  It may end on errors of its
own (`Fails`: no socket, no epoll instance, a failing `epoll_wait`; state `"failed"`), in
which case nothing takes the callback back.  A role that is written may reach the port or
not: `WriteMode` takes a write that fails only at `fclose` for a success, `SwitchToDrp`
only logs its failure.  `wrote` and `drpFailed` keep what the writes of the switch in
progress did.  `Handle` is the
signal handler, which can interrupt nothing but `epoll_wait`.  One port, one single role, and a queue of at most
`MaxQueue` unread uevents.

### BatteryRecharging

One step per poll: `Inactive`, `WaitEoc`, `RechargingCycle`, `Ramp` are the
cases of the switch, `UpdateFails` the early return when the status cannot be
read.  The remapped level is computed exactly, rounded like `std::round`.
Time is the time since `start_time_`; polls are `Gaps` apart.  The gauge is
assumed not to rise on battery, nothing else is assumed of it.  `kept` records that the
code took the branch that is to keep the 100%.

### ModemDump

`pc` is `dumpstateBoard_1_1`, `mt` the modem thread, one action per property or
file operation.  The board's own dump is one step.  Files are known only by the
dump that made them (`"this"` or `"earlier"`): opened without truncation, a file
keeps what was behind its new end, and `mkdir` and `rm` may be stopped by their
timeout.  `Trigger` is init handling the oldest property change with the
triggers of the two `init.hardware.diag.rc` files, `build` says which; a `start`
of a running service does nothing.  The logger is external: it comes up, and
ends when told to, if it does.  `Kill` ends the process and leaves properties and
files; the history variables `leftover` and `disturbed` say what a dump can be
blamed for.

### Vibrator

A call is the sequence of writes it will make (`Writes`, from `On`,
`PerformWrites` and the checks of effect and strength), then `Return`, whose
`Status` is what the code reports.  `NextWrite` makes one of them: it reaches
the driver, or it fails, and then the stream drops all later writes until
`Restart` makes new streams, each of which may fail to open.  The driver keeps its attributes over a restart,
which may come between any two writes.  The table of attenuations is a constant
(`log10` is not computed), the conversion of a value that does not fit
`uint8_t`, which C++ leaves undefined, is a choice.  Amplitude and duration are
numbers of a `uint32_t` with `Word` values.

### RadioScript, FingerprintScript, BootScripts

`RadioScript` is `init.radio.sh` command by command; `config[f]` is the firmware
whose file `f` is in `modem_config`.  A `cp` fails by leaving its target as it was or
in parts, the last `echo` by leaving the flag as it was, and the script goes on, as it has
no `set -e`.  What was written before a power cut is taken to be on the disk in the order
of the writes: `init.radio.sh` never syncs, so `ConfigWhole` rests on the file system for
that.  Of `qcril.db` only its existence is kept, since the script looks at nothing
else; `db_check_done` and `qcril_prebuilt.db`, which decide nothing, are left out.  `CutShort` is what the
command under way leaves when power is cut.  Any boot may come with any version of
the firmware, since the device has two slots, and with a firmware that is not
mounted.  Two history variables say what a wrong file can be blamed on: its own
`cp` failed, or the version in `ver_info.txt` came back after `modem_config` had
been removed for another one (`blamed`, `unrecorded`).

`FingerprintScript` is `init.fingerprint.sh`: `Sample` reads the state of the
service after five seconds, and `Retry`, `GiveUp`, `Succeed`, `Again` act on what was
read, however old it is by then.  `Again` is the branch the script does not have: a state
that is neither `stopped` nor `running` (restarting, stopping, unset: `"other"`) sends it
round the loop without counting.  The definition of the service `fps_hal` is not in
the repository, so it may die, be stopped or be restarted at any time (`Dies`,
`Restarts`), and may be in any state when the boot completes.  `Trigger` is init handling the oldest property
change with the conditions of `init.hardware.rc:825-829`; a start of a script
that has not been reaped is no change.  `missed` remembers such a start that
came when the script would not look again.

`BootScripts` runs both beside each other; `PowerCut` ends both and forgets what is
not in a file, `Boot` starts over.

## 4. The runs

| run | module, cfg | instance | shows |
|---|---|---|---|
| failsafe_update | MCGptUpdate, MCGptUpdate.cfg | 3 LUNs, the middle one without twins, xbl used, no bound on faults | `Bootable`, `ReleasedNotRunning`, `UnfitUntouched`, `ImplementsFailsafe` |
| whole_update | MCGptUpdateScript, MCScript.cfg | 3 LUNs, xbl, 3 faults | `BackupIsForGood`, `UpdateCompletes` |
| xbl_not_ready | MCGptUpdateScript, MCScriptReady.cfg | 2 LUNs, xbl, 2 faults | `ReadyForUpdate` fails |
| gpt_disk | MCGptDisk, MCGptDisk.cfg | 2 handles, 3 edits | `SomeTableWhole`, `CommitPersists` |
| usb_gadget | MCUsbGadget, MCUsbGadget.cfg | 2 daemons, a kernel and a vendor function, 5 requests, resets; failing writes and data signals in half of the behaviours | `ReplyTrue`, `StaysDown`, `HostIdentity`, `RequestReturns`, `PullsUp` |
| usb_gadget_restart | MCUsbGadget, MCUsbGadgetRestart.cfg | 1 daemon, 1 kernel function | `RestartPullsUp` fails |
| usb_port | MCUsbPort, MCUsbPort.cfg | 2 binder threads, the worker | `NoLostSignal`, `SwitchUndisturbed`, `FailureRestores`, `WorkerFollowsCallback`, `BusyUnregister`, `SwitchReturns` |
| battery | MCBatteryRecharging, MCBattery.cfg | levels 92 to 100, transition of 15 time units, gaps 0, 1, 3, 7 | `CycleHidden`, `NotBelowGauge`, `NeverRises`, `NoCliff`, `Converges` |
| battery_keep_full | MCBatteryRecharging, MCBatteryKeeps.cfg | the same | `KeepsFull` fails |
| modem_dump | MCModemDump, MCModemDump.cfg | both build variants, kills, 1 unhandled property change at a call | `OnlyThisDump`, `CallReturns`, `LoggerBack` |
| vibrator | MCVibrator, MCVibrator.cfg | 8 calls of perform, 3 amplitudes, a timeout that wraps, any failures and restarts | `OneRequest`, `AnswersTrue` |
| boot_scripts | MCBootScripts, MCBootScripts.cfg | 2 versions, 1 file beside `mbn_ota.txt`, 1 retry, 2 waiting property changes, any number of boots | `ConfigWhole`, `DeathNoticed`, `ScriptsEnd` |

Each passing run but whole_update, whose module adds little state to GptUpdate,
also checks its module's type invariant.

Why these bounds are enough.  *GptUpdate*: the code treats LUNs one after the
other and no LUN's step reads another's tables, so three LUNs give every position
of the loop relative to a LUN (before, at, after), with one without twins among
them; the theorems of section 6 remove the bound.  Faults are unbounded in
`failsafe_update`; three in `whole_update` are enough for a fault while an
earlier one is being repaired.  *GptDisk*: a third edit comes after the
two handles have overwritten each other.  *UsbGadget*: two daemons are needed
for a gadget that may be pulled up only when both are ready, and two successive
requests, which the run has without limit, for a monitor of an earlier one.
*UsbPort*: one binder thread may change the callback while the other switches or
asks for status, and both switch at once; a worker's identity is used again
after it was joined; a queue of one event already delays an event past any other
step.  *Battery*: nine levels and gaps that divide a transition, miss its end
and come at once; the theorem removes the bound for the range.  *ModemDump*:
one waiting change lets a call begin before init has handled an earlier one, and
the dump adds its own two; dumps and kills are unlimited.  *Vibrator*: the calls
are one for each way through the checks (out of the range of its interface, no
waveform, a refused strength, a ringtone with and without a queue, a plain
effect); calls, failures and restarts are unlimited.  *BootScripts*: two versions
are enough for one that leaves and comes back; one file besides `mbn_ota.txt` may
be old, torn or missing on its own; one retry has a first and a last; two waiting changes are a death and
the end of a script in either order (`MaxEvents` bounds only deaths: they come at
most as fast as init handles them).

Deadlock is checked except in the runs of GptUpdateScript, whose updater is
done at the end.

What the less obvious properties say:

- `BackupIsForGood` (whole_update): from a successful `UPDATE_BACKUP` on, every
  LUN and xbl run new images, whatever was interrupted and repeated before and
  whatever fails after it.  It needs `isError` to survive later successes, the
  boot LUN to be switched back, and a stage called again to leave alone what is
  past it.
- `CommitPersists` (gpt_disk): after a commit that returned 0, and until another handle
  writes to the primary instance, that instance is valid over what the handle holds; if
  the write of the array was cut short unnoticed, at least the CRC does not fit, so the
  torn array is not taken for a table.  When two handles commit at once the header of
  one and the array of the other may be left although both calls returned 0
  (`gpt-utils.cpp:1536`); then the property speaks of neither, and only
  `SomeTableWhole` remains.
- `UnfitUntouched` (failsafe_update): the primary GPT of a LUN that is damaged or
  has no `bak` partitions may be all it can boot with; neither a stage that goes
  on past its error nor a retry may write there.
- `ReplyTrue` (usb_gadget): after a failed tear-down the old monitor may still
  pull the gadget up; it must not make the next request a success.
- `StaysDown`: the monitor may pull the gadget up after the write of `none`, but
  the removal of links and the join end that before the host's wait begins.
- `ReplyTrue` and `StaysDown` hold with `enableUsbDataSignal` beside them: where it
  could bind something else than what was asked for, the request's own write to
  `UDC` then fails, and between teardown and setup there is nothing to bind.
- `HostIdentity`: the host sees nothing, or exactly what the ids announce together with the
  vendor functions that were linked.  Those two may differ in vendor functions, for the
  reasons given in section 3, and the property says so (`Announced`).  It does not survive
  data signals or failing writes (with `rough` it fails while functions are being
  linked).  During the removal of links it only says that no foreign function is seen: there
  the monitor can bind what is left of the old functions for a moment.
- `FailureRestores` (usb_port): a switch that reports `ERROR` has left a dual-role port,
  unless its `switchToDrp` wrote nothing (`drpFailed`): that is only logged
  (`Usb.cpp:193`).
- `WorkerFollowsCallback`: a worker runs exactly while a callback is registered, unless it
  has ended on an error of its own, which leaves a callback without worker
  (`Usb.cpp:678-710`).  An ended worker is not joined, since `pthread_kill` does not find it.
- `PullsUp` speaks of a monitor that noticed that the gadget is down;
  `RestartPullsUp`, the claim of the comment, has no such condition and fails.
- `BusyUnregister`: removing the callback returns if uevents keep coming; without
  that condition the signal may be lost and the thread is never joined.
- `OneRequest` (vibrator): a start that reached the driver with no stream failed
  plays the index, duration, scale and queue of the call, whatever a refused
  effect or a restart left behind.  For `on` only index and duration are its own:
  the scale is the one that the last `setAmplitude` or `perform` set.  It depends on `mActivate` being written last.
- `AnswersTrue`: after `off` returned `OK` the device is silent, after `setAmplitude`
  it has the scale, if that fits a byte.  For `on` and `perform`, which report `OK` without looking at the
  streams, nothing like it holds.
- `ConfigWhole` (boot_scripts): `copy_complete` means that every file belongs to
  the running firmware.  It needs the version to be recorded after the files and
  an unmounted firmware to count as a new one.  The two exceptions are real: a
  failed `cp` is not noticed, and a device that goes back to the version in
  `ver_info.txt` after an interrupted copy of another one keeps an incomplete folder.
- `DeathNoticed`: with nothing left to handle, the service is not stopped or was given up.
  The exception, `missed`, is real too (section 7): it is the one order that loses a death,
  and no run shows it by itself.
- `ScriptsEnd`: the radio script ends unless power is cut; the fingerprint script does so
  too, or is read the third state again and again.
- `LoggerBack`: after a dump that is not disturbed the logger runs again.  The cases
  it names are real: after a wait that timed out, `start` may meet a logger that
  is still ending and do nothing; after a kill nothing starts it before the next boot.
- `NoCliff`: in a poll whose status could be read the level falls by no more
  than the gauge and the elapsed share of the transition explain.

## 5. Fairness

- *GptUpdate, GptDisk*: none; safety only.
- *GptUpdateScript*: weak fairness of the script's and the code's next step: a
  powered device goes on.  Faults are not fair, and bounded.
- *UsbGadget*: weak fairness of the request and of the monitor: both threads are
  scheduled, and neither waits for a lock that is held for ever.  Daemons,
  clients and `reset` may do nothing.
- *UsbPort*: strong fairness of each thread's steps, since a mutex is asked for
  again and again and granted in the end, and of the timed wait, which ends
  after its timeout; weak fairness of the delivery of a pending signal.  Uevents and calls are not fair.
- *BatteryRecharging*: weak fairness of polls between which time passes: healthd
  polls for ever.  Polls whose read fails are not fair.
- *Vibrator*: none; safety only.
- *BootScripts*: weak fairness of the radio script, the fingerprint script and
  init's handling of changes, each while there is power.  Power, `cp`
  and the fingerprint service are not fair: it may die for ever.
- *ModemDump*: weak fairness of the two threads, of init, and of a logger that
  comes up.  That it ends when told to is not assumed: the code has a timeout.

## 6. Proofs

All proofs are checked without assumptions other than those named in the modules.

**GptUpdateProofs**, for any number of LUNs and any set of LUNs with twins:

- `TypeCorrect`: `Spec => []TypeOK`.
- `InductiveInvariant`: `Spec => []IInv` when `ShortWrites = FALSE`.
- `AlwaysBootable`: `Bootable`, and `Refinement`: `Spec => Abstract!Spec`; every step
  of the code is a switch to a complete copy, a write to a copy that does not run,
  or a stutter.  Both when `ShortWrites = FALSE`.
- `ReleasedIsNotRunning` (`ReleasedNotRunning`) and `UnfitStaysUntouched`
  (`UnfitUntouched`), without that assumption: what a call releases no table leads
  to, and what is written is a LUN whose tables were found fit (`WritesToFitLun`).
- `BackupIsForever`: `ScriptSpec => BackupIsForGood` when `ShortWrites = FALSE`, for
  any number of faults.
- `StepsDescend` (`EachStepDescends`) and `NeverStuck` (`SomethingToDo`,
  `EndsUpdated`), when also `Twin = Luns`: what `UpdateCompletes` rests on beside
  fairness.

`Bootable` is not inductive: it does not know which header is about to be
spoilt.  `IInv` adds, per LUN (`ChainInv`), what a spoilt or damaged header
implies for the other GPT, in particular that a spoilt primary leaves a
secondary that leads to the backups, and that an incomplete copy is always the
one behind the spoilt header; for the LUN being prepared (`StepInv`), what the
checks and the writes so far have established; for the call (`CallInv`), that
all LUNs walked without an error are in the stage that is being set; and
(`NoTwinInv`) that LUNs without twins are never marked.  The step theorem has one
lemma per action, the LUN that is written is treated apart from the others.

`BackupIsForever` rests on `IInv` and three more invariants.  `ImagesInv`: the updater
leaves `UPDATE_MAIN` behind only with the primary copies released or all new, and
nobody rewrites a new copy.  `XblInv`: the boot LUN is B only while some LUN still
waits for `UPDATE_BACKUP`, so that a call that finds every LUN already set, and
therefore does not touch the boot LUN, finds it at A.  `CallsInv`: `UPDATE_BACKUP`
cannot succeed on a device with a LUN without twins, and `UPDATE_FINALIZE` is only
called with what `UPDATE_BACKUP` released rewritten.  From that success on the device
is `Settled`: its primary copies are new, and as long as the backup ones are not, every
LUN is marked as waiting for `UPDATE_FINALIZE`, in which state no other stage writes
anything (`ClosedWalks`).

`StepsDescend` orders the states of an update by the stages still to be called, the
steps left in the call and the images left to write, and shows that each step
without a fault descends; the order has no infinite descent since the numbers are
natural and the set is finite.  The phases are where the retries hide: a LUN that was
left behind, or an error that LUNs past `UPDATE_MAIN` do not explain, makes the next
call fail and costs one more round of `UPDATE_MAIN`, never two.  It rests on `ProgressInv`: no
fault damages a sound table, a LUN that waits for `UPDATE_FINALIZE` means that the primary
copies are new, and `UPDATE_FINALIZE` meets no other LUNs, so it never refuses one.  A
LUN without twins would be refused by every `UPDATE_BACKUP`, so there `Twin = Luns`
is needed.

Where a proof needs `ShortWrites = FALSE` the property needs it too: with `TRUE`, where
`write(2)` may store only part of the array and `blk_rw` does not notice, the primary
header is spoilt with torn secondary entries behind it.  What stays true then is
`WalkInv`, which never looks at the secondary entries: the two theorems without the
assumption say that also with short writes a call releases only copies no table leads to,
and leaves unfit LUNs alone.  The runs have no short writes.

**GptDiskProofs**: `WholeTable`, `Spec => []SomeTableWhole` for any set of handles
and any number of edits.  The invariant is that the secondary instance keeps the
state it had and every handle's header points to the primary array.
`CommitsPersist` (`CommitPersists`): from the sealing of a handle to the end of its
commit its header fits its array, and as long as the handle is the last `writer` of a
part, that part of the primary instance is the handle's, or torn when the handle is
`short`.  `TypeCorrect`.

**BatteryRechargingProofs**, for any transition time, range of levels and spacing
of polls: `TypeCorrect`, and `ReportedInRange`, the level reported is between the
gauge's and 100%, and `CyclesHidden` (`CycleHidden`).  The range rests on `RemapBounds`: the weighted mean of two levels,
rounded, lies between them (`RoundBounds`).  The guard on the elapsed time in
`RampStep` is what keeps the weights from becoming negative.  `NoRiseOnBattery`
(`NeverRises`) and `NoCliffs` (`NoCliff`) compare two polls: `ReportedInv` says that a
poll reports the gauge's level, 100%, or the level of the transition at `elapsed`,
`RemapFalls` that this level only falls, and `RemapDrop` by how much.  `ReportSettles`
(`Settles`): on battery a report at the gauge's level stays there, and any other is
nearer to it after every poll by the time that has passed, unless the gauge itself
still measures 100%.

**UsbGadgetProofs**, for any sets of functions and requests: `TypeCorrect`;
`HostSensesDisconnect` (`StaysDown`) and `RepliesTrue` (`ReplyTrue`), whatever
writes fail and whoever interferes; `HostSeesAll` (`HostIdentity`, which speaks of
behaviours that are not `rough`).  What
a reply says was true of the host at an earlier time, when the monitor bound the
gadget.  `WaitInv` carries it from there to the reply: a monitor that is to publish,
or has published, has shown the host the links of the current request.  This holds
because links do not change while a request waits and because no monitor is left
when the flag is cleared (`StepInv`), so none publishes for an earlier request.
`HostSeesAll` needs another invariant on top (`IdentityInv`): without `rough` the id
written for a request is the request plus vendor functions, the links are the request plus
the vendor functions read for them, and neither changes until the next teardown.
`NobodyBlocked` (`NeverBlocked`): a request that joins the monitor finds it at its end or
able to go on, since the flag is set only for a monitor that is then joined (`StopInv`) and
`mLock` is not held during the join.  `RequestsGoOn` (`RequestGoesOn`): each step of a request
leaves fewer steps, or fewer links in its loops, and during the join each step of the
monitor leaves it fewer.  `WakeupsArrive` (`NoLostWakeup`): while no write fails, a
monitor that owes the host a pull-up is awake, has an unread event, or holds a gadget that can be
bound; the watches are set before the first look, and a daemon that came up after
the look has left an event (`ListedInv`, `WakeInv`).  `PullsGoOn` (`PullGoesOn`): such a pull-up is
at most three steps of the monitor away, and stays due until it happens or is undone.

**UsbPortProofs**, for any number of binder threads and workers, any calls and any
length of the queues: `TypeCorrect`; `ArrivalHeard` (`NoLostSignal`), `RoleStays`
(`SwitchUndisturbed`) and `BackToDrp` (`FailureRestores`).  The invariant says who
holds `mRoleSwitchLock` (`LockInv`: every thread that is where a role is decided,
workers included), that nothing is announced while `mPartnerLock` is held
(`SignalInv`), and what a thread's argument can be (`ArgInv`).  `WorkerStays`
(`WorkerFollowsCallback`) assumes that one thread makes all the `setCallback` calls
(`OneClient`), as in the run.  Then (`ClientInv`) only that thread kills and joins,
the worker created last is the only one that runs, and while a callback is
registered nothing tells it to end; that it ends by itself is the exception the property
names.  `JoinedIsTold` (`EndIsTold`), under the same
assumption: a worker that is joined has the signal pending, has its flag set, or has
ended.  `NoCircularWait` (`LocksOrdered`): the mutexes are asked for in one
order, `mRoleSwitchLock`, `mPartnerLock`, `mLock`, and who joins the worker holds none, so threads
cannot wait for each other in a circle.  `SwitchesGoOn` (`SwitchGoesOn`): each step of a
role switch and its timeout brings its end nearer, unless it was woken without a
partner and waits again, and no other thread takes it back.

**ModemDumpProofs**, for any number of unhandled property changes, both builds and
kills: `TypeCorrect`, `ThreadEndsInCall` (`ThreadInCall`) and `NothingStaleSent`
(`OnlyThisDump`).  `FilesInv` says that without a leftover the directory and the
tar file never hold anything of an earlier dump, and nothing at all between dumps.
`CallsGoOn` (`CallGoesOn`): every step of the call and of its thread leaves fewer steps, and
neither init nor the logger adds any.  `RestartsGoOn` (`RestartIsOwed`, `RestartGoesOn`): a dump
that stopped the logger and was not disturbed owes it a restart, in one of three
situations (the thread has still to set the switch; only that change is in init's queue and
its conditions are true; the logger is starting), and each step of the thread and then
of init brings the restart nearer.  It rests on `LoggerInv`: in an undisturbed dump only
its own changes of the switch wait for init, and the logger it waited for is stopped,
not ending, when the switch is set again.

**VibratorProofs**, for any amplitudes, timeouts and calls, any failures and
restarts: `TypeCorrect`; `EveryStartIsOneRequest` (`OneRequest`); `AnswersAreTrue`
(`AnswersTrue`).  `InCall` says how far a call is: what it has still to write is an
end of `Writes(call, s)`, and of the writes before it each stream that has not
failed holds what was written.  A start is the last write of a call, so then all the others hold.

**BootScriptsProofs**, for any versions, files and number of retries, any number of
boots and deaths: `TypeCorrect`; `ConfigIsWhole` (`ConfigWhole`);
`DeathsAreNoticed` (`DeathNoticed`).  `ConfigInv` is what survives a power cut:
while nothing is unrecorded, the folder belongs to the version in
`ver_info.txt`, and when that version meets an unrecorded folder all its files
are blamed.  `DeathInv` says who will notice that the service is stopped: a change that is
still in the queue while `succeed` is `true`, or the script before its next sample.
`ScriptsGoOn` (`ScriptsDescend`): every command of a script, failing or not, leaves
fewer, for any finite set of files and any number of retries; deaths, init and the other
script take nothing back.  The exception is `Again`, a look at the third state, after which
the look is still to be taken.

Only model-checked: the liveness properties as such, since fairness and `ENABLED` are
beyond the prover.  What is proved of them for every value of the constants is that the
steps fairness speaks of come nearer to the goal and that the others do not undo it:

| liveness property | checked in | proved beside fairness |
|---|---|---|
| `UpdateCompletes` | whole_update | `StepsDescend`, `NeverStuck` |
| `RequestReturns` | usb_gadget | `NobodyBlocked`, `RequestsGoOn` |
| `PullsUp` | usb_gadget | `WakeupsArrive`, `PullsGoOn` |
| `SwitchReturns` | usb_port | `NoCircularWait`, `SwitchesGoOn` |
| `BusyUnregister` | usb_port | only that the worker is told (`JoinedIsTold`): that it looks again needs the next uevent |
| `Converges` | battery | `ReportSettles` |
| `CallReturns`, `LoggerBack` | modem_dump | `CallsGoOn`, `RestartsGoOn` |
| `ScriptsEnd` | boot_scripts | `ScriptsGoOn` |

## 7. Where the code and its comments disagree

Each is a run that ends in a counterexample, and an entry under "findings".

- `xbl_not_ready`: "Stage already set - ready for update" (`gpt-utils.cpp:809`) is
  decided by the headers alone, while the boot LUN was already switched back.
- `usb_gadget_restart`: a daemon that dies and returns between two looks of the
  monitor is missed, against `UsbGadget.cpp:607-609`.
- `battery_keep_full`: the level remembered for the new recharging cycle is the
  remapped 100 and not the gauge's, so the 100% is not kept, against
  `BatteryRechargingControl.cpp:155-157`.

Also visible in the models, without a run of their own: `hdr_bak` is filled from the
primary header (`gpt-utils.cpp:1400`) and never committed; `LunDone` of a LUN
without twins makes `UPDATE_BACKUP` fail after a successful `UPDATE_MAIN`;
`setCallback` of two clients at once can leave a callback without a worker, since
`mPoll` is used after the lock was released (`Usb.cpp:773`); a partner event
queued before a role switch counts as its success (`Usb.cpp:221`), and one announced
while the wait times out as none (`Usb.cpp:236`);
the signal that is to end the worker is lost when it comes between the test of
`destroyThread` and `epoll_wait`, and `setCallback(nullptr)` then waits for the next
uevent (`Usb.cpp:702-705`); a worker that fails leaves its callback without one (`Usb.cpp:678-710`); a failed
`switchToDrp` is only logged (`Usb.cpp:193`) and a role lost at `fclose` not even that;
the product id of accessory and audio_source is set without the vendor functions that are
then linked (`UsbGadget.cpp:444-474`); `on` and `perform` report `OK` for a stream
that has failed (`Vibrator.cpp:113`); an amplitude below 7 has an attenuation that
does not fit its type (`Vibrator.cpp:99`); a torn `qcril.db` is never
repaired (`init.radio.sh:6`); a death of the fingerprint service is lost when its trigger meets
a script that has just seen the service running, though it "keeps running until max init
retry or fps_hal running successfully" (`init.hardware.rc:815`); the same script goes round
for ever, uncounted, while the service is neither running nor stopped (`init.fingerprint.sh:35-47`);
`mCurrentUsbFunctionsApplied` can be set again by the previous monitor
(`UsbGadget.cpp:637`), so after a request that failed it may say "applied".

## 8. What is not modelled

- Names, paths, formatting and logs; partition entries beyond where they lead; CRCs
  other than whether they fit; vendor and product numbers.
- `add_lun_to_update_list` and the path lookups, which compute the list of LUNs.
- The fields of a port's status, and the moisture functions, which are stubs.
- `init.firstboot.sh`, which runs in the factory only, counts successive readings
  of one file and shuts down; the straight-line scripts; `qcril_prebuilt.db`.
- Calibration data of the vibrator, other than that they go to other files.
- Code that only configures libraries outside the repository (health service,
  power and pixel statistics, small HALs), the StrongBox wait and the recovery
  hook, which keep no state; build-time converters and tests; vendored code,
  kernel headers, overlays and device data.

Most lines of the tree are in that last group: the kernel headers
(`sdm845/original-kernel-headers`, `sdm845/kernel-headers`) are declarations
without behaviour, and `json-c` is an upstream library.  The map covers the code that keeps state or meets failures; the
share it has of all lines says more about the headers than about the code.
