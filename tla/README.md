# Specifications of the GloDroid device code

TLA+ models of the stateful parts of this repository: the HAL services under
`src/hals` and `src/pinephone`, the display code the drm_hwcomposer patches add,
and the U-Boot script that boots every board. TLC checks the models
on small instances; TLAPS proves part of the results for every value of the
constants.

Run TLC and TLAPS in this directory:

    tlc -config UsbGadget_safety.cfg MCUsbGadget
    tlapm UsbGadgetProofs.tla

`PROJECT.json` lists the runs, the source lines behind every definition, the
hazards in the code, the findings, and for each property a mutant of the code
that breaks it.

## 1. The system

| component | state it keeps | operations | what is hard about it |
|---|---|---|---|
| USB gadget HAL (`hals/usb-gadget`) | current functions, applied flag, the monitor thread, its epoll/inotify/event descriptors, endpoint list; configfs links and UDC in the kernel | `setCurrentUsbFunctions`, `getCurrentUsbFunctions`, `reset`; the thread `startMonitorFd` | two threads over one object with partial locking; pull-up depends on daemons that start, die and restart; error returns in the middle of configuration |
| USB Type-C HAL (`hals/usb-aidl`) | callback, worker thread, `mLock`, `mRoleSwitchLock`, `mPartnerLock`/`mPartnerCV`/`mPartnerUp`, `destroyThread`; `port_type` and partner in sysfs | `setCallback`, `switchRole`, `queryPortStatus`, `enableUsbData`...; the uevent loop `work` | three mutexes, a condition variable with a timeout, a signal that stops a thread, uevents that arrive at any time |
| Power HAL (`hals/power`) | LAUNCH mode, end of the timed boost, the boost thread's deadline; for every device the minimum read at start and its `min_freq` file | `setMode`, `setBoost`; `ThreadFn`, the search for devices | a condition variable without a predicate: notifications are lost; writes that fail; restarts that read a boosted file |
| U-Boot boot script (`platform/uboot/bootscript.cpp`) | BCB and A/B metadata in `misc`, environment of one boot | `bootcmd_bcb`, `bootcmd_avb`, `bootcmd_start`, `enter_fastboot` | state that survives resets at any point, several ways into recovery, retries that must run out |
| Vibrator HAL (`pinephone/vibrator`) | `last_effect_id`, detached threads; effects in the kernel's table | `on`, `off`, `perform`, `compose`, `composePwle` | `compose` uses the device from a detached thread, without a lock; every system call may fail; lengths are narrowed to 16 bits |
| Lights HAL (`pinephone/lights`) | `SYS_MAX_BRIGHTNESS`; four brightness files that outlive the service | `setLightState` for eight lights, `getLights` | two lights share the blue LED, one light needs two writes, any write may fail; brightness goes through an integer percentage |
| SD image generator (`platform/tools/gensdimg.sh`) | write pointer, partition number | `add_part`, `gen_*` | sequential; rounding and alignment |
| drm_hwcomposer changes (`patches/vendor/drm_hwcomposer`) | layers and what they are composed by, the validated flag, the flattening controller and its thread | `ValidateDisplay`, `PresentDisplay`, layer calls, `NewFrame`, `Disable`, `StopThread`, `ThreadFn` | a timer thread next to the client's calls; frames that skip validation reuse an old client target; ranges of layers with mixed signedness |
| other patches, board configuration, sepolicy, overlays | none of their own | | declarative data, or patches whose base is elsewhere |

How they interact: the USB framework calls the gadget and the Type-C HAL over
binder, each on one binder thread (`service.cpp` of both sets a pool of one).
The gadget HAL meets adbd and the MTP server only through FunctionFS files. The
boot script and Android meet only in the `misc` partition: Android stores a
reboot request or marks a slot successful, the script reads and clears requests
and counts attempts. The power HAL is called by the framework and writes sysfs; so
do the lights and the vibrator HAL. SurfaceFlinger calls the composer, whose
flattening thread calls it back for a frame. Nothing is shared between the HALs,
so no module composes them; composition is inside each one (binder thread,
worker thread, kernel, daemons).

What makes each correct:

* gadget: SUCCESS is answered only for functions that were really pulled up;
  after NONE nothing can pull up again; the two threads never touch the
  endpoint list or the links at the same time; every request is answered; no
  wake-up between watch, first scan and event loop is missed.
* Type-C: a role switch ends and reports what happened; the port is left with
  the type that was reported; the client's view converges to the port's state;
  registering and removing callbacks starts and stops exactly one worker.
* power: while a hint asks for it every device is up; they come down again.
* vibrator: the kernel's table is not filled with effects nobody can remove;
  after `off` the motor rests; it stops when the client stops.
* lights: every LED can be explained by what was asked for; a request for more
  light never darkens the screen.
* display: what is on the screen is what the client asked for, validated or not;
  plans fit the planes; a quiet screen ends composed into one buffer; the thread
  of the controller misses no notification and calls nobody after it was stopped.
* boot script: a one-shot request is served once; a request for recovery is not
  skipped; a normal boot starts only verified images; a board without good
  images whose fastboot works ends in it.

## 2. Modules

| module | models | lines |
|---|---|---|
| `GadgetFunctions` | which sets of functions are supported, which are linked, in which order | `UsbGadget.cpp` 138-199, `UsbGadgetUtils.cpp` 126-188 |
| `Configfs` | external: configfs, FunctionFS, inotify, the daemons | as used by `MonitorFfs.cpp`, `UsbGadgetUtils.cpp` |
| `MonitorFfs` | the monitor thread and the operations on its object | `MonitorFfs.cpp` |
| `UsbGadget` | the binder thread; composes it with the two above | `UsbGadget.cpp`, `UsbGadgetUtils.cpp` |
| `GadgetApi` | abstract specification of the interface | |
| `MCUsbGadget` | instances for TLC | |
| `UsbGadgetProofs` | proofs about `UsbGadget` | |
| `PortApi` | abstract specification of the roles of a port | |
| `UsbTypeC`, `UsbTypeCProofs` | binder thread, worker thread, signal, one port | `hals/usb-aidl/Usb.cpp` |
| `DevFreq` | the devices and their frequency files | `GloDroidPower.h` 30-132 |
| `PowerBoost`, `PowerBoostProofs` | hints and the boost thread; extends `DevFreq` | `GloDroidPower.h`, `Power.cpp` |
| `Bcb` | abstract specification of the bootloader control block | |
| `Bootscript`, `BootscriptProofs` | the boot decisions over any number of resets | `bootscript.cpp`, `flash-all.sh` |
| `ForceFeedback` | abstract specification of the motor | |
| `Vibrator`, `VibratorProofs` | the binder thread, composition threads, the force feedback device | `Vibrator.cpp`, `FFDevice.cpp`, `main.cpp` |
| `Lights`, `LightsProofs` | lights, LEDs, the arithmetic of brightness | `lights.cpp` |
| `QuietPeriod` | abstract specification of the controller | |
| `FlatteningController` | the controller and its thread | patch 0010 |
| `HwcDisplay`, `HwcDisplayProofs` | layers, validation, presentation; extends the controller | patches 0010, 0011, 0014 |

### UsbGadget, MonitorFfs, Configfs

The binder thread's control point `pc` walks through `setCurrentUsbFunctions`:
`Call` (247-251), `PullDown`, `Clear`/`ClearFails` (`resetGadget`,
`unlinkFunctions`), `Signal` and `Join` (`MonitorFfs::reset`), `Validate`,
`AddFunction`/`AddFails` (one function at a time), `AllAdded`, then either
`PullUp`/`PullUpFails` or `Start` and `WaitForPullUp`. A step ends where the
other thread could observe or change something in between; pure waits
(`usleep`) are no steps, because any delay is possible between two steps.
`reset()` is `ResetDown` and `ResetUp`.

The monitor thread's control point `mpc` is at `scan` (one `access()` per
step, so a daemon may come or go inside one scan), `udc` (write the UDC file),
`locked` (the section under `mLock`), `poll` (epoll), `exited`. `batch` counts
the inotify events of one `read()`, each of which costs a scan. The scan before
the loop is the scan of a batch of one event.

A fault may hit any write or link (`FaultSites`, at most `MaxFaults`): the code
has a separate error return for each, and what was done before it stays.

`Configfs` states what the code relies on: a bind needs at least one function
and the descriptors of every FunctionFS function; unlinking from a bound gadget
unbinds it; with `no_disconnect=1` (set by `init.glodroid.usb.rc`) the gadget
survives the death of a daemon and is unbound when the daemon opens ep0 again.

`up` and `reply` are history variables: what was pulled up since the request
began, and what was answered.

`GadgetApi` knows only whether a request is pending, its functions, whether
they have been served and the last reply; `UsbGadget!ApiSpec` maps the detailed
state to it.

### UsbTypeC

Each mutex is held at fixed control points of its holder, so it is a state
predicate (`mLockHeld`, `mPartnerLockHeld`, `RoleLockOfBinder`,
`RoleLockOfWorker`) and not a variable. `pthread_cond_timedwait` is three
actions: `PartnerReturned`, `Timeout`, and `TimedOut`, because after the timeout
the mutex has to be taken again and the worker may set `mPartnerUp` first. The
worker's loop is `Check`, `EnterEpollWait`, `Receive`: the signal may arrive
between any two of them. Uevents are a FIFO from `OpenSocket` on; a uevent sent
before is lost. `Discard` is the early returns of `uevent_event`: a message that
fills the buffer is dropped, and so is one the kernel had no room for, which the
next receive reports as an error; any other error leaves the message where it is.
A report (`QueryVersionHelper`) tells the state of the port, or, if a partner is
there whose role files cannot be read, an error (`PortStatus`). `returned`,
`refused`, `lastStatus` and `missed` (a message was discarded since the last
report) are history variables;
`returned` says that a partner came since the type was written, or that the
message of one was still unread then, which the code cannot tell apart.

`PortApi` knows one switch at a time, the type of the port and whether a partner
came; it has no locks, no threads, no clock and no messages. `UsbTypeC!ApiSpec`
maps the detailed state to it: a switch is in progress while the binder thread
holds `mRoleSwitchLock`, and is given up as soon as its result is known to be
false, which may be long before it is answered.

### PowerBoost

`SetBoost` and `SetMode` change a hint and notify; a notification is kept only
if the thread is at `waiting`, and otherwise recorded in the history variable
`lost`. `Evaluate` is the body of the loop after the wait. It may run at any
time (spurious wake-up); fairness only assumes it when the thread was notified
or its deadline has passed.

`DevFreq` gives each device a file with one of two values, `low` and `high`.
`BoostAll` writes all usable devices in one step, since nobody else writes them;
each write may fail on its own (`unwritten`). `Restart` forgets the hints and
reads `min_freq` again, as the search for devices does when the service starts:
in the middle of a boost it reads the boosted value. Without a usable device
there is no thread. Which devices are usable is a choice, as it depends on files.

### Bootscript

One action per step of the script that reads or writes persistent state or
takes a decision. `PowerOn` forgets the environment and starts again at
`bootcmd`. `Cut` is a reset at any point. `enter_fastboot` is called from three
places and returns to where it was called (`returnTo`). The content of `misc`
changes through the script, through fastboot and through Android
(`MarkBootSuccessful`, `Reboot`). The user at the fastboot prompt gives the
commands of `flash-all.sh`, in any order: `FlashImage`, `EraseMisc`,
`RebootFastboot` (`reboot-fastboot`, for which U-Boot's fastboot stores the
request of fastbootd in `misc` itself), `FastbootReboot`; or continues
(`FastbootContinue`). Fastbootd is an operating system started for recovery:
`FastbootdFlash` is what the script does there, and its last command is `Reboot`.

An access to `misc` may fail (`MiscFails`, at most `MaxFaults` in all): then
`ab_select` fails; the load of `bootcmd_bcb` leaves no block to test, or the block
is cleared in memory but not stored, and the script does not enter fastboot
(`BcbLoadFails`); the request of the fallback or of `reboot-fastboot` is not stored
(`RequestFastbootd`, `RebootFastboot`). A write that fails is taken to have written
nothing. `miscFailed` says that it happened in this boot.

The commands of U-Boot are external:
`ab_select` decrements the counter of a slot that was not marked successful and
chooses only a slot with attempts left; `MarkBootSuccessful` leaves one attempt
and sets the flag, as the boot control HAL does.

`Bcb` knows only the stored request, whether this boot has read it, who runs,
and whether the boot had trouble with `misc`. With trouble a request may be
overlooked in that boot, but it stays where it is: it is neither lost nor served.
Requests come from a system that runs and from fastboot. `Bootscript!BcbSpec` maps the script to it: a boot has read the block when
`bootcmd_bcb` has loaded it, and keeps having read it while fastboot, called
from after that point, runs.

### Vibrator

A thread inside `vibrate()` or `off()` is at one of six control points: `off`
(test of `last_effect_id`), `remove` (`EVIOCRMFF`), `clear`, `upload`
(`EVIOCSFF`), `store`, `play`. These are all the accesses to the shared id and
all the system calls, so every interleaving of two threads is there. The binder
thread is one thread (pool of one); each `compose()` starts one of `Composers`.
C++ leaves the race on `last_effect_id` undefined; the model takes what compiled
code does: an `int` is read or written at once, and the id that `off()` removes
may be the one it tested or one read again.

The kernel's table is external: a fixed number of slots, an upload that fails
when it is full, removal that stops an effect, an effect that ends after its
length and never if the length is 0. Lengths wrap at `LengthWidth`. `overlaps`
counts the entries into the device while another thread was inside, `failures`
the removals the kernel refused; both are histories, and `MaxMishaps` bounds
them. `silenced` remembers that the last thing anybody did was `off()`.

`ForceFeedback` is a motor that is asked for one thing at a time: the effect of
an earlier call is taken away, one is loaded, it is played. It has no table, no
ids and no threads. `Vibrator!DeviceSpec` maps the table to the one effect in
it and the threads to the one inside. It is the refinement under the condition
that threads do not meet in the device and removals succeed: each step is one of
the motor until one of the two happens. What the device does after that is
`LeaksBounded`.

### Lights

`setLightState` for BATTERY is two steps, between which the service may die.
Every write may fail, and nobody repeats it. Colors are the numbers the
framework sends; the channels are taken from them as the code does, and alpha is
not looked at by it. `asked` and `stale` are histories: the last color of each
light, and the files whose last write did not happen. LEDs are 0 or 1; the
backlight has `MaxBrightness` steps.

### FlatteningController and HwcDisplay

Every operation of the controller holds `mutex_`, so it is one step; only
`ShouldFlatten()` reads without it, and that is a step of the display. There is
no clock: whether `sleep_until_` has passed when the thread looks is a choice
(`Timeout` or `Wait`).

The client's calls are serialised; `cpc` says which one it makes next: it
changes layers (`build`), validates, sets the client target (`compose`) and
presents, or presents at once. A refused commit or a frame that cannot skip
validation leads back to `validate`.

What is abstracted:

* A layer keeps `use_client` (its validated type), `pi_changed`, and one bit
  `scanout` for everything `CanScanout()` looks at. `drawn` says that the client
  target shows the layer as it is now, `ghosts` that it also shows something
  that is gone: two histories of what is in the buffer.
* `ExtendClientRange` picks the range with the fewest pixels. The model keeps
  the ranges it weighs (`ClientRanges`) and picks any of them, so the properties
  hold for all sizes of layers.
* `CompositorSunxi` refuses layers it cannot scale: any set of layers
  (`scaled`). Whether a test commit succeeds is a choice too.
* `GetOrderedLayers` is the sequence itself: z orders are consecutive.
* The refresh callback is registered; fences, buffers and modes are not there.

`QuietPeriod` has neither mutex nor thread nor deadline: after a quiet period the
client is asked for one frame, that frame is due to be flattened, and nobody is
asked again before another has come. `FlatteningController!QuietSpec` maps the
flags of the controller to its four periods.

## 3. Runs

All runs finish within two minutes on two cores.

| run | question | bounds | states |
|---|---|---|---|
| `gadget_safety` | are the two threads kept apart, the answers true, no wake-up lost; does a sleeping monitor leave the gadget up; does the HAL implement `GadgetApi` | 6 requests (`AllKinds`), 2 queued events, 1 daemon death, 1 fault at any site | 1 169 000 |
| `gadget_live` | is every request answered (`ApiFairSpec`), is the gadget pulled up once descriptors are written | 3 requests (`FfsOnly`), 1 queued event, 1 death, 1 fault | 260 000 |
| `typec` | do role switches, uevents and callback changes interleave safely; does the HAL implement `PortApi`; does a role switch end, and when only does a removal not | 3 partner changes, discarded messages, port states that cannot be read, refusals of the kernel | 103 000 |
| `power` | what can lost notifications, failed writes and restarts do, and what not | 2 devices, clock of 5 ticks, durations 0, 1, 3 (0 means the default, 2) | 343 000 |
| `boot` | does the script implement `Bcb`, are only verified slots started, does a failed fastboot lead to fastbootd, does a fresh bad board use up its attempts and end in a fastboot that works | 2 slots, 2 attempts each, 4 resets, 2 failed accesses to `misc`, volume keys, fastboot working or not | 317 000 |
| `vibrator` | what do races and failures leave in the kernel's table; is the device without them the motor of `ForceFeedback`, does it stop | 1 composition at a time of up to 2 primitives, 2 slots, `LengthWidth` 2, 2 mishaps | 409 000 |
| `hwc_display` | is the screen current, do plans fit, does the controller implement `QuietPeriod`, does a quiet screen end flattened | 3 layers, 2 planes | 176 000 |
| `lights` | can every LED be explained; what does the percentage do to brightness | 4 colors, 1000 steps | 474 000 |
| `gadget_stale_applied` | finding | | |
| `gadget_stale_list` | finding | | |
| `gadget_restart` | finding | | |
| `typec_join` | finding | | |

Why the bounds are enough. Two FunctionFS functions are needed for a scan that
sees one endpoint and not the other, and for a request that fails half way;
`AllKinds` adds a function without FunctionFS, one unsupported pair, and a
request without callback. What an inotify event says is never used, so only
"none", "one" and "several in one read" differ. One death is enough for the
unbind on restart; one fault for each error return, each reached in every
history the other bounds allow. Requests themselves are not bounded: the client
calls for ever, which is what leftovers of a request need to show up. In
`typec`, a switch that detaches the partner and sees it return uses two changes;
the third is a stale event from before. Callback changes and role switches are
unbounded. In `power` a clock of 5 lets a timed boost overtake another; hints
and restarts are unbounded in number; two devices differ when one write fails
and the other does not. In `boot`, two attempts separate "counted" from "not
counted", four resets let two requests be interrupted twice, and two failed
accesses let a boot fail with the request of the fallback and with reading it. In `vibrator`
two slots are enough to fill the table by one leak and one effect in use; two
mishaps let one race follow another; a width of 2 makes `kEffectMillis` (1) fit
and the duration 2 wrap to 0. With two compositions and three slots the safety
properties hold as well (6.5 million states, not among the runs because of its
length). In `hwc_display` three layers on two planes give a range that must
grow, one that need not, and a plane layer below and above it; calls are
unbounded. The colors of `lights` are one too dim for any LED, one with a strong
green and a weak blue channel, one with all channels at 128, where the LEDs of
BATTERY are still dark, and a bright one.

### Fairness

* Gadget: `WF(BinderThread)` and `WF(MonitorThread)`. Both are threads of the
  same process and neither blocks except where its action is disabled. Nothing
  is assumed of the daemons, and nothing of clients: a request is never owed.
* Type-C: the two threads are scheduled and a pending signal is delivered. The
  timeout of the wait expires, since it is one of the binder thread's actions.
* Power: the clock ticks and the thread is scheduled when it is ready to run.
* Vibrator: `WF` of the device steps of each thread, of the end of each sleep,
  and of the kernel's timer of each effect. The client owes no call.
* Display: `WF(Frame)`, because the client presents what it has changed and
  serves a refresh; `WF` of the thread's own steps and of the end of its
  `wait_until`. `SF(Timeout)` is the passing of time: each time the thread
  looks, the quiet period may not be over yet, but it cannot stay so for ever.
  A thread in `wait` is not assumed to wake by itself.
* Lights: none; the run has safety properties only.
* Boot script: a script step that can run is run. Resets are bounded, so they
  cannot starve it; users and Android owe nothing.

### What the properties say

Gadget. `FreshStart`: when `startMonitor` replaces the thread object the old
thread is joined and the event counter is zero. `EndpointListStable`: the
unlocked reads of the monitor are safe because of the order of registration,
start, join and clear. `SuccessIsTrue`, `NoneMeansDown`: what the answers stand
for. `NoLostWakeup`: watch first, scan second, poll third. `AsleepOnlyWhenUp`:
what the comment in `UsbGadgetCommon.h` says of the monitor holds whenever no
operation failed and no owner died, whatever requests, resets and timeouts came.
It draws the line around the findings `gadget_stale_list` and `gadget_restart`,
which need a failure and a death. `PulledUpEventually` holds in histories
without faults and deaths; with a death it does not (run `gadget_restart`), and
after a failed write to UDC nothing but another event makes the monitor retry.

Type-C. `NoLostPartner` (the comment at `Usb.cpp:204`), `RoleSwitchEnds`,
`RemovalEnds`. `StatusConverges`: a worker with nothing left to read has not left
the client with a partner that has gone, nor without one that came. It names what
keeps the client from the state of the port: a message discarded since the last
report, after which nobody looks until the next message or query, and a role file
that cannot be read, which is reported as an error and not tried again. `ApiSpec` is the interface as a whole: switches
are served one at a time, answered once each; a mode switch succeeds only if a
partner came after the type was set, and then the port has that type; one that
fails leaves a dual role port; and nobody but the switch itself sets the type of
a port that is being switched. It has two exceptions, which `PortApi` states: a
type the kernel refused, which the code does not notice because only `fclose`
would tell, and an add event of before the write that was still unread.
`StopReachesItsWorker` says that the signal and the flag that end a worker are
not lost and not left for the next one: what is wrong in the finding
`typec_join` is only that the worker may not look at the flag. `RemovalEnds`
names the only two ways in which `setCallback(NULL)` does not return.

Power. `BoostFollowsHints` and `BoostHasDeadline` say exactly which lost
notification can cause which harm; `TimedBoostEnds` is the liveness side. Its
exceptions are the ways in which a device stays at full speed: LAUNCH, a lost
"LAUNCH is off", a write that failed, and a restart in the middle of a boost.

Boot script. `BcbSpec`: a request for the bootloader is served once, one for
recovery or fastbootd stays until somebody takes it back and nothing else starts
meanwhile, whatever resets, volume keys and failures of fastboot come in
between. A boot with a failed access to `misc` may overlook a request, which then
stays for the next; `FallbackReachesFastbootd` makes the same exception. `NormalBootVerified`, `FallbackReachesFastbootd`,
`FreshBoardFallsBack`. The last one needs its condition: `ab_select` does not
count attempts of a slot once marked successful, so if such a slot is damaged
later the board resets for ever; the comment at `bootscript.cpp:82` states no
condition. It has an exception as well: once the attempts are used up, a board
whose fastboot does not work either requests fastbootd, has no slot to start it
from, and resets for ever (`bootscript.cpp` 83, 70-78, 212). On all others it says
that fastboot or some slot's recovery is reached; a fastboot that works is left
only when the user says so. `FallbackReachesFastbootd` has an exception that the comment does not
have either: when the attempts of all slots are used up, fastbootd is requested
without a slot to start it from.

Vibrator. `LeaksBounded`: each time a thread comes into the device while another
is inside, and each failed removal, costs at most one effect of the kernel's
table, and nothing else does, whatever upload or play failed. `DeviceSpec`:
without races and failed removals nothing is loaded over an effect that is still
there, `off()` and a failed call leave nothing behind, and nothing moves after
`off()` until somebody vibrates again, which a composition that is not over
does. `Settles`: when the client stops, threads end
and the motor stops, but for an effect whose length was narrowed to 0.

Lights. `LedsAccounted`, between requests, with writes that did not happen as
the only excuse; the shared blue LED may contradict one of its two lights, never
both. `NeverDarker`: the two integer divisions keep the order of levels.

Display. `FrameIsCurrent`: the client target on the screen holds all client
layers as they are now and nothing else, in one gapless range. It is what makes
skipping validation safe. Its exception is a client that drops a validated
frame: its layers then count as unchanged although no target shows them.
`PlanFits`, `RangesComplete`: the arithmetic of `ExtendClientRange`, against a
definition by sets of positions. `NoLostWakeup`, `QuietSpec`: the
controller's thread misses no notification, asks for one frame a period, and for
none once it was stopped. `EndsFlattened`: a quiet screen is flattened, with the
exception that a frame presented without validation takes the request to flatten
and ignores it.

## 4. Findings

Each is a run that fails, with the comment it contradicts.

* `gadget_stale_applied` (`UsbGadget.cpp:248`): the applied flag is cleared
  before the old monitor is stopped. Its callback sets the flag again, and a
  request that then fails is reported as applied.
* `gadget_stale_list` (`UsbGadget.cpp:114`): only a running monitor is reset. A
  request that failed half way leaves its endpoints in the list, and a later
  request is never pulled up.
* `gadget_restart` (`MonitorFfs.cpp:152`): a daemon that dies and restarts
  between two scans leaves the gadget unbound.
* `typec_join` (`Usb.cpp:686`): SIGUSR1 between the loop test and `epoll_wait`
  does not wake the worker; `setCallback(NULL)` blocks until a uevent comes. It
  also blocks for ever when the worker is about to take `mLock`, which the
  joining thread holds (`Usb.cpp:736`).

## 5. Proofs

Every theorem holds for every value of the constants that the assumptions named
in the modules allow: bounds are naturals, requests are sets of functions, the
default timeout is positive, slots and composition threads are finite sets,
there is a plane, the backlight has a step.

`UsbGadgetProofs` proves, for every set of requests, every bound and every set
of fault sites, all properties of run `gadget_safety`. The argument is one
inductive invariant,

    IndInv == TypeOK /\ ThreadInv /\ LinkInv /\ ServedInv

* `ThreadInv` says in which phases of a request a monitor can exist, and ties
  the shutdown counter to the phase `join`: without it `FreshStart` is not
  inductive, because nothing would exclude a second `Signal`.
* `LinkInv` says what is linked in each phase: without it a pull-up with the
  wrong functions could not be excluded.
* `ServedInv` carries "what the waiter saw" from the monitor's pull-up through
  the locked section to the answer, and keeps it true until the next request.

`Invariance` has one step per action group. `TypeCorrect`, `StartIsFresh`,
`CallbackSafe`, `SuccessTruthful` and `NoneTruthful` follow from it;
`ListRaceFree` and `LinkingRaceFree` are action properties proved from it step
by step; `ImplementsApi` shows that every step is a step of `GadgetApi` or
leaves its variables alone. `WakeupsKept` needs a second invariant beside it,
`WakeInv`, for histories without faults: what is linked is what is watched and
checked, and a monitor that sleeps with a pull-up due either misses an owner or
has an event to read. It relates the watches, the scan and the queue, and its
step lemma is `WakeStep`. `AsleepIsUp` builds on it with `UpInv`, one
implication beside the others: for histories without deaths too, a monitor that
has pulled up and stays enabled leaves the gadget up or in the hands of
`reset()`, and the descriptors are still written, so that `reset()` can pull it up
again. Without the part on descriptors it is not inductive at `ResetUp`.

`PowerBoostProofs` proves `TypeCorrect`, `FollowsHints` and `HasDeadline` for
every set of devices, clock, set of durations and set of modes, from

    IndInv == TypeOK /\ HintsSeen /\ DevicesFollow

`HintsSeen` extends the two properties to the moments when the thread does not
wait, where no notification can be pending. `DevicesFollow` ties the files to
what the thread believes: a device whose last write did not fail is up exactly
when the thread has boosted, or at what was read when the service started.

`BootscriptProofs` proves `TypeCorrect`, `ServedOnce`, `Honoured`, `FallsBack`
and `Verified` for every set of slots and every number of attempts, resets and
failed accesses to `misc`, from

    IndInv == TypeOK /\ RequestInv /\ FallbackInv /\ VerifiedInv

* `RequestInv` ties the BCB of `misc` to the copy the script loaded and says
  that from `verify` on a stored request for recovery has already turned the
  boot into one. Without it `RecoveryHonoured` is not inductive: its last step
  looks only at the environment.
* `FallbackInv` follows a failed fastboot through the script: until the tests it
  is the command, then it is the environment; and a boot without a slot has none
  with attempts left.
* `VerifiedInv` is `NormalBootVerified` at the step before the kernel starts.

`ImplementsMailbox` is the refinement of `Bcb`, one step of the mailbox or none
for each step of the script. It needs `RequestInv` at the starts of Android and
recovery, where the abstract guard speaks of `misc` and the script only tests
its copy, and `NothingOwed`, inductive beside it: from a load without trouble on,
until somebody runs who may store one, no request for the bootloader is left in
`misc`. Where `misc` failed, the abstract step is `Fail`, which may postpone the
reading of a request and change nothing. The theorems `ServedOnce` and `Honoured` say the same as predicates on
steps.

`OnlyStart` is the lemma that no other step enters the operating system.

`UsbTypeCProofs` proves the safety properties of run `typec` and its types, for
every number of partner changes, from

    IndInv == TypeOK /\ QueueInv /\ WorkerInv /\ StopReachesItsWorker
                     /\ PartnerInv /\ ReturnInv /\ RoleInv /\ StatusInv

* `QueueInv` bounds the unread uevents by the changes of the partner, which the
  type of the queue needs.
* `WorkerInv` says when a worker exists (`WorkerIffCallback`) and what holds
  while a callback is removed.
* `StopReachesItsWorker` is inductive beside it, since only `RegisterCallback`
  and the join begin and end what it is about.
* `PartnerInv` adds that `mPartnerUp` is still false when `port_type` is written:
  `mPartnerLock` keeps the worker out from the reset to the wait.
* `ReturnInv` accounts, from the write on, for everything that can make the
  switch succeed: an unread add event, or a signal given.
* `RoleInv` is what `mRoleSwitchLock` gives: the two threads never hold it
  together, and from the write on the port has the type asked for, unless the
  kernel refused it.
* `StatusInv` extends `StatusConverges` to every control point between two
  messages. It needs the queue: a change of the partner while the worker
  listens always leaves a message that it has still to read, and `Discard`, the
  one way to read it without a report, is remembered in `missed`.

`ImplementsApi` is the refinement of `PortApi`. Each of the two threads has steps
that the client must not see (`Unseen`, `BinderUnseen`), and both can be in the way
of the other: that the worker makes a port `dual` only while no switch is in
progress is `RoleInv`; that a switch answers success only with a partner that came
is `ReturnInv`; that the given up switch wrote `dual` is the order of the writes.
The abstract `unread` is a fact about the queue, and `UnreadStays` says what a
message appended to it does.

`VibratorProofs` proves for every set of composition threads, table, width and
set of durations:

* `LeaksAreBounded`, by `LossInv`. An effect is lost when `last_effect_id` is
  overwritten or cleared while it names one. Each thread inside stores at most
  one effect, so what counts is not what is lost but what still can be: the lost
  effects, plus the threads inside that have yet to store, plus one if the
  effect stored last is `Endangered`, are at most the entries with company and
  the failed removals, plus one while such threads are there. An entry adds one
  to both sides, and a store turns a thread into an effect.
* `OffEnds` and `EffectsKept`, by `DeviceInv`: while threads do not meet and
  removals succeed, one thread is inside at most, and `DeviceAt` says what the
  table and the id are at each of its control points.

* `ImplementsMotor`, the refinement of `ForceFeedback` while threads do not meet,
  from the same invariant and `AskedOK` (no other lengths are asked for).
  `DeviceMaps` has one case for each control point of the thread inside:
  removal is the motor's `Silence`, the store of the id after an upload is no
  step of its own, and a failed upload is a `Return` that leaves nothing.
  `EndMaps` needs that the effect that ends is the only one in the table.

`HwcDisplayProofs` proves for every number of layers and planes:

* `RangesAlwaysComplete` from `RangesOfClients`, which is plain arithmetic about
  the ranges `ExtendClientRange` weighs; `PlansFit` from `Sizes` and
  `RangesFit`: whatever is chosen has no gap, holds what must be composed, and
  leaves a frame that fits.
* `ScreenIsCurrent`, by `FrameInv`. Its heart is `Trust`: between frames the
  layers that are marked for the client and unchanged are the ones the client
  target shows; they are at most as many as were validated, and fewer as soon as
  the target shows anything that is gone. Hence the code's comparison of two
  counts is enough to know that the old target may be used.
  `ChangeKeepsTrust` shows that no call between frames takes the trust away,
  from the lemmas on what each call does to the sequence of layers.
* `WakeupsKept`, `Stopped` and the refinement `ImplementsQuiet`, of the controller:
  the display's calls are steps of `QuietPeriod` as well, whatever the client does.

`LightsProofs` proves for every set of colors and every number of steps:
`LedsRight` (by `LedInv`, which also speaks of the moment between the two writes
of BATTERY), `Monotone` and `Lit`, from lemmas about the two divisions
(`BrightnessGrows`, `BrightnessShows`, `DimVanishes`).

Some theorems are about definitions that no run lists. Some of these are parts of an
argument rather than questions of their own: `CallbackSafe`
(`CallbackRegistered`) and `LinkingRaceFree` (`LinkedWhileDown`) of the gadget,
`OneWorker` (`WorkerIffCallback`) of Type-C, `EffectsKept` (`NoEffectLeaks`) of
the vibrator, `Lit` (`ScreenLit`) of the lights. The others state as an invariant
or as one action property what the refinements a run checks contain: `ResultTruthful`
(`PortTypeMatchesResult`), `SuccessHonest` (`SuccessMeansReturned`),
`ServedOnce` (`BootonceIsOnce`), `Honoured` (`RecoveryHonoured`), `OffEnds`
(`OffSilences`), `Stopped` (`NoTriggerAfterStop`).

Only model-checked: liveness (`ApiFairSpec`, `PulledUpEventually`,
`RoleSwitchEnds`, `RemovalEnds`, `TimedBoostEnds`, `FreshBoardFallsBack`,
`Settles`, `EndsFlattened`), because fairness and ENABLED are outside the proof
system. Every safety property and every refinement without fairness of a passing
run is proved.

## 6. Not modelled, and why

* Gadget: what `getCurrentUsbFunctions` answers before the first request is
  indeterminate, because the constructor initialises neither
  `mCurrentUsbFunctions` nor its flag (`UsbGadget.cpp:36`); `Init` chooses any
  value, and no property is about that answer. `getUsbSpeed` only reads; `getVendorFunctions` is not called. The
  64-bit timeout of `waitForPullUp` is abstracted to "may end at any time", so
  that it is narrowed to an `int` (`UsbGadget.cpp:233`) cannot be seen. A write
  to UDC that fails is tried again only when an event comes (`MonitorFfs.cpp:163`):
  `PulledUpEventually` excludes faults. `mWatchFd` is never cleared
  (`MonitorFfs.cpp:205`); the model has the set of watches, not the vector.
* Type-C: one port. The methods that only notify "not supported" change no
  state. The fake port used when `/sys/class/typec` cannot be opened is left
  out, and with it the log statement that indexes with -1 (`Usb.cpp:534`). A
  notification counts when it is made, whether the client is still there or not.
  A partner that attaches between the worker's `opendir` and its write of
  `dual` has its port reset; the model contains this step, and no property
  forbids it.
* Power: the walk through `/sys` is a choice of usable devices, frequencies are
  two values. The destructor never runs in the service.
* Boot script: device tree selection, kernel arguments, `gpt write`; a failed
  write to `misc` that changed it after all.
* Vibrator: the strings of PWLE segments, which nobody uses; `usleep` with a
  product that overflows (`Vibrator.cpp:65`, 169), as sleeps have any length;
  `VibratorManager` is compiled, but `main()` creates none. A completion
  callback that fails is only logged.
* Lights: `getLights` only answers the list.
* Display: buffer import, release fences, staged modes, headless mode, the hwc3
  frontend and the plan the kernel gets. They are patches to code that is not
  in this repository, and what they change cannot be told without it.
* SD image generator: a shell script of constants and `dd` calls. It keeps no
  state between two runs. `dd` copies whole blocks of 4096 bytes
  (`gensdimg.sh:31`), so an image of another size loses its tail: a calculation
  and not a behaviour.
* Patches to minigbm, mesa, libcamera and ModemManager: their base is not in
  this repository. Board configuration, sepolicy, overlays: declarative data.

## 7. Plan

Done: `GadgetFunctions`, `Configfs`, `MonitorFfs`, `UsbGadget`, `GadgetApi`;
`UsbTypeC`; `DevFreq` and `PowerBoost`; `Bootscript`; `Vibrator`; `Lights`;
`FlatteningController` and `HwcDisplay`; proofs of all their safety properties;
the abstract specifications `GadgetApi`, `PortApi`, `Bcb`, `ForceFeedback` and
`QuietPeriod`, with proofs that they are implemented.

Left, in this order:

1. An abstract specification of the display, "the screen shows the last frame
   presented", with `HwcDisplay` shown to implement it; abstract specifications of
   the power HAL and the lights; then release fences, if the base of the patches
   is at hand.
2. Several ports for `UsbTypeC`: the worker resets all of them under one lock.
3. The layout of the SD image as operators, with theorems on alignment and
   disjointness.
4. Kernel arguments and device tree selection of the boot script, as functions
   of the board and the slot.
