----------------------------- MODULE MonitorFfs -----------------------------
(***************************************************************************)
(* class MonitorFfs: the thread that pulls the gadget up once the          *)
(* descriptors of every FunctionFS function are written, and pulls it up   *)
(* again when their owner restarts; and the operations the HAL's binder    *)
(* thread calls on it.                                                     *)
(*                                                                         *)
(* The endpoint files ep1..epN of a function appear and vanish together    *)
(* and stand for one another: the list of endpoints is the set of          *)
(* functions they belong to, scanned in any order, one access() at a time. *)
(***************************************************************************)
EXTENDS Configfs

CONSTANTS MaxFaults,   \* bound on the number of I/O faults injected
          FaultSites   \* the operations that may fail

Sites == {"none", "clear", "vidpid", "link", "udc"}

ASSUME FaultAssumption == MaxFaults \in Nat /\ FaultSites \subseteq Sites

VARIABLES mpc,             \* control point of the monitor thread
          writeUdc,        \* thread local: pull up at the next opportunity
          toCheck,         \* endpoints the current scan has not visited yet
          batch,           \* events of the last read() not processed yet
          ready,           \* fds of the last epoll_wait not handled yet
          eventFd,         \* counter of mEventFd
          mEndpointList,   \* endpoints that have to be present
          mMonitorRunning, \* a monitor was started and not joined
          mCallback,       \* a callback is registered
          gadgetPullup,    \* the waiter's condition
          mCurrentUsbFunctionsApplied, \* the HAL's flag, set by the callback
          faults           \* number of faults injected so far

monitorVars == <<mpc, writeUdc, toCheck, batch, ready>>
objectVars == <<eventFd, mEndpointList, mMonitorRunning, mCallback,
                gadgetPullup, mCurrentUsbFunctionsApplied, faults>>

kShutdownMonitor == 100

MonitorState == {"none", "scan", "udc", "locked", "poll", "exited"}

MonitorTypeOK ==
  /\ mpc \in MonitorState
  /\ writeUdc \in BOOLEAN
  /\ toCheck \in SUBSET Ffs
  /\ batch \in 0..MaxEvents
  /\ ready \in SUBSET {"inotify", "event"}
  /\ eventFd \in Nat
  /\ mEndpointList \in SUBSET Ffs
  /\ mMonitorRunning \in BOOLEAN
  /\ mCallback \in BOOLEAN
  /\ gadgetPullup \in BOOLEAN
  /\ mCurrentUsbFunctionsApplied \in BOOLEAN
  /\ faults \in 0..MaxFaults

MonitorInit ==
  /\ mpc = "none" /\ writeUdc = FALSE /\ toCheck = {} /\ batch = 0 /\ ready = {}
  /\ eventFd = 0 /\ mEndpointList = {} /\ mMonitorRunning = FALSE
  /\ mCallback = FALSE /\ gadgetPullup = FALSE
  /\ mCurrentUsbFunctionsApplied \in BOOLEAN /\ faults = 0

Fault(site) == site \in FaultSites /\ faults < MaxFaults /\ faults' = faults + 1

-----------------------------------------------------------------------------
(* The thread function, startMonitorFd.  The scan made before the loop is  *)
(* the scan of a one-event batch that no epoll_wait announced.             *)

\* Mutant: the loop is entered without a first scan.
StartWithoutScan ==
  /\ mpc' = "poll" /\ writeUdc' = TRUE
  /\ toCheck' = {} /\ batch' = 0 /\ ready' = {}

\* new thread(startMonitorFd, this); its first action is a scan.
StartThread ==
  /\ mpc' = "scan" /\ writeUdc' = TRUE
  /\ toCheck' = mEndpointList /\ batch' = 1 /\ ready' = {}

\* Mutant: one event too many is taken from the buffer.
NextEventOffByOne ==
  /\ batch' = batch - 1
  /\ IF batch >= 0 THEN mpc' = "scan" /\ toCheck' = mEndpointList
                   ELSE mpc' = "poll" /\ toCheck' = {}
  /\ UNCHANGED ready

\* Go on with the next event of the buffer, or with the next ready fd.
NextEvent ==
  /\ batch' = batch - 1
  /\ IF batch > 1 THEN mpc' = "scan" /\ toCheck' = mEndpointList
                  ELSE mpc' = "poll" /\ toCheck' = {}
  /\ UNCHANGED ready

\* access() finds the endpoint: go on with the scan.
EndpointPresent ==
  /\ mpc = "scan"
  /\ \E e \in toCheck : daemon[e] = "active" /\ toCheck' = toCheck \ {e}
  /\ UNCHANGED <<mpc, writeUdc, batch, ready, objectVars, kernelVars>>

\* access() fails: remember to pull up when the endpoints are back.
EndpointAbsent ==
  /\ mpc = "scan"
  /\ \E e \in toCheck : daemon[e] # "active"
  /\ writeUdc' = TRUE
  /\ NextEvent
  /\ UNCHANGED <<objectVars, kernelVars>>

\* All endpoints found: pull up, after usleep(kPullUpDelay), if it is due.
ScanComplete ==
  /\ mpc = "scan" /\ toCheck = {}
  /\ IF writeUdc THEN mpc' = "udc" /\ UNCHANGED <<toCheck, batch, ready>>
                 ELSE NextEvent
  /\ UNCHANGED <<writeUdc, objectVars, kernelVars>>

WriteUdcOk ==
  /\ mpc = "udc"
  /\ Bind
  /\ mpc' = "locked"
  /\ UNCHANGED <<writeUdc, toCheck, batch, ready, objectVars,
                 linked, daemon, deaths, watches, queue>>

\* The write to UDC fails: nothing but another event makes it be retried.
WriteUdcFails ==
  /\ mpc = "udc"
  /\ \/ ~CanBind /\ UNCHANGED faults
     \/ CanBind /\ Fault("udc")
  /\ NextEvent
  /\ UNCHANGED <<writeUdc, eventFd, mEndpointList, mMonitorRunning, mCallback,
                 gadgetPullup, mCurrentUsbFunctionsApplied, kernelVars>>

\* The section under mLock: call the callback, wake the waiter.
NotifyPulledUp ==
  /\ mpc = "locked"
  /\ mCurrentUsbFunctionsApplied' = TRUE
  /\ gadgetPullup' = TRUE
  /\ writeUdc' = FALSE
  /\ NextEvent
  /\ UNCHANGED <<eventFd, mEndpointList, mMonitorRunning, mCallback, faults,
                 kernelVars>>

\* epoll_wait reports every fd that is readable.
EpollWait ==
  /\ mpc = "poll" /\ ready = {}
  /\ ready' = (IF queue > 0 THEN {"inotify"} ELSE {})
                \cup (IF eventFd > 0 THEN {"event"} ELSE {})
  /\ ready' # {}
  /\ UNCHANGED <<mpc, writeUdc, toCheck, batch, objectVars, kernelVars>>

\* read() takes every queued event, each of which causes a scan.
ReadInotify ==
  /\ mpc = "poll" /\ "inotify" \in ready /\ queue > 0
  /\ ready' = ready \ {"inotify"}
  /\ batch' = queue /\ queue' = 0
  /\ mpc' = "scan" /\ toCheck' = mEndpointList
  /\ UNCHANGED <<writeUdc, objectVars, linked, bound, daemon, deaths, watches, up>>

\* read() takes the event counter; exactly 100 means shut down.
ReadEventFd ==
  /\ mpc = "poll" /\ "event" \in ready
  /\ eventFd' = 0
  /\ IF eventFd = kShutdownMonitor
       THEN mpc' = "exited" /\ ready' = {}
       ELSE ready' = ready \ {"event"} /\ UNCHANGED mpc
  /\ UNCHANGED <<writeUdc, toCheck, batch, mEndpointList, mMonitorRunning,
                 mCallback, gadgetPullup, mCurrentUsbFunctionsApplied, faults,
                 kernelVars>>

MonitorStep ==
  \/ EndpointPresent \/ EndpointAbsent \/ ScanComplete
  \/ WriteUdcOk \/ WriteUdcFails \/ NotifyPulledUp
  \/ EpollWait \/ ReadInotify \/ ReadEventFd

-----------------------------------------------------------------------------
(* Operations of the binder thread on the object.                          *)

\* Mutant: inotify_add_watch is not called.
MonitorWithoutWatch(f) ==
  mEndpointList' = mEndpointList \cup {f} /\ UNCHANGED watches

\* addInotifyFd, then addEndPoint.
Monitor(f) ==
  /\ watches' = watches \cup {f}
  /\ mEndpointList' = mEndpointList \cup {f}

\* Mutant: a value the thread does not know is written.
SignalOtherValue == eventFd' = eventFd + 1

\* reset(), first half: signal the thread.
SignalExit == eventFd' = eventFd + kShutdownMonitor

\* Mutants: gadgetPullup is not reset; the monitor still counts as running.
JoinKeepsPullup ==
  /\ mpc = "exited" /\ mpc' = "none" /\ mMonitorRunning' = FALSE
  /\ queue' = IF watches = {} THEN queue ELSE Queued
  /\ watches' = {} /\ mEndpointList' = {} /\ mCallback' = FALSE
  /\ UNCHANGED gadgetPullup

JoinKeepsRunning ==
  /\ mpc = "exited" /\ mpc' = "none"
  /\ queue' = IF watches = {} THEN queue ELSE Queued
  /\ watches' = {} /\ mEndpointList' = {}
  /\ gadgetPullup' = FALSE /\ mCallback' = FALSE
  /\ UNCHANGED mMonitorRunning

\* reset(), second half: join it, remove the watches (which queues an
\* IN_IGNORED event), forget the endpoints and the callback.
JoinAndClear ==
  /\ mpc = "exited"
  /\ mpc' = "none"
  /\ mMonitorRunning' = FALSE
  /\ queue' = IF watches = {} THEN queue ELSE Queued
  /\ watches' = {} /\ mEndpointList' = {}
  /\ gadgetPullup' = FALSE /\ mCallback' = FALSE
=============================================================================
