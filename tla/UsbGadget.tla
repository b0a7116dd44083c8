------------------------------ MODULE UsbGadget ------------------------------
(***************************************************************************)
(* The USB gadget HAL: struct UsbGadget, whose methods run on the single   *)
(* binder thread of the service, together with the MonitorFfs thread it    *)
(* starts and stops, the kernel and the FunctionFS daemons.                *)
(***************************************************************************)
EXTENDS MonitorFfs

CONSTANT Requests   \* calls of setCurrentUsbFunctions the client may make

ASSUME RequestsAssumption ==
  Requests \subseteq [functions : SUBSET GadgetFunction, callback : BOOLEAN]

VARIABLES pc,                    \* control point of the binder thread
          mCurrentUsbFunctions,
          callback,              \* the request has a callback
          todo,                  \* functions of the request not linked yet
          reply                  \* history: the answer to the last request

binderVars == <<pc, mCurrentUsbFunctions, callback, todo, reply>>
vars == <<binderVars, monitorVars, objectVars, kernelVars>>

Status == {"SUCCESS", "ERROR", "CONFIGURATION_NOT_SUPPORTED"}
NoReply == "none"

BinderState == {"idle", "pulldown", "clear", "signal", "join", "down", "add",
                "udc", "start", "wait", "reset"}

TypeOK ==
  /\ KernelTypeOK
  /\ MonitorTypeOK
  /\ pc \in BinderState
  /\ mCurrentUsbFunctions \in SUBSET GadgetFunction
  /\ callback \in BOOLEAN
  /\ todo \in SUBSET GadgetFunction
  /\ reply \in Status \cup {NoReply}

\* The constructor gives mCurrentUsbFunctions and mCurrentUsbFunctionsApplied no
\* values: until the first request they are whatever is found there.
Init ==
  /\ KernelInit /\ MonitorInit
  /\ pc = "idle" /\ mCurrentUsbFunctions \in SUBSET GadgetFunction
  /\ callback = FALSE /\ todo = {} /\ reply = NoReply

\* The request is over: answer with setCurrentUsbFunctionsCb if there is a
\* callback.
Answer(status) ==
  /\ pc' = "idle"
  /\ todo' = {}
  /\ reply' = IF callback THEN status ELSE NoReply
  /\ UNCHANGED <<mCurrentUsbFunctions, callback>>

Goto(label) ==
  /\ pc' = label
  /\ UNCHANGED <<mCurrentUsbFunctions, callback, todo, reply>>

\* getCurrentUsbFunctions may be called whenever the binder thread is idle
\* and reports this status.
CurrentStatus == IF mCurrentUsbFunctionsApplied THEN "FUNCTIONS_APPLIED"
                                                ELSE "FUNCTIONS_NOT_APPLIED"

-----------------------------------------------------------------------------
(* setCurrentUsbFunctions                                                  *)

Call(r) ==
  /\ pc = "idle" /\ pc' = "pulldown"
  /\ mCurrentUsbFunctions' = r.functions
  /\ callback' = r.callback
  /\ mCurrentUsbFunctionsApplied' = FALSE
  /\ reply' = NoReply /\ up' = {}
  /\ UNCHANGED <<todo, monitorVars, eventFd, mEndpointList, mMonitorRunning,
                 mCallback, gadgetPullup, faults, linked, bound, daemon,
                 deaths, watches, queue>>

\* resetGadget: write "none" to UDC; a failure is only logged.
PullDown ==
  /\ pc = "pulldown" /\ Goto("clear")
  /\ \/ bound' = FALSE /\ UNCHANGED faults
     \/ Fault("none") /\ UNCHANGED bound
  /\ UNCHANGED <<monitorVars, eventFd, mEndpointList, mMonitorRunning,
                 mCallback, gadgetPullup, mCurrentUsbFunctionsApplied,
                 linked, daemon, deaths, watches, queue, up>>

\* Mutant: a running monitor is not stopped.
ClearForgetsMonitor ==
  /\ pc = "clear" /\ Goto("down")
  /\ linked' = {} /\ bound' = (bound /\ linked = {}) /\ up' = {}
  /\ UNCHANGED <<monitorVars, objectVars, daemon, deaths, watches, queue>>

\* resetGadget: clear the class files and unlink the functions.  Unlinking a
\* function of a bound gadget unbinds it.
Clear ==
  /\ pc = "clear"
  /\ linked' = {}
  /\ bound' = (bound /\ linked = {})
  /\ up' = {}
  /\ Goto(IF mMonitorRunning THEN "signal" ELSE "down")
  /\ UNCHANGED <<monitorVars, objectVars, daemon, deaths, watches, queue>>

\* A class file cannot be written, or only some functions can be unlinked:
\* the request is answered with an error and a running monitor goes on.
ClearFails ==
  /\ pc = "clear" /\ Fault("clear")
  /\ \E rest \in SUBSET linked :
       linked' = rest /\ bound' = (bound /\ rest = linked)
  /\ Answer("ERROR")
  /\ UNCHANGED <<monitorVars, eventFd, mEndpointList, mMonitorRunning,
                 mCallback, gadgetPullup, mCurrentUsbFunctionsApplied,
                 daemon, deaths, watches, queue, up>>

Signal ==
  /\ pc = "signal" /\ Goto("join")
  /\ SignalExit
  /\ UNCHANGED <<monitorVars, mEndpointList, mMonitorRunning, mCallback,
                 gadgetPullup, mCurrentUsbFunctionsApplied, faults, kernelVars>>

Join ==
  /\ pc = "join" /\ Goto("down")
  /\ JoinAndClear
  /\ UNCHANGED <<writeUdc, toCheck, batch, ready, eventFd,
                 mCurrentUsbFunctionsApplied, faults,
                 linked, bound, daemon, deaths, up>>

\* After usleep(kDisconnectWaitUs): NONE is done, other requests are
\* validated and their vid and pid are written.
Validate ==
  /\ pc = "down"
  /\ \/ mCurrentUsbFunctions = {} /\ Answer("SUCCESS") /\ UNCHANGED faults
     \/ /\ mCurrentUsbFunctions \notin Supported \cup {{}}
        /\ Answer("CONFIGURATION_NOT_SUPPORTED") /\ UNCHANGED faults
     \/ /\ mCurrentUsbFunctions \in Supported
        /\ pc' = "add" /\ todo' = LinkSet(mCurrentUsbFunctions)
        /\ UNCHANGED <<mCurrentUsbFunctions, callback, reply, faults>>
     \/ /\ mCurrentUsbFunctions \in Supported
        /\ Fault("vidpid") /\ Answer("ERROR")
  /\ UNCHANGED <<monitorVars, eventFd, mEndpointList, mMonitorRunning,
                 mCallback, gadgetPullup, mCurrentUsbFunctionsApplied,
                 kernelVars>>

\* addGenericAndroidFunctions and addAdb: watch a FunctionFS directory, link
\* the function, then list its endpoints.
AddFunction ==
  /\ pc = "add"
  /\ \E f \in todo :
       /\ IsNextFunction(f, todo)
       /\ linked' = linked \cup {f}
       /\ todo' = todo \ {f}
       /\ IF f \in Ffs THEN Monitor(f) ELSE UNCHANGED <<watches, mEndpointList>>
  /\ UNCHANGED <<pc, mCurrentUsbFunctions, callback, reply, monitorVars,
                 eventFd, mMonitorRunning, mCallback, gadgetPullup,
                 mCurrentUsbFunctionsApplied, faults,
                 bound, daemon, deaths, queue, up>>

\* A step of it fails, before or after the watch is in place.  What was
\* added before stays.
AddFails ==
  /\ pc = "add" /\ Fault("link")
  /\ \E f \in todo :
       /\ IsNextFunction(f, todo)
       /\ watches' \in {watches, watches \cup ({f} \cap Ffs)}
  /\ Answer("ERROR")
  /\ UNCHANGED <<monitorVars, eventFd, mEndpointList, mMonitorRunning,
                 mCallback, gadgetPullup, mCurrentUsbFunctionsApplied,
                 linked, bound, daemon, deaths, queue, up>>

AllAdded ==
  /\ pc = "add" /\ todo = {}
  /\ Goto(IF mCurrentUsbFunctions \cap Ffs = {} THEN "udc" ELSE "start")
  /\ UNCHANGED <<monitorVars, objectVars, kernelVars>>

\* No FunctionFS function: pull up right away.
PullUp ==
  /\ pc = "udc"
  /\ Bind
  /\ mCurrentUsbFunctionsApplied' = TRUE
  /\ Answer("SUCCESS")
  /\ UNCHANGED <<monitorVars, eventFd, mEndpointList, mMonitorRunning,
                 mCallback, gadgetPullup, faults,
                 linked, daemon, deaths, watches, queue>>

PullUpFails ==
  /\ pc = "udc"
  /\ \/ ~CanBind /\ UNCHANGED faults
     \/ CanBind /\ Fault("udc")
  /\ Answer("ERROR")
  /\ UNCHANGED <<monitorVars, eventFd, mEndpointList, mMonitorRunning,
                 mCallback, gadgetPullup, mCurrentUsbFunctionsApplied,
                 kernelVars>>

\* Mutant: the client is answered without waiting for the pull-up.
StartWithoutWait ==
  /\ pc = "start" /\ Answer("SUCCESS")
  /\ mCallback' = TRUE /\ mMonitorRunning' = TRUE
  /\ StartThread
  /\ UNCHANGED <<eventFd, mEndpointList, gadgetPullup,
                 mCurrentUsbFunctionsApplied, faults, kernelVars>>

\* Register the callback and start the monitor; a request without a client
\* callback ends here.
Start ==
  /\ pc = "start"
  /\ mCallback' = TRUE /\ mMonitorRunning' = TRUE
  /\ StartThread
  /\ Goto(IF callback THEN "wait" ELSE "idle")
  /\ UNCHANGED <<eventFd, mEndpointList, gadgetPullup,
                 mCurrentUsbFunctionsApplied, faults, kernelVars>>

\* waitForPullUp: returns when the monitor signals, or with the timeout; the
\* answer is what gadgetPullup says then.
WaitForPullUp ==
  /\ pc = "wait"
  /\ Answer(IF gadgetPullup THEN "SUCCESS" ELSE "ERROR")
  /\ UNCHANGED <<monitorVars, objectVars, kernelVars>>

SetCurrentUsbFunctionsStep ==
  \/ PullDown \/ Clear \/ ClearFails \/ Signal \/ Join \/ Validate
  \/ AddFunction \/ AddFails \/ AllAdded \/ PullUp \/ PullUpFails
  \/ Start \/ WaitForPullUp

-----------------------------------------------------------------------------
(* reset: pull the gadget down and, after a pause, up again.               *)

ResetDown ==
  /\ pc = "idle" /\ bound /\ Goto("reset")
  /\ bound' = FALSE
  /\ UNCHANGED <<monitorVars, objectVars, linked, daemon, deaths, watches,
                 queue, up>>

\* Mutant: reset() pulls down only.
ResetUpForgotten ==
  pc = "reset" /\ Goto("idle") /\ UNCHANGED <<monitorVars, objectVars, kernelVars>>

ResetUp ==
  /\ pc = "reset" /\ Goto("idle")
  /\ \/ Bind /\ UNCHANGED faults
     \/ ~CanBind /\ UNCHANGED <<bound, up, faults>>
     \/ Fault("udc") /\ UNCHANGED <<bound, up>>
  /\ UNCHANGED <<monitorVars, eventFd, mEndpointList, mMonitorRunning,
                 mCallback, gadgetPullup, mCurrentUsbFunctionsApplied,
                 linked, daemon, deaths, watches, queue>>

-----------------------------------------------------------------------------
EnvironmentStep ==
  /\ \E d \in Ffs : DaemonStep(d)
  /\ UNCHANGED <<binderVars, monitorVars, objectVars>>

MonitorThread == MonitorStep /\ UNCHANGED binderVars

BinderThread == SetCurrentUsbFunctionsStep \/ ResetUp

Next ==
  \/ \E r \in Requests : Call(r)
  \/ ResetDown
  \/ BinderThread
  \/ MonitorThread
  \/ EnvironmentStep

Spec == Init /\ [][Next]_vars

\* Both threads are scheduled; nothing is assumed of the daemons.
Fairness == WF_vars(BinderThread) /\ WF_vars(MonitorThread)

FairSpec == Spec /\ Fairness

-----------------------------------------------------------------------------
(* Safety.                                                                 *)

MonitorAlive == mpc \notin {"none", "exited"}

\* When startMonitor replaces the thread object, the previous thread has been
\* joined (a joinable std::thread that is destroyed terminates the process)
\* and no shutdown count is left in mEventFd (it would stop the new thread at
\* once, and the next shutdown would add up to 200 and be ignored).
FreshStart == pc = "start" => mpc = "none" /\ ~mMonitorRunning /\ eventFd = 0

\* The monitor never calls a null mCallback: registration comes before the
\* thread starts and reset() clears the pointer after the thread is joined.
CallbackRegistered == mpc = "locked" => mCallback

\* A request for functions that is answered SUCCESS was really served: since
\* it was made, the gadget was pulled up with exactly its functions, and
\* getCurrentUsbFunctions reports them as applied.
SuccessIsTrue ==
  pc = "idle" /\ reply = "SUCCESS" /\ mCurrentUsbFunctions # {}
    => /\ up = LinkSet(mCurrentUsbFunctions)
       /\ CurrentStatus = "FUNCTIONS_APPLIED"

\* After NONE is answered SUCCESS the gadget stays down: nothing is linked,
\* and no monitor is left that could pull it up again.
NoneMeansDown ==
  pc = "idle" /\ reply = "SUCCESS" /\ mCurrentUsbFunctions = {}
    => ~bound /\ linked = {} /\ ~MonitorAlive /\ ~mMonitorRunning

\* The monitor sleeps: no event is queued, signalled or being processed.
MonitorAsleep == mpc = "poll" /\ ready = {} /\ queue = 0

DescriptorsWritten == \A d \in linked \cap Ffs : daemon[d] = "active"

\* No wake-up is lost between the watches, the first scan and the event loop:
\* as long as no operation on configfs failed, a monitor that still has to
\* pull up never sleeps while all the descriptors are written and the gadget
\* is down, however often their owners died.
NoLostWakeup ==
  faults = 0 /\ MonitorAsleep /\ writeUdc /\ DescriptorsWritten
             /\ pc \in {"idle", "wait"}
    => bound

\* "Starts monitoring endpoints and pullup the gadget when the descriptors are
\* written" (UsbGadgetCommon.h) is true in full as long as no operation failed
\* and no owner died: nothing else, no timeout, reset or new request, leaves the
\* gadget down with a monitor that sleeps over written descriptors.
AsleepOnlyWhenUp ==
  faults = 0 /\ deaths = 0 /\ MonitorAsleep /\ DescriptorsWritten
             /\ pc \in {"idle", "wait"}
    => bound

\* The monitor reads mEndpointList without a lock; it never changes under a
\* live thread.
EndpointListStable == [][MonitorAlive => UNCHANGED mEndpointList]_vars

\* Functions are linked only into a gadget that is down, with no monitor
\* alive that could pull up half of a configuration.
LinkedWhileDown ==
  [][~(linked' \subseteq linked) => ~bound /\ ~MonitorAlive]_vars

-----------------------------------------------------------------------------
(* The inductive invariant behind the safety properties, by topic.         *)

\* Which phases of the binder thread exclude a monitor, and what the thread
\* and its shutdown counter may be in the others.
ThreadInv ==
  /\ mMonitorRunning <=> mpc # "none"
  /\ mMonitorRunning => mCallback
  /\ pc \in {"down", "add", "udc", "start"} => ~mMonitorRunning
  /\ pc \in {"signal", "join", "wait"} => mMonitorRunning
  /\ mpc = "exited" => pc = "join"
  /\ eventFd = IF pc = "join" /\ mpc # "exited" THEN kShutdownMonitor ELSE 0
  /\ mpc \in {"scan", "udc", "locked"} => batch > 0

\* What is linked in the phases that build a configuration.
LinkInv ==
  /\ linked = {} => ~bound
  /\ pc \in {"signal", "join", "down"} => linked = {} /\ ~bound
  /\ pc = "add" => linked \cup todo = LinkSet(mCurrentUsbFunctions) /\ ~bound
  /\ pc \in {"udc", "start", "wait"} => linked = LinkSet(mCurrentUsbFunctions)
  /\ pc \in {"udc", "start"} => ~bound
  /\ pc \in {"add", "udc", "start", "wait"} => mCurrentUsbFunctions # {}

\* What a pull-up seen by the waiter stands for, and what survives the
\* answer until the next request.
ServedInv ==
  /\ gadgetPullup => mMonitorRunning
  /\ pc \notin {"idle", "reset"} => reply = NoReply
  /\ pc = "wait" /\ mpc = "locked" => up = linked
  /\ pc = "wait" /\ gadgetPullup => up = linked /\ mCurrentUsbFunctionsApplied
  /\ pc \in {"idle", "reset"} /\ reply = "SUCCESS" =>
       /\ linked = LinkSet(mCurrentUsbFunctions)
       /\ IF mCurrentUsbFunctions = {}
            THEN ~bound /\ ~mMonitorRunning
            ELSE up = linked /\ mCurrentUsbFunctionsApplied

IndInv == TypeOK /\ ThreadInv /\ LinkInv /\ ServedInv

\* Behind NoLostWakeup: without faults the monitor watches and checks what is
\* linked, and sleeps with a pull-up due only if an owner is missing, whose
\* return will be reported, or has been reported already.
WakeInv ==
  faults = 0 =>
    /\ pc \notin {"signal", "join"} =>
         mEndpointList = linked \cap Ffs /\ mEndpointList \subseteq watches
    /\ ~mMonitorRunning /\ pc \notin {"add", "udc", "start"} => mEndpointList = {}
    /\ pc = "udc" => linked \cap Ffs = {}
    /\ mMonitorRunning /\ pc \notin {"signal", "join"} => linked # {}
    /\ mpc = "scan" => toCheck \subseteq mEndpointList
    /\ pc \in {"idle", "wait"} /\ mpc = "poll" /\ writeUdc /\ DescriptorsWritten
         => bound \/ queue > 0

\* Behind AsleepOnlyWhenUp: as long as no owner died either, descriptors stay
\* written, so a monitor that has pulled up leaves the gadget up, except while
\* reset() has it down, which can then pull it up again.
UpInv ==
  (/\ faults = 0 /\ deaths = 0 /\ pc \in {"idle", "wait", "reset"}
   /\ mMonitorRunning /\ (mpc = "locked" \/ ~writeUdc))
  => DescriptorsWritten /\ (bound \/ pc = "reset")

-----------------------------------------------------------------------------
(* Liveness.                                                               *)

\* Once the descriptors are written the gadget is pulled up, unless another
\* request or a reset intervenes, an operation failed or an owner died.
PulledUpEventually ==
  mMonitorRunning /\ DescriptorsWritten
    ~> bound \/ pc \notin {"idle", "wait"} \/ faults > 0 \/ deaths > 0

-----------------------------------------------------------------------------
(* What the comments of the code promise and the code does not do.         *)

\* UsbGadgetCommon.h: the callback notifies "when the gadget pull up
\* happens".  When getCurrentUsbFunctions reports the functions of a request
\* that are linked as applied, they were pulled up since that request tore the
\* gadget down.  (Before the first request nothing is linked.)
AppliedIsTrue ==
  pc = "idle" /\ linked # {} /\ CurrentStatus = "FUNCTIONS_APPLIED"
    => up = LinkSet(mCurrentUsbFunctions)

\* UsbGadgetCommon.h: startMonitor "Starts monitoring endpoints and pullup
\* the gadget when the descriptors are written".
PulledUpWhenWritten ==
  MonitorAsleep /\ DescriptorsWritten /\ pc \in {"idle", "wait"} => bound

\* UsbGadgetCommon.h: "Restarts the usb gadget when the ep owner restarts".
RestartPullsUpAgain ==
  MonitorAsleep /\ DescriptorsWritten /\ pc = "idle" /\ deaths > 0 /\ up # {}
    => bound

-----------------------------------------------------------------------------
Api == INSTANCE GadgetApi WITH
         busy <- pc \notin {"idle", "reset"},
         functions <- mCurrentUsbFunctions,
         served <- mCurrentUsbFunctions # {} /\ up = LinkSet(mCurrentUsbFunctions)

ApiSpec == Api!Spec
ApiFairSpec == Api!FairSpec
==============================================================================
