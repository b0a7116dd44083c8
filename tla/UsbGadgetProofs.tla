--------------------------- MODULE UsbGadgetProofs ---------------------------
(***************************************************************************)
(* The safety properties of UsbGadget hold for any set of requests, any    *)
(* number of daemon deaths and I/O faults and any length of the inotify    *)
(* queue.                                                                  *)
(***************************************************************************)
EXTENDS UsbGadget, TLAPS

\* Linking one function at a time makes progress towards LinkSet.
LEMMA LinkSetInSubset ==
  ASSUME NEW fs \in SUBSET GadgetFunction
  PROVE  /\ LinkSet(fs) \in SUBSET GadgetFunction
         /\ LinkSet(fs) = {} <=> fs = {}
  BY DEF LinkSet, GadgetFunction

\* NONE is not a combination that has a product id.
LEMMA NoneNotSupported == {} \notin Supported
  BY DEF Supported

\* So does moving on to the next event, in the states that process one.
LEMMA NextEventTypes ==
  ASSUME IndInv, mpc \in {"scan", "udc", "locked"}, NextEvent
  PROVE  /\ mpc' \in MonitorState
         /\ toCheck' \in SUBSET Ffs
         /\ batch' \in 0..MaxEvents
         /\ ready' \in SUBSET {"inotify", "event"}
  BY ConfigfsAssumption DEF IndInv, TypeOK, MonitorTypeOK, MonitorState,
     ThreadInv, NextEvent

\* Every step keeps the types.
LEMMA TypeStep ==
  ASSUME IndInv, [Next]_vars
  PROVE  TypeOK'
<1> USE ConfigfsAssumption, FaultAssumption, RequestsAssumption
    DEF IndInv, TypeOK, KernelTypeOK, MonitorTypeOK, binderVars, monitorVars,
        objectVars, kernelVars, DaemonState, MonitorState, BinderState, Status,
        NoReply, Goto, Answer
<1>1. ASSUME NEW r \in Requests, Call(r) PROVE TypeOK'
  BY <1>1 DEF Call
<1>2. CASE ResetDown
  BY <1>2 DEF ResetDown
<1>3. CASE ResetUp
  <2>1. KernelTypeOK' BY <1>3 DEF ResetUp, Bind, Fault
  <2>2. MonitorTypeOK' BY <1>3 DEF ResetUp, Bind, Fault
  <2> QED BY <2>1, <2>2, <1>3 DEF ResetUp, Bind, Fault
<1>4. CASE SetCurrentUsbFunctionsStep
  <2>1. CASE PullDown
    <3>1. KernelTypeOK' BY <2>1 DEF PullDown, Fault
    <3>2. MonitorTypeOK' BY <2>1 DEF PullDown, Fault
    <3> QED BY <3>1, <3>2, <2>1 DEF PullDown, Fault
  <2>2. CASE Clear BY <2>2 DEF Clear
  <2>3. CASE ClearFails BY <2>3 DEF ClearFails, Fault
  <2>4. CASE Signal BY <2>4 DEF Signal, SignalExit, kShutdownMonitor
  <2>5. CASE Join
    <3>1. KernelTypeOK' BY <2>5 DEF Join, JoinAndClear, Queued
    <3>2. MonitorTypeOK' BY <2>5 DEF Join, JoinAndClear, Queued
    <3> QED BY <3>1, <3>2, <2>5 DEF Join, JoinAndClear, Queued
  <2>6. CASE Validate
    BY <2>6, LinkSetInSubset, NoneNotSupported DEF Validate, Fault
  <2>7. CASE AddFunction BY <2>7 DEF AddFunction, Monitor
  <2>8. CASE AddFails BY <2>8 DEF AddFails, Fault
  <2>9. CASE AllAdded BY <2>9 DEF AllAdded
  <2>10. CASE PullUp BY <2>10 DEF PullUp, Bind
  <2>11. CASE PullUpFails BY <2>11 DEF PullUpFails, Fault
  <2>12. CASE Start BY <2>12 DEF Start, StartThread
  <2>13. CASE WaitForPullUp BY <2>13 DEF WaitForPullUp
  <2> QED BY <1>4, <2>1, <2>2, <2>3, <2>4, <2>5, <2>6, <2>7, <2>8, <2>9,
             <2>10, <2>11, <2>12, <2>13 DEF SetCurrentUsbFunctionsStep
<1>5. CASE MonitorThread
  <2> USE <1>5 DEF MonitorThread
  <2>1. CASE EndpointPresent BY <2>1 DEF EndpointPresent
  <2>2. CASE EndpointAbsent BY <2>2, NextEventTypes DEF EndpointAbsent
  <2>3. CASE ScanComplete
    <3>1. KernelTypeOK' BY <2>3, NextEventTypes DEF ScanComplete
    <3>2. MonitorTypeOK' BY <2>3, NextEventTypes DEF ScanComplete
    <3> QED BY <3>1, <3>2, <2>3 DEF ScanComplete
  <2>4. CASE WriteUdcOk BY <2>4 DEF WriteUdcOk, Bind
  <2>5. CASE WriteUdcFails BY <2>5, NextEventTypes DEF WriteUdcFails, Fault
  <2>6. CASE NotifyPulledUp
    <3>1. KernelTypeOK' BY <2>6, NextEventTypes DEF NotifyPulledUp
    <3>2. MonitorTypeOK' BY <2>6, NextEventTypes DEF NotifyPulledUp
    <3> QED BY <3>1, <3>2, <2>6 DEF NotifyPulledUp
  <2>7. CASE EpollWait BY <2>7 DEF EpollWait
  <2>8. CASE ReadInotify BY <2>8 DEF ReadInotify
  <2>9. CASE ReadEventFd
    <3>1. KernelTypeOK' BY <2>9 DEF ReadEventFd
    <3>2. MonitorTypeOK' BY <2>9 DEF ReadEventFd, kShutdownMonitor
    <3> QED BY <3>1, <3>2, <2>9 DEF ReadEventFd
  <2> QED BY <2>1, <2>2, <2>3, <2>4, <2>5, <2>6, <2>7, <2>8, <2>9
          DEF MonitorStep
<1>6. CASE EnvironmentStep
  <2> PICK d \in Ffs : DaemonStep(d) BY <1>6 DEF EnvironmentStep
  <2> USE <1>6 DEF EnvironmentStep, Notify, Queued
  <2>1. CASE Open(d) BY <2>1 DEF Open
  <2>2. CASE WriteDescriptors(d) BY <2>2 DEF WriteDescriptors
  <2>3. CASE Traffic(d) BY <2>3 DEF Traffic
  <2>4. CASE Die(d) BY <2>4 DEF Die
  <2> QED BY <2>1, <2>2, <2>3, <2>4 DEF DaemonStep
<1>7. CASE UNCHANGED vars
  BY <1>7 DEF vars
<1> QED BY <1>1, <1>2, <1>3, <1>4, <1>5, <1>6, <1>7 DEF Next, BinderThread

\* Every step keeps the relation between the two threads.
LEMMA ThreadStep ==
  ASSUME IndInv, [Next]_vars
  PROVE  ThreadInv'
<1> USE ConfigfsAssumption DEF ThreadInv, kShutdownMonitor, IndInv, TypeOK, KernelTypeOK, MonitorTypeOK,
        binderVars, monitorVars, objectVars, kernelVars, Goto, Answer
<1>1. ASSUME NEW r \in Requests, Call(r) PROVE ThreadInv'
  BY <1>1 DEF Call
<1>2. CASE ResetDown
  BY <1>2 DEF ResetDown
<1>3. CASE ResetUp
  BY <1>3 DEF ResetUp, Bind, Fault
<1>4. CASE SetCurrentUsbFunctionsStep
  <2>1. CASE PullDown BY <2>1 DEF PullDown, Fault
  <2>2. CASE Clear BY <2>2 DEF Clear
  <2>3. CASE ClearFails BY <2>3 DEF ClearFails, Fault
  <2>4. CASE Signal BY <2>4 DEF Signal, SignalExit
  <2>5. CASE Join BY <2>5 DEF Join, JoinAndClear, Queued
  <2>6. CASE Validate BY <2>6 DEF Validate, Fault
  <2>7. CASE AddFunction BY <2>7 DEF AddFunction, Monitor
  <2>8. CASE AddFails BY <2>8 DEF AddFails, Fault
  <2>9. CASE AllAdded BY <2>9 DEF AllAdded
  <2>10. CASE PullUp BY <2>10 DEF PullUp, Bind
  <2>11. CASE PullUpFails BY <2>11 DEF PullUpFails, Fault
  <2>12. CASE Start BY <2>12 DEF Start, StartThread
  <2>13. CASE WaitForPullUp BY <2>13 DEF WaitForPullUp
  <2> QED BY <1>4, <2>1, <2>2, <2>3, <2>4, <2>5, <2>6, <2>7, <2>8, <2>9, <2>10, <2>11, <2>12, <2>13
          DEF SetCurrentUsbFunctionsStep
<1>5. CASE MonitorThread
  <2> USE <1>5 DEF MonitorThread, NextEvent
  <2>1. CASE EndpointPresent BY <2>1 DEF EndpointPresent
  <2>2. CASE EndpointAbsent BY <2>2 DEF EndpointAbsent
  <2>3. CASE ScanComplete BY <2>3 DEF ScanComplete
  <2>4. CASE WriteUdcOk BY <2>4 DEF WriteUdcOk, Bind
  <2>5. CASE WriteUdcFails BY <2>5 DEF WriteUdcFails, Fault
  <2>6. CASE NotifyPulledUp BY <2>6 DEF NotifyPulledUp
  <2>7. CASE EpollWait BY <2>7 DEF EpollWait
  <2>8. CASE ReadInotify BY <2>8 DEF ReadInotify
  <2>9. CASE ReadEventFd BY <2>9 DEF ReadEventFd
  <2> QED BY <2>1, <2>2, <2>3, <2>4, <2>5, <2>6, <2>7, <2>8, <2>9 DEF MonitorStep
<1>6. CASE EnvironmentStep
  BY <1>6 DEF EnvironmentStep, DaemonStep, Open, WriteDescriptors, Traffic, Die
<1>7. CASE UNCHANGED vars
  BY <1>7 DEF vars
<1> QED BY <1>1, <1>2, <1>3, <1>4, <1>5, <1>6, <1>7 DEF Next, BinderThread

\* Every step keeps what is known of the linked functions.
LEMMA LinkStep ==
  ASSUME IndInv, [Next]_vars
  PROVE  LinkInv'
<1> USE ConfigfsAssumption DEF LinkInv, ThreadInv, CanBind, IndInv, TypeOK, KernelTypeOK, MonitorTypeOK,
        binderVars, monitorVars, objectVars, kernelVars, Goto, Answer
<1>1. ASSUME NEW r \in Requests, Call(r) PROVE LinkInv'
  BY <1>1 DEF Call
<1>2. CASE ResetDown
  BY <1>2 DEF ResetDown
<1>3. CASE ResetUp
  BY <1>3 DEF ResetUp, Bind, Fault
<1>4. CASE SetCurrentUsbFunctionsStep
  <2>1. CASE PullDown BY <2>1 DEF PullDown, Fault
  <2>2. CASE Clear BY <2>2 DEF Clear
  <2>3. CASE ClearFails BY <2>3 DEF ClearFails, Fault
  <2>4. CASE Signal BY <2>4 DEF Signal, SignalExit
  <2>5. CASE Join BY <2>5 DEF Join, JoinAndClear, Queued
  <2>6. CASE Validate BY <2>6, LinkSetInSubset, NoneNotSupported DEF Validate, Fault
  <2>7. CASE AddFunction BY <2>7 DEF AddFunction, Monitor
  <2>8. CASE AddFails BY <2>8 DEF AddFails, Fault
  <2>9. CASE AllAdded BY <2>9 DEF AllAdded
  <2>10. CASE PullUp BY <2>10 DEF PullUp, Bind
  <2>11. CASE PullUpFails BY <2>11 DEF PullUpFails, Fault
  <2>12. CASE Start BY <2>12 DEF Start, StartThread
  <2>13. CASE WaitForPullUp BY <2>13 DEF WaitForPullUp
  <2> QED BY <1>4, <2>1, <2>2, <2>3, <2>4, <2>5, <2>6, <2>7, <2>8, <2>9, <2>10, <2>11, <2>12, <2>13
          DEF SetCurrentUsbFunctionsStep
<1>5. CASE MonitorThread
  <2> USE <1>5 DEF MonitorThread, NextEvent
  <2>1. CASE EndpointPresent BY <2>1 DEF EndpointPresent
  <2>2. CASE EndpointAbsent BY <2>2 DEF EndpointAbsent
  <2>3. CASE ScanComplete BY <2>3 DEF ScanComplete
  <2>4. CASE WriteUdcOk BY <2>4 DEF WriteUdcOk, Bind
  <2>5. CASE WriteUdcFails BY <2>5 DEF WriteUdcFails, Fault
  <2>6. CASE NotifyPulledUp BY <2>6 DEF NotifyPulledUp
  <2>7. CASE EpollWait BY <2>7 DEF EpollWait
  <2>8. CASE ReadInotify BY <2>8 DEF ReadInotify
  <2>9. CASE ReadEventFd BY <2>9 DEF ReadEventFd
  <2> QED BY <2>1, <2>2, <2>3, <2>4, <2>5, <2>6, <2>7, <2>8, <2>9 DEF MonitorStep
<1>6. CASE EnvironmentStep
  BY <1>6 DEF EnvironmentStep, DaemonStep, Open, WriteDescriptors, Traffic, Die
<1>7. CASE UNCHANGED vars
  BY <1>7 DEF vars
<1> QED BY <1>1, <1>2, <1>3, <1>4, <1>5, <1>6, <1>7 DEF Next, BinderThread

\* Every step keeps what a pull-up and an answer stand for.
LEMMA ServedStep ==
  ASSUME IndInv, [Next]_vars
  PROVE  ServedInv'
<1> USE ConfigfsAssumption DEF ServedInv, LinkInv, ThreadInv, CanBind, IndInv, TypeOK, KernelTypeOK, MonitorTypeOK,
        binderVars, monitorVars, objectVars, kernelVars, Goto, Answer, NoReply
<1>1. ASSUME NEW r \in Requests, Call(r) PROVE ServedInv'
  BY <1>1 DEF Call
<1>2. CASE ResetDown
  BY <1>2 DEF ResetDown
<1>3. CASE ResetUp
  BY <1>3, LinkSetInSubset DEF ResetUp, Bind, Fault
<1>4. CASE SetCurrentUsbFunctionsStep
  <2>1. CASE PullDown BY <2>1 DEF PullDown, Fault
  <2>2. CASE Clear BY <2>2 DEF Clear
  <2>3. CASE ClearFails BY <2>3 DEF ClearFails, Fault
  <2>4. CASE Signal BY <2>4 DEF Signal, SignalExit
  <2>5. CASE Join BY <2>5 DEF Join, JoinAndClear, Queued
  <2>6. CASE Validate BY <2>6, LinkSetInSubset, NoneNotSupported DEF Validate, Fault
  <2>7. CASE AddFunction BY <2>7 DEF AddFunction, Monitor
  <2>8. CASE AddFails BY <2>8 DEF AddFails, Fault
  <2>9. CASE AllAdded BY <2>9 DEF AllAdded
  <2>10. CASE PullUp BY <2>10 DEF PullUp, Bind
  <2>11. CASE PullUpFails BY <2>11 DEF PullUpFails, Fault
  <2>12. CASE Start BY <2>12 DEF Start, StartThread
  <2>13. CASE WaitForPullUp BY <2>13 DEF WaitForPullUp
  <2> QED BY <1>4, <2>1, <2>2, <2>3, <2>4, <2>5, <2>6, <2>7, <2>8, <2>9, <2>10, <2>11, <2>12, <2>13
          DEF SetCurrentUsbFunctionsStep
<1>5. CASE MonitorThread
  <2> USE <1>5 DEF MonitorThread, NextEvent
  <2>1. CASE EndpointPresent BY <2>1 DEF EndpointPresent
  <2>2. CASE EndpointAbsent BY <2>2 DEF EndpointAbsent
  <2>3. CASE ScanComplete BY <2>3 DEF ScanComplete
  <2>4. CASE WriteUdcOk BY <2>4 DEF WriteUdcOk, Bind
  <2>5. CASE WriteUdcFails BY <2>5 DEF WriteUdcFails, Fault
  <2>6. CASE NotifyPulledUp BY <2>6 DEF NotifyPulledUp
  <2>7. CASE EpollWait BY <2>7 DEF EpollWait
  <2>8. CASE ReadInotify BY <2>8 DEF ReadInotify
  <2>9. CASE ReadEventFd BY <2>9 DEF ReadEventFd
  <2> QED BY <2>1, <2>2, <2>3, <2>4, <2>5, <2>6, <2>7, <2>8, <2>9 DEF MonitorStep
<1>6. CASE EnvironmentStep
  BY <1>6 DEF EnvironmentStep, DaemonStep, Open, WriteDescriptors, Traffic, Die
<1>7. CASE UNCHANGED vars
  BY <1>7 DEF vars
<1> QED BY <1>1, <1>2, <1>3, <1>4, <1>5, <1>6, <1>7 DEF Next, BinderThread

-----------------------------------------------------------------------------
\* The inductive invariant holds of every state of every run.
THEOREM Invariance == Spec => []IndInv
<1>1. ASSUME Init PROVE IndInv
  <2> USE <1>1, ConfigfsAssumption, FaultAssumption
      DEF Init, KernelInit, MonitorInit, NoReply
  <2>1. KernelTypeOK
    <3>1. deaths \in 0..MaxDeaths /\ queue \in 0..MaxEvents OBVIOUS
    <3>2. daemon \in [Ffs -> DaemonState] BY DEF DaemonState
    <3> QED BY <3>1, <3>2 DEF KernelTypeOK
  <2>2. MonitorTypeOK
    <3>1. batch \in 0..MaxEvents /\ faults \in 0..MaxFaults /\ eventFd \in Nat
      OBVIOUS
    <3> QED BY <3>1 DEF MonitorTypeOK, MonitorState
  <2>3. ThreadInv BY DEF ThreadInv
  <2>4. LinkInv BY DEF LinkInv
  <2>5. ServedInv BY DEF ServedInv
  <2> QED BY <2>1, <2>2, <2>3, <2>4, <2>5 DEF IndInv, TypeOK, BinderState
<1>2. IndInv /\ [Next]_vars => IndInv'
  BY TypeStep, ThreadStep, LinkStep, ServedStep DEF IndInv
<1> QED BY <1>1, <1>2, PTL DEF Spec

\* Every variable keeps its type.
THEOREM TypeCorrect == Spec => []TypeOK
<1>1. IndInv => TypeOK BY DEF IndInv
<1> QED BY <1>1, Invariance, PTL

\* startMonitor never replaces a thread that was not joined, and never
\* starts one with a shutdown count left over.
THEOREM StartIsFresh == Spec => []FreshStart
<1>1. IndInv => FreshStart
  BY DEF IndInv, ThreadInv, FreshStart
<1> QED BY <1>1, Invariance, PTL

\* The monitor never calls a null callback.
THEOREM CallbackSafe == Spec => []CallbackRegistered
<1>1. IndInv => CallbackRegistered
  BY DEF IndInv, ThreadInv, CallbackRegistered
<1> QED BY <1>1, Invariance, PTL

\* SUCCESS means pulled up with exactly the requested functions.
THEOREM SuccessTruthful == Spec => []SuccessIsTrue
<1>1. IndInv => SuccessIsTrue
  BY DEF IndInv, ServedInv, SuccessIsTrue, CurrentStatus
<1> QED BY <1>1, Invariance, PTL

\* NONE leaves the gadget down for good.
THEOREM NoneTruthful == Spec => []NoneMeansDown
<1>1. IndInv => NoneMeansDown
  <2> SUFFICES ASSUME IndInv, pc = "idle", reply = "SUCCESS",
                      mCurrentUsbFunctions = {}
               PROVE  ~bound /\ linked = {} /\ ~MonitorAlive /\ ~mMonitorRunning
    BY DEF NoneMeansDown
  <2>1. ~bound /\ ~mMonitorRunning /\ linked = LinkSet({})
    BY DEF IndInv, ServedInv
  <2>2. linked = {} BY <2>1, LinkSetInSubset
  <2> QED BY <2>1, <2>2 DEF IndInv, ThreadInv, MonitorAlive
<1> QED BY <1>1, Invariance, PTL

\* The list the monitor reads without a lock never changes under it.
THEOREM ListRaceFree == Spec => EndpointListStable
<1> USE DEF MonitorAlive, vars, binderVars, monitorVars, objectVars, kernelVars
<1>1. ASSUME IndInv, [Next]_vars, MonitorAlive
      PROVE  UNCHANGED mEndpointList
  <2>1. ASSUME NEW r \in Requests, Call(r) PROVE UNCHANGED mEndpointList
    BY <2>1 DEF Call
  <2>2. CASE ResetDown \/ ResetUp BY <2>2 DEF ResetDown, ResetUp
  <2>3. CASE SetCurrentUsbFunctionsStep
    BY <1>1, <2>3 DEF SetCurrentUsbFunctionsStep, IndInv, ThreadInv, PullDown,
       Clear, ClearFails, Signal, Join, JoinAndClear, Validate, AddFunction,
       AddFails, AllAdded, PullUp, PullUpFails, Start, WaitForPullUp
  <2>4. CASE MonitorThread
    BY <2>4 DEF MonitorThread, MonitorStep, EndpointPresent, EndpointAbsent,
       ScanComplete, WriteUdcOk, WriteUdcFails, NotifyPulledUp, EpollWait,
       ReadInotify, ReadEventFd
  <2>5. CASE EnvironmentStep BY <2>5 DEF EnvironmentStep
  <2> QED BY <1>1, <2>1, <2>2, <2>3, <2>4, <2>5 DEF Next, BinderThread
<1>2. IndInv /\ [Next]_vars => [MonitorAlive => UNCHANGED mEndpointList]_vars
  BY <1>1
<1> QED BY <1>2, Invariance, PTL DEF Spec, EndpointListStable

\* A configuration is only built in a gadget that is down and unmonitored.
THEOREM LinkingRaceFree == Spec => LinkedWhileDown
<1> USE DEF MonitorAlive, vars, binderVars, monitorVars, objectVars, kernelVars
<1>1. ASSUME IndInv, [Next]_vars, ~(linked' \subseteq linked)
      PROVE  ~bound /\ ~MonitorAlive
  <2>1. ASSUME NEW r \in Requests, Call(r) PROVE linked' = linked
    BY <2>1 DEF Call
  <2>2. CASE ResetDown \/ ResetUp BY <1>1, <2>2 DEF ResetDown, ResetUp
  <2>3. CASE SetCurrentUsbFunctionsStep
    BY <1>1, <2>3 DEF SetCurrentUsbFunctionsStep, IndInv, ThreadInv, LinkInv,
       PullDown, Clear, ClearFails, Signal, Join, Validate, AddFunction,
       AddFails, AllAdded, PullUp, PullUpFails, Start, WaitForPullUp
  <2>4. CASE MonitorThread
    BY <1>1, <2>4 DEF MonitorThread, MonitorStep, EndpointPresent, EndpointAbsent,
       ScanComplete, WriteUdcOk, WriteUdcFails, NotifyPulledUp, EpollWait,
       ReadInotify, ReadEventFd
  <2>5. CASE EnvironmentStep
    BY <1>1, <2>5 DEF EnvironmentStep, DaemonStep, Open, WriteDescriptors,
       Traffic, Die
  <2> QED BY <1>1, <2>1, <2>2, <2>3, <2>4, <2>5 DEF Next, BinderThread
<1>2. IndInv /\ [Next]_vars
        => [~(linked' \subseteq linked) => ~bound /\ ~MonitorAlive]_vars
  BY <1>1
<1> QED BY <1>2, Invariance, PTL DEF Spec, LinkedWhileDown

-----------------------------------------------------------------------------
\* Without faults every step keeps what the monitor knows and waits for.
LEMMA WakeStep ==
  ASSUME IndInv, WakeInv, [Next]_vars
  PROVE  WakeInv'
<1>1. SUFFICES ASSUME faults' = 0 PROVE WakeInv'
  BY DEF WakeInv
<1>2. faults \in Nat /\ queue \in Nat /\ (queue < MaxEvents \/ queue > 0)
  BY ConfigfsAssumption, FaultAssumption DEF IndInv, TypeOK, KernelTypeOK, MonitorTypeOK
<1> USE <1>1, <1>2
    DEF WakeInv, IndInv, ThreadInv, DescriptorsWritten, binderVars, monitorVars,
        objectVars, kernelVars, Goto, Answer
<1>3. ASSUME NEW r \in Requests, Call(r) PROVE WakeInv'
  BY <1>3 DEF Call
<1>4. CASE ResetDown
  BY <1>4 DEF ResetDown
<1>5. CASE ResetUp
  BY <1>5 DEF ResetUp, Bind, CanBind, Fault
<1>6. CASE SetCurrentUsbFunctionsStep
  <2>1. CASE PullDown BY <2>1 DEF PullDown, Fault
  <2>2. CASE Clear BY <2>2 DEF Clear
  <2>3. CASE ClearFails BY <2>3 DEF ClearFails, Fault
  <2>4. CASE Signal BY <2>4 DEF Signal, SignalExit
  <2>5. CASE Join BY <2>5 DEF Join, JoinAndClear, LinkInv
  <2>6. CASE Validate BY <2>6, NoneNotSupported DEF Validate, Fault
  <2>7. CASE AddFunction BY <2>7 DEF AddFunction, Monitor
  <2>8. CASE AddFails BY <2>8 DEF AddFails, Fault
  <2>9. CASE AllAdded BY <2>9 DEF AllAdded, LinkInv, LinkSet
  <2>10. CASE PullUp BY <2>10 DEF PullUp, Bind
  <2>11. CASE PullUpFails BY <2>11 DEF PullUpFails, Fault
  <2>12. CASE Start
    <3>1. linked # {}
      BY <2>12, LinkSetInSubset DEF Start, LinkInv, TypeOK
    <3>2. QED
      BY <2>12, <3>1 DEF Start, StartThread
  <2>13. CASE WaitForPullUp BY <2>13 DEF WaitForPullUp
  <2> QED BY <1>6, <2>1, <2>2, <2>3, <2>4, <2>5, <2>6, <2>7, <2>8, <2>9, <2>10, <2>11, <2>12, <2>13
          DEF SetCurrentUsbFunctionsStep
<1>7. CASE MonitorThread
  <2> USE <1>7 DEF MonitorThread, NextEvent
  <2>1. CASE EndpointPresent BY <2>1 DEF EndpointPresent
  <2>2. CASE EndpointAbsent BY <2>2 DEF EndpointAbsent
  <2>3. CASE ScanComplete BY <2>3 DEF ScanComplete
  <2>4. CASE WriteUdcOk BY <2>4 DEF WriteUdcOk, Bind
  <2>5. CASE WriteUdcFails BY <2>5 DEF WriteUdcFails, CanBind, Fault
  <2>6. CASE NotifyPulledUp BY <2>6 DEF NotifyPulledUp
  <2>7. CASE EpollWait BY <2>7 DEF EpollWait
  <2>8. CASE ReadInotify BY <2>8 DEF ReadInotify
  <2>9. CASE ReadEventFd BY <2>9 DEF ReadEventFd
  <2> QED BY <2>1, <2>2, <2>3, <2>4, <2>5, <2>6, <2>7, <2>8, <2>9 DEF MonitorStep
<1>8. CASE EnvironmentStep
  <2> PICK d \in Ffs : DaemonStep(d) BY <1>8 DEF EnvironmentStep
  <2> USE <1>8 DEF EnvironmentStep, Notify, Queued, TypeOK, KernelTypeOK
  <2>1. CASE Open(d) BY <2>1 DEF Open
  <2>2. CASE WriteDescriptors(d) BY <2>2 DEF WriteDescriptors
  <2>3. CASE Traffic(d) BY <2>3 DEF Traffic
  <2>4. CASE Die(d) BY <2>4 DEF Die
  <2> QED BY <2>1, <2>2, <2>3, <2>4 DEF DaemonStep
<1>9. CASE UNCHANGED vars
  BY <1>9 DEF vars
<1> QED BY <1>3, <1>4, <1>5, <1>6, <1>7, <1>8, <1>9 DEF Next, BinderThread

\* What the monitor knows and waits for, between any two steps.
LEMMA WakeInvariant == Spec => []WakeInv
<1>1. Init => WakeInv
  BY DEF Init, KernelInit, MonitorInit, WakeInv
<1>2. IndInv /\ WakeInv /\ [Next]_vars => WakeInv'
  BY WakeStep
<1> QED BY <1>1, <1>2, Invariance, PTL DEF Spec

\* As long as no operation on configfs failed, the monitor does not sleep
\* through descriptors that let it pull up, for any length of the queue.
THEOREM WakeupsKept == Spec => []NoLostWakeup
<1>1. WakeInv => NoLostWakeup
  BY DEF WakeInv, NoLostWakeup, MonitorAsleep
<1> QED BY <1>1, WakeInvariant, PTL

-----------------------------------------------------------------------------
\* Without faults and deaths every step keeps up what was pulled up.
LEMMA UpStep ==
  ASSUME IndInv, WakeInv, UpInv, [Next]_vars
  PROVE  UpInv'
<1>1. SUFFICES ASSUME faults' = 0, deaths' = 0, pc' \in {"idle", "wait", "reset"},
                      mMonitorRunning', mpc' = "locked" \/ ~writeUdc'
               PROVE  DescriptorsWritten' /\ (bound' \/ pc' = "reset")
  BY DEF UpInv
<1>2. faults \in Nat /\ deaths \in Nat
  BY ConfigfsAssumption, FaultAssumption DEF IndInv, TypeOK, KernelTypeOK, MonitorTypeOK
<1> USE <1>1, <1>2
    DEF UpInv, IndInv, ThreadInv, DescriptorsWritten, binderVars, monitorVars,
        objectVars, kernelVars, Goto, Answer
<1>3. ASSUME NEW r \in Requests, Call(r) PROVE FALSE
  BY <1>3 DEF Call
<1>4. CASE ResetDown
  BY <1>4 DEF ResetDown
<1>5. CASE ResetUp
  <2>1. CASE Bind
    BY <1>5, <2>1 DEF ResetUp, Bind, CanBind
  <2>2. CASE ~CanBind /\ UNCHANGED <<bound, up, faults>>
    <3>1. linked # {} /\ DescriptorsWritten
      BY <1>5, <2>2 DEF ResetUp, WakeInv
    <3> QED BY <1>5, <2>2, <3>1 DEF ResetUp, CanBind
  <2> QED BY <1>5, <2>1, <2>2 DEF ResetUp, Fault
<1>6. CASE SetCurrentUsbFunctionsStep
  <2>1. CASE WaitForPullUp BY <2>1 DEF WaitForPullUp
  <2>2. CASE Start BY <2>2 DEF Start, StartThread
  <2>3. CASE PullDown \/ Clear \/ Signal \/ Join \/ AddFunction \/ AllAdded
    BY <2>3 DEF PullDown, Clear, Signal, Join, JoinAndClear, AddFunction, AllAdded
  <2>4. ASSUME NEW site, Fault(site) PROVE FALSE
    BY <2>4 DEF Fault
  <2>4a. CASE ClearFails \/ AddFails
    BY <2>4, <2>4a DEF ClearFails, AddFails
  <2>5. CASE Validate BY <2>5 DEF Validate
  <2>6. CASE PullUp \/ PullUpFails BY <2>6 DEF PullUp, PullUpFails
  <2> QED BY <1>6, <2>1, <2>2, <2>3, <2>4a, <2>5, <2>6 DEF SetCurrentUsbFunctionsStep
<1>7. CASE MonitorThread
  <2> USE <1>7 DEF MonitorThread, NextEvent
  <2>1. CASE EndpointPresent BY <2>1 DEF EndpointPresent
  <2>2. CASE EndpointAbsent BY <2>2 DEF EndpointAbsent
  <2>3. CASE ScanComplete BY <2>3 DEF ScanComplete
  <2>4. CASE WriteUdcOk BY <2>4 DEF WriteUdcOk, Bind, CanBind
  <2>5. CASE WriteUdcFails BY <2>5 DEF WriteUdcFails, Fault
  <2>6. CASE NotifyPulledUp BY <2>6 DEF NotifyPulledUp
  <2>7. CASE EpollWait \/ ReadInotify \/ ReadEventFd
    BY <2>7 DEF EpollWait, ReadInotify, ReadEventFd
  <2> QED BY <2>1, <2>2, <2>3, <2>4, <2>5, <2>6, <2>7 DEF MonitorStep
<1>8. CASE EnvironmentStep
  <2> PICK d \in Ffs : DaemonStep(d) BY <1>8 DEF EnvironmentStep
  <2> USE <1>8 DEF EnvironmentStep, TypeOK, KernelTypeOK
  <2>1. CASE Open(d) BY <2>1 DEF Open
  <2>2. CASE WriteDescriptors(d) BY <2>2 DEF WriteDescriptors
  <2>3. CASE Traffic(d) BY <2>3 DEF Traffic
  <2>4. CASE Die(d) BY <2>4 DEF Die
  <2> QED BY <2>1, <2>2, <2>3, <2>4 DEF DaemonStep
<1>9. CASE UNCHANGED vars
  BY <1>9 DEF vars
<1> QED BY <1>3, <1>4, <1>5, <1>6, <1>7, <1>8, <1>9 DEF Next, BinderThread

\* The monitor keeps the comment's promise for any requests and resets, as long
\* as no operation failed and no owner died.
THEOREM AsleepIsUp == Spec => []AsleepOnlyWhenUp
<1>1. Init => UpInv
  BY DEF Init, MonitorInit, UpInv
<1>2. IndInv /\ WakeInv /\ UpInv /\ [Next]_vars => UpInv'
  BY UpStep
<1>3. IndInv /\ UpInv /\ NoLostWakeup => AsleepOnlyWhenUp
  BY DEF IndInv, ThreadInv, UpInv, NoLostWakeup, AsleepOnlyWhenUp, MonitorAsleep
<1> QED BY <1>1, <1>2, <1>3, WakeInvariant, WakeupsKept, Invariance, PTL DEF Spec

-----------------------------------------------------------------------------
\* The state the client sees of a request.
LEMMA ServedAfterRequest ==
  ASSUME NEW r \in Requests
  PROVE  ~(r.functions # {} /\ {} = LinkSet(r.functions))
  BY LinkSetInSubset, RequestsAssumption

\* The HAL implements GadgetApi: requests are served one at a time and
\* answered once, truthfully.
THEOREM ImplementsApi == Spec => ApiSpec
<1> USE DEF binderVars, monitorVars, objectVars, kernelVars, NoReply, Goto
<1>1. Init => Api!Init
  BY LinkSetInSubset
     DEF Init, KernelInit, MonitorInit, Api!Init, Api!GadgetFunction, GadgetFunction
<1>2. ASSUME IndInv, [Next]_vars PROVE [Api!Next]_(Api!vars)
  <2> USE DEF Api!Next, Api!vars
  <2>1. ASSUME NEW r \in Requests, Call(r) PROVE Api!Request(r)
    BY <2>1, ServedAfterRequest DEF Call, Api!Request
  <2>2. CASE ResetDown BY <2>2 DEF ResetDown
  <2>3. CASE ResetUp BY <2>3 DEF ResetUp, Api!Serve
  <2>4. CASE PullDown \/ Clear \/ Signal \/ Join \/ AddFunction \/ AllAdded
    BY <2>4 DEF PullDown, Clear, Signal, Join, AddFunction, AllAdded, Api!Serve
  <2>5. CASE ClearFails \/ AddFails \/ PullUpFails
    BY <2>5 DEF ClearFails, AddFails, PullUpFails, Answer, Api!Answer
  <2>6. CASE Validate
    <3> USE <2>6 DEF Validate, Answer
    <3>1. CASE mCurrentUsbFunctions = {} /\ Answer("SUCCESS")
      BY <3>1 DEF Api!Answer
    <3>2. CASE /\ mCurrentUsbFunctions \notin Supported
               /\ Answer("CONFIGURATION_NOT_SUPPORTED")
      <4>1. Supported = Api!Supported
        BY DEF Supported, Api!Supported, GadgetFunction, Api!GadgetFunction
      <4> QED BY <3>2, <4>1 DEF Api!Answer
    <3>3. CASE Answer("ERROR")
      BY <3>3 DEF Api!Answer
    <3>4. CASE UNCHANGED <<mCurrentUsbFunctions, callback, reply>> /\ pc' = "add"
      BY <3>4
    <3> QED BY <3>1, <3>2, <3>3, <3>4
  <2>7. CASE PullUp
    BY <1>2, <2>7 DEF PullUp, Bind, Answer, Api!Answer, IndInv, LinkInv
  <2>8. CASE Start
    BY <1>2, <2>8 DEF Start, Api!Answer, IndInv, ServedInv
  <2>9. CASE WaitForPullUp
    BY <1>2, <2>9 DEF WaitForPullUp, Answer, Api!Answer, IndInv, LinkInv, ServedInv
  <2>10. CASE MonitorThread BY <2>10 DEF MonitorThread, Api!Serve
  <2>11. CASE EnvironmentStep
    BY <2>11 DEF EnvironmentStep, DaemonStep, Open, WriteDescriptors, Traffic,
       Die, Api!Serve
  <2>12. CASE UNCHANGED vars BY <2>12 DEF vars
  <2> QED BY <1>2, <2>1, <2>2, <2>3, <2>4, <2>5, <2>6, <2>7, <2>8, <2>9, <2>10,
             <2>11, <2>12 DEF Next, BinderThread, SetCurrentUsbFunctionsStep
<1> QED BY <1>1, <1>2, Invariance, PTL DEF Spec, ApiSpec, Api!Spec

==============================================================================
