--------------------------- MODULE UsbTypeCProofs ---------------------------
(***************************************************************************)
(* The binder thread and the worker of the Type-C HAL keep their           *)
(* agreements about the worker's life, the partner, the port type and the  *)
(* notified state, for every number of partner changes, and together they  *)
(* implement PortApi.                                                      *)
(***************************************************************************)
EXTENDS UsbTypeC, SequenceTheorems, TLAPS

LEMMA Initially == Init => IndInv
<1> SUFFICES ASSUME Init PROVE IndInv
  OBVIOUS
<1>1. Len(uevents) = 0 /\ uevents \in Seq({"add", "remove"})
  BY DEF Init
<1>2. changes \in 0..MaxChanges /\ Len(uevents) <= MaxChanges
  BY <1>1, TypeCAssumption DEF Init
<1>3. TypeOK
  BY <1>1, <1>2 DEF Init, TypeOK, Modes, BinderState, WorkerState
<1>4. QueueInv
  BY <1>1 DEF Init, QueueInv
<1>5. /\ WorkerInv /\ StopReachesItsWorker /\ PartnerInv /\ ReturnInv /\ RoleInv
      /\ StatusInv
  BY DEF Init, StopReachesItsWorker, ReturnInv, SuccessMeansReturned, WorkerInv, WorkerIffCallback, PartnerInv, NoLostPartner, RoleInv,
         RoleLockOfBinder, RoleLockOfWorker, PortTypeMatchesResult, StatusInv
<1> QED
  BY <1>3, <1>4, <1>5 DEF IndInv

-----------------------------------------------------------------------------
(* Types and the queue of uevents.                                         *)

\* What a step may do to the queue: leave it, lose it, read one message, or
\* let a partner change, within the bound, be queued or lost.
QueueStep ==
  \/ UNCHANGED <<uevents, changes>>
  \/ uevents' = <<>> /\ UNCHANGED changes
  \/ uevents # <<>> /\ uevents' = Tail(uevents) /\ UNCHANGED changes
  \/ /\ changes < MaxChanges /\ changes' = changes + 1
     /\ \/ UNCHANGED uevents
        \/ \E e \in {"add", "remove"} : uevents' = Append(uevents, e)

LEMMA QueueSteps == [Next]_vars => QueueStep
<1> SUFFICES ASSUME [Next]_vars PROVE QueueStep
  OBVIOUS
<1> USE DEF QueueStep, binderVars, condVars, workerVars, kernelVars, Uevent
<1>1. CASE Call
  BY <1>1 DEF Call, RegisterCallback, RemoveCallback, QueryPortStatus, SwitchRole
<1>2. CASE WritePortType
  BY <1>2 DEF WritePortType, BinderGoto
<1>3. CASE BinderThread /\ ~WritePortType
  BY <1>3 DEF BinderThread, Kill, Join, SwapRole, OpenPortType, LockPartner,
       WriteFails, PartnerReturned, Timeout, TimedOut, SwitchToDrp,
       NotifyRoleSwitch
<1>4. CASE WorkerThread
  BY <1>4 DEF WorkerThread, OpenSocket, OpenSocketFails, Check, EnterEpollWait,
       Receive, Discard, PartnerAdded, WorkerQuery, TryLockRole, OpenPartnerDir, ResetPort
<1>5. CASE SigHandler \/ UNCHANGED vars
  BY <1>5 DEF SigHandler, vars
<1>6. CASE Attach \/ Detach
  BY <1>6 DEF Attach, Detach
<1> QED
  BY <1>1, <1>2, <1>3, <1>4, <1>5, <1>6 DEF Next

\* The queue holds messages, no more of them than there were changes.
LEMMA QueuePreserved ==
  ASSUME TypeOK, QueueInv, [Next]_vars
  PROVE  /\ uevents' \in Seq({"add", "remove"}) /\ changes' \in 0..MaxChanges
         /\ Len(uevents') <= changes' /\ Len(uevents') <= MaxChanges
<1>1. /\ uevents \in Seq({"add", "remove"}) /\ Len(uevents) \in Nat
      /\ changes \in Nat /\ changes <= MaxChanges /\ Len(uevents) <= changes
      /\ MaxChanges \in Nat
  BY TypeCAssumption DEF TypeOK, QueueInv
<1>2. CASE UNCHANGED <<uevents, changes>>
  BY <1>1, <1>2
<1>3. CASE uevents' = <<>> /\ UNCHANGED changes
  BY <1>1, <1>3
<1>4. CASE uevents # <<>> /\ uevents' = Tail(uevents) /\ UNCHANGED changes
  <2>1. uevents' \in Seq({"add", "remove"}) /\ Len(uevents') = Len(uevents) - 1
    BY <1>1, <1>4
  <2> QED
    BY <1>1, <1>4, <2>1
<1>5. CASE changes < MaxChanges /\ changes' = changes + 1 /\ UNCHANGED uevents
  BY <1>1, <1>5
<1>6. CASE /\ changes < MaxChanges /\ changes' = changes + 1
           /\ \E e \in {"add", "remove"} : uevents' = Append(uevents, e)
  <2>1. uevents' \in Seq({"add", "remove"}) /\ Len(uevents') = Len(uevents) + 1
    BY <1>1, <1>6
  <2> QED
    BY <1>1, <1>6, <2>1
<1> QED
  BY <1>2, <1>3, <1>4, <1>5, <1>6, QueueSteps DEF QueueStep

\* The control points named in the code, for proofs that need no more of them.
LEMMA States ==
  /\ {"idle", "kill", "join", "open", "lock", "write", "waiting", "expired",
      "todrp", "swap", "notify"} \subseteq BinderState
  /\ {"none", "start", "check", "enter", "epoll", "partner", "query",
      "trylock", "opendir", "drp", "exited"} \subseteq WorkerState
BY DEF BinderState, WorkerState

\* The variables of the binder thread stay in their types.
LEMMA BinderTypes ==
  ASSUME TypeOK, [Next]_vars
  PROVE  /\ pc' \in BinderState /\ mCallback' \in BOOLEAN
         /\ role' \in Modes \cup {"other"} /\ roleSwitch' \in BOOLEAN
<1> USE DEF TypeOK, binderVars, condVars, workerVars, kernelVars, reportVars
<1>1. CASE RegisterCallback \/ RemoveCallback \/ QueryPortStatus
  BY <1>1, States DEF RegisterCallback, RemoveCallback, QueryPortStatus
<1>2. ASSUME NEW r \in Modes \cup {"other"}, SwitchRole(r)
      PROVE  /\ pc' \in BinderState /\ mCallback' \in BOOLEAN
             /\ role' \in Modes \cup {"other"} /\ roleSwitch' \in BOOLEAN
  BY <1>2, States DEF SwitchRole
<1>3. CASE Kill \/ Join \/ SwapRole
  BY <1>3, States DEF Kill, Join, SwapRole
<1>4. CASE OpenPortType \/ LockPartner \/ WritePortType \/ WriteFails
  BY <1>4, States DEF OpenPortType, LockPartner, WritePortType, WriteFails,
       BinderGoto
<1>5. CASE PartnerReturned
  BY <1>5, States DEF PartnerReturned, BinderGoto
<1>6. CASE Timeout \/ TimedOut \/ SwitchToDrp \/ NotifyRoleSwitch
  BY <1>6, States DEF Timeout, TimedOut, SwitchToDrp, NotifyRoleSwitch, BinderGoto
<1>7. CASE WorkerThread
  BY <1>7 DEF WorkerThread, WorkerGoto, OpenSocket, OpenSocketFails, Check,
       EnterEpollWait, Receive, Discard, PartnerAdded, WorkerQuery, TryLockRole,
       OpenPartnerDir, ResetPort
<1>8. CASE SigHandler \/ Attach \/ Detach \/ UNCHANGED vars
  BY <1>8 DEF SigHandler, Attach, Detach, vars
<1> QED
  BY <1>1, <1>2, <1>3, <1>4, <1>5, <1>6, <1>7, <1>8 DEF Next, Call, BinderThread

\* So do those of the worker.
LEMMA WorkerTypes ==
  ASSUME TypeOK, [Next]_vars
  PROVE  /\ wpc' \in WorkerState /\ destroyThread' \in BOOLEAN
         /\ sigPending' \in BOOLEAN
<1> USE DEF TypeOK, binderVars, condVars, workerVars, kernelVars, reportVars
<1>1. CASE RegisterCallback \/ RemoveCallback \/ QueryPortStatus
  BY <1>1, States DEF RegisterCallback, RemoveCallback, QueryPortStatus
<1>2. ASSUME NEW r \in Modes \cup {"other"}, SwitchRole(r)
      PROVE  UNCHANGED workerVars
  BY <1>2 DEF SwitchRole
<1>3. CASE Kill \/ Join
  BY <1>3, States DEF Kill, Join
<1>4. CASE BinderThread /\ ~Kill /\ ~Join
  BY <1>4 DEF BinderThread, BinderGoto, SwapRole, OpenPortType, LockPartner,
       WritePortType, WriteFails, PartnerReturned, Timeout, TimedOut,
       SwitchToDrp, NotifyRoleSwitch
<1>5. CASE WorkerThread
  BY <1>5, States DEF WorkerThread, WorkerGoto, OpenSocket, OpenSocketFails,
       Check, EnterEpollWait, Receive, Discard, PartnerAdded, WorkerQuery, TryLockRole,
       OpenPartnerDir, ResetPort
<1>6. CASE SigHandler
  BY <1>6, States DEF SigHandler
<1>7. CASE Attach \/ Detach \/ UNCHANGED vars
  BY <1>7 DEF Attach, Detach, vars
<1> QED
  BY <1>1, <1>2, <1>3, <1>4, <1>5, <1>6, <1>7 DEF Next, Call

\* And those of the condition variable, the port and the history.
LEMMA OtherTypes ==
  ASSUME TypeOK, RoleInv, [Next]_vars
  PROVE  /\ mPartnerUp' \in BOOLEAN /\ signalled' \in BOOLEAN
         /\ partner' \in BOOLEAN /\ portType' \in Modes \cup {"dual"}
         /\ returned' \in BOOLEAN /\ refused' \in BOOLEAN
         /\ lastStatus' \in {"none", "attached", "detached", "error"}
         /\ missed' \in BOOLEAN
<1> USE DEF TypeOK, binderVars, condVars, workerVars, kernelVars, reportVars
<1>1. CASE RegisterCallback \/ RemoveCallback
  BY <1>1 DEF RegisterCallback, RemoveCallback
<1>2. CASE QueryPortStatus \/ WorkerQuery
  BY <1>2 DEF QueryPortStatus, WorkerQuery, WorkerGoto, QueryVersionHelper, PortStatus
<1>3. ASSUME NEW r \in Modes \cup {"other"}, SwitchRole(r)
      PROVE  UNCHANGED <<condVars, kernelVars, reportVars>>
  BY <1>3 DEF SwitchRole
<1>4. CASE WritePortType
  <2>1. role \in Modes \cup {"dual"}
    BY <1>4 DEF WritePortType, RoleInv
  <2> QED
    BY <1>4, <2>1 DEF WritePortType, BinderGoto, UnreadAdd
<1>5. CASE BinderThread /\ ~WritePortType
  BY <1>5 DEF BinderThread, BinderGoto, Kill, Join, SwapRole, OpenPortType,
       LockPartner, WriteFails, PartnerReturned, Timeout, TimedOut,
       SwitchToDrp, NotifyRoleSwitch
<1>6. CASE WorkerThread /\ ~WorkerQuery
  BY <1>6 DEF WorkerThread, WorkerGoto, OpenSocket, OpenSocketFails, Check,
       EnterEpollWait, Receive, Discard, PartnerAdded, TryLockRole, OpenPartnerDir,
       ResetPort
<1>7. CASE SigHandler \/ Attach \/ Detach \/ UNCHANGED vars
  BY <1>7 DEF SigHandler, Attach, Detach, vars
<1> QED
  BY <1>1, <1>2, <1>3, <1>4, <1>5, <1>6, <1>7 DEF Next, Call

LEMMA TypesPreserved ==
  TypeOK /\ QueueInv /\ RoleInv /\ [Next]_vars => TypeOK' /\ QueueInv'
BY BinderTypes, WorkerTypes, OtherTypes, QueuePreserved DEF TypeOK, QueueInv
-----------------------------------------------------------------------------
(* The agreements between the threads.                                     *)

\* Only setCallback starts, joins and forgets the worker.
LEMMA WorkerPreserved == TypeOK /\ WorkerInv /\ [Next]_vars => WorkerInv'
<1> SUFFICES ASSUME TypeOK, WorkerInv, [Next]_vars PROVE WorkerInv'
  OBVIOUS
<1> USE DEF WorkerInv, WorkerIffCallback, binderVars, condVars, workerVars, kernelVars, reportVars
<1>1. CASE RegisterCallback
  BY <1>1 DEF RegisterCallback
<1>2. CASE RemoveCallback
  BY <1>2 DEF RemoveCallback
<1>3. CASE Kill
  BY <1>3 DEF Kill
<1>4. CASE Join
  BY <1>4 DEF Join
<1>5. CASE QueryPortStatus \/ \E r \in Modes \cup {"other"} : SwitchRole(r)
  BY <1>5 DEF QueryPortStatus, SwitchRole
<1>6. CASE BinderThread /\ ~Kill /\ ~Join
  BY <1>6 DEF BinderThread, BinderGoto, SwapRole, OpenPortType, LockPartner,
       WritePortType, WriteFails, PartnerReturned, Timeout, TimedOut,
       SwitchToDrp, NotifyRoleSwitch
<1>7. CASE WorkerThread \/ SigHandler
  BY <1>7 DEF WorkerThread, WorkerGoto, OpenSocket, OpenSocketFails, Check,
       EnterEpollWait, Receive, Discard, PartnerAdded, WorkerQuery, TryLockRole,
       OpenPartnerDir, ResetPort, SigHandler
<1>8. CASE Attach \/ Detach \/ UNCHANGED vars
  BY <1>8 DEF Attach, Detach, vars
<1> QED
  BY <1>1, <1>2, <1>3, <1>4, <1>5, <1>6, <1>7, <1>8 DEF Next, Call

\* The signal is sent to the worker that is joined, and its handler sets the
\* flag that the next worker finds reset.
LEMMA StopPreserved ==
  TypeOK /\ WorkerInv /\ StopReachesItsWorker /\ [Next]_vars => StopReachesItsWorker'
<1> SUFFICES ASSUME TypeOK, WorkerInv, StopReachesItsWorker, [Next]_vars
             PROVE  StopReachesItsWorker'
  OBVIOUS
<1> USE DEF StopReachesItsWorker, binderVars, condVars, workerVars, kernelVars, reportVars
<1>1. CASE RegisterCallback
  BY <1>1 DEF RegisterCallback
<1>2. CASE RemoveCallback
  BY <1>2 DEF RemoveCallback
<1>3. CASE Kill
  BY <1>3 DEF Kill
<1>4. CASE Join
  BY <1>4 DEF Join
<1>5. CASE QueryPortStatus \/ \E r \in Modes \cup {"other"} : SwitchRole(r)
  BY <1>5 DEF QueryPortStatus, SwitchRole
<1>6. CASE BinderThread /\ ~Kill /\ ~Join
  BY <1>6 DEF BinderThread, BinderGoto, SwapRole, OpenPortType, LockPartner,
       WritePortType, WriteFails, PartnerReturned, Timeout, TimedOut,
       SwitchToDrp, NotifyRoleSwitch
<1>7. CASE WorkerThread
  BY <1>7 DEF WorkerThread, WorkerGoto, OpenSocket, OpenSocketFails, Check,
       EnterEpollWait, Receive, Discard, PartnerAdded, WorkerQuery, TryLockRole,
       OpenPartnerDir, ResetPort, WorkerInv, WorkerIffCallback
<1>8. CASE SigHandler \/ Attach \/ Detach \/ UNCHANGED vars
  BY <1>8 DEF SigHandler, Attach, Detach, vars
<1> QED
  BY <1>1, <1>2, <1>3, <1>4, <1>5, <1>6, <1>7, <1>8 DEF Next, Call

\* mPartnerLock is held from the reset of mPartnerUp to the wait, and the
\* worker signals whoever waits.
LEMMA PartnerPreserved == TypeOK /\ PartnerInv /\ [Next]_vars => PartnerInv'
<1> SUFFICES ASSUME TypeOK, PartnerInv, [Next]_vars PROVE PartnerInv'
  OBVIOUS
<1> USE DEF PartnerInv, NoLostPartner, binderVars, condVars, workerVars, kernelVars, reportVars
<1>1. CASE LockPartner
  BY <1>1 DEF LockPartner, BinderGoto
<1>2. CASE WritePortType
  BY <1>2 DEF WritePortType, BinderGoto
<1>3. CASE PartnerReturned
  BY <1>3 DEF PartnerReturned, BinderGoto
<1>4. CASE PartnerAdded
  BY <1>4 DEF PartnerAdded, WorkerGoto, mPartnerLockHeld
<1>5. CASE Call
  BY <1>5 DEF Call, RegisterCallback, RemoveCallback, QueryPortStatus, SwitchRole
<1>6. CASE BinderThread /\ ~LockPartner /\ ~WritePortType /\ ~PartnerReturned
  BY <1>6 DEF BinderThread, BinderGoto, Kill, Join, SwapRole, OpenPortType,
       WriteFails, Timeout, TimedOut, SwitchToDrp, NotifyRoleSwitch
<1>7. CASE WorkerThread /\ ~PartnerAdded
  BY <1>7 DEF WorkerThread, WorkerGoto, OpenSocket, OpenSocketFails, Check,
       EnterEpollWait, Receive, Discard, WorkerQuery, TryLockRole, OpenPartnerDir,
       ResetPort
<1>8. CASE SigHandler \/ Attach \/ Detach \/ UNCHANGED vars
  BY <1>8 DEF SigHandler, Attach, Detach, vars
<1> QED
  BY <1>1, <1>2, <1>3, <1>4, <1>5, <1>6, <1>7, <1>8 DEF Next

\* Reading, losing or queueing a message makes nothing look unread that was
\* read before, except an "add" that the kernel sends.
LEMMA UnreadSteps ==
  ASSUME NEW q \in Seq({"add", "remove"})
  PROVE  /\ ~\E i \in DOMAIN << >> : << >>[i] = "add"
         /\ q # <<>> => /\ (\E i \in DOMAIN Tail(q) : Tail(q)[i] = "add")
                             => \E i \in DOMAIN q : q[i] = "add"
                        /\ Head(q) = "add" => \E i \in DOMAIN q : q[i] = "add"
         /\ (\E i \in DOMAIN Append(q, "remove") : Append(q, "remove")[i] = "add")
              => \E i \in DOMAIN q : q[i] = "add"
<1>1. ~\E i \in DOMAIN << >> : << >>[i] = "add"
  OBVIOUS
<1>2. ASSUME q # <<>>, NEW i \in DOMAIN Tail(q), Tail(q)[i] = "add"
      PROVE  \E j \in DOMAIN q : q[j] = "add"
  <2>1. i + 1 \in DOMAIN q /\ q[i + 1] = Tail(q)[i]
    BY <1>2
  <2> QED
    BY <1>2, <2>1
<1>3. ASSUME q # <<>>, Head(q) = "add" PROVE \E j \in DOMAIN q : q[j] = "add"
  <2>1. 1 \in DOMAIN q /\ q[1] = Head(q)
    BY <1>3
  <2> QED
    BY <1>3, <2>1
<1>4. ASSUME NEW i \in DOMAIN Append(q, "remove"), Append(q, "remove")[i] = "add"
      PROVE  \E j \in DOMAIN q : q[j] = "add"
  <2>1. i \in DOMAIN q /\ q[i] = "add"
    BY <1>4
  <2> QED
    BY <2>1
<1> QED
  BY <1>1, <1>2, <1>3, <1>4

\* While a switch waits, only the kernel's "add" makes a message unread, and
\* it is counted as a return.
LEMMA ReturnPreserved == TypeOK /\ RoleInv /\ ReturnInv /\ [Next]_vars => ReturnInv'
<1> SUFFICES ASSUME TypeOK, RoleInv, ReturnInv, [Next]_vars PROVE ReturnInv'
  OBVIOUS
<1> USE DEF ReturnInv, SuccessMeansReturned, binderVars, condVars, workerVars,
            kernelVars, reportVars
<1>q. uevents \in Seq({"add", "remove"})
  BY DEF TypeOK
<1>a. ASSUME UNCHANGED <<pc, role, roleSwitch, signalled, returned>>,
             UnreadAdd' => UnreadAdd
      PROVE  ReturnInv'
  BY <1>a
<1>b. ASSUME pc' \notin {"waiting", "notify"} PROVE ReturnInv'
  BY <1>b
<1>1. CASE RegisterCallback
  <2>1. UnreadAdd' => UnreadAdd
    BY <1>1 DEF RegisterCallback, UnreadAdd
  <2> QED
    BY <1>1, <2>1, <1>a DEF RegisterCallback
<1>2. CASE RemoveCallback \/ Kill \/ Join
  BY <1>2, <1>b DEF RemoveCallback, Kill, Join
<1>3. CASE QueryPortStatus
  BY <1>3, <1>a DEF QueryPortStatus, UnreadAdd
<1>4. CASE \E r \in Modes \cup {"other"} : SwitchRole(r)
  BY <1>4, <1>b DEF SwitchRole
<1>5. CASE SwapRole
  <2>1. role = "other" /\ role' = role /\ pc' = "notify"
    BY <1>5 DEF SwapRole, RoleInv
  <2> QED
    BY <2>1 DEF Modes
<1>6. CASE OpenPortType \/ LockPartner \/ WriteFails \/ Timeout \/ TimedOut
             \/ NotifyRoleSwitch
  BY <1>6, <1>b DEF OpenPortType, LockPartner, WriteFails, Timeout, TimedOut,
       NotifyRoleSwitch, BinderGoto
<1>7. CASE WritePortType
  <2>1. pc' = "waiting" /\ returned' = UnreadAdd /\ ~signalled' /\ UNCHANGED wpc
    BY <1>7 DEF WritePortType, BinderGoto
  <2>2. uevents' \in {uevents, Append(uevents, "remove")}
    BY <1>7 DEF WritePortType, Uevent
  <2>3. UnreadAdd' => UnreadAdd
    BY <2>1, <2>2, <1>q, UnreadSteps DEF UnreadAdd
  <2> QED
    BY <2>1, <2>3
<1>8. CASE PartnerReturned
  <2>1. UnreadAdd' => UnreadAdd
    BY <1>8 DEF PartnerReturned, BinderGoto, UnreadAdd
  <2> QED
    BY <1>8, <2>1 DEF PartnerReturned, BinderGoto
<1>9. CASE SwitchToDrp
  BY <1>9 DEF SwitchToDrp, BinderGoto, RoleInv
<1>10. CASE OpenSocket
  BY <1>10, <1>a, UnreadSteps, <1>q DEF OpenSocket, WorkerGoto, UnreadAdd
<1>11. CASE OpenSocketFails \/ EnterEpollWait \/ WorkerQuery \/ TryLockRole
              \/ OpenPartnerDir \/ ResetPort
  BY <1>11, <1>a DEF OpenSocketFails, EnterEpollWait, WorkerQuery, TryLockRole,
       OpenPartnerDir, ResetPort, WorkerGoto, UnreadAdd
<1>12. CASE Check
  BY <1>12, <1>a, UnreadSteps, <1>q DEF Check, WorkerGoto, UnreadAdd
<1>13. CASE Receive \/ Discard
  <2>1. UnreadAdd' => UnreadAdd
    BY <1>13, UnreadSteps, <1>q DEF Receive, Discard, WorkerGoto, UnreadAdd
  <2> QED
    BY <1>13, <2>1, <1>a DEF Receive, Discard, WorkerGoto
<1>14. CASE PartnerAdded
  <2>1. UnreadAdd
    BY <1>14 DEF PartnerAdded, UnreadAdd
  <2>2. /\ UNCHANGED <<pc, role, roleSwitch, returned>>
        /\ pc = "waiting" => returned
    BY <1>14, <2>1 DEF PartnerAdded, WorkerGoto
  <2> QED
    BY <2>2
<1>15. CASE SigHandler
  BY <1>15, <1>a DEF SigHandler, UnreadAdd
<1>16. CASE Attach
  BY <1>16 DEF Attach
<1>17. CASE Detach
  <2>1. uevents' \in {uevents, Append(uevents, "remove")} /\ UNCHANGED wpc
    BY <1>17 DEF Detach, Uevent
  <2>2. UnreadAdd' => UnreadAdd
    BY <2>1, <1>q, UnreadSteps DEF UnreadAdd
  <2> QED
    BY <1>17, <2>2, <1>a DEF Detach
<1>18. CASE UNCHANGED vars
  BY <1>18, <1>a DEF vars, UnreadAdd
<1> QED
  BY <1>1, <1>2, <1>3, <1>4, <1>5, <1>6, <1>7, <1>8, <1>9, <1>10, <1>11, <1>12,
     <1>13, <1>14, <1>15, <1>16, <1>17, <1>18
     DEF Next, Call, BinderThread, WorkerThread

\* Under mRoleSwitchLock the port type is the business of one thread.
LEMMA RolePreserved == TypeOK /\ RoleInv /\ [Next]_vars => RoleInv'
<1> SUFFICES ASSUME TypeOK, RoleInv, [Next]_vars PROVE RoleInv'
  OBVIOUS
<1> USE DEF RoleInv, PortTypeMatchesResult, RoleLockOfBinder, RoleLockOfWorker,
        binderVars, condVars, workerVars, kernelVars, reportVars
<1>1. CASE RegisterCallback \/ RemoveCallback \/ QueryPortStatus
  BY <1>1 DEF RegisterCallback, RemoveCallback, QueryPortStatus
<1>2. ASSUME NEW r \in Modes \cup {"other"}, SwitchRole(r) PROVE RoleInv'
  BY <1>2 DEF SwitchRole
<1>3. CASE Kill \/ Join
  BY <1>3 DEF Kill, Join
<1>4. CASE SwapRole
  <2>1. "other" \notin Modes
    BY DEF Modes
  <2> QED
    BY <1>4, <2>1 DEF SwapRole
<1>5. CASE OpenPortType \/ LockPartner \/ WriteFails
  BY <1>5 DEF OpenPortType, LockPartner, WriteFails, BinderGoto
<1>6. CASE WritePortType
  BY <1>6 DEF WritePortType, BinderGoto
<1>7. CASE PartnerReturned
  BY <1>7 DEF PartnerReturned, BinderGoto
<1>8. CASE Timeout \/ TimedOut
  BY <1>8 DEF Timeout, TimedOut, BinderGoto
<1>9. CASE SwitchToDrp
  BY <1>9 DEF SwitchToDrp, BinderGoto
<1>10. CASE NotifyRoleSwitch
  BY <1>10 DEF NotifyRoleSwitch, BinderGoto
<1>11. CASE TryLockRole
  BY <1>11 DEF TryLockRole, WorkerGoto
<1>12. CASE ResetPort
  BY <1>12 DEF ResetPort, WorkerGoto
<1>13. CASE WorkerThread /\ ~TryLockRole /\ ~ResetPort
  BY <1>13 DEF WorkerThread, WorkerGoto, OpenSocket, OpenSocketFails, Check,
       EnterEpollWait, Receive, Discard, PartnerAdded, WorkerQuery, OpenPartnerDir
<1>14. CASE SigHandler
  BY <1>14 DEF SigHandler
<1>15. CASE Attach \/ Detach \/ UNCHANGED vars
  BY <1>15 DEF Attach, Detach, vars
<1> QED
  BY <1>1, <1>2, <1>3, <1>4, <1>5, <1>6, <1>7, <1>8, <1>9, <1>10, <1>11,
     <1>12, <1>13, <1>14, <1>15 DEF Next, Call, BinderThread, WorkerThread

\* Every change of the partner while the worker listens leaves a message
\* behind, and the worker reports the port after every message it does not
\* discard.
LEMMA StatusPreserved == TypeOK /\ StatusInv /\ [Next]_vars => StatusInv'
<1> SUFFICES ASSUME TypeOK, StatusInv, [Next]_vars PROVE StatusInv'
  OBVIOUS
<1> USE DEF binderVars, condVars, workerVars, kernelVars, reportVars
<1>a. \A e : Append(uevents, e) # <<>>
  BY DEF TypeOK
<1>b. ASSUME UNCHANGED <<wpc, uevents, mCallback, reportVars, partner>>
      PROVE  StatusInv'
  BY <1>b DEF StatusInv, PortStatus
<1>c. ASSUME wpc' \in {"none", "exited", "partner", "query"} PROVE StatusInv'
  BY <1>c DEF StatusInv
<1>1. CASE RegisterCallback \/ RemoveCallback
  BY <1>1 DEF RegisterCallback, RemoveCallback, StatusInv, PortStatus
<1>2. CASE QueryPortStatus
  BY <1>2 DEF QueryPortStatus, QueryVersionHelper, StatusInv, PortStatus
<1>3. CASE \E r \in Modes \cup {"other"} : SwitchRole(r)
  BY <1>3, <1>b DEF SwitchRole
<1>4. CASE Kill
  <2>1. CASE wpc = "exited"
    BY <1>4, <2>1, <1>c DEF Kill
  <2>2. CASE wpc # "exited"
    BY <1>4, <2>2, <1>b DEF Kill
  <2> QED
    BY <2>1, <2>2
<1>5. CASE Join
  BY <1>5, <1>c DEF Join
<1>6. CASE WritePortType
  BY <1>6, <1>a DEF WritePortType, BinderGoto, Uevent, Listening, StatusInv, PortStatus
<1>7. CASE BinderThread /\ ~Kill /\ ~Join /\ ~WritePortType
  BY <1>7, <1>b DEF BinderThread, BinderGoto, SwapRole, OpenPortType,
       LockPartner, WriteFails, PartnerReturned, Timeout, TimedOut,
       SwitchToDrp, NotifyRoleSwitch
<1>8. CASE OpenSocket
  BY <1>8 DEF OpenSocket, WorkerGoto, StatusInv
<1>9. CASE OpenSocketFails \/ Receive \/ PartnerAdded
  BY <1>9, <1>c DEF OpenSocketFails, Receive, PartnerAdded, WorkerGoto
<1>10. CASE Check
  <2>1. CASE destroyThread
    BY <1>10, <2>1, <1>c DEF Check, WorkerGoto
  <2>2. CASE ~destroyThread
    BY <1>10, <2>2 DEF Check, WorkerGoto, StatusInv, PortStatus
  <2> QED
    BY <2>1, <2>2
<1>11. CASE EnterEpollWait
  BY <1>11 DEF EnterEpollWait, WorkerGoto, StatusInv, PortStatus
<1>12. CASE WorkerQuery
  BY <1>12 DEF WorkerQuery, WorkerGoto, QueryVersionHelper, StatusInv, PortStatus
<1>13. CASE TryLockRole \/ OpenPartnerDir \/ ResetPort
  <2>1. /\ wpc \in {"trylock", "opendir", "drp"}
        /\ UNCHANGED <<uevents, mCallback, reportVars, partner>>
    BY <1>13 DEF TryLockRole, OpenPartnerDir, ResetPort, WorkerGoto
  <2> QED
    BY <2>1 DEF StatusInv, PortStatus
<1>14. CASE SigHandler
  <2>1. wpc' = wpc \/ wpc = "epoll"
    BY <1>14 DEF SigHandler
  <2>2. UNCHANGED <<uevents, mCallback, reportVars, partner>>
    BY <1>14 DEF SigHandler
  <2> QED
    BY <2>1, <2>2 DEF StatusInv, PortStatus
<1>15. CASE Attach \/ Detach
  BY <1>15, <1>a DEF Attach, Detach, Uevent, Listening, StatusInv, PortStatus
<1>16. CASE UNCHANGED vars
  BY <1>16, <1>b DEF vars
<1>17. CASE Discard
  <2>1. CASE missed'
    BY <2>1 DEF StatusInv
  <2>2. CASE ~missed'
    <3>1. wpc = "epoll" /\ UNCHANGED <<uevents, mCallback, reportVars, partner>>
      BY <1>17, <2>2 DEF Discard, WorkerGoto
    <3> QED
      BY <3>1 DEF StatusInv, PortStatus
  <2> QED
    BY <2>1, <2>2
<1> QED
  BY <1>1, <1>2, <1>3, <1>4, <1>5, <1>6, <1>7, <1>8, <1>9, <1>10, <1>11,
     <1>12, <1>13, <1>14, <1>15, <1>16, <1>17 DEF Next, Call, WorkerThread

-----------------------------------------------------------------------------
THEOREM Invariance == Spec => []IndInv
<1>1. IndInv /\ [Next]_vars => IndInv'
  BY TypesPreserved, WorkerPreserved, StopPreserved, PartnerPreserved, ReturnPreserved,
     RolePreserved, StatusPreserved DEF IndInv
<1> QED
  BY Initially, <1>1, PTL DEF Spec

\* The state of the Type-C HAL stays in its types.
THEOREM TypeCorrect == Spec => []TypeOK
<1>1. IndInv => TypeOK
  BY DEF IndInv
<1> QED
  BY Invariance, <1>1, PTL

\* A worker exists exactly while a callback is registered or being removed.
THEOREM OneWorker == Spec => []WorkerIffCallback
<1>1. IndInv => WorkerIffCallback
  BY DEF IndInv, WorkerInv
<1> QED
  BY Invariance, <1>1, PTL

\* A worker that is to be stopped is told so, and no other.
THEOREM StopDelivered == Spec => []StopReachesItsWorker
<1>1. IndInv => StopReachesItsWorker
  BY DEF IndInv
<1> QED
  BY Invariance, <1>1, PTL

\* The waiter of a role switch never sleeps through a partner that came up.
THEOREM PartnerNotLost == Spec => []NoLostPartner
<1>1. IndInv => NoLostPartner
  BY DEF IndInv, PartnerInv
<1> QED
  BY Invariance, <1>1, PTL

\* A mode switch succeeds only for a partner whose message was not dealt with
\* before the type was written.
THEOREM SuccessHonest == Spec => []SuccessMeansReturned
<1>1. IndInv => SuccessMeansReturned
  BY DEF IndInv, ReturnInv
<1> QED
  BY Invariance, <1>1, PTL

\* When a role switch reports, the port has the type it reports.
THEOREM ResultTruthful == Spec => []PortTypeMatchesResult
<1>1. IndInv => PortTypeMatchesResult
  BY DEF IndInv, RoleInv
<1> QED
  BY Invariance, <1>1, PTL

\* A worker that has caught up, and has not discarded the message of a change
\* since, has told the client the state of the port or of an error in reading it.
THEOREM StatusTruthful == Spec => []StatusConverges
<1>1. IndInv => StatusConverges
  BY DEF IndInv, StatusInv, StatusConverges
<1> QED
  BY Invariance, <1>1, PTL
-----------------------------------------------------------------------------
(* The HAL implements PortApi.                                             *)

\* A message is not lost behind another.
LEMMA UnreadStays ==
  ASSUME NEW q \in Seq({"add", "remove"}), NEW e \in {"add", "remove"}
  PROVE  (\E i \in DOMAIN q : q[i] = "add")
           => \E i \in DOMAIN Append(q, e) : Append(q, e)[i] = "add"
<1> SUFFICES ASSUME NEW i \in DOMAIN q, q[i] = "add"
             PROVE  i \in DOMAIN Append(q, e) /\ Append(q, e)[i] = "add"
  OBVIOUS
<1> QED
  OBVIOUS

\* The client sees no step in which at most a message is read.
LEMMA Unseen ==
  ASSUME UNCHANGED <<RoleInProgress, Answer, portType, refused, returned>>,
         UnreadAdd' => UnreadAdd
  PROVE  [Api!Next]_(Api!vars)
<1>1. UnreadAdd \in BOOLEAN /\ UnreadAdd' \in BOOLEAN
  BY DEF UnreadAdd
<1>2. CASE UnreadAdd' = UnreadAdd
  BY <1>2 DEF Api!vars
<1>3. CASE UnreadAdd' = FALSE
  BY <1>3 DEF Api!Next, Api!Deal
<1> QED
  BY <1>1, <1>2, <1>3

\* Most steps of the binder thread are its own business.
LEMMA BinderUnseen ==
  ASSUME RoleInv, UNCHANGED <<role, portType, refused, returned>>,
         UnreadAdd' => UnreadAdd,
         \/ UNCHANGED <<pc, roleSwitch>>
         \/ ~RoleLockOfBinder /\ ~RoleLockOfBinder' /\ UNCHANGED roleSwitch
         \/ /\ pc \in {"open", "lock", "write", "waiting", "expired", "swap"}
            /\ pc' \in {"lock", "write", "waiting", "expired", "todrp"}
         \/ pc = "waiting" /\ pc' = "notify" /\ roleSwitch'
         \/ pc = "swap" /\ pc' = "notify"
  PROVE  [Api!Next]_(Api!vars)
<1> USE DEF RoleLockOfBinder, RoleInProgress, Answer
<1>1. CASE UNCHANGED <<pc, roleSwitch>>
  BY <1>1, Unseen
<1>2. CASE ~RoleLockOfBinder /\ ~RoleLockOfBinder' /\ UNCHANGED roleSwitch
  BY <1>2, Unseen
<1>3. CASE /\ pc \in {"open", "lock", "write", "waiting", "expired", "swap"}
           /\ pc' \in {"lock", "write", "waiting", "expired", "todrp"}
  BY <1>3, Unseen
<1>4. CASE pc = "waiting" /\ pc' = "notify" /\ roleSwitch'
  BY <1>4, Unseen
<1>5. CASE pc = "swap" /\ pc' = "notify"
  <2>1. role = "other" /\ "other" \notin Modes
    BY <1>5 DEF RoleInv, Modes
  <2> QED
    BY <1>5, <2>1, Unseen
<1> QED
  BY <1>1, <1>2, <1>3, <1>4, <1>5

\* Switches are served one at a time and answered truthfully, and no worker
\* touches the type of a port meanwhile.
THEOREM ImplementsApi == Spec => ApiSpec
<1>1. Init => Api!Init
  BY DEF Init, Api!Init, RoleInProgress, Answer, RoleLockOfBinder, UnreadAdd
<1>2. IndInv /\ [Next]_vars => [Api!Next]_(Api!vars)
  <2> SUFFICES ASSUME IndInv, [Next]_vars PROVE [Api!Next]_(Api!vars)
    OBVIOUS
  <2> USE DEF binderVars, condVars, workerVars, kernelVars, reportVars
  <2>0. TypeOK /\ RoleInv /\ ReturnInv /\ uevents \in Seq({"add", "remove"})
    BY DEF IndInv, TypeOK
  <2>1. CASE RegisterCallback \/ RemoveCallback \/ Kill \/ Join \/ QueryPortStatus
    <3>1. UnreadAdd' => UnreadAdd
      BY <2>1 DEF RegisterCallback, RemoveCallback, Kill, Join, QueryPortStatus,
           UnreadAdd
    <3>2. /\ UNCHANGED <<role, roleSwitch, portType, refused, returned>>
          /\ UNCHANGED pc \/ (~RoleLockOfBinder /\ ~RoleLockOfBinder')
      BY <2>1 DEF RegisterCallback, RemoveCallback, Kill, Join, QueryPortStatus,
           RoleLockOfBinder
    <3> QED
      BY <2>0, <3>1, <3>2, BinderUnseen
  <2>2. ASSUME NEW r \in Modes \cup {"other"}, SwitchRole(r) PROVE Api!Switch(r)
    <3>1. RoleInProgress = "none" /\ RoleInProgress' = r /\ Answer' = FALSE
      BY <2>2 DEF SwitchRole, RoleInProgress, Answer, RoleLockOfBinder
    <3> QED
      BY <2>2, <3>1 DEF SwitchRole, Api!Switch, UnreadAdd
  <2>3. CASE SwapRole \/ OpenPortType \/ LockPartner \/ WriteFails \/ Timeout \/ TimedOut
    <3>1. /\ UNCHANGED <<role, portType, refused, returned, uevents, wpc>>
          /\ \/ /\ pc \in {"open", "lock", "write", "waiting", "expired"}
                /\ pc' \in {"lock", "write", "waiting", "expired", "todrp"}
             \/ pc = "swap" /\ pc' = "notify"
      BY <2>3 DEF SwapRole, OpenPortType, LockPartner, WriteFails, Timeout, TimedOut,
           BinderGoto
    <3> QED
      BY <2>0, <3>1, BinderUnseen DEF UnreadAdd
  <2>4. CASE WritePortType
    <3>1. RoleInProgress = role /\ RoleInProgress' = role /\ role \in Modes
      BY <2>0, <2>4 DEF WritePortType, BinderGoto, RoleInProgress, RoleLockOfBinder,
           RoleInv
    <3>2. UnreadAdd' = UnreadAdd
      <4>1. uevents' \in {uevents, Append(uevents, "remove")} /\ UNCHANGED wpc
        BY <2>4 DEF WritePortType, BinderGoto, Uevent
      <4> QED
        BY <2>0, <4>1, UnreadSteps, UnreadStays DEF UnreadAdd
    <3>3. Answer = FALSE /\ Answer' = FALSE
      BY <2>4 DEF WritePortType, BinderGoto, Answer, RoleLockOfBinder
    <3>4. Api!SetType
      BY <2>4, <3>1, <3>2, <3>3 DEF WritePortType, Api!SetType, Api!Modes, Modes
    <3> QED
      BY <3>4 DEF Api!Next
  <2>5. CASE PartnerReturned
    <3>1. /\ pc = "waiting" /\ UNCHANGED <<role, portType, refused, returned, uevents, wpc>>
          /\ pc' = "waiting" \/ (pc' = "notify" /\ roleSwitch')
      BY <2>0, <2>5 DEF PartnerReturned, BinderGoto, TypeOK
    <3> QED
      BY <2>0, <3>1, BinderUnseen DEF UnreadAdd
  <2>6. CASE SwitchToDrp
    <3>1. RoleInProgress \in Modes /\ RoleInProgress' = "failed"
      BY <2>0, <2>6 DEF SwitchToDrp, BinderGoto, RoleInProgress, RoleLockOfBinder, RoleInv
    <3>2. UNCHANGED <<Answer, refused, UnreadAdd, returned>> /\ portType' = "dual"
      BY <2>6 DEF SwitchToDrp, BinderGoto, Answer, RoleLockOfBinder, UnreadAdd
    <3>3. Api!MakeDual
      BY <3>1, <3>2 DEF Api!MakeDual, Api!Modes, Modes
    <3> QED
      BY <3>3 DEF Api!Next
  <2>7. CASE NotifyRoleSwitch
    <3>1. /\ RoleInProgress = IF role \in Modes /\ ~roleSwitch THEN "failed" ELSE role
          /\ RoleInProgress' = "none" /\ Answer' = roleSwitch
          /\ UNCHANGED <<portType, refused, UnreadAdd, returned>>
      BY <2>0, <2>7 DEF NotifyRoleSwitch, BinderGoto, RoleInProgress, Answer,
           RoleLockOfBinder, UnreadAdd, TypeOK
    <3>2. CASE roleSwitch
      <4>1. role \in Modes => returned /\ (refused \/ portType = role)
        BY <2>0, <2>7, <3>2 DEF NotifyRoleSwitch, RoleInv, ReturnInv,
             SuccessMeansReturned, PortTypeMatchesResult
      <4>2. Api!Succeed
        BY <2>0, <3>1, <3>2, <4>1 DEF TypeOK, Api!Succeed, Api!Roles, Api!Modes, Modes
      <4> QED
        BY <4>2 DEF Api!Next
    <3>3. CASE ~roleSwitch
      <4>1. Api!Fail
        BY <2>0, <3>1, <3>3 DEF TypeOK, Api!Fail, Modes
      <4> QED
        BY <4>1 DEF Api!Next
    <3> QED
      BY <2>0, <3>2, <3>3 DEF TypeOK
  <2>8. CASE WorkerThread /\ ~ResetPort
    <3>1. /\ UNCHANGED <<role, portType, refused, returned, pc, roleSwitch>>
          /\ UnreadAdd' => UnreadAdd
      BY <2>0, <2>8, UnreadSteps DEF WorkerThread, WorkerGoto, OpenSocket,
           OpenSocketFails, Check, EnterEpollWait, Receive, Discard, PartnerAdded,
           WorkerQuery, TryLockRole, OpenPartnerDir, UnreadAdd
    <3> QED
      BY <2>0, <3>1, BinderUnseen
  <2>9. CASE ResetPort
    <3>1. ~RoleLockOfBinder /\ UNCHANGED <<pc, role, roleSwitch>>
      BY <2>0, <2>9 DEF ResetPort, WorkerGoto, RoleInv, RoleLockOfWorker
    <3>2. /\ RoleInProgress = "none" /\ RoleInProgress' = "none"
          /\ UNCHANGED <<Answer, refused, UnreadAdd, returned>> /\ portType' = "dual"
      BY <2>9, <3>1 DEF ResetPort, WorkerGoto, RoleInProgress, Answer,
           RoleLockOfBinder, UnreadAdd
    <3>3. Api!MakeDual
      BY <3>2 DEF Api!MakeDual
    <3> QED
      BY <3>3 DEF Api!Next
  <2>10. CASE SigHandler \/ Detach \/ UNCHANGED vars
    <3>1. /\ UNCHANGED <<role, portType, refused, returned, pc, roleSwitch>>
          /\ uevents' \in {uevents, Append(uevents, "remove")}
          /\ wpc' = "partner" => wpc = "partner"
      BY <2>10 DEF SigHandler, Detach, Uevent, vars
    <3>2. UnreadAdd' => UnreadAdd
      BY <2>0, <3>1, UnreadSteps DEF UnreadAdd
    <3> QED
      BY <2>0, <3>1, <3>2, BinderUnseen
  <2>11. CASE Attach
    <3>1. /\ UNCHANGED <<RoleInProgress, Answer, portType, refused, wpc>> /\ returned'
          /\ uevents' \in {uevents, Append(uevents, "add")}
      BY <2>11 DEF Attach, Uevent, RoleInProgress, Answer, RoleLockOfBinder
    <3>2. UnreadAdd' \in {UnreadAdd, TRUE}
      <4>1. UnreadAdd => UnreadAdd'
        BY <2>0, <3>1, UnreadStays DEF UnreadAdd
      <4>2. UnreadAdd \in BOOLEAN /\ UnreadAdd' \in BOOLEAN
        BY DEF UnreadAdd
      <4> QED
        BY <4>1, <4>2
    <3>3. Api!Come
      BY <2>11, <3>1, <3>2 DEF Attach, Api!Come
    <3> QED
      BY <3>3 DEF Api!Next
  <2> QED
    BY <2>1, <2>2, <2>3, <2>4, <2>5, <2>6, <2>7, <2>8, <2>9, <2>10, <2>11
       DEF Next, Call, BinderThread, Api!Next, Api!Roles, Api!Modes, Modes
<1> QED
  BY <1>1, <1>2, Invariance, PTL DEF Spec, ApiSpec, Api!Spec
=============================================================================
