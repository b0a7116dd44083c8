------------------------------ MODULE UsbTypeC ------------------------------
(***************************************************************************)
(* The USB Type-C HAL (struct Usb): its single binder thread, the worker   *)
(* thread that listens to the kernel's uevents while a callback is         *)
(* registered, and one port of the kernel's typec class.                   *)
(*                                                                         *)
(* A mutex is held exactly at certain control points of its holder:        *)
(* mLock by setCallback(NULL) while it stops the worker, mPartnerLock by   *)
(* switchMode while it writes the port type, mRoleSwitchLock by switchRole *)
(* and by the worker while it resets a port.  Sections that hold a lock    *)
(* without blocking are one step, enabled when the lock is free.           *)
(***************************************************************************)
EXTENDS Integers, Sequences

CONSTANT MaxChanges   \* bound on the number of partner changes

ASSUME TypeCAssumption == MaxChanges \in Nat

VARIABLES
  pc,            \* control point of the binder thread
  mCallback,     \* a callback is registered
  role,          \* the role asked for
  roleSwitch,    \* the local result of switchRole
  mPartnerUp, signalled,     \* the condition variable mPartnerCV
  wpc,           \* control point of the worker thread
  destroyThread, sigPending, \* the flag and the signal that stop the worker
  uevents,       \* received by the socket, not read yet
  partner,       \* the port's -partner directory exists
  portType,      \* its port_type node
  changes,
  returned,      \* history: a partner was added since port_type was written,
                 \* or the worker had not dealt with an earlier one by then
  refused,       \* history: the kernel refused the last port_type
  lastStatus,    \* history: what the client was last notified of since the
                 \* worker listens: the state of the port, or an error
  missed         \* history: the message of a change was discarded since then

binderVars == <<pc, mCallback, role, roleSwitch>>
condVars == <<mPartnerUp, signalled>>
workerVars == <<wpc, destroyThread, sigPending>>
kernelVars == <<uevents, partner, portType, changes, returned, refused>>
reportVars == <<lastStatus, missed>>
vars == <<binderVars, condVars, workerVars, kernelVars, reportVars>>

Modes == {"sink", "source"}

BinderState == {"idle", "kill", "join", "open", "lock", "write", "waiting",
                "expired", "todrp", "swap", "notify"}
WorkerState == {"none", "start", "check", "enter", "epoll", "partner", "query",
                "trylock", "opendir", "drp", "exited"}

TypeOK ==
  /\ pc \in BinderState
  /\ mCallback \in BOOLEAN
  /\ role \in Modes \cup {"other"}
  /\ roleSwitch \in BOOLEAN
  /\ mPartnerUp \in BOOLEAN /\ signalled \in BOOLEAN
  /\ wpc \in WorkerState
  /\ destroyThread \in BOOLEAN /\ sigPending \in BOOLEAN
  /\ uevents \in Seq({"add", "remove"}) /\ Len(uevents) <= MaxChanges
  /\ partner \in BOOLEAN /\ portType \in Modes \cup {"dual"}
  /\ changes \in 0..MaxChanges
  /\ returned \in BOOLEAN /\ refused \in BOOLEAN
  /\ lastStatus \in {"none", "attached", "detached", "error"} /\ missed \in BOOLEAN

Init ==
  /\ pc = "idle" /\ mCallback = FALSE /\ role = "other" /\ roleSwitch = FALSE
  /\ mPartnerUp = FALSE /\ signalled = FALSE
  /\ wpc = "none" /\ destroyThread = FALSE /\ sigPending = FALSE
  /\ uevents = <<>> /\ partner \in BOOLEAN /\ portType = "dual"
  /\ changes = 0 /\ returned = FALSE /\ refused = FALSE
  /\ lastStatus = "none" /\ missed = FALSE

mLockHeld == pc \in {"kill", "join"}
mPartnerLockHeld == pc = "write"
RoleLockOfBinder == pc \in {"open", "lock", "write", "waiting", "expired",
                            "todrp", "swap", "notify"}
RoleLockOfWorker == wpc \in {"opendir", "drp"}

Listening == wpc \notin {"none", "start", "exited"}

\* The kernel multicasts a uevent; it is lost unless the socket is open.
Uevent(e) == uevents' = IF Listening THEN Append(uevents, e) ELSE uevents

\* The worker has yet to tell the waiter of a partner.
UnreadAdd == wpc = "partner" \/ \E i \in DOMAIN uevents : uevents[i] = "add"

-----------------------------------------------------------------------------
(* setCallback                                                             *)

\* Mutant: the worker is not told to stop.
KillForgotten ==
  /\ pc = "kill"
  /\ IF wpc = "exited" THEN pc' = "idle" /\ wpc' = "none" ELSE pc' = "join" /\ UNCHANGED wpc
  /\ UNCHANGED <<mCallback, role, roleSwitch, condVars, destroyThread, sigPending,
                 kernelVars, reportVars>>

\* Mutant: destroyThread is not reset for the new worker.
RegisterKeepsFlag ==
  /\ pc = "idle" /\ ~mCallback
  /\ lastStatus' = "none" /\ missed' = FALSE
  /\ \/ mCallback' = TRUE /\ wpc' = "start"
     \/ UNCHANGED <<mCallback, wpc>>
  /\ UNCHANGED <<pc, role, roleSwitch, condVars, destroyThread, sigPending, kernelVars>>

\* A first callback starts the worker, unless pthread_create fails.
RegisterCallback ==
  /\ pc = "idle" /\ ~mCallback
  /\ destroyThread' = FALSE
  /\ lastStatus' = "none" /\ missed' = FALSE
  /\ \/ mCallback' = TRUE /\ wpc' = "start"
     \/ UNCHANGED <<mCallback, wpc>>
  /\ UNCHANGED <<pc, role, roleSwitch, condVars, sigPending, kernelVars>>

\* NULL replaces a callback: mLock is held until the worker is joined.
RemoveCallback ==
  /\ pc = "idle" /\ mCallback
  /\ pc' = "kill" /\ mCallback' = FALSE
  /\ UNCHANGED <<role, roleSwitch, condVars, workerVars, kernelVars, reportVars>>

\* pthread_kill, which fails if the worker has already returned.
Kill ==
  /\ pc = "kill"
  /\ IF wpc = "exited" THEN pc' = "idle" /\ wpc' = "none" /\ UNCHANGED sigPending
                       ELSE pc' = "join" /\ sigPending' = TRUE /\ UNCHANGED wpc
  /\ UNCHANGED <<mCallback, role, roleSwitch, condVars, destroyThread,
                 kernelVars, reportVars>>

Join ==
  /\ pc = "join" /\ wpc = "exited"
  /\ pc' = "idle" /\ wpc' = "none" /\ sigPending' = FALSE
  /\ UNCHANGED <<mCallback, role, roleSwitch, condVars, destroyThread,
                 kernelVars, reportVars>>

-----------------------------------------------------------------------------
(* queryVersionHelper: read the port's state and notify it, under mLock.   *)

\* The role files are read for a partner only; if one cannot be read the
\* client is told of an error instead.  The class directory can be opened.
PortStatus == IF partner THEN {"attached", "error"} ELSE {"detached"}

QueryVersionHelper ==
  /\ ~mLockHeld
  /\ IF mCallback THEN lastStatus' \in PortStatus /\ missed' = FALSE
                  ELSE UNCHANGED reportVars

\* queryPortStatus, enableUsbData, enableContaminantPresenceDetection.
QueryPortStatus ==
  /\ pc = "idle" /\ QueryVersionHelper
  /\ UNCHANGED <<binderVars, condVars, workerVars, kernelVars>>

-----------------------------------------------------------------------------
(* switchRole                                                              *)

\* Mutant: every role is switched like a mode.
SwitchAnyRole(r) ==
  /\ pc = "idle" /\ ~RoleLockOfWorker
  /\ role' = r /\ roleSwitch' = FALSE /\ pc' = "open"
  /\ UNCHANGED <<mCallback, condVars, workerVars, kernelVars, reportVars>>

SwitchRole(r) ==
  /\ pc = "idle" /\ ~RoleLockOfWorker
  /\ role' = r /\ roleSwitch' = FALSE
  /\ pc' = IF r \in Modes THEN "open" ELSE "swap"
  /\ UNCHANGED <<mCallback, condVars, workerVars, kernelVars, reportVars>>

\* Data and power roles: written and read back at once.
SwapRole ==
  /\ pc = "swap" /\ pc' = "notify"
  /\ roleSwitch' \in BOOLEAN
  /\ UNCHANGED <<mCallback, role, condVars, workerVars, kernelVars, reportVars>>

BinderGoto(label) ==
  /\ pc' = label
  /\ UNCHANGED <<mCallback, role, workerVars, reportVars>>

\* switchMode: open port_type.
OpenPortType ==
  /\ pc = "open"
  /\ \E ok \in BOOLEAN : BinderGoto(IF ok THEN "lock" ELSE "todrp")
  /\ UNCHANGED <<roleSwitch, condVars, kernelVars>>

LockPartner ==
  /\ pc = "lock" /\ BinderGoto("write")
  /\ mPartnerUp' = FALSE
  /\ UNCHANGED <<roleSwitch, signalled, kernelVars>>

\* Write port_type, which may detach the partner, and wait.  fputs only fills
\* the buffer: what the kernel says when fclose writes it is not looked at.
WritePortType ==
  /\ pc = "write" /\ BinderGoto("waiting")
  /\ returned' = UnreadAdd /\ signalled' = FALSE
  /\ \/ portType' = role /\ refused' = FALSE /\ UNCHANGED <<partner, uevents, changes>>
     \/ /\ partner /\ changes < MaxChanges /\ changes' = changes + 1
        /\ portType' = role /\ refused' = FALSE
        /\ partner' = FALSE /\ Uevent("remove")
     \/ refused' = TRUE /\ UNCHANGED <<portType, partner, uevents, changes>>
  /\ UNCHANGED <<roleSwitch, mPartnerUp>>

WriteFails ==
  /\ pc = "write" /\ BinderGoto("todrp")
  /\ UNCHANGED <<roleSwitch, condVars, kernelVars>>

\* The wait returns on a signal; if the partner is not up, wait again.
PartnerReturned ==
  /\ pc = "waiting" /\ signalled
  /\ BinderGoto(IF mPartnerUp THEN "notify" ELSE "waiting")
  /\ roleSwitch' = mPartnerUp /\ signalled' = FALSE
  /\ UNCHANGED <<mPartnerUp, kernelVars>>

\* Mutant: pthread_cond_wait without a timeout.
NoTimeout == FALSE

\* PORT_TYPE_TIMEOUT expires; mPartnerLock still has to be acquired.
Timeout ==
  /\ pc = "waiting" /\ ~signalled /\ BinderGoto("expired")
  /\ UNCHANGED <<roleSwitch, condVars, kernelVars>>

TimedOut ==
  /\ pc = "expired" /\ BinderGoto("todrp")
  /\ UNCHANGED <<roleSwitch, condVars, kernelVars>>

SwitchToDrp ==
  /\ pc = "todrp" /\ BinderGoto("notify")
  /\ portType' = "dual"
  /\ UNCHANGED <<roleSwitch, condVars, uevents, partner, changes, returned, refused>>

\* notifyRoleSwitchStatus, under mLock, which nobody holds for long.
NotifyRoleSwitch ==
  /\ pc = "notify" /\ BinderGoto("idle")
  /\ UNCHANGED <<roleSwitch, condVars, kernelVars>>

-----------------------------------------------------------------------------
(* The worker thread.                                                      *)

WorkerGoto(label) == wpc' = label /\ UNCHANGED <<binderVars, destroyThread, sigPending>>

OpenSocket ==
  /\ wpc = "start"
  /\ WorkerGoto("check")
  /\ uevents' = <<>>
  /\ lastStatus' = "none" /\ missed' = FALSE
  /\ UNCHANGED <<condVars, partner, portType, changes, returned, refused>>

\* uevent_open_socket or the epoll setup fails.
OpenSocketFails ==
  /\ wpc = "start" /\ WorkerGoto("exited")
  /\ UNCHANGED <<condVars, kernelVars, reportVars>>

\* while (!destroyThread)
Check ==
  /\ wpc = "check"
  /\ IF destroyThread THEN WorkerGoto("exited") /\ uevents' = <<>>
                      ELSE WorkerGoto("enter") /\ UNCHANGED uevents
  /\ UNCHANGED <<condVars, partner, portType, changes, returned, refused, reportVars>>

EnterEpollWait ==
  /\ wpc = "enter" /\ WorkerGoto("epoll")
  /\ UNCHANGED <<condVars, kernelVars, reportVars>>

\* Mutant: the action of the message is not looked at.
ReceiveAny ==
  /\ wpc = "epoll" /\ uevents # <<>> /\ WorkerGoto("partner")
  /\ uevents' = Tail(uevents)
  /\ UNCHANGED <<condVars, partner, portType, changes, returned, refused, reportVars>>

\* epoll_wait returns, uevent_event reads one message.
Receive ==
  /\ wpc = "epoll" /\ uevents # <<>>
  /\ WorkerGoto(IF Head(uevents) = "add" THEN "partner" ELSE "query")
  /\ uevents' = Tail(uevents)
  /\ UNCHANGED <<condVars, partner, portType, changes, returned, refused, reportVars>>

\* A message that fills the buffer is discarded, and so, at the error that
\* reports the loss, is one that did not fit the socket; any other failure to
\* receive leaves it for the next epoll_wait.
Discard ==
  /\ wpc = "epoll" /\ uevents # <<>> /\ WorkerGoto("check")
  /\ \/ uevents' = Tail(uevents) /\ missed' = TRUE
     \/ UNCHANGED <<uevents, missed>>
  /\ UNCHANGED <<condVars, partner, portType, changes, returned, refused, lastStatus>>

\* Mutants: mPartnerLock is not taken; an "add" message reports no state.
PartnerAddedUnlocked ==
  /\ wpc = "partner" /\ WorkerGoto("query")
  /\ mPartnerUp' = TRUE /\ signalled' = (pc = "waiting")
  /\ UNCHANGED <<kernelVars, reportVars>>

PartnerAddedReturns ==
  /\ wpc = "partner" /\ ~mPartnerLockHeld /\ WorkerGoto("check")
  /\ mPartnerUp' = TRUE /\ signalled' = (pc = "waiting")
  /\ UNCHANGED <<kernelVars, reportVars>>

PartnerAdded ==
  /\ wpc = "partner" /\ ~mPartnerLockHeld /\ WorkerGoto("query")
  /\ mPartnerUp' = TRUE
  /\ signalled' = (pc = "waiting")
  /\ UNCHANGED <<kernelVars, reportVars>>

\* Every typec message then reports the state of the port.
WorkerQuery ==
  /\ wpc = "query" /\ QueryVersionHelper /\ WorkerGoto("trylock")
  /\ UNCHANGED <<condVars, kernelVars>>

\* Mutant: the result of pthread_mutex_trylock is ignored.
TryLockIgnored ==
  /\ wpc = "trylock" /\ WorkerGoto("opendir")
  /\ UNCHANGED <<condVars, kernelVars, reportVars>>

TryLockRole ==
  /\ wpc = "trylock"
  /\ WorkerGoto(IF RoleLockOfBinder THEN "check" ELSE "opendir")
  /\ UNCHANGED <<condVars, kernelVars, reportVars>>

OpenPartnerDir ==
  /\ wpc = "opendir"
  /\ WorkerGoto(IF partner THEN "check" ELSE "drp")
  /\ UNCHANGED <<condVars, kernelVars, reportVars>>

\* The port has no partner: make it dual role again.
ResetPort ==
  /\ wpc = "drp" /\ WorkerGoto("check")
  /\ portType' = "dual"
  /\ UNCHANGED <<condVars, uevents, partner, changes, returned, refused, reportVars>>

\* SIGUSR1 is delivered: it interrupts epoll_wait, not pthread_mutex_lock.
SigHandler ==
  /\ sigPending /\ wpc # "exited"
  /\ sigPending' = FALSE /\ destroyThread' = TRUE
  /\ wpc' = IF wpc = "epoll" THEN "check" ELSE wpc
  /\ UNCHANGED <<binderVars, condVars, kernelVars, reportVars>>

-----------------------------------------------------------------------------
(* The kernel's typec class.                                               *)

Attach ==
  /\ ~partner /\ changes < MaxChanges
  /\ partner' = TRUE /\ changes' = changes + 1 /\ returned' = TRUE
  /\ Uevent("add")
  /\ UNCHANGED <<binderVars, condVars, workerVars, portType, refused, reportVars>>

Detach ==
  /\ partner /\ changes < MaxChanges
  /\ partner' = FALSE /\ changes' = changes + 1
  /\ Uevent("remove")
  /\ UNCHANGED <<binderVars, condVars, workerVars, portType, returned, refused, reportVars>>

-----------------------------------------------------------------------------
Call == RegisterCallback \/ RemoveCallback \/ QueryPortStatus
          \/ \E r \in Modes \cup {"other"} : SwitchRole(r)

BinderThread ==
  \/ Kill \/ Join \/ SwapRole \/ OpenPortType \/ LockPartner \/ WritePortType
  \/ WriteFails \/ PartnerReturned \/ Timeout \/ TimedOut \/ SwitchToDrp
  \/ NotifyRoleSwitch

WorkerThread ==
  \/ OpenSocket \/ OpenSocketFails \/ Check \/ EnterEpollWait \/ Receive
  \/ Discard \/ PartnerAdded \/ WorkerQuery \/ TryLockRole \/ OpenPartnerDir \/ ResetPort

Next == Call \/ BinderThread \/ WorkerThread \/ SigHandler \/ Attach \/ Detach

Spec == Init /\ [][Next]_vars

\* Threads are scheduled, signals are delivered, timeouts expire.
FairSpec ==
  /\ Spec
  /\ WF_vars(BinderThread) /\ WF_vars(WorkerThread) /\ WF_vars(SigHandler)

-----------------------------------------------------------------------------
(* Safety.                                                                 *)

\* A worker exists exactly while a callback is registered or being removed,
\* so no second one is ever started beside it.
WorkerIffCallback ==
  pc \notin {"kill", "join"} => (mCallback <=> wpc # "none")

\* Usb.cpp: "Hold the lock here to prevent loosing connected signals".  The
\* waiter of a role switch never sleeps through a partner that came up.
NoLostPartner == pc = "waiting" /\ mPartnerUp => signalled

\* When the result of a mode switch is notified, the port has the type it
\* announces: the requested one, or dual again after a failure.  The worker,
\* which resets ports that have no partner, did not interfere.  Only a type
\* the kernel refused can be announced without being in force, because
\* nobody looks at the result of fclose.
PortTypeMatchesResult ==
  pc = "notify" /\ role \in Modes /\ (roleSwitch => ~refused)
    => portType = IF roleSwitch THEN role ELSE "dual"

\* Usb.cpp: "Role switch succeeded since usb->mPartnerUp is true".  A mode
\* switch succeeds only for a partner that came after the type was written,
\* or whose message was still unread then: the code cannot tell those apart,
\* but neither a removal, a timeout nor an earlier switch passes for it.
SuccessMeansReturned == pc = "notify" /\ roleSwitch /\ role \in Modes => returned

\* Once the worker has caught up with the kernel, what it last notified to the
\* client fits the port: the client takes no partner that has gone for one
\* that is there, nor the reverse.  Two things keep the state from it: the
\* message of a change discarded since, and a role file that could not be
\* read, which is reported as an error.
StatusConverges ==
  wpc = "epoll" /\ uevents = <<>> /\ lastStatus # "none" /\ mCallback
    => missed \/ lastStatus \in PortStatus

\* The signal and the flag that stop a worker are meant for one worker: until
\* that one has returned they are not both lost, whatever it is doing when the
\* signal comes, and neither is left for the next.
StopReachesItsWorker ==
  /\ pc = "join" => wpc = "exited" \/ sigPending \/ destroyThread
  /\ sigPending \/ (destroyThread /\ wpc # "none") => pc = "join"

-----------------------------------------------------------------------------
(* The inductive invariant behind the safety properties, by topic.         *)

\* Every queued uevent was caused by a change of the partner.
QueueInv == Len(uevents) <= changes

\* A callback being removed is gone already, its worker is not.
WorkerInv ==
  /\ WorkerIffCallback
  /\ pc \in {"kill", "join"} => ~mCallback /\ wpc # "none"

\* mPartnerLock: nobody sets mPartnerUp between its reset and the wait.
PartnerInv == NoLostPartner /\ (pc = "write" => ~mPartnerUp)

\* From the write on, whatever can make the switch succeed is accounted for.
ReturnInv ==
  /\ pc = "waiting" /\ (UnreadAdd \/ signalled) => returned
  /\ SuccessMeansReturned

\* mRoleSwitchLock: binder thread and worker never hold it together, so what
\* switchMode wrote stays until it has reported.
RoleInv ==
  /\ ~(RoleLockOfBinder /\ RoleLockOfWorker)
  /\ pc \in {"open", "lock", "write", "waiting", "expired", "todrp"}
       => role \in Modes /\ ~roleSwitch
  /\ pc = "swap" => role = "other"
  /\ pc \in {"waiting", "expired"} /\ ~refused => portType = role
  /\ PortTypeMatchesResult

\* A worker that is not about to report, with nothing left to read, has
\* discarded a message or reported what fits the port.
StatusInv ==
  (/\ wpc \in {"check", "enter", "epoll", "trylock", "opendir", "drp"}
   /\ uevents = <<>> /\ mCallback /\ lastStatus # "none")
  => missed \/ lastStatus \in PortStatus

IndInv ==
  /\ TypeOK /\ QueueInv /\ WorkerInv /\ StopReachesItsWorker
  /\ PartnerInv /\ ReturnInv /\ RoleInv /\ StatusInv

-----------------------------------------------------------------------------
(* Liveness.                                                               *)

\* A role switch ends: no lock is waited for forever.
RoleSwitchEnds == RoleLockOfBinder ~> pc = "idle"

\* setCallback(NULL) returns, with two exceptions only: a worker that had
\* passed its test of destroyThread when the signal came sleeps until the next
\* uevent, and a worker about to report a message waits for the mLock of the
\* thread that joins it.
RemovalEnds ==
  pc = "join" ~> \/ pc = "idle"
                 \/ wpc = "epoll" /\ destroyThread
                 \/ wpc = "query"

-----------------------------------------------------------------------------
(* What the comments of the code promise and the code does not do.         *)

\* "Set by the signal handler to destroy the thread": the signal that
\* setCallback(NULL) sends makes the worker return, and the call with it.
SignalDestroysThread == pc = "join" ~> wpc = "exited"
-----------------------------------------------------------------------------
\* A switch is in progress while its binder thread has mRoleSwitchLock; it has
\* failed when its result is known to be false.
RoleInProgress ==
  IF ~RoleLockOfBinder THEN "none"
  ELSE IF pc = "notify" /\ role \in Modes /\ ~roleSwitch THEN "failed" ELSE role

Answer == ~RoleLockOfBinder /\ roleSwitch

\* The HAL implements PortApi: its lock, its condition variable, its timeout and
\* its worker make one switch at a time of what a client asks for.
Api == INSTANCE PortApi WITH
         role <- RoleInProgress, answer <- Answer,
         type <- portType, refused <- refused,
         unread <- UnreadAdd, came <- returned

ApiSpec == Api!Spec
=============================================================================
