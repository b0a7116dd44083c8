------------------------------ MODULE Configfs ------------------------------
(***************************************************************************)
(* What the gadget HAL uses of the kernel (external: the configfs gadget   *)
(* /config/usb_gadget/g1 and the FunctionFS mounts, both set up by         *)
(* init.glodroid.usb.rc with no_disconnect=1) and of the daemons (adbd,    *)
(* the MTP server) that own the FunctionFS mounts.                         *)
(*                                                                         *)
(* A daemon opens ep0, then writes its descriptors, which makes the kernel *)
(* create the ep1.. files; when it dies these files vanish.  With          *)
(* no_disconnect the gadget stays bound when a daemon dies and is unbound  *)
(* when the daemon comes back and opens ep0 again.                         *)
(***************************************************************************)
EXTENDS GadgetFunctions, FiniteSets

CONSTANTS MaxEvents,   \* bound on queued inotify events (the rest coalesce)
          MaxDeaths    \* bound on the number of daemon deaths

ASSUME ConfigfsAssumption == MaxEvents \in Nat \ {0} /\ MaxDeaths \in Nat

VARIABLES linked,   \* the functions linked into configs/b.1
          bound,    \* the UDC file names a controller: the gadget is pulled up
          daemon,   \* the owner of each FunctionFS mount
          deaths,   \* how many times a daemon died
          watches,  \* the FunctionFS directories under an inotify watch
          queue,    \* the number of unread inotify events
          up        \* history: the functions linked at the last successful
                    \* pull-up since the current request began, {} if none

kernelVars == <<linked, bound, daemon, deaths, watches, queue, up>>

DaemonState == {"dead", "opened", "active"}

KernelTypeOK ==
  /\ linked \in SUBSET GadgetFunction
  /\ bound \in BOOLEAN
  /\ daemon \in [Ffs -> DaemonState]
  /\ deaths \in 0..MaxDeaths
  /\ watches \in SUBSET Ffs
  /\ queue \in 0..MaxEvents
  /\ up \in SUBSET GadgetFunction

KernelInit ==
  /\ linked = {} /\ bound = FALSE /\ up = {}
  /\ daemon = [d \in Ffs |-> "dead"] /\ deaths = 0
  /\ watches = {} /\ queue = 0

\* One more event in the inotify queue; what an event says is never used.
Queued == IF queue < MaxEvents THEN queue + 1 ELSE queue

\* The kernel binds the gadget to a controller only if it is not bound, has
\* a function, and the descriptors of its FunctionFS functions are written.
CanBind ==
  /\ ~bound
  /\ linked # {}
  /\ \A d \in linked \cap Ffs : daemon[d] = "active"

\* A successful write of the controller's name to UDC.
Bind == CanBind /\ bound' = TRUE /\ up' = linked

Notify(d) == queue' = IF d \in watches THEN Queued ELSE queue

\* The daemon of d opens ep0.  If the gadget is still bound on behalf of a
\* dead predecessor, the kernel unbinds it now.
Open(d) ==
  /\ daemon[d] = "dead"
  /\ daemon' = [daemon EXCEPT ![d] = "opened"]
  /\ bound' = (bound /\ d \notin linked)
  /\ Notify(d)
  /\ UNCHANGED <<linked, deaths, watches, up>>

\* It writes its descriptors: the ep files appear.
WriteDescriptors(d) ==
  /\ daemon[d] = "opened"
  /\ daemon' = [daemon EXCEPT ![d] = "active"]
  /\ Notify(d)
  /\ UNCHANGED <<linked, bound, deaths, watches, up>>

\* Ordinary traffic on the ep files is reported by the watch as well.
Traffic(d) ==
  /\ daemon[d] = "active" /\ d \in watches
  /\ Notify(d)
  /\ UNCHANGED <<linked, bound, daemon, deaths, watches, up>>

\* It dies: its files are closed and the ep files vanish.  The close may be
\* reported before they are gone (Traffic), nothing is reported after.
Die(d) ==
  /\ daemon[d] # "dead" /\ deaths < MaxDeaths
  /\ daemon' = [daemon EXCEPT ![d] = "dead"]
  /\ deaths' = deaths + 1
  /\ UNCHANGED <<linked, bound, watches, queue, up>>

DaemonStep(d) == Open(d) \/ WriteDescriptors(d) \/ Traffic(d) \/ Die(d)
=============================================================================
