----------------------- MODULE FlatteningController -----------------------
(***************************************************************************)
(* The flattening controller of drm_hwcomposer: a thread that asks the     *)
(* client for one more frame when none came for kTimeout, and tells the    *)
(* compositor to flatten it, that is, to let the GPU compose all layers    *)
(* into one buffer.                                                        *)
(*                                                                         *)
(* Every operation holds mutex_ from begin to end, the callback included,  *)
(* so each is one step; ShouldFlatten() reads the flag without the mutex.  *)
(* There is no clock: whether sleep_until_ has passed when the thread      *)
(* looks is a choice, and fairness makes it pass.                          *)
(***************************************************************************)
VARIABLES
  flatten_next_frame_,
  disabled_,
  trigger,  \* cbks_.trigger is set
  tpc,      \* the thread: "loop" (about to lock), "wait", "wait_until", "ended"
  refresh   \* the client has been asked for a frame it has not begun yet

flagVars == <<flatten_next_frame_, disabled_>>
fcVars == <<flagVars, trigger, tpc, refresh>>

FcTypeOK ==
  /\ flatten_next_frame_ \in BOOLEAN /\ disabled_ \in BOOLEAN
  /\ trigger \in BOOLEAN /\ refresh \in BOOLEAN
  /\ tpc \in {"loop", "wait", "wait_until", "ended"}

\* CreateInstance(): sleep_until_ is the epoch, and the first timeout is now.
FcInit ==
  /\ flatten_next_frame_ = FALSE /\ disabled_ = FALSE
  /\ trigger = TRUE /\ tpc = "loop" /\ refresh = FALSE

NotifyAll == tpc' = IF tpc \in {"wait", "wait_until"} THEN "loop" ELSE tpc

\* Mutant: the thread is not woken.
NewFrameSilent ==
  /\ IF flatten_next_frame_ THEN UNCHANGED disabled_ ELSE disabled_' = FALSE
  /\ flatten_next_frame_' = FALSE
  /\ UNCHANGED tpc

\* The frame takes the request to flatten, or starts the quiet period anew.
NewFrame ==
  \/ /\ flatten_next_frame_ /\ flatten_next_frame_' = FALSE
     /\ UNCHANGED <<disabled_, tpc>>
  \/ /\ ~flatten_next_frame_
     /\ disabled_' = FALSE
     /\ IF disabled_ THEN NotifyAll ELSE UNCHANGED tpc
     /\ UNCHANGED flatten_next_frame_

Disable ==
  /\ flatten_next_frame_' = FALSE /\ disabled_' = TRUE
  /\ UNCHANGED tpc

StopThread == trigger' = FALSE /\ NotifyAll /\ UNCHANGED <<flagVars, refresh>>

-----------------------------------------------------------------------------
(* The thread.                                                             *)

\* Nobody but the thread uses the controller.
ThreadEnds ==
  /\ tpc = "loop" /\ ~trigger
  /\ tpc' = "ended"
  /\ UNCHANGED <<flagVars, trigger, refresh>>

\* Mutant: the callback is not looked at after the wait.
TimeoutUnchecked ==
  /\ tpc = "loop" /\ ~disabled_
  /\ disabled_' = TRUE /\ flatten_next_frame_' = TRUE /\ refresh' = TRUE
  /\ tpc' = "wait"
  /\ UNCHANGED trigger

\* sleep_until_ has passed without a frame: sets the flag, calls the client, waits.
Timeout ==
  /\ tpc = "loop" /\ trigger /\ ~disabled_
  /\ disabled_' = TRUE /\ flatten_next_frame_' = TRUE /\ refresh' = TRUE
  /\ tpc' = "wait"
  /\ UNCHANGED trigger

Wait ==
  /\ tpc = "loop" /\ trigger
  /\ tpc' = IF disabled_ THEN "wait" ELSE "wait_until"
  /\ UNCHANGED <<flagVars, trigger, refresh>>

\* The time given to wait_until() has passed, which may be older than
\* sleep_until_; or a spurious wake-up.
WakeUp ==
  /\ tpc \in {"wait", "wait_until"} /\ tpc' = "loop"
  /\ UNCHANGED <<flagVars, trigger, refresh>>

ThreadFn == ThreadEnds \/ Timeout \/ Wait

-----------------------------------------------------------------------------
\* The thread never sleeps without a deadline while the controller is enabled,
\* nor at all after StopThread(): no notification is lost.
NoLostWakeup ==
  /\ tpc = "wait" => disabled_ /\ trigger
  /\ tpc = "wait_until" => trigger

\* After StopThread() the client is not called any more: the callback's owner
\* may be gone.
NoTriggerAfterStop == [][~trigger => (refresh' => refresh)]_fcVars
-----------------------------------------------------------------------------
\* The controller implements QuietPeriod.
Quiet == INSTANCE QuietPeriod WITH
           period <- IF ~trigger THEN "stopped"
                     ELSE IF flatten_next_frame_ THEN "due"
                     ELSE IF disabled_ THEN "resting" ELSE "counting",
           asked <- refresh

QuietSpec == Quiet!Spec
=============================================================================
