---------------------------- MODULE ForceFeedback ----------------------------
(***************************************************************************)
(* What FFDevice promises the vibrator HAL: a motor that is asked for one  *)
(* thing at a time.  A call first takes away what was there, then loads    *)
(* the effect it was asked for, and plays it; whatever fails, the device   *)
(* holds the effect of the last call or none.                              *)
(***************************************************************************)
EXTENDS Integers

CONSTANTS LengthWidth, \* lengths wrap at this value
          Durations    \* what it may be asked for

VARIABLES request, \* what the call in progress asks for: a duration or Stop;
                   \* Loaded when its effect is in place, None without a call
          loaded,  \* the length of the device's effect, or Free
          moving   \* the motor moves

vars == <<request, loaded, moving>>

Free == -1
Stop == -1
None == -2
Loaded == -3

Init == request = None /\ loaded = Free /\ moving = FALSE

Request(d) ==
  /\ request = None /\ request' = d
  /\ UNCHANGED <<loaded, moving>>

\* The effect of an earlier call is taken away.
Silence ==
  /\ request \notin {None, Loaded}
  /\ loaded' = Free /\ moving' = FALSE
  /\ UNCHANGED request

\* Nothing is loaded over an effect that is still there.
Load ==
  /\ request \in Durations /\ loaded = Free
  /\ loaded' = request % LengthWidth /\ request' = Loaded
  /\ UNCHANGED moving

Play ==
  /\ request = Loaded /\ request' = None
  /\ moving' \in {moving, TRUE}
  /\ UNCHANGED loaded

\* Stop, or a call that could not load its effect: nothing is left.
Return ==
  /\ request \notin {None, Loaded} /\ request' = None
  /\ loaded = Free /\ ~moving
  /\ UNCHANGED <<loaded, moving>>

\* An effect with a length ends by itself.
End ==
  /\ moving /\ loaded # 0 /\ moving' = FALSE
  /\ UNCHANGED <<request, loaded>>

Next ==
  \/ \E d \in Durations \cup {Stop} : Request(d)
  \/ Silence \/ Load \/ Play \/ Return \/ End

Spec == Init /\ [][Next]_vars
=============================================================================
