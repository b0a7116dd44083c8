---------------------------- MODULE QuietPeriod ----------------------------
(***************************************************************************)
(* What the flattening controller promises: after a quiet period it asks   *)
(* for one frame, which is to be flattened.  It does not ask again before  *)
(* that frame and one more have come, and never once it has been stopped.  *)
(***************************************************************************)
VARIABLES period, \* "counting" a quiet period; a flattened frame is "due";
                  \* "resting" until something moves; "stopped"
          asked   \* the client has been asked for a frame it has not begun

vars == <<period, asked>>

Init == period = "counting" /\ asked = FALSE

\* The only step that calls the client.
Ask ==
  /\ period = "counting" /\ period' = "due"
  /\ asked' = TRUE

\* The client begins a frame, whether it was asked to or not.
Answered == asked' \in {asked, FALSE}

\* A frame that is due is flattened; any other ends the rest.
Frame ==
  /\ Answered
  /\ \/ period = "due" /\ period' = "resting"
     \/ period \in {"counting", "resting"} /\ period' = "counting"

\* A frame that shows one layer only is never flattened.
Rest == Answered /\ period # "stopped" /\ period' = "resting"

Begin == Answered /\ UNCHANGED period

Stop == period' = "stopped" /\ UNCHANGED asked

Next == Ask \/ Frame \/ Rest \/ Begin \/ Stop

Spec == Init /\ [][Next]_vars
=============================================================================
