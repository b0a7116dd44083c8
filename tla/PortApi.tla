------------------------------ MODULE PortApi ------------------------------
(***************************************************************************)
(* What the Type-C HAL promises about roles: switches are served one at a  *)
(* time and answered once each.  A mode switch succeeds only if a partner  *)
(* came after the type was set, and then the port has that type; one that  *)
(* fails is given up and leaves a dual role port.  Nobody else touches the *)
(* type of a port while it is being switched.                              *)
(***************************************************************************)
VARIABLES
  role,    \* what the switch in progress asks for; "failed" once it has been
           \* given up, "none" without one
  answer,  \* the last switch succeeded
  type,    \* of the port
  refused, \* the kernel refused the type set last
  unread,  \* a partner came and the HAL has not dealt with it
  came     \* a partner came since the type was set, or was unread then

vars == <<role, answer, type, refused, unread, came>>

Modes == {"sink", "source"}
Roles == Modes \cup {"other"}

Init ==
  /\ role = "none" /\ answer = FALSE
  /\ type = "dual" /\ refused = FALSE
  /\ unread = FALSE /\ came = FALSE

Switch(r) ==
  /\ role = "none" /\ role' = r
  /\ answer' = FALSE
  /\ UNCHANGED <<type, refused, unread, came>>

\* From here on partners are waited for.
SetType ==
  /\ role \in Modes
  /\ \/ type' = role /\ refused' = FALSE
     \/ type' = type /\ refused' = TRUE
  /\ came' = unread
  /\ UNCHANGED <<role, answer, unread>>

\* Of a port that is not being switched, or to give up a switch.
MakeDual ==
  /\ role \in Modes \cup {"none"}
  /\ role' = IF role = "none" THEN "none" ELSE "failed"
  /\ type' = "dual"
  /\ UNCHANGED <<answer, refused, unread, came>>

Succeed ==
  /\ role \in Roles /\ role' = "none" /\ answer' = TRUE
  /\ role \in Modes => came /\ (refused \/ type = role)
  /\ UNCHANGED <<type, refused, unread, came>>

Fail ==
  /\ role \in {"failed", "other"} /\ role' = "none" /\ answer' = FALSE
  /\ UNCHANGED <<type, refused, unread, came>>

\* A partner comes; if nobody listens it is not noticed.
Come ==
  /\ came' = TRUE /\ unread' \in {unread, TRUE}
  /\ UNCHANGED <<role, answer, type, refused>>

Deal ==
  /\ unread' = FALSE
  /\ UNCHANGED <<role, answer, type, refused, came>>

Next ==
  \/ \E r \in Roles : Switch(r)
  \/ SetType \/ MakeDual \/ Succeed \/ Fail \/ Come \/ Deal

Spec == Init /\ [][Next]_vars
=============================================================================
