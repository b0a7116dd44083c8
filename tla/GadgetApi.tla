------------------------------ MODULE GadgetApi ------------------------------
(***************************************************************************)
(* What the gadget HAL promises its client: requests are served one at a   *)
(* time; each is answered once, through its callback if it has one; the    *)
(* answer SUCCESS is given only to NONE and to a request whose functions   *)
(* were made available to the host, CONFIGURATION_NOT_SUPPORTED only to a  *)
(* combination that has no product id.                                     *)
(***************************************************************************)
EXTENDS GadgetFunctions

CONSTANT Requests

VARIABLES busy, functions, callback, served, reply

vars == <<busy, functions, callback, served, reply>>

\* Before the first request there is no saying what functions are kept.
Init == /\ busy = FALSE /\ functions \in SUBSET GadgetFunction /\ callback = FALSE
        /\ served = FALSE /\ reply = "none"

Request(r) ==
  /\ ~busy /\ busy' = TRUE
  /\ functions' = r.functions /\ callback' = r.callback
  /\ served' = FALSE /\ reply' = "none"

\* The functions become available, during the request or later; after a
\* failure half way the host may come to see fewer of them.
Serve == served' = ~served /\ UNCHANGED <<busy, functions, callback, reply>>

Answer ==
  /\ busy /\ busy' = FALSE
  /\ served' \in {served, TRUE}
  /\ \E status \in {"SUCCESS", "ERROR", "CONFIGURATION_NOT_SUPPORTED"} :
       /\ status = "SUCCESS" => functions = {} \/ served' \/ ~callback
       /\ status = "CONFIGURATION_NOT_SUPPORTED" => functions \notin Supported
       /\ reply' = IF callback THEN status ELSE "none"
  /\ UNCHANGED <<functions, callback>>

Next == (\E r \in Requests : Request(r)) \/ Serve \/ Answer

Spec == Init /\ [][Next]_vars

\* Every request is answered.
FairSpec == Spec /\ WF_vars(Answer)
==============================================================================
