--------------------------- MODULE GadgetFunctions ---------------------------
(***************************************************************************)
(* The functions a USB gadget request can ask for.  A `functions` bit mask *)
(* of the HAL is the set of the names of its bits; NONE is the empty set.  *)
(***************************************************************************)

EXTENDS Integers

GadgetFunction == {"MTP", "PTP", "MIDI", "ACCESSORY", "AUDIO_SOURCE",
                   "RNDIS", "NCM", "ADB"}

\* Functions served by a daemon through a FunctionFS mount /dev/usb-ffs/<f>.
Ffs == {"MTP", "PTP", "ADB"}

\* The combinations that have a vid/pid pair: one of the classes below, with
\* or without ADB, or ADB alone.
Supported ==
  LET classes == {{f} : f \in GadgetFunction \ {"ADB"}}
                   \cup {{"ACCESSORY", "AUDIO_SOURCE"}}
  IN  {{"ADB"}} \cup classes \cup {c \cup {"ADB"} : c \in classes}

\* The configfs functions a request links: PTP is the else-branch of MTP.
LinkSet(functions) ==
  IF "MTP" \in functions THEN functions \ {"PTP"} ELSE functions

\* The order in which the functions of a request are linked.
LinkRank == [f \in GadgetFunction |->
               CASE f = "MTP" -> 0
                 [] f = "PTP" -> 1
                 [] f = "MIDI" -> 2
                 [] f = "ACCESSORY" -> 3
                 [] f = "AUDIO_SOURCE" -> 4
                 [] f = "RNDIS" -> 5
                 [] f = "NCM" -> 6
                 [] f = "ADB" -> 7]

\* f is the function of todo that is linked next.
IsNextFunction(f, todo) ==
  f \in todo /\ \A g \in todo : LinkRank[f] <= LinkRank[g]
==============================================================================
