----------------------------- MODULE MCUsbGadget -----------------------------
(* Instances of UsbGadget for TLC. *)
EXTENDS UsbGadget

Req(fs, cb) == [functions |-> fs, callback |-> cb]

\* NONE, one and two FunctionFS functions, a plain function, and a pair that
\* has no product id.
AllKinds == {Req({}, TRUE), Req({"ADB"}, TRUE), Req({"ADB"}, FALSE),
             Req({"MTP", "ADB"}, TRUE), Req({"MIDI"}, TRUE),
             Req({"MTP", "PTP"}, TRUE)}

\* Enough to replace one monitor by another.
FfsOnly == {Req({}, TRUE), Req({"ADB"}, TRUE), Req({"MTP", "ADB"}, TRUE)}

NoFaults == {}
AllFaults == Sites
LinkFaults == {"link"}
==============================================================================
