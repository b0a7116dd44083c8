------------------------------- MODULE DevFreq -------------------------------
(***************************************************************************)
(* The DVFS devices of the power HAL: each has a sysfs file with its       *)
(* minimum frequency.  To boost a device is to write the maximum into it,  *)
(* to stop is to write back what was read when the service started.        *)
(***************************************************************************)
CONSTANT Devices \* the devices below /sys/devices with a min_freq file

VARIABLES
  min_freq,      \* the file: "low" or "high" (the maximum frequency)
  initial_value, \* GetInitialValue() of min_freq_
  booster_list,  \* booster_list_: the devices found usable
  unwritten      \* history: the boosters whose last write failed

devVars == <<min_freq, initial_value, booster_list, unwritten>>

DevTypeOK ==
  /\ min_freq \in [Devices -> {"low", "high"}]
  /\ initial_value \in [Devices -> {"low", "high"}]
  /\ booster_list \in SUBSET Devices /\ unwritten \in SUBSET Devices

\* The search for devices: one is usable if its files can be read and the
\* value of min_freq can be written back.
FindDevices(usable) ==
  /\ booster_list' = usable
  /\ initial_value' = min_freq
  /\ unwritten' = {}
  /\ UNCHANGED min_freq

DevInit ==
  /\ min_freq = [d \in Devices |-> "low"]
  /\ initial_value = min_freq
  /\ booster_list \in SUBSET Devices
  /\ unwritten = {}

\* Mutants: a failed write ends the loop; the boost is never taken back.
BoostAllUntilFailure(en) ==
  \E failed \in SUBSET booster_list :
    /\ failed # {} => UNCHANGED min_freq
    /\ failed = {} => min_freq' = [d \in Devices |->
         IF d \in booster_list THEN IF en THEN "high" ELSE initial_value[d] ELSE min_freq[d]]
    /\ unwritten' = failed
    /\ UNCHANGED <<initial_value, booster_list>>

BoostAllUp(en) ==
  \E failed \in SUBSET booster_list :
    /\ min_freq' = [d \in Devices |->
         IF d \in booster_list \ failed THEN "high" ELSE min_freq[d]]
    /\ unwritten' = failed
    /\ UNCHANGED <<initial_value, booster_list>>

\* BoostAll(): each write may fail on its own, and is not repeated.
BoostAll(en) ==
  \E failed \in SUBSET booster_list :
    /\ min_freq' = [d \in Devices |->
         IF d \in booster_list \ failed THEN IF en THEN "high" ELSE initial_value[d]
                                        ELSE min_freq[d]]
    /\ unwritten' = failed
    /\ UNCHANGED <<initial_value, booster_list>>
=============================================================================
