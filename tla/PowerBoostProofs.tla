-------------------------- MODULE PowerBoostProofs --------------------------
(***************************************************************************)
(* The boost thread of the power HAL follows the hints, up to the          *)
(* notifications that nobody waited for, and the devices follow the        *)
(* thread, up to the writes that failed, for every choice of devices,      *)
(* durations, modes and clock bound, whenever the service is restarted.    *)
(***************************************************************************)
EXTENDS PowerBoost, TLAPS

\* At the start there is no hint and no device is up.
LEMMA Initially == Init => IndInv
<1> SUFFICES ASSUME Init PROVE IndInv
  OBVIOUS
<1> USE DEF Init
<1>1. TypeOK
  BY DEF TypeOK, DevInit, DevTypeOK, Thread
<1>2. HintsSeen
  <2>1. ~boost_en
    BY DEF boost_en
  <2>2. ~(boost_end > now)
    OBVIOUS
  <2>3. QED BY <2>1, <2>2 DEF HintsSeen
<1>3. DevicesFollow
  BY DEF DevInit, DevicesFollow
<1>4. QED BY <1>1, <1>2, <1>3 DEF IndInv

\* The steps of BoostAll() and of the search keep the types of the devices.
LEMMA DevicesTyped ==
  ASSUME DevTypeOK, (\E en \in BOOLEAN : BoostAll(en))
                    \/ (\E usable \in SUBSET Devices : FindDevices(usable)) \/ UNCHANGED devVars
  PROVE  DevTypeOK'
<1>1. CASE \E en \in BOOLEAN : BoostAll(en)
  <2>1. PICK en \in BOOLEAN, failed \in SUBSET booster_list :
          /\ min_freq' = [d \in Devices |->
               IF d \in booster_list \ failed THEN IF en THEN "high" ELSE initial_value[d]
                                              ELSE min_freq[d]]
          /\ unwritten' = failed
          /\ UNCHANGED <<initial_value, booster_list>>
    BY <1>1 DEF BoostAll
  <2>2. QED BY <2>1 DEF DevTypeOK
<1>2. CASE \E usable \in SUBSET Devices : FindDevices(usable)
  BY <1>2 DEF FindDevices, DevTypeOK
<1>3. CASE UNCHANGED devVars
  BY <1>3 DEF devVars, DevTypeOK
<1>4. QED BY <1>1, <1>2, <1>3

\* What the thread sees when it looks at the hints.
LEMMA Evaluated ==
  ASSUME IndInv, Evaluate
  PROVE  IndInv'
<1> USE DEF IndInv, TypeOK, HintsSeen, boost_en, Never, Notification, hintVars
<1>1. boosted' \in BOOLEAN /\ (boosted' <=> boost_active)
  BY DEF Evaluate, boost_active
<1>2. boost_active <=> (boost_end > now \/ "LAUNCH" \in mode_enabled)
  BY DEF boost_active
<1>3. UNCHANGED <<now, boost_end, mode_enabled>>
  BY DEF Evaluate
<1>4. CASE boosted' = boosted
  <2>1. UNCHANGED devVars
    BY <1>4 DEF Evaluate, Switch
  <2>2. DevTypeOK' /\ DevicesFollow'
    BY <1>4, <2>1, DevicesTyped DEF DevicesFollow, devVars
  <2>3. TypeOK'
    BY <1>1, <1>3, <2>2 DEF Evaluate
  <2>4. HintsSeen'
    BY <1>1, <1>2, <1>3 DEF Evaluate
  <2>5. QED BY <2>2, <2>3, <2>4
<1>5. CASE boosted' # boosted
  <2>1. BoostAll(boosted')
    BY <1>5 DEF Evaluate, Switch
  <2>2. DevTypeOK'
    BY <1>1, <2>1, DevicesTyped
  <2>3. PICK failed \in SUBSET booster_list :
          /\ min_freq' = [d \in Devices |->
               IF d \in booster_list \ failed
                 THEN IF boosted' THEN "high" ELSE initial_value[d] ELSE min_freq[d]]
          /\ unwritten' = failed
          /\ UNCHANGED <<initial_value, booster_list>>
    BY <2>1 DEF BoostAll
  <2>4. DevicesFollow'
    BY <2>3 DEF DevicesFollow, DevTypeOK
  <2>5. TypeOK'
    BY <1>1, <1>3, <2>2 DEF Evaluate
  <2>6. HintsSeen'
    BY <1>1, <1>2, <1>3 DEF Evaluate
  <2>7. QED BY <2>4, <2>5, <2>6
<1>6. QED BY <1>4, <1>5

\* Every step keeps the inductive invariant.
LEMMA Preserved == IndInv /\ [Next]_vars => IndInv'
<1> USE PowerAssumption DEF PowerAssumption, IndInv, TypeOK, HintsSeen, boost_en, Never,
        Notification, hintVars, threadVars
<1> SUFFICES ASSUME IndInv, [Next]_vars PROVE IndInv'
  OBVIOUS
<1>0. ASSUME UNCHANGED devVars, UNCHANGED boosted
      PROVE  DevTypeOK' /\ DevicesFollow'
  BY <1>0, DevicesTyped DEF DevicesFollow, devVars
<1>1. ASSUME NEW type \in Boosts, NEW d \in Durations, SetBoost(type, d)
      PROVE  IndInv'
  <2> DEFINE timeout == IF d <= 0 THEN kDefaultTimeout ELSE d
  <2>1. timeout \in Nat \ {0}
    OBVIOUS
  <2>2. now + timeout \in Nat /\ now + timeout > now
    BY <2>1
  <2> HIDE DEF timeout
  <2>dev. DevTypeOK' /\ DevicesFollow'
    BY <1>0, <1>1 DEF SetBoost
  <2>3. CASE type = "other" \/ ~(boost_end < now + timeout)
    BY <1>1, <2>dev, <2>3 DEF SetBoost, BoostFor, timeout
  <2>4. CASE type # "other" /\ boost_end < now + timeout
    <3>1. /\ boost_end' = now + timeout /\ Notify("timed")
          /\ UNCHANGED <<now, mode_enabled, tpc, boosted, wakeup>>
      BY <1>1, <2>4 DEF SetBoost, BoostFor, timeout
    <3>2. CASE tpc = "waiting"
      BY <3>1, <3>2, <2>2, <2>dev DEF Notify
    <3>3. CASE tpc # "waiting"
      <4>1. "timed" \in lost' /\ lost \subseteq lost' /\ lost' \in SUBSET Notification
        BY <3>1, <3>3 DEF Notify
      <4>2. notified' = notified
        BY <3>1, <3>3 DEF Notify
      <4>3. TypeOK'
        BY <3>1, <4>1, <4>2, <2>2, <2>dev
      <4>4. HintsSeen'
        BY <3>1, <3>3, <4>1, <4>2, <2>2, <2>4
      <4>5. QED BY <4>3, <4>4, <2>dev
    <3>4. QED BY <3>2, <3>3
  <2>5. QED BY <2>3, <2>4
<1>2. ASSUME NEW type \in Modes, NEW enabled \in BOOLEAN, SetMode(type, enabled)
      PROVE  IndInv'
  <2>1. mode_enabled' \in SUBSET Modes
    BY <1>2 DEF SetMode
  <2>2. UNCHANGED <<now, boost_end, tpc, boosted, wakeup>>
    BY <1>2 DEF SetMode
  <2>dev. DevTypeOK' /\ DevicesFollow'
    BY <1>0, <1>2 DEF SetMode
  <2>3. CASE tpc = "waiting"
    BY <1>2, <2>1, <2>2, <2>3, <2>dev DEF SetMode, Notify
  <2>4. CASE tpc # "waiting"
    <3>1. notified' = notified /\ lost' \in SUBSET Notification
      BY <1>2, <2>4 DEF SetMode, Notify
    <3>2. "LAUNCH" \in mode_enabled' => "on" \in lost'
      BY <1>2, <2>4 DEF SetMode, Notify
    <3>3. "LAUNCH" \notin mode_enabled' => "off" \in lost'
      BY <1>2, <2>4 DEF SetMode, Notify
    <3>4. "timed" \in lost => "timed" \in lost'
      BY <1>2, <2>4 DEF SetMode, Notify
    <3>5. TypeOK'
      BY <2>1, <2>2, <3>1, <2>dev
    <3>6. HintsSeen'
      BY <2>2, <2>4, <3>1, <3>2, <3>3, <3>4
    <3>7. QED BY <3>5, <3>6, <2>dev
  <2>5. QED BY <2>3, <2>4
<1>3. ASSUME Wait PROVE IndInv'
  <2>1. DevTypeOK' /\ DevicesFollow'
    BY <1>0, <1>3 DEF Wait
  <2>2. QED BY <1>3, <2>1 DEF Wait
<1>4. ASSUME Evaluate PROVE IndInv'
  BY <1>4, Evaluated
<1>5. ASSUME Tick PROVE IndInv'
  <2>1. DevTypeOK' /\ DevicesFollow'
    BY <1>0, <1>5 DEF Tick
  <2>2. QED BY <1>5, <2>1 DEF Tick
<1>6. ASSUME NEW usable \in SUBSET Devices, Restart(usable) PROVE IndInv'
  <2>1. DevTypeOK'
    BY <1>6, DevicesTyped DEF Restart
  <2>2. DevicesFollow'
    BY <1>6 DEF Restart, FindDevices, DevicesFollow
  <2>3. /\ mode_enabled' = {} /\ boost_end' = 0 /\ boosted' = FALSE /\ wakeup' = -1
        /\ notified' = FALSE /\ lost' = {} /\ now' = now /\ tpc' \in {"outside", "none"}
    BY <1>6 DEF Restart, Thread
  <2>4. TypeOK'
    BY <2>1, <2>3
  <2>5. HintsSeen'
    BY <2>3
  <2>6. QED BY <2>2, <2>4, <2>5
<1>7. ASSUME UNCHANGED vars PROVE IndInv'
  <2>1. DevTypeOK' /\ DevicesFollow'
    BY <1>0, <1>7 DEF vars
  <2>2. QED BY <1>7, <2>1 DEF vars
<1>8. QED BY <1>1, <1>2, <1>3, <1>4, <1>5, <1>6, <1>7 DEF Next

\* Every reachable state satisfies the inductive invariant.
THEOREM Invariance == Spec => []IndInv
<1>1. Init => IndInv
  BY Initially
<1>2. IndInv /\ [Next]_vars => IndInv'
  BY Preserved
<1>3. QED BY <1>1, <1>2, PTL DEF Spec

\* Type correctness of the power HAL.
THEOREM TypeCorrect == Spec => []TypeOK
<1>1. IndInv => TypeOK
  BY DEF IndInv
<1>2. QED BY <1>1, Invariance, PTL

\* While the thread sleeps every usable device is up for every hint in force,
\* unless its notification was lost or the device's write failed.
THEOREM FollowsHints == Spec => []BoostFollowsHints
<1>1. IndInv => BoostFollowsHints
  <2> SUFFICES ASSUME IndInv PROVE BoostFollowsHints
    OBVIOUS
  <2>1. boosted => \A d \in booster_list : Up(d)
    BY DEF IndInv, DevicesFollow, Up
  <2>2. QED BY <2>1 DEF IndInv, HintsSeen, BoostFollowsHints, Asleep
<1>2. QED BY <1>1, Invariance, PTL

\* Only a lost "LAUNCH is off" can leave the frequencies up with no deadline.
THEOREM HasDeadline == Spec => []BoostHasDeadline
<1>1. IndInv => BoostHasDeadline
  BY DEF IndInv, HintsSeen, BoostHasDeadline, Asleep
<1>2. QED BY <1>1, Invariance, PTL
=============================================================================
