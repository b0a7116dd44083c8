-------------------------- MODULE VibratorProofs --------------------------
(***************************************************************************)
(* Proofs about Vibrator: for any number of compositions, any size of the  *)
(* kernel's table and any durations.                                       *)
(***************************************************************************)
EXTENDS Vibrator, FiniteSetTheorems, TLAPS

\* The variable types as one inductive invariant, for Next with any bounds.
THEOREM TypeCorrect == Spec => []TypeOK
<1>1. Init => TypeOK
  <2> SUFFICES ASSUME Init PROVE TypeOK
    OBVIOUS
  <2>1. 0 \in 0..kComposeSizeMax /\ 0 \in 0..MaxTimers
    BY VibratorAssumption DEF VibratorAssumption
  <2>2. /\ todo \in [Composers -> 0..kComposeSizeMax]
        /\ timers \in 0..MaxTimers
    BY <2>1 DEF Init
  <2>3. QED
    BY <2>2 DEF Init, TypeOK, Uploaded, NoId, Free, Stop, ThreadState, DeviceState
<1>2. TypeOK /\ [Next]_vars => TypeOK'
  <2> SUFFICES ASSUME TypeOK, [Next]_vars PROVE TypeOK'
    OBVIOUS
  <2> USE VibratorAssumption DEF VibratorAssumption, TypeOK
  <2> USE DEF NoId, Free, Stop, ThreadState, DeviceState
  <2>1. ASSUME NEW t \in Threads, NEW d \in Nat \cup {Stop}, Enter(t, d),
               todo' \in [Composers -> 0..kComposeSizeMax], timers' \in 0..MaxTimers,
               done' \in BOOLEAN
        PROVE  TypeOK'
    BY <2>1 DEF Enter, kernelVars, Uploaded
  <2>2. ASSUME BinderIdle, StartTimer PROVE timers' \in 0..MaxTimers
    BY <2>2 DEF StartTimer
  <2>3. CASE Off
    BY <2>1, <2>3 DEF Off, Threads
  <2>4. ASSUME NEW d \in Nat, On(d) PROVE TypeOK'
    BY <2>1, <2>2, <2>4 DEF On, Threads
  <2>5. CASE Perform
    BY <2>4, <2>5 DEF Perform
  <2>6. CASE ComposePwle
    BY <2>2, <2>6 DEF ComposePwle, kernelVars, threadVars, historyVars, Uploaded
  <2>7. CASE ClientStops
    BY <2>7 DEF ClientStops, kernelVars, threadVars, historyVars, Uploaded
  <2>7a. CASE TimerExpires
    <3>1. timers' \in 0..MaxTimers
      BY <2>7a DEF TimerExpires
    <3>2. QED
      BY <2>7a, <3>1 DEF TimerExpires, kernelVars, threadVars, historyVars, Uploaded
  <2>8. ASSUME NEW c \in Composers, NEW n \in 0..kComposeSizeMax, Compose(c, n)
        PROVE  TypeOK'
    BY <2>8 DEF Compose, kernelVars, historyVars, Uploaded, Threads
  <2>9. ASSUME NEW c \in Composers, NEW d \in PrimitiveDurations, Primitive(c, d)
        PROVE  TypeOK'
    BY <2>1, <2>9 DEF Primitive, PrimitiveDurations, Threads
  <2>10. ASSUME NEW c \in Composers, ComposerEnds(c) PROVE TypeOK'
    BY <2>10 DEF ComposerEnds, kernelVars, historyVars, Uploaded
  <2>11. ASSUME NEW t \in Threads, Device(t) PROVE TypeOK'
    <3> USE DEF Goto, Outside, AfterOff, kernelVars, Uploaded
    <3>1. CASE CheckLast(t)
      BY <3>1 DEF CheckLast
    <3>2. CASE RemoveEffect(t)
      <4>1. /\ length' \in [Slots -> 0..LengthWidth - 1 \cup {Free}]
            /\ playing' \subseteq {i \in Slots : length'[i] # Free}
            /\ failures' \in Nat
        <5>1. CASE UNCHANGED kernelVars /\ failures' = failures + 1
          BY <5>1
        <5>2. ASSUME NEW i \in {effect[t], last_effect_id},
                     length' = [j \in Slots |-> IF j = i THEN Free ELSE length[j]],
                     playing' = playing \ {i}, UNCHANGED failures
              PROVE  /\ length' \in [Slots -> 0..LengthWidth - 1 \cup {Free}]
                     /\ playing' \subseteq {j \in Slots : length'[j] # Free}
                     /\ failures' \in Nat
          BY <5>2
        <5>3. QED
          BY <3>2, <5>1, <5>2 DEF RemoveEffect
      <4>2. QED
        BY <3>2, <4>1 DEF RemoveEffect
    <3>3. CASE ClearLast(t)
      BY <3>3 DEF ClearLast
    <3>4. CASE Upload(t)
      BY <3>4 DEF Upload
    <3>5. CASE UploadFails(t)
      BY <3>5 DEF UploadFails
    <3>6. CASE StoreLast(t)
      BY <3>6 DEF StoreLast
    <3>7. CASE PlayEffect(t)
      BY <3>7 DEF PlayEffect
    <3>8. QED
      BY <2>11, <3>1, <3>2, <3>3, <3>4, <3>5, <3>6, <3>7 DEF Device
  <2>12. ASSUME NEW i \in Slots, EffectEnds(i) PROVE TypeOK'
    BY <2>12 DEF EffectEnds, threadVars, historyVars, Uploaded
  <2>13. CASE UNCHANGED vars
    BY <2>13 DEF vars, kernelVars, threadVars, historyVars, Uploaded
  <2>14. QED
    BY <2>3, <2>4, <2>5, <2>6, <2>7, <2>8, <2>9, <2>10, <2>11, <2>12, <2>13, <2>7a
       DEF Next, Call, Composer, Threads
<1>3. QED
  BY <1>1, <1>2, PTL DEF Spec

-----------------------------------------------------------------------------
(* What the threads know of the device while they do not meet in it.       *)

OneInside == \A t, u \in Inside : t = u

\* The kernel's table and last_effect_id at each control point of FFDevice.
DeviceAt(t) ==
  /\ pc[t] = "off" => Uploaded = {last_effect_id} \ {NoId}
  /\ pc[t] = "remove" => /\ Uploaded = {last_effect_id} /\ last_effect_id # NoId
                         /\ effect[t] = last_effect_id
  /\ pc[t] = "clear" => Uploaded = {}
  /\ pc[t] = "upload" => Uploaded = {} /\ last_effect_id = NoId
  /\ pc[t] = "store" => Uploaded = {effect[t]} /\ effect[t] \in Slots
  /\ pc[t] = "play" => /\ Uploaded = {last_effect_id} /\ last_effect_id # NoId
                       /\ effect[t] = last_effect_id
  /\ pc[t] \in {"upload", "store", "play"} => duration_ms[t] # Stop
  /\ duration_ms[t] # Stop => ~silenced

DeviceInv ==
  overlaps = 0 /\ failures = 0 =>
    /\ OneInside
    /\ \A t \in Inside : DeviceAt(t)
    /\ Inside = {} => Uploaded = {last_effect_id} \ {NoId}
    /\ silenced => playing = {}

\* A step of a thread inside the device, when no other thread is.
LEMMA DeviceStep ==
  ASSUME TypeOK, DeviceInv, NEW t \in Threads, Device(t)
  PROVE  DeviceInv'
<1> SUFFICES ASSUME overlaps' = 0, failures' = 0
             PROVE  /\ OneInside'
                    /\ \A u \in Inside' : DeviceAt(u)'
                    /\ Inside' = {} => Uploaded' = {last_effect_id'} \ {NoId}
                    /\ silenced' => playing' = {}
  BY DEF DeviceInv, NoId
<1> USE VibratorAssumption DEF VibratorAssumption
<1>1. t \in Inside /\ overlaps = 0
  BY DEF Device, CheckLast, RemoveEffect, ClearLast, Upload, UploadFails, StoreLast,
         PlayEffect, Goto, Inside, DeviceState
<1>2. failures = 0
  BY DEF Device, CheckLast, RemoveEffect, ClearLast, Upload, UploadFails, StoreLast,
         PlayEffect, TypeOK
<1>3. /\ DeviceAt(t)
      /\ silenced => playing = {}
      /\ Inside = {t}
  BY <1>1, <1>2 DEF DeviceInv, OneInside
<1>4. /\ \A u \in Threads \ {t} : pc'[u] = pc[u]
      /\ pc' \in [Threads -> ThreadState]
  BY DEF Device, CheckLast, RemoveEffect, ClearLast, Upload, UploadFails, StoreLast,
         PlayEffect, TypeOK, Goto, Outside, AfterOff, ThreadState, DeviceState
<1>5. Inside' \subseteq {t} /\ OneInside'
  BY <1>3, <1>4 DEF Inside, OneInside
<1>6. SUFFICES /\ pc'[t] \in DeviceState => DeviceAt(t)'
               /\ pc'[t] \notin DeviceState => Uploaded' = {last_effect_id'} \ {NoId}
               /\ silenced' => playing' = {}
  BY <1>5 DEF Inside, NoId
<1> USE DEF TypeOK, Goto, Outside, AfterOff
<1>7. CASE CheckLast(t)
  <2>1. Uploaded = {last_effect_id} \ {NoId} /\ Uploaded' = Uploaded
    BY <1>3, <1>7 DEF CheckLast, DeviceAt, kernelVars, Uploaded
  <2>2. CASE last_effect_id = NoId
    <3>1. Uploaded' = {} /\ playing' = {} /\ last_effect_id' = NoId
      BY <1>7, <2>1, <2>2 DEF CheckLast, kernelVars
    <3>2. CASE duration_ms[t] = Stop
      BY <1>7, <2>2, <3>1, <3>2 DEF CheckLast, DeviceState
    <3>3. CASE duration_ms[t] # Stop
      <4>1. pc'[t] = "upload" /\ duration_ms' = duration_ms
        BY <1>7, <2>2, <3>3 DEF CheckLast
      <4>2. ~silenced'
        BY <1>3, <1>7, <2>2, <3>3 DEF CheckLast, DeviceAt
      <4>3. QED
        BY <3>1, <3>3, <4>1, <4>2 DEF DeviceAt, DeviceState
    <3>4. QED
      BY <3>2, <3>3
  <2>3. CASE last_effect_id # NoId
    BY <1>3, <1>7, <2>1, <2>3 DEF CheckLast, DeviceAt, DeviceState, kernelVars
  <2>4. QED
    BY <2>2, <2>3
<1>8. CASE RemoveEffect(t)
  <2>1. /\ length' = [j \in Slots |-> IF j = last_effect_id THEN Free ELSE length[j]]
        /\ playing' = playing \ {last_effect_id}
    BY <1>2, <1>3, <1>8 DEF RemoveEffect, DeviceAt
  <2>2. Uploaded' = {}
    BY <1>3, <1>8, <2>1 DEF RemoveEffect, DeviceAt, Uploaded
  <2>3. QED
    BY <1>3, <1>8, <2>1, <2>2 DEF RemoveEffect, DeviceAt, DeviceState
<1>9. CASE ClearLast(t)
  <2>1. Uploaded = {} /\ Uploaded' = {} /\ playing' = {}
    BY <1>3, <1>9 DEF ClearLast, DeviceAt, kernelVars, Uploaded
  <2>2. QED
    BY <1>3, <1>9, <2>1 DEF ClearLast, DeviceAt, DeviceState
<1>10. CASE Upload(t)
  <2>1. PICK i \in Slots : /\ length' = [length EXCEPT ![i] = duration_ms[t] % LengthWidth]
                          /\ effect' = [effect EXCEPT ![t] = i]
    BY <1>10 DEF Upload
  <2>2. duration_ms[t] % LengthWidth # Free /\ Uploaded = {}
    BY <1>3, <1>10 DEF Upload, DeviceAt, Free, Stop
  <2>3. Uploaded' = {i}
    BY <2>1, <2>2 DEF Uploaded
  <2>4. QED
    BY <1>3, <1>10, <2>1, <2>3 DEF Upload, DeviceAt, DeviceState, Stop
<1>11. CASE UploadFails(t)
  <2>1. Uploaded' = Uploaded
    BY <1>11 DEF UploadFails, kernelVars, Uploaded
  <2>2. QED
    BY <1>3, <1>11, <2>1 DEF UploadFails, DeviceAt, DeviceState, kernelVars
<1>12. CASE StoreLast(t)
  <2>1. Uploaded' = Uploaded
    BY <1>12 DEF StoreLast, kernelVars, Uploaded
  <2>2. QED
    BY <1>3, <1>12, <2>1 DEF StoreLast, DeviceAt, DeviceState, kernelVars, NoId
<1>13. CASE PlayEffect(t)
  <2>1. Uploaded' = Uploaded
    BY <1>13 DEF PlayEffect, Uploaded
  <2>2. QED
    BY <1>3, <1>13, <2>1 DEF PlayEffect, DeviceAt, DeviceState
<1>14. QED
  BY <1>7, <1>8, <1>9, <1>10, <1>11, <1>12, <1>13 DEF Device

\* A thread enters while no other is inside, or the two meet and count it.
LEMMA EnterStep ==
  ASSUME TypeOK, DeviceInv, NEW t \in Threads, NEW d \in Nat \cup {Stop},
         pc[t] \notin DeviceState, Enter(t, d)
  PROVE  DeviceInv'
<1> SUFFICES ASSUME overlaps' = 0, failures' = 0
             PROVE  /\ OneInside'
                    /\ \A u \in Inside' : DeviceAt(u)'
                    /\ Inside' = {} => Uploaded' = {last_effect_id'} \ {NoId}
                    /\ silenced' => playing' = {}
  BY DEF DeviceInv, NoId
<1>1. Inside = {} /\ overlaps = 0 /\ failures = 0
  BY DEF Enter, TypeOK
<1>2. Uploaded = {last_effect_id} \ {NoId} /\ (silenced => playing = {})
  BY <1>1 DEF DeviceInv
<1>3. Uploaded' = Uploaded /\ UNCHANGED <<playing, last_effect_id>>
  BY DEF Enter, kernelVars, Uploaded
<1>4. Inside' = {t} /\ pc'[t] = "off" /\ duration_ms'[t] = d
  BY <1>1 DEF Enter, Inside, TypeOK, DeviceState
<1>5. silenced' = (silenced /\ d = Stop)
  BY DEF Enter
<1>6. DeviceAt(t)'
  BY <1>2, <1>3, <1>4, <1>5 DEF DeviceAt, NoId
<1>7. QED
  BY <1>2, <1>3, <1>4, <1>5, <1>6 DEF OneInside

\* A step outside the device that no thread inside can notice.
LEMMA OutsideStep ==
  ASSUME TypeOK, DeviceInv,
         UNCHANGED <<last_effect_id, length, duration_ms, effect, historyVars>>,
         playing' \subseteq playing, Inside' = Inside,
         \A t \in Inside : pc'[t] = pc[t]
  PROVE  DeviceInv'
<1>1. Uploaded' = Uploaded /\ UNCHANGED <<overlaps, failures, silenced>>
  BY DEF Uploaded, historyVars
<1>2. \A t \in Inside : DeviceAt(t) => DeviceAt(t)'
  BY <1>1 DEF DeviceAt, NoId
<1>3. QED
  BY <1>1, <1>2 DEF DeviceInv, OneInside, NoId

\* Between any two steps of any number of threads.
THEOREM DeviceConsistent == Spec => []DeviceInv
<1>1. Init => DeviceInv
  BY DEF Init, DeviceInv, OneInside, Inside, DeviceState, Uploaded, Free, NoId
<1>2. TypeOK /\ DeviceInv /\ [Next]_vars => DeviceInv'
  <2> SUFFICES ASSUME TypeOK, DeviceInv, [Next]_vars PROVE DeviceInv'
    OBVIOUS
  <2> USE VibratorAssumption DEF VibratorAssumption, kernelVars, threadVars
  <2>1. ASSUME NEW d \in Nat \cup {Stop}, BinderIdle, Enter("binder", d) PROVE DeviceInv'
    BY <2>1, EnterStep DEF BinderIdle, Threads, DeviceState
  <2>2. CASE Off
    BY <2>1, <2>2 DEF Off
  <2>3. ASSUME NEW d \in Nat, On(d) PROVE DeviceInv'
    BY <2>1, <2>3 DEF On
  <2>4. CASE Perform
    BY <2>3, <2>4 DEF Perform
  <2>5. CASE ComposePwle \/ ClientStops \/ TimerExpires
    BY <2>5, OutsideStep DEF ComposePwle, ClientStops, TimerExpires, Inside
  <2>6. ASSUME NEW c \in Composers, NEW n \in 0..kComposeSizeMax, Compose(c, n)
        PROVE  DeviceInv'
    <3>1. Inside' = Inside /\ \A t \in Inside : pc'[t] = pc[t]
      BY <2>6 DEF Compose, Inside, DeviceState, TypeOK
    <3>2. QED
      BY <2>6, <3>1, OutsideStep DEF Compose
  <2>7. ASSUME NEW c \in Composers, NEW d \in PrimitiveDurations, Primitive(c, d)
        PROVE  DeviceInv'
    BY <2>7, EnterStep DEF Primitive, PrimitiveDurations, Threads, DeviceState
  <2>8. ASSUME NEW c \in Composers, ComposerEnds(c) PROVE DeviceInv'
    <3>1. Inside' = Inside /\ \A t \in Inside : pc'[t] = pc[t]
      BY <2>8 DEF ComposerEnds, Inside, DeviceState, TypeOK
    <3>2. QED
      BY <2>8, <3>1, OutsideStep DEF ComposerEnds
  <2>9. ASSUME NEW t \in Threads, Device(t) PROVE DeviceInv'
    BY <2>9, DeviceStep
  <2>10. ASSUME NEW i \in Slots, EffectEnds(i) PROVE DeviceInv'
    BY <2>10, OutsideStep DEF EffectEnds, Inside
  <2>11. CASE UNCHANGED vars
    BY <2>11, OutsideStep DEF vars, Inside
  <2>12. QED
    BY <2>2, <2>3, <2>4, <2>5, <2>6, <2>7, <2>8, <2>9, <2>10, <2>11
       DEF Next, Call, Composer, Threads
<1>3. QED
  BY <1>1, <1>2, TypeCorrect, PTL DEF Spec

\* vibrate() and off() keep the kernel's table and last_effect_id in step as
\* long as no two threads are in them and the kernel removes what it is told.
THEOREM EffectsKept == Spec => []NoEffectLeaks
<1>1. DeviceInv => NoEffectLeaks
  BY DEF DeviceInv, NoEffectLeaks
<1>2. QED
  BY <1>1, DeviceConsistent, PTL

\* off() ends every vibration under the same condition.
THEOREM OffEnds == Spec => []OffSilences
<1>1. DeviceInv => OffSilences
  BY DEF DeviceInv, OffSilences
<1>2. QED
  BY <1>1, DeviceConsistent, PTL
-----------------------------------------------------------------------------
(* FFDevice implements ForceFeedback.                                      *)

Asked == Durations \cup PrimitiveDurations
AskedOK == duration_ms \in [Threads -> Asked \cup {Stop}]

\* vibrate() is called with no other lengths.
LEMMA AskedFor == Spec => []AskedOK
<1>1. Init => AskedOK
  BY DEF Init, AskedOK, Asked, PrimitiveDurations
<1>2. AskedOK /\ [Next]_vars => AskedOK'
  <2> SUFFICES ASSUME AskedOK, [Next]_vars PROVE AskedOK'
    OBVIOUS
  <2> USE DEF AskedOK
  <2>1. ASSUME NEW t \in Threads, NEW d \in Asked \cup {Stop}, Enter(t, d) PROVE AskedOK'
    BY <2>1 DEF Enter
  <2>2. CASE Off
    BY <2>1, <2>2 DEF Off, Threads
  <2>3. ASSUME NEW d \in Asked, On(d) PROVE AskedOK'
    BY <2>1, <2>3 DEF On, Threads
  <2>4. CASE Perform
    BY <2>3, <2>4 DEF Perform, Asked, PrimitiveDurations
  <2>5. ASSUME NEW c \in Composers, NEW d \in PrimitiveDurations, Primitive(c, d)
        PROVE  AskedOK'
    BY <2>1, <2>5 DEF Primitive, Asked, Threads
  <2>6. ASSUME NEW t \in Threads, Device(t) PROVE AskedOK'
    BY <2>6 DEF Device, CheckLast, RemoveEffect, ClearLast, Upload, UploadFails,
                StoreLast, PlayEffect, Asked, PrimitiveDurations
  <2>7. CASE UNCHANGED duration_ms
    BY <2>7
  <2>8. QED
    BY <2>2, <2>3, <2>4, <2>5, <2>6, <2>7
       DEF Next, Call, Composer, Threads, Asked, ComposePwle, ClientStops, TimerExpires,
           Compose, ComposerEnds, EffectEnds, vars, threadVars
<1>3. QED
  BY <1>1, <1>2, PTL DEF Spec

\* The motor as seen from outside, when one thread at most is inside.
LEMMA MotorView ==
  ASSUME NEW t, NEW i
  PROVE  /\ Inside = {} => RequestInside = -2
         /\ Inside = {t} => RequestInside = IF pc[t] \in {"store", "play"} THEN -3
                                            ELSE duration_ms[t]
         /\ Uploaded = {} => LengthLoaded = Free
         /\ Uploaded = {i} => LengthLoaded = length[i]
<1>1. Inside = {t} => TheThread = t
  BY DEF TheThread
<1>2. Uploaded = {i} => TheEffect = i
  BY DEF TheEffect
<1>3. QED
  BY <1>1, <1>2 DEF RequestInside, LengthLoaded

\* The same after a step.
LEMMA MotorViewAfter ==
  ASSUME NEW t, NEW i
  PROVE  /\ Inside' = {} => RequestInside' = -2
         /\ Inside' = {t} => RequestInside' = IF pc'[t] \in {"store", "play"} THEN -3
                                              ELSE duration_ms'[t]
         /\ Uploaded' = {} => LengthLoaded' = Free
         /\ Uploaded' = {i} => LengthLoaded' = length'[i]
<1>1. Inside' = {t} => TheThread' = t
  BY DEF TheThread
<1>2. Uploaded' = {i} => TheEffect' = i
  BY DEF TheEffect
<1>3. QED
  BY <1>1, <1>2 DEF RequestInside, LengthLoaded, Free

\* A thread comes in: one request.
LEMMA EnterMaps ==
  ASSUME TypeOK, DeviceInv, overlaps' = 0, failures' = 0,
         NEW t \in Threads, NEW d \in Asked \cup {Stop},
         pc[t] \notin DeviceState, Enter(t, d)
  PROVE  Motor!Next
<1>1. Inside = {}
  BY DEF Enter, TypeOK
<1>2. Inside' = {t} /\ pc'[t] = "off" /\ duration_ms'[t] = d
  BY <1>1 DEF Enter, Inside, TypeOK, DeviceState
<1>3. RequestInside = -2 /\ RequestInside' = d
  BY <1>1, <1>2, MotorView, MotorViewAfter
<1>4. LengthLoaded' = LengthLoaded /\ playing' = playing
  BY DEF Enter, kernelVars, LengthLoaded, TheEffect, Uploaded
<1>5. Motor!Request(d)
  BY <1>3, <1>4 DEF Motor!Request, Motor!None
<1>6. QED
  BY <1>5 DEF Motor!Next, Asked, Motor!Stop, Stop

\* Nothing happens to the device.
LEMMA OutsideMaps ==
  ASSUME UNCHANGED <<length, playing, duration_ms>>, Inside' = Inside,
         OneInside, \A t \in Inside : pc'[t] = pc[t]
  PROVE  UNCHANGED Motor!vars
<1>1. LengthLoaded' = LengthLoaded
  BY DEF LengthLoaded, TheEffect, Uploaded
<1>2. CASE Inside = {}
  BY <1>1, <1>2, MotorView, MotorViewAfter DEF Motor!vars
<1>3. CASE Inside # {}
  <2>1. PICK t : Inside = {t}
    BY <1>3 DEF OneInside
  <2>2. RequestInside' = RequestInside
    BY <2>1, MotorView, MotorViewAfter
  <2>3. QED
    BY <1>1, <2>2 DEF Motor!vars
<1>4. QED
  BY <1>2, <1>3

\* A thread inside takes a step.
LEMMA DeviceMaps ==
  ASSUME TypeOK, TypeOK', AskedOK, DeviceInv, overlaps' = 0, failures' = 0,
         NEW t \in Threads, Device(t)
  PROVE  [Motor!Next]_(Motor!vars)
<1> USE VibratorAssumption DEF VibratorAssumption
<1>1. t \in Inside /\ overlaps = 0
  BY DEF Device, CheckLast, RemoveEffect, ClearLast, Upload, UploadFails, StoreLast,
         PlayEffect, Goto, Inside, DeviceState
<1>2. failures = 0
  BY DEF Device, CheckLast, RemoveEffect, ClearLast, Upload, UploadFails, StoreLast,
         PlayEffect, TypeOK
<1>3. DeviceAt(t) /\ Inside = {t}
  BY <1>1, <1>2 DEF DeviceInv, OneInside
<1>4. /\ \A u \in Threads \ {t} : pc'[u] = pc[u]
      /\ pc' \in [Threads -> ThreadState] /\ pc \in [Threads -> ThreadState]
  BY DEF Device, CheckLast, RemoveEffect, ClearLast, Upload, UploadFails, StoreLast,
         PlayEffect, TypeOK, Goto
<1>5. /\ pc'[t] \in DeviceState => Inside' = {t}
      /\ pc'[t] \notin DeviceState => Inside' = {}
  BY <1>3, <1>4 DEF Inside
<1>6. /\ pc[t] \notin {"store", "play"} => RequestInside = duration_ms[t]
      /\ pc[t] \in {"store", "play"} => RequestInside = -3
      /\ pc'[t] \notin DeviceState => RequestInside' = -2
      /\ pc'[t] \in DeviceState \ {"store", "play"} => RequestInside' = duration_ms'[t]
      /\ pc'[t] \in {"store", "play"} => RequestInside' = -3
  BY <1>3, <1>5, MotorView, MotorViewAfter DEF DeviceState
<1>7. duration_ms[t] \in Asked \cup {Stop} /\ duration_ms[t] \notin {-2, -3}
  BY DEF AskedOK, TypeOK, Stop
<1>8. length' = length => Uploaded' = Uploaded /\ LengthLoaded' = LengthLoaded
  BY DEF LengthLoaded, TheEffect, Uploaded
<1>9. ASSUME Uploaded = {}, length' = length, playing' = playing,
             pc[t] \notin {"store", "play"}, pc'[t] = Outside(t)
      PROVE  Motor!Next
  <2>1. LengthLoaded = Free /\ LengthLoaded' = Free /\ playing = {}
    BY <1>8, <1>9, MotorView DEF TypeOK
  <2>2. RequestInside = duration_ms[t] /\ RequestInside' = -2
    BY <1>6, <1>9 DEF Outside, DeviceState
  <2>3. Motor!Return
    BY <1>7, <1>9, <2>1, <2>2
       DEF Motor!Return, Motor!None, Motor!Loaded, Motor!Free, Free
  <2>4. QED
    BY <2>3 DEF Motor!Next
<1>10. ASSUME pc[t] \in DeviceState \ {"store", "play"},
              pc'[t] \in DeviceState \ {"store", "play"},
              UNCHANGED <<length, playing, duration_ms>>
       PROVE  UNCHANGED Motor!vars
  BY <1>6, <1>8, <1>10 DEF Motor!vars
<1> USE DEF Goto
<1>11. CASE CheckLast(t)
  <2>1. /\ pc[t] = "off" /\ UNCHANGED <<length, playing, duration_ms>>
        /\ Uploaded = {last_effect_id} \ {NoId}
    BY <1>3, <1>11 DEF CheckLast, DeviceAt, kernelVars
  <2>2. CASE last_effect_id = NoId /\ duration_ms[t] = Stop
    BY <1>4, <1>9, <1>11, <2>1, <2>2 DEF CheckLast, AfterOff, TypeOK
  <2>3. CASE last_effect_id # NoId \/ duration_ms[t] # Stop
    <3>1. pc'[t] \in {"upload", "remove"}
      BY <1>4, <1>11, <2>3 DEF CheckLast, AfterOff
    <3>2. QED
      BY <1>10, <2>1, <3>1 DEF DeviceState
  <2>4. QED
    BY <2>2, <2>3
<1>12. CASE RemoveEffect(t)
  <2>1. /\ length' = [j \in Slots |-> IF j = last_effect_id THEN Free ELSE length[j]]
        /\ playing' = playing \ {last_effect_id} /\ Uploaded = {last_effect_id}
        /\ pc[t] = "remove" /\ pc'[t] = "clear" /\ duration_ms' = duration_ms
    BY <1>2, <1>3, <1>4, <1>12 DEF RemoveEffect, DeviceAt
  <2>2. Uploaded' = {} /\ playing' = {}
    BY <2>1 DEF Uploaded, TypeOK
  <2>3. LengthLoaded' = Free /\ RequestInside = duration_ms[t] /\ RequestInside' = RequestInside
    BY <1>6, <2>1, <2>2, MotorViewAfter DEF DeviceState
  <2>4. Motor!Silence
    BY <1>7, <2>2, <2>3 DEF Motor!Silence, Motor!None, Motor!Loaded, Motor!Free, Free
  <2>5. QED
    BY <2>4 DEF Motor!Next
<1>13. CASE ClearLast(t)
  <2>1. /\ pc[t] = "clear" /\ pc'[t] = AfterOff(t)
        /\ UNCHANGED <<length, playing, duration_ms>> /\ Uploaded = {}
    BY <1>3, <1>4, <1>13 DEF ClearLast, DeviceAt, kernelVars
  <2>2. CASE duration_ms[t] = Stop
    BY <1>9, <2>1, <2>2 DEF AfterOff
  <2>3. CASE duration_ms[t] # Stop
    BY <1>10, <2>1, <2>3 DEF AfterOff, DeviceState
  <2>4. QED
    BY <2>2, <2>3
<1>14. CASE Upload(t)
  <2>1. /\ pc[t] = "upload" /\ pc'[t] = "store" /\ playing' = playing
        /\ Uploaded = {} /\ duration_ms[t] # Stop
    BY <1>3, <1>4, <1>14 DEF Upload, DeviceAt
  <2>2. PICK i \in Slots : length' = [length EXCEPT ![i] = duration_ms[t] % LengthWidth]
    BY <1>14 DEF Upload
  <2>3. duration_ms[t] % LengthWidth \in 0..LengthWidth - 1
    BY <2>1 DEF TypeOK
  <2>4. Uploaded' = {i} /\ length'[i] = duration_ms[t] % LengthWidth
    BY <2>1, <2>2, <2>3 DEF Uploaded, TypeOK, Free
  <2>5. /\ LengthLoaded = Free /\ LengthLoaded' = duration_ms[t] % LengthWidth
        /\ RequestInside = duration_ms[t] /\ RequestInside' = -3
    BY <1>6, <2>1, <2>4, MotorView, MotorViewAfter
  <2>6. Motor!Load
    BY <1>7, <2>1, <2>5 DEF Motor!Load, Motor!Loaded, Motor!Free, Free, Asked
  <2>7. QED
    BY <2>6 DEF Motor!Next
<1>15. CASE UploadFails(t)
  <2>1. /\ pc[t] = "upload" /\ pc'[t] = Outside(t)
        /\ UNCHANGED <<length, playing>> /\ Uploaded = {}
    BY <1>3, <1>4, <1>15 DEF UploadFails, DeviceAt, kernelVars
  <2>2. QED
    BY <1>9, <2>1
<1>16. CASE StoreLast(t)
  <2>1. /\ pc[t] = "store" /\ pc'[t] = "play"
        /\ UNCHANGED <<length, playing, duration_ms>>
    BY <1>4, <1>16 DEF StoreLast, kernelVars
  <2>2. QED
    BY <1>6, <1>8, <2>1 DEF Motor!vars
<1>17. CASE PlayEffect(t)
  <2>1. /\ pc[t] = "play" /\ pc'[t] = Outside(t) /\ length' = length
        /\ playing' \in {playing, playing \cup ({effect[t]} \cap Uploaded)}
    BY <1>4, <1>17 DEF PlayEffect
  <2>2. RequestInside = -3 /\ RequestInside' = -2
    BY <1>6, <2>1 DEF Outside, DeviceState
  <2>3. (playing' # {}) \in {playing # {}, TRUE}
    BY <2>1
  <2>4. Motor!Play
    BY <1>8, <2>1, <2>2, <2>3 DEF Motor!Play, Motor!None, Motor!Loaded
  <2>5. QED
    BY <2>4 DEF Motor!Next
<1>18. QED
  BY <1>11, <1>12, <1>13, <1>14, <1>15, <1>16, <1>17 DEF Device

\* An effect ends: it is the only one in the table.
LEMMA EndMaps ==
  ASSUME TypeOK, DeviceInv, overlaps = 0, failures = 0, NEW i \in Slots, EffectEnds(i)
  PROVE  Motor!Next
<1>1. i \in playing /\ length[i] # 0 /\ playing' = playing \ {i} /\ i \in Uploaded
  BY DEF EffectEnds, TypeOK
<1>2. Uploaded = {i}
  <2>1. CASE Inside = {}
    BY <1>1, <2>1 DEF DeviceInv
  <2>2. CASE Inside # {}
    BY <1>1, <2>2 DEF DeviceInv, DeviceAt, Inside, DeviceState
  <2>3. QED
    BY <2>1, <2>2
<1>3. LengthLoaded = length[i] /\ playing' = {}
  BY <1>1, <1>2, MotorView DEF TypeOK
<1>4. RequestInside' = RequestInside /\ LengthLoaded' = LengthLoaded
  BY DEF EffectEnds, threadVars, RequestInside, LengthLoaded, TheThread, TheEffect,
         Inside, Uploaded
<1>5. Motor!End
  BY <1>1, <1>3, <1>4 DEF Motor!End
<1>6. QED
  BY <1>5 DEF Motor!Next

\* While threads do not meet in the device and the kernel removes what it is
\* told, every step of FFDevice is one of a motor that does one thing at a time.
THEOREM ImplementsMotor == Spec => DeviceSpec
<1>1. Init => Motor!Init
  <2> SUFFICES ASSUME Init PROVE Motor!Init
    OBVIOUS
  <2>1. Inside = {} /\ Uploaded = {} /\ playing = {}
    BY DEF Init, Inside, Uploaded, DeviceState
  <2>2. QED
    BY <2>1 DEF Motor!Init, RequestInside, LengthLoaded, Motor!None, Motor!Free, Free
<1>2. ASSUME TypeOK, TypeOK', AskedOK, DeviceInv, [Next]_vars
      PROVE  [overlaps' = 0 /\ failures' = 0 => Motor!Next]_(Motor!vars)
  <2> SUFFICES ASSUME overlaps' = 0, failures' = 0 PROVE [Motor!Next]_(Motor!vars)
    OBVIOUS
  <2> USE <1>2 DEF kernelVars, threadVars, historyVars
  <2>1. ASSUME NEW d \in Asked \cup {Stop}, BinderIdle, Enter("binder", d)
        PROVE  Motor!Next
    BY <2>1, EnterMaps DEF BinderIdle, Threads, DeviceState
  <2>2. CASE Off
    BY <2>1, <2>2 DEF Off
  <2>3. ASSUME NEW d \in Asked, On(d) PROVE Motor!Next
    BY <2>1, <2>3 DEF On
  <2>4. CASE Perform
    BY <2>3, <2>4 DEF Perform, Asked, PrimitiveDurations
  <2>5. ASSUME UNCHANGED <<overlaps, failures>> PROVE OneInside
    BY <2>5 DEF DeviceInv
  <2>6. CASE ComposePwle \/ ClientStops \/ TimerExpires
    BY <2>5, <2>6, OutsideMaps DEF ComposePwle, ClientStops, TimerExpires, Inside
  <2>7. ASSUME NEW c \in Composers, NEW n \in 0..kComposeSizeMax, Compose(c, n)
        PROVE  UNCHANGED Motor!vars
    <3>1. Inside' = Inside /\ \A t \in Inside : pc'[t] = pc[t]
      BY <2>7 DEF Compose, Inside, DeviceState, TypeOK
    <3>2. QED
      BY <2>5, <2>7, <3>1, OutsideMaps DEF Compose
  <2>8. ASSUME NEW c \in Composers, NEW d \in PrimitiveDurations, Primitive(c, d)
        PROVE  Motor!Next
    BY <2>8, EnterMaps DEF Primitive, Asked, Threads, DeviceState
  <2>9. ASSUME NEW c \in Composers, ComposerEnds(c) PROVE UNCHANGED Motor!vars
    <3>1. Inside' = Inside /\ \A t \in Inside : pc'[t] = pc[t]
      BY <2>9 DEF ComposerEnds, Inside, DeviceState, TypeOK
    <3>2. QED
      BY <2>5, <2>9, <3>1, OutsideMaps DEF ComposerEnds
  <2>10. ASSUME NEW t \in Threads, Device(t) PROVE [Motor!Next]_(Motor!vars)
    BY <2>10, DeviceMaps
  <2>11. ASSUME NEW i \in Slots, EffectEnds(i) PROVE Motor!Next
    BY <2>11, EndMaps DEF EffectEnds
  <2>12. CASE UNCHANGED vars
    BY <2>5, <2>12, OutsideMaps DEF vars, Inside
  <2>13. QED
    BY <2>2, <2>3, <2>4, <2>6, <2>7, <2>8, <2>9, <2>10, <2>11, <2>12
       DEF Next, Call, Composer, Threads, Asked
<1>3. QED
  BY <1>1, <1>2, TypeCorrect, AskedFor, DeviceConsistent, PTL DEF Spec, DeviceSpec
-----------------------------------------------------------------------------
(* How much can be lost, however many threads meet.                        *)

LEMMA SlotSets ==
  ASSUME NEW A \in SUBSET Slots, NEW B \in SUBSET Slots, NEW x
  PROVE  /\ Cardinality(A) \in Nat /\ Cardinality(B) \in Nat
         /\ B \subseteq A => Cardinality(B) <= Cardinality(A)
         /\ B \subseteq A \cup {x} => Cardinality(B) <= Cardinality(A) + 1
<1>1. IsFiniteSet(A) /\ IsFiniteSet(B)
  BY VibratorAssumption, FS_Subset DEF VibratorAssumption
<1>2. /\ IsFiniteSet(A \cup {x}) /\ Cardinality(A \cup {x}) \in Nat
      /\ Cardinality(A) \in Nat /\ Cardinality(B) \in Nat
      /\ Cardinality(A \cup {x}) <= Cardinality(A) + 1
  <2>1. /\ IsFiniteSet(A \cup {x})
        /\ Cardinality(A \cup {x}) = IF x \in A THEN Cardinality(A) ELSE Cardinality(A) + 1
    BY <1>1, FS_AddElement
  <2>2. Cardinality(A) \in Nat /\ Cardinality(B) \in Nat
    BY <1>1, FS_CardinalityType
  <2>3. QED
    BY <2>1, <2>2
<1>3. B \subseteq A => Cardinality(B) <= Cardinality(A)
  BY <1>1, FS_Subset
<1>4. B \subseteq A \cup {x} => Cardinality(B) <= Cardinality(A \cup {x})
  BY <1>2, FS_Subset
<1>5. QED
  BY <1>2, <1>3, <1>4

LEMMA ThreadSets ==
  ASSUME NEW P \in SUBSET Threads, NEW t
  PROVE  /\ IsFiniteSet(P) /\ Cardinality(P) \in Nat
         /\ Cardinality(P) = 0 <=> P = {}
         /\ t \in P => Cardinality(P \ {t}) = Cardinality(P) - 1
         /\ t \notin P => Cardinality(P \cup {t}) = Cardinality(P) + 1
<1>1. IsFiniteSet(Threads)
  BY VibratorAssumption, FS_AddElement DEF VibratorAssumption, Threads
<1>2. IsFiniteSet(P)
  BY <1>1, FS_Subset
<1>3. QED
  BY <1>2, FS_AddElement, FS_RemoveElement, FS_CardinalityType, FS_EmptySet

LEMMA LossTypes ==
  /\ Lost \in SUBSET Slots /\ Pending \in SUBSET Threads
  /\ Lost' \in SUBSET Slots /\ Pending' \in SUBSET Threads
  /\ Endangered => Pending # {}
  /\ Endangered' => Pending' # {}
BY DEF Lost, Pending, Uploaded, Endangered, Forgetful, DeviceState

\* Nobody comes or goes and nothing more is in danger.
LEMMA NothingLost ==
  ASSUME TypeOK, TypeOK', LossInv, Lost' \subseteq Lost, Pending' = Pending,
         Endangered' => Endangered,
         overlaps + failures <= overlaps' + failures'
  PROVE  LossInv'
<1>1. Cardinality(Lost') <= Cardinality(Lost)
      /\ Cardinality(Lost) \in Nat /\ Cardinality(Lost') \in Nat
  BY LossTypes, SlotSets
<1>2. Cardinality(Pending) \in Nat
  BY LossTypes, ThreadSets
<1>3. overlaps \in Nat /\ failures \in Nat /\ overlaps' \in Nat /\ failures' \in Nat
  BY DEF TypeOK
<1>4. /\ Cardinality(Pending') = Cardinality(Pending)
      /\ (IF Pending' = {} THEN 0 ELSE 1) = IF Pending = {} THEN 0 ELSE 1
  OBVIOUS
<1> DEFINE danger == IF Endangered THEN 1 ELSE 0
           late == IF Pending = {} THEN 0 ELSE 1
<1>5. danger \in Int /\ danger' \in Int /\ danger' <= danger /\ late \in Int
  OBVIOUS
<1>6. Cardinality(Lost) + Cardinality(Pending) + danger <= overlaps + failures + late
  BY DEF LossInv
<1> HIDE DEF danger, late
<1>7. Cardinality(Lost') + Cardinality(Pending) + danger'
        <= Cardinality(Lost) + Cardinality(Pending) + danger
  BY <1>1, <1>2, <1>5
<1>8. overlaps + failures + late <= overlaps' + failures' + late
  <2>1. overlaps + failures \in Int /\ overlaps' + failures' \in Int
    BY <1>3
  <2>2. overlaps + failures <= overlaps' + failures'
    OBVIOUS
  <2>3. QED
    BY <1>5, <2>1, <2>2
<1>9. Cardinality(Lost') + Cardinality(Pending) + danger' <= overlaps' + failures' + late
  <2>1. /\ Cardinality(Lost') + Cardinality(Pending) + danger' \in Int
        /\ Cardinality(Lost) + Cardinality(Pending) + danger \in Int
        /\ overlaps + failures + late \in Int
        /\ overlaps' + failures' + late \in Int
    BY <1>1, <1>2, <1>3, <1>5
  <2>2. QED
    BY <1>6, <1>7, <1>8, <2>1
<1>10. QED
  BY <1>4, <1>9 DEF LossInv, danger, late

\* What was in danger is lost, and nothing is in danger afterwards.
LEMMA DangerRealised ==
  ASSUME TypeOK, LossInv, NEW x,
         Lost' \subseteq IF Endangered THEN Lost \cup {x} ELSE Lost,
         Pending' = Pending, ~Endangered', UNCHANGED <<overlaps, failures>>
  PROVE  LossInv'
<1>1. /\ Cardinality(Lost') <= Cardinality(Lost) + IF Endangered THEN 1 ELSE 0
      /\ Cardinality(Lost) \in Nat /\ Cardinality(Lost') \in Nat
  BY LossTypes, SlotSets
<1>2. Cardinality(Pending) \in Nat
  BY LossTypes, ThreadSets
<1>3. overlaps \in Nat /\ failures \in Nat
  BY DEF TypeOK
<1>4. QED
  BY <1>1, <1>2, <1>3 DEF LossInv

\* A thread stores or gives up; what was in danger may be lost.
LEMMA OnePendingLess ==
  ASSUME TypeOK, LossInv, NEW x,
         Lost' \subseteq IF Endangered THEN Lost \cup {x} ELSE Lost,
         NEW t \in Pending, Pending' = Pending \ {t}, UNCHANGED <<overlaps, failures>>
  PROVE  LossInv'
<1>1. /\ Cardinality(Lost') <= Cardinality(Lost) + IF Endangered THEN 1 ELSE 0
      /\ Cardinality(Lost) \in Nat /\ Cardinality(Lost') \in Nat
  BY LossTypes, SlotSets
<1>2. /\ Cardinality(Pending) \in Nat
      /\ Cardinality(Pending') = Cardinality(Pending) - 1
  BY LossTypes, ThreadSets
<1>3. overlaps \in Nat /\ failures \in Nat
  BY DEF TypeOK
<1>4. Cardinality(Lost') + Cardinality(Pending') <= overlaps + failures
  BY <1>1, <1>2, <1>3 DEF LossInv
<1>5. Endangered' => Pending' # {}
  BY LossTypes
<1>6. QED
  BY <1>1, <1>2, <1>3, <1>4, <1>5 DEF LossInv

\* A removal fails: one more excuse, and one more effect in danger.
LEMMA RemovalFailed ==
  ASSUME TypeOK, LossInv, Lost' = Lost, Pending' = Pending,
         failures' = failures + 1, UNCHANGED overlaps
  PROVE  LossInv'
<1>1. Cardinality(Lost) \in Nat /\ Cardinality(Pending) \in Nat
  BY LossTypes, SlotSets, ThreadSets
<1>2. overlaps \in Nat /\ failures \in Nat
  BY DEF TypeOK
<1>3. QED
  BY <1>1, <1>2 DEF LossInv

\* A thread comes in.
LEMMA EnterKeepsLoss ==
  ASSUME TypeOK, LossInv, NEW t \in Threads, NEW d \in Nat \cup {Stop},
         pc[t] \notin DeviceState, Enter(t, d)
  PROVE  LossInv'
<1>1. /\ pc' = [pc EXCEPT ![t] = "off"] /\ pc \in [Threads -> ThreadState]
      /\ UNCHANGED <<last_effect_id, length, effect, failures>>
  BY DEF Enter, TypeOK, kernelVars
<1>2. t \notin Pending /\ Pending' = Pending \cup {t}
  BY <1>1 DEF Pending, DeviceState
<1>3. Held' = Held
  BY <1>1 DEF Held, DeviceState
<1>4. Lost' = Lost
  BY <1>1, <1>3 DEF Lost, Uploaded
<1>5. Endangered' => Endangered
  BY <1>1, <1>3 DEF Endangered, Forgetful, Uploaded
<1>6. /\ Cardinality(Lost) \in Nat /\ Cardinality(Pending) \in Nat
      /\ Cardinality(Pending') = Cardinality(Pending) + 1
      /\ Pending = {} => Cardinality(Pending) = 0
  BY <1>2, LossTypes, SlotSets, ThreadSets
<1>7. overlaps \in Nat /\ failures \in Nat /\ Pending' # {}
  BY <1>2 DEF TypeOK
<1>8. \/ overlaps' = overlaps + 1
      \/ overlaps' = overlaps /\ Pending = {} /\ ~Endangered
  <2>1. Inside = {} => Pending = {}
    BY DEF Inside, Pending
  <2>2. QED
    BY <2>1, LossTypes DEF Enter
<1>9. Pending = {} => ~Endangered
  BY LossTypes
<1>10. QED
  BY <1>1, <1>4, <1>5, <1>6, <1>7, <1>8, <1>9 DEF LossInv

\* A step of a thread inside.
LEMMA DeviceKeepsLoss ==
  ASSUME TypeOK, TypeOK', LossInv, NEW t \in Threads, Device(t)
  PROVE  LossInv'
<1> USE DEF Goto
<1>1. pc \in [Threads -> ThreadState] /\ effect \in [Threads -> Slots \cup {NoId}]
  BY DEF TypeOK
<1>2. NoId \notin Slots
  BY VibratorAssumption DEF VibratorAssumption, NoId
<1>3. ASSUME pc[t] # "store", pc'[t] # "store",
             \A u \in Threads \ {t} : pc'[u] = pc[u] /\ effect'[u] = effect[u]
      PROVE  Held' = Held
  BY <1>3 DEF Held
<1>4. AfterOff(t) \in {"idle", "next", "upload"} /\ Outside(t) \in {"idle", "next"}
  BY DEF AfterOff, Outside
<1>5. CASE CheckLast(t)
  <2>1. Held' = Held /\ UNCHANGED <<last_effect_id, length, overlaps, failures>>
    BY <1>1, <1>3, <1>4, <1>5 DEF CheckLast, kernelVars
  <2>2. Lost' = Lost
    BY <2>1 DEF Lost, Uploaded
  <2>3. t \in Pending
    BY <1>5 DEF CheckLast, Pending, DeviceState
  <2>4. CASE last_effect_id = NoId
    <3>1. ~Endangered'
      BY <1>2, <2>1, <2>4 DEF Endangered, Uploaded
    <3>2. pc' = [pc EXCEPT ![t] = AfterOff(t)]
      BY <1>5, <2>4 DEF CheckLast
    <3>3. CASE AfterOff(t) = "upload"
      <4>1. Pending' = Pending
        BY <1>1, <2>3, <3>2, <3>3 DEF Pending, DeviceState
      <4>2. QED
        BY <2>1, <2>2, <3>1, <4>1, NothingLost DEF TypeOK
    <3>4. CASE AfterOff(t) # "upload"
      <4>1. Pending' = Pending \ {t}
        BY <1>1, <1>4, <3>2, <3>4 DEF Pending, DeviceState
      <4>2. QED
        BY <2>1, <2>2, <2>3, <4>1, OnePendingLess
    <3>5. QED
      BY <3>3, <3>4
  <2>5. CASE last_effect_id # NoId
    <3>1. /\ pc' = [pc EXCEPT ![t] = "remove"]
          /\ effect' = [effect EXCEPT ![t] = last_effect_id]
      BY <1>5, <2>5 DEF CheckLast
    <3>2. Pending' = Pending
      BY <1>1, <2>3, <3>1 DEF Pending, DeviceState
    <3>3. Endangered' => Endangered
      BY <1>1, <2>1, <3>1 DEF Endangered, Forgetful, Uploaded
    <3>4. QED
      BY <2>1, <2>2, <3>2, <3>3, NothingLost DEF TypeOK
  <2>6. QED
    BY <2>4, <2>5
<1>6. CASE RemoveEffect(t)
  <2>1. /\ pc[t] = "remove" /\ pc' = [pc EXCEPT ![t] = "clear"]
        /\ effect' = [effect EXCEPT ![t] = NoId]
        /\ UNCHANGED <<last_effect_id, overlaps>>
    BY <1>6 DEF RemoveEffect
  <2>2. Held' = Held
    BY <1>1, <1>3, <2>1
  <2>3. Pending' = Pending
    BY <1>1, <2>1 DEF Pending, DeviceState
  <2>4. CASE failures' = failures + 1 /\ UNCHANGED kernelVars
    <3>1. Lost' = Lost
      BY <2>1, <2>2, <2>4 DEF Lost, Uploaded, kernelVars
    <3>2. QED
      BY <2>1, <2>3, <2>4, <3>1, RemovalFailed
  <2>5. ASSUME NEW i \in {effect[t], last_effect_id}, UNCHANGED failures,
               length' = [j \in Slots |-> IF j = i THEN Free ELSE length[j]]
        PROVE  LossInv'
    <3>1. Uploaded' = Uploaded \ {i}
      BY <2>5 DEF Uploaded
    <3>2. Lost' \subseteq Lost
      BY <2>1, <2>2, <3>1 DEF Lost
    <3>3. ASSUME Endangered' PROVE Endangered
      <4>1. last_effect_id # i /\ last_effect_id \in Uploaded \ Held
        BY <2>1, <2>2, <3>1, <3>3 DEF Endangered
      <4>2. Forgetful(t)
        BY <2>1, <2>5, <4>1 DEF Forgetful
      <4>3. QED
        BY <4>1, <4>2 DEF Endangered
    <3>4. QED
      BY <2>1, <2>3, <2>5, <3>2, <3>3, NothingLost DEF TypeOK
  <2>6. QED
    BY <1>6, <2>4, <2>5 DEF RemoveEffect
<1>7. CASE ClearLast(t)
  <2>1. /\ pc[t] = "clear" /\ pc' = [pc EXCEPT ![t] = AfterOff(t)]
        /\ last_effect_id' = NoId
        /\ UNCHANGED <<length, effect, overlaps, failures>>
    BY <1>7 DEF ClearLast, kernelVars
  <2>2. Held' = Held
    BY <1>1, <1>3, <1>4, <2>1
  <2>3. ~Endangered' /\ (last_effect_id \in Uploaded \ Held => Endangered)
    BY <1>2, <2>1 DEF Endangered, Forgetful, Uploaded
  <2>4. Lost' \subseteq IF Endangered THEN Lost \cup {last_effect_id} ELSE Lost
    BY <2>1, <2>2, <2>3 DEF Lost, Uploaded
  <2>5. t \in Pending
    BY <2>1 DEF Pending, DeviceState
  <2>6. CASE AfterOff(t) = "upload"
    <3>1. Pending' = Pending
      BY <1>1, <2>1, <2>5, <2>6 DEF Pending, DeviceState
    <3>2. QED
      BY <2>1, <2>3, <2>4, <3>1, DangerRealised
  <2>7. CASE AfterOff(t) # "upload"
    <3>1. Pending' = Pending \ {t}
      BY <1>1, <1>4, <2>1, <2>7 DEF Pending, DeviceState
    <3>2. QED
      BY <2>1, <2>4, <2>5, <3>1, OnePendingLess
  <2>8. QED
    BY <2>6, <2>7
<1>8. CASE Upload(t)
  <2>1. PICK i \in Slots \ Uploaded :
          /\ length' = [length EXCEPT ![i] = duration_ms[t] % LengthWidth]
          /\ effect' = [effect EXCEPT ![t] = i]
    BY <1>8 DEF Upload
  <2>2. /\ pc[t] = "upload" /\ pc' = [pc EXCEPT ![t] = "store"]
        /\ UNCHANGED <<last_effect_id, overlaps, failures>>
    BY <1>8 DEF Upload
  <2>3. Held' = Held \cup {i}
    BY <1>1, <2>1, <2>2 DEF Held
  <2>4. Uploaded' \subseteq Uploaded \cup {i}
    BY <2>1 DEF Uploaded, TypeOK
  <2>5. Lost' \subseteq Lost
    BY <2>2, <2>3, <2>4 DEF Lost
  <2>6. Pending' = Pending
    BY <1>1, <2>2 DEF Pending, DeviceState
  <2>7. Endangered' => Endangered
    BY <2>2, <2>3, <2>4 DEF Endangered, Forgetful
  <2>8. QED
    BY <2>2, <2>5, <2>6, <2>7, NothingLost DEF TypeOK
<1>9. CASE UploadFails(t)
  <2>1. /\ pc[t] = "upload" /\ pc' = [pc EXCEPT ![t] = Outside(t)]
        /\ UNCHANGED <<last_effect_id, length, effect, overlaps, failures>>
    BY <1>9 DEF UploadFails, kernelVars
  <2>2. Held' = Held
    BY <1>1, <1>3, <1>4, <2>1
  <2>3. Lost' = Lost
    BY <2>1, <2>2 DEF Lost, Uploaded
  <2>4. t \in Pending /\ Pending' = Pending \ {t}
    BY <1>1, <1>4, <2>1 DEF Pending, DeviceState
  <2>5. QED
    BY <2>1, <2>3, <2>4, OnePendingLess
<1>10. CASE StoreLast(t)
  <2>1. /\ pc[t] = "store" /\ pc' = [pc EXCEPT ![t] = "play"]
        /\ last_effect_id' = effect[t]
        /\ UNCHANGED <<length, effect, overlaps, failures>>
    BY <1>10 DEF StoreLast, kernelVars
  <2>2. Held \subseteq Held' \cup {effect[t]}
    BY <1>1, <2>1 DEF Held
  <2>3. last_effect_id \in Uploaded \ Held => Endangered
    BY <2>1 DEF Endangered, Forgetful
  <2>4. Lost' \subseteq IF Endangered THEN Lost \cup {last_effect_id} ELSE Lost
    BY <2>1, <2>2, <2>3 DEF Lost, Uploaded
  <2>5. t \in Pending /\ Pending' = Pending \ {t}
    BY <1>1, <2>1 DEF Pending, DeviceState
  <2>6. QED
    BY <2>1, <2>4, <2>5, OnePendingLess
<1>11. CASE PlayEffect(t)
  <2>1. /\ pc[t] = "play" /\ pc' = [pc EXCEPT ![t] = Outside(t)]
        /\ effect' = [effect EXCEPT ![t] = NoId]
        /\ UNCHANGED <<last_effect_id, length, overlaps, failures>>
    BY <1>11 DEF PlayEffect
  <2>2. Held' = Held
    BY <1>1, <1>3, <1>4, <2>1
  <2>3. Lost' = Lost
    BY <2>1, <2>2 DEF Lost, Uploaded
  <2>4. Pending' = Pending
    BY <1>1, <1>4, <2>1 DEF Pending, DeviceState
  <2>5. Endangered' => Endangered
    BY <1>1, <1>4, <2>1, <2>2 DEF Endangered, Forgetful, Uploaded
  <2>6. QED
    BY <2>1, <2>3, <2>4, <2>5, NothingLost DEF TypeOK
<1>12. QED
  BY <1>5, <1>6, <1>7, <1>8, <1>9, <1>10, <1>11 DEF Device

\* A step outside the device.
LEMMA OutsideKeepsLoss ==
  ASSUME TypeOK, TypeOK', LossInv,
         UNCHANGED <<last_effect_id, length, effect, overlaps, failures>>,
         Inside' = Inside, \A t \in Inside : pc'[t] = pc[t]
  PROVE  LossInv'
<1>1. \A t \in Threads : pc[t] \in DeviceState \/ pc'[t] \in DeviceState => pc'[t] = pc[t]
  BY DEF Inside
<1>2. Held' = Held /\ Pending' = Pending
  BY <1>1 DEF Held, Pending, DeviceState
<1>3. Lost' = Lost
  BY <1>2 DEF Lost, Uploaded
<1>4. Endangered' => Endangered
  BY <1>1, <1>2 DEF Endangered, Forgetful, Uploaded, DeviceState
<1>5. QED
  BY <1>2, <1>3, <1>4, NothingLost DEF TypeOK

\* Every effect lost has its excuse, whatever the threads do.
THEOREM LossAccounted == Spec => []LossInv
<1>1. Init => LossInv
  <2> SUFFICES ASSUME Init PROVE LossInv
    OBVIOUS
  <2>1. Lost = {} /\ Pending = {} /\ ~Endangered /\ overlaps = 0 /\ failures = 0
    BY DEF Init, Lost, Pending, Endangered, Uploaded, DeviceState
  <2>2. QED
    BY <2>1, FS_EmptySet DEF LossInv
<1>2. TypeOK /\ TypeOK' /\ LossInv /\ [Next]_vars => LossInv'
  <2> SUFFICES ASSUME TypeOK, TypeOK', LossInv, [Next]_vars PROVE LossInv'
    OBVIOUS
  <2> USE VibratorAssumption DEF VibratorAssumption, kernelVars, threadVars, historyVars
  <2>1. ASSUME NEW d \in Nat \cup {Stop}, BinderIdle, Enter("binder", d) PROVE LossInv'
    BY <2>1, EnterKeepsLoss DEF BinderIdle, Threads, DeviceState
  <2>2. CASE Off
    BY <2>1, <2>2 DEF Off
  <2>3. ASSUME NEW d \in Nat, On(d) PROVE LossInv'
    BY <2>1, <2>3 DEF On
  <2>4. CASE Perform
    BY <2>3, <2>4 DEF Perform
  <2>5. CASE ComposePwle \/ ClientStops \/ TimerExpires
    BY <2>5, OutsideKeepsLoss DEF ComposePwle, ClientStops, TimerExpires, Inside
  <2>6. ASSUME NEW c \in Composers, NEW n \in 0..kComposeSizeMax, Compose(c, n)
        PROVE  LossInv'
    <3>1. Inside' = Inside /\ \A t \in Inside : pc'[t] = pc[t]
      BY <2>6 DEF Compose, Inside, DeviceState, TypeOK
    <3>2. QED
      BY <2>6, <3>1, OutsideKeepsLoss DEF Compose
  <2>7. ASSUME NEW c \in Composers, NEW d \in PrimitiveDurations, Primitive(c, d)
        PROVE  LossInv'
    BY <2>7, EnterKeepsLoss DEF Primitive, PrimitiveDurations, Threads, DeviceState
  <2>8. ASSUME NEW c \in Composers, ComposerEnds(c) PROVE LossInv'
    <3>1. Inside' = Inside /\ \A t \in Inside : pc'[t] = pc[t]
      BY <2>8 DEF ComposerEnds, Inside, DeviceState, TypeOK
    <3>2. QED
      BY <2>8, <3>1, OutsideKeepsLoss DEF ComposerEnds
  <2>9. ASSUME NEW t \in Threads, Device(t) PROVE LossInv'
    BY <2>9, DeviceKeepsLoss
  <2>10. ASSUME NEW i \in Slots, EffectEnds(i) PROVE LossInv'
    BY <2>10, OutsideKeepsLoss DEF EffectEnds, Inside
  <2>11. CASE UNCHANGED vars
    BY <2>11, OutsideKeepsLoss DEF vars, Inside
  <2>12. QED
    BY <2>2, <2>3, <2>4, <2>5, <2>6, <2>7, <2>8, <2>9, <2>10, <2>11
       DEF Next, Call, Composer, Threads
<1>3. QED
  BY <1>1, <1>2, TypeCorrect, PTL DEF Spec

\* vibrate() and off() leak no more than one effect of the kernel's table each
\* time threads meet in them or a removal fails, for any number of threads.
THEOREM LeaksAreBounded == Spec => []LeaksBounded
<1>1. ASSUME TypeOK, LossInv PROVE LeaksBounded
  <2> DEFINE Storing == {t \in Threads : pc[t] = "store"}
             holds == [t \in Storing |-> effect[t]]
  <2>1. /\ IsFiniteSet(Storing) /\ Cardinality(Storing) \in Nat
        /\ IsFiniteSet(Pending) /\ Cardinality(Pending) \in Nat
        /\ Cardinality(Pending) = 0 <=> Pending = {}
    BY LossTypes, ThreadSets
  <2>2. Cardinality(Storing) <= Cardinality(Pending)
    BY <2>1, FS_Subset DEF Pending, DeviceState
  <2>3. holds \in Surjection(Storing, Held)
    BY DEF Surjection, Held
  <2>4. IsFiniteSet(Held) /\ Cardinality(Held) <= Cardinality(Storing)
    BY <2>1, <2>3, FS_Surjection
  <2>5. IsFiniteSet(Lost) /\ Cardinality(Lost) \in Nat
    BY VibratorAssumption, LossTypes, SlotSets, FS_Subset DEF VibratorAssumption
  <2>6. /\ IsFiniteSet(Lost \cup Held) /\ Cardinality(Held) \in Nat
        /\ Cardinality(Lost \cup Held) <= Cardinality(Lost) + Cardinality(Held)
    <3>1. /\ IsFiniteSet(Lost \cup Held)
          /\ Cardinality(Lost \cup Held)
               = Cardinality(Lost) + Cardinality(Held) - Cardinality(Lost \cap Held)
      BY <2>4, <2>5, FS_Union
    <3>2. Lost \cap Held = {}
      BY DEF Lost
    <3>3. QED
      <4>1. Cardinality(Held) \in Nat /\ Cardinality(Lost \cap Held) = 0
        BY <2>4, <3>2, FS_EmptySet, FS_CardinalityType
      <4>2. QED
        BY <2>5, <3>1, <4>1
  <2>7. /\ Cardinality(Uploaded \ {last_effect_id}) \in Nat
        /\ Cardinality(Uploaded \ {last_effect_id}) <= Cardinality(Lost \cup Held)
    BY <2>6, FS_Subset, FS_CardinalityType DEF Lost
  <2>8. Cardinality(Lost \cup Held) \in Nat
    BY <2>6, FS_CardinalityType
  <2>9. Inside = {} => Pending = {}
    BY DEF Inside, Pending
  <2>10. overlaps \in Nat /\ failures \in Nat
    BY <1>1 DEF TypeOK
  <2>11. Cardinality(Uploaded \ {last_effect_id})
           <= Cardinality(Lost) + Cardinality(Pending)
    BY <2>1, <2>2, <2>4, <2>5, <2>6, <2>7, <2>8
  <2>12. QED
    BY <1>1, <2>1, <2>5, <2>7, <2>9, <2>10, <2>11 DEF LossInv, LeaksBounded
<1>2. QED
  BY <1>1, TypeCorrect, LossAccounted, PTL
=============================================================================
