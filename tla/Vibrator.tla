------------------------------ MODULE Vibrator ------------------------------
(***************************************************************************)
(* The vibrator HAL of the PinePhone: calls on the single binder thread of *)
(* the service, compositions that run on detached threads of their own,    *)
(* and the force feedback device they share (class FFDevice) without a     *)
(* lock.  The device is one id, last_effect_id, for the effect uploaded    *)
(* last; the kernel keeps a table with a fixed number of effects.          *)
(*                                                                         *)
(* vibrate() and off() are split at every access to last_effect_id and at  *)
(* every system call.  Two threads inside them at the same time race; the  *)
(* history variable overlaps counts how often a thread came in while       *)
(* another was inside.                                                     *)
(***************************************************************************)
EXTENDS Integers, FiniteSets

CONSTANTS
  Composers,       \* detached threads of compose() that may run at a time
  Slots,           \* the effect ids of the kernel's table
  Durations,       \* what on() is called with, in milliseconds
  kEffectMillis,   \* the length of perform()'s effects and of the primitives
  LengthWidth,     \* replay.length wraps at this value: 2^16
  kComposeSizeMax, \* the largest composition
  MaxTimers,       \* bound on the timers of on(), perform() and composePwle()
  MaxMishaps       \* bound on overlaps and on removals that fail

ASSUME VibratorAssumption ==
  /\ IsFiniteSet(Composers) /\ "binder" \notin Composers
  /\ IsFiniteSet(Slots) /\ Slots \subseteq Nat
  /\ Durations \subseteq Nat
  /\ kEffectMillis \in Nat
  /\ LengthWidth \in Nat \ {0}
  /\ kComposeSizeMax \in Nat /\ MaxTimers \in Nat /\ MaxMishaps \in Nat

VARIABLES
  last_effect_id, \* of FFDevice
  length,         \* kernel: replay.length of an uploaded effect, or Free
  playing,        \* kernel: the effects that move the motor
  pc,             \* control points of the threads
  duration_ms,    \* argument of vibrate(), or Stop for off() alone
  effect,         \* local: the id to remove, then the id uploaded
  todo,           \* primitives left of a composition
  timers,         \* detached threads that sleep and then call onComplete()
  done,           \* the client makes no more calls
  overlaps,       \* history: entries while another thread was inside
  failures,       \* history: removals the kernel refused
  silenced        \* history: off() has returned, nobody vibrated since

kernelVars == <<length, playing>>
threadVars == <<pc, duration_ms, effect, todo>>
historyVars == <<overlaps, failures, silenced>>
vars == <<last_effect_id, kernelVars, threadVars, timers, done, historyVars>>

Threads == Composers \cup {"binder"}
NoId == -1
Free == -1
Stop == -1
PrimitiveDurations == {0, kEffectMillis}  \* NOOP lasts 0 ms

DeviceState == {"off", "remove", "clear", "upload", "store", "play"}
ThreadState == DeviceState \cup {"idle", "next"}

Uploaded == {i \in Slots : length[i] # Free}
Inside == {t \in Threads : pc[t] \in DeviceState}

TypeOK ==
  /\ last_effect_id \in Slots \cup {NoId}
  /\ length \in [Slots -> 0..LengthWidth - 1 \cup {Free}]
  /\ playing \subseteq Uploaded
  /\ pc \in [Threads -> ThreadState]
  /\ duration_ms \in [Threads -> Nat \cup {Stop}]
  /\ effect \in [Threads -> Slots \cup {NoId}]
  /\ todo \in [Composers -> 0..kComposeSizeMax]
  /\ timers \in 0..MaxTimers
  /\ done \in BOOLEAN /\ silenced \in BOOLEAN
  /\ overlaps \in Nat /\ failures \in Nat

Init ==
  /\ last_effect_id = NoId
  /\ length = [i \in Slots |-> Free] /\ playing = {}
  /\ pc = [t \in Threads |-> "idle"]
  /\ duration_ms = [t \in Threads |-> 0]
  /\ effect = [t \in Threads |-> NoId]
  /\ todo = [c \in Composers |-> 0]
  /\ timers = 0 /\ done = FALSE
  /\ overlaps = 0 /\ failures = 0 /\ silenced = TRUE

-----------------------------------------------------------------------------
(* Calls.                                                                  *)

\* Mutant: vibrate() does not remove the effect before it.
EnterWithoutOff(t, d) ==
  /\ pc' = [pc EXCEPT ![t] = IF d = Stop THEN "off" ELSE "upload"]
  /\ duration_ms' = [duration_ms EXCEPT ![t] = d]
  /\ silenced' = (silenced /\ d = Stop)
  /\ IF Inside = {} THEN UNCHANGED overlaps
                    ELSE overlaps < MaxMishaps /\ overlaps' = overlaps + 1
  /\ UNCHANGED <<last_effect_id, kernelVars, effect, failures>>

\* A thread enters vibrate(d), or off() when d is Stop.
Enter(t, d) ==
  /\ pc' = [pc EXCEPT ![t] = "off"]
  /\ duration_ms' = [duration_ms EXCEPT ![t] = d]
  /\ silenced' = (silenced /\ d = Stop)
  /\ IF Inside = {} THEN UNCHANGED overlaps
                    ELSE overlaps < MaxMishaps /\ overlaps' = overlaps + 1
  /\ UNCHANGED <<last_effect_id, kernelVars, effect, failures>>

BinderIdle == pc["binder"] = "idle" /\ ~done

\* With a callback, a detached thread will report the end.
StartTimer == timers' \in {timers} \cup {n \in {timers + 1} : n <= MaxTimers}

Off == BinderIdle /\ Enter("binder", Stop) /\ UNCHANGED <<todo, timers, done>>

On(timeoutMs) ==
  /\ BinderIdle /\ Enter("binder", timeoutMs)
  /\ StartTimer /\ UNCHANGED <<todo, done>>

\* An effect that is not supported is refused before anything happens.
Perform == On(kEffectMillis)

\* compose() refuses what is too long or not supported and returns at once.
Compose(c, size) ==
  /\ BinderIdle /\ pc[c] = "idle"
  /\ pc' = [pc EXCEPT ![c] = "next"]
  /\ todo' = [todo EXCEPT ![c] = size]
  /\ UNCHANGED <<last_effect_id, kernelVars, duration_ms, effect, timers, done,
                 historyVars>>

\* composePwle() only builds a string and sleeps.
ComposePwle ==
  /\ BinderIdle /\ StartTimer
  /\ UNCHANGED <<last_effect_id, kernelVars, threadVars, done, historyVars>>

ClientStops ==
  /\ ~done /\ done' = TRUE
  /\ UNCHANGED <<last_effect_id, kernelVars, threadVars, timers, historyVars>>

\* usleep() is over: onComplete().
TimerExpires ==
  /\ timers > 0 /\ timers' = timers - 1
  /\ UNCHANGED <<last_effect_id, kernelVars, threadVars, done, historyVars>>

\* The thread of a composition, between two sleeps of any length.
Primitive(c, d) ==
  /\ pc[c] = "next" /\ todo[c] > 0
  /\ todo' = [todo EXCEPT ![c] = @ - 1]
  /\ Enter(c, d)
  /\ UNCHANGED <<timers, done>>

ComposerEnds(c) ==
  /\ pc[c] = "next" /\ todo[c] = 0
  /\ pc' = [pc EXCEPT ![c] = "idle"]
  /\ UNCHANGED <<last_effect_id, kernelVars, duration_ms, effect, todo, timers,
                 done, historyVars>>

-----------------------------------------------------------------------------
(* FFDevice.                                                               *)

Outside(t) == IF t = "binder" THEN "idle" ELSE "next"

AfterOff(t) == IF duration_ms[t] = Stop THEN Outside(t) ELSE "upload"

Goto(t, label) ==
  /\ pc' = [pc EXCEPT ![t] = label]
  /\ UNCHANGED <<todo, timers, done, overlaps>>

\* off(): nothing was uploaded, or the id is read for the ioctl.
CheckLast(t) ==
  /\ pc[t] = "off"
  /\ IF last_effect_id = NoId
       THEN /\ Goto(t, AfterOff(t))
            /\ silenced' = (silenced \/ duration_ms[t] = Stop)
            /\ UNCHANGED effect
       ELSE /\ Goto(t, "remove")
            /\ effect' = [effect EXCEPT ![t] = last_effect_id]
            /\ UNCHANGED silenced
  /\ UNCHANGED <<last_effect_id, kernelVars, duration_ms, failures>>

\* EVIOCRMFF stops and frees an effect; an id that is free is refused.  The
\* compiled code may read last_effect_id once or twice.
RemoveEffect(t) ==
  /\ pc[t] = "remove" /\ Goto(t, "clear")
  /\ effect' = [effect EXCEPT ![t] = NoId]
  /\ \/ \E i \in {effect[t], last_effect_id} :
          /\ length' = [j \in Slots |-> IF j = i THEN Free ELSE length[j]]
          /\ playing' = playing \ {i}
          /\ UNCHANGED failures
     \/ /\ failures < MaxMishaps /\ failures' = failures + 1
        /\ UNCHANGED kernelVars
  /\ UNCHANGED <<last_effect_id, duration_ms, silenced>>

ClearLast(t) ==
  /\ pc[t] = "clear" /\ Goto(t, AfterOff(t))
  /\ last_effect_id' = NoId
  /\ silenced' = (silenced \/ duration_ms[t] = Stop)
  /\ UNCHANGED <<kernelVars, duration_ms, effect, failures>>

\* Mutant: the length is not narrowed.
UploadWide(t) ==
  /\ pc[t] = "upload" /\ Goto(t, "store")
  /\ \E i \in Slots \ Uploaded :
       /\ length' = [length EXCEPT ![i] = duration_ms[t]]
       /\ effect' = [effect EXCEPT ![t] = i]
  /\ duration_ms' = [duration_ms EXCEPT ![t] = 0]
  /\ UNCHANGED <<last_effect_id, playing, failures, silenced>>

\* EVIOCSFF with id -1 takes a free slot.
Upload(t) ==
  /\ pc[t] = "upload" /\ Goto(t, "store")
  /\ \E i \in Slots \ Uploaded :
       /\ length' = [length EXCEPT ![i] = duration_ms[t] % LengthWidth]
       /\ effect' = [effect EXCEPT ![t] = i]
  /\ duration_ms' = [duration_ms EXCEPT ![t] = 0]
  /\ UNCHANGED <<last_effect_id, playing, failures, silenced>>

\* Mutant: vibrate() tries again until the upload succeeds.
UploadRetries(t) == pc[t] = "upload" /\ UNCHANGED vars

\* The table is full, or the driver refuses: vibrate() returns.
UploadFails(t) ==
  /\ pc[t] = "upload" /\ Goto(t, Outside(t))
  /\ duration_ms' = [duration_ms EXCEPT ![t] = 0]
  /\ UNCHANGED <<last_effect_id, kernelVars, effect, failures, silenced>>

\* Mutant: the id is not kept.
StoreNothing(t) ==
  /\ pc[t] = "store" /\ Goto(t, "play")
  /\ UNCHANGED <<last_effect_id, kernelVars, duration_ms, effect, failures, silenced>>

\* From here on off() knows the effect.
StoreLast(t) ==
  /\ pc[t] = "store" /\ Goto(t, "play")
  /\ last_effect_id' = effect[t]
  /\ UNCHANGED <<kernelVars, duration_ms, effect, failures, silenced>>

\* The play event; without effect if it cannot be written or the id is free.
PlayEffect(t) ==
  /\ pc[t] = "play" /\ Goto(t, Outside(t))
  /\ playing' \in {playing, playing \cup ({effect[t]} \cap Uploaded)}
  /\ effect' = [effect EXCEPT ![t] = NoId]
  /\ UNCHANGED <<last_effect_id, length, duration_ms, failures, silenced>>

\* The kernel stops an effect after its length; length 0 means no end.
EffectEnds(i) ==
  /\ i \in playing /\ length[i] # 0
  /\ playing' = playing \ {i}
  /\ UNCHANGED <<last_effect_id, length, threadVars, timers, done, historyVars>>

-----------------------------------------------------------------------------
Call ==
  \/ Off \/ Perform \/ ComposePwle \/ ClientStops
  \/ \E d \in Durations : On(d)
  \/ \E c \in Composers, n \in 0..kComposeSizeMax : Compose(c, n)

Device(t) ==
  \/ CheckLast(t) \/ RemoveEffect(t) \/ ClearLast(t) \/ Upload(t)
  \/ UploadFails(t) \/ StoreLast(t) \/ PlayEffect(t)

Composer(c) ==
  Device(c) \/ ComposerEnds(c) \/ \E d \in PrimitiveDurations : Primitive(c, d)

Next ==
  \/ Call \/ Device("binder") \/ TimerExpires
  \/ \E c \in Composers : Composer(c)
  \/ \E i \in Slots : EffectEnds(i)

Spec == Init /\ [][Next]_vars

\* Threads are scheduled, sleeps end, and the kernel's timers expire.
FairSpec ==
  /\ Spec
  /\ WF_vars(Device("binder")) /\ WF_vars(TimerExpires)
  /\ \A c \in Composers : WF_vars(Composer(c))
  /\ \A i \in Slots : WF_vars(EffectEnds(i))

-----------------------------------------------------------------------------
\* While threads do not meet in the device (vibrate() and off() have no lock)
\* and removals succeed, the kernel's table holds the effect last_effect_id
\* names and no other between calls, whatever upload or play failed.
NoEffectLeaks ==
  overlaps = 0 /\ failures = 0 /\ Inside = {} => Uploaded = {last_effect_id} \ {NoId}

\* What threads that meet in the device can do to it at worst: each time one
\* comes in while another is inside, and each failed removal, leaks at most one
\* effect of the kernel's table.  One more may be between upload and store.
LeaksBounded ==
  Cardinality(Uploaded \ {last_effect_id})
    <= overlaps + failures + IF Inside = {} THEN 0 ELSE 1

\* After off() nothing moves the motor until somebody vibrates again, which a
\* composition that is not over does: off() does not cancel it.
OffSilences == overlaps = 0 /\ failures = 0 /\ silenced => playing = {}

-----------------------------------------------------------------------------
(* The inductive invariant behind LeaksBounded.  An effect is lost when    *)
(* last_effect_id is cleared or overwritten while it names it: each thread *)
(* stores one effect, so as many can be lost as threads have yet to store, *)
(* and the one stored last if a thread inside will not remove it.          *)

Pending == {t \in Threads : pc[t] \in DeviceState \ {"play"}}
Held == {effect[t] : t \in {u \in Threads : pc[u] = "store"}}
Lost == Uploaded \ (Held \cup {last_effect_id})

\* Some thread inside will drop last_effect_id without having removed it.
Forgetful(t) ==
  \/ pc[t] \in {"clear", "upload", "store"}
  \/ pc[t] = "remove" /\ effect[t] # last_effect_id

Endangered ==
  last_effect_id \in Uploaded \ Held /\ \E t \in Threads : Forgetful(t)

LossInv ==
  Cardinality(Lost) + Cardinality(Pending) + (IF Endangered THEN 1 ELSE 0)
    <= overlaps + failures + (IF Pending = {} THEN 0 ELSE 1)

-----------------------------------------------------------------------------
(* Liveness.                                                               *)

\* When the client stops calling, compositions and timers end, and the motor
\* stops: only an effect whose length was narrowed to zero (NOOP, 2^16 ms)
\* keeps it running.
Settles ==
  done ~> /\ timers = 0 /\ \A t \in Threads : pc[t] = "idle"
          /\ \A i \in playing : length[i] = 0
-----------------------------------------------------------------------------
TheThread == CHOOSE t \in Inside : TRUE
TheEffect == CHOOSE i \in Uploaded : TRUE

\* What the thread inside the device wants of it: -2 is None, -3 is Loaded.
RequestInside ==
  IF Inside = {} THEN -2
  ELSE IF pc[TheThread] \in {"store", "play"} THEN -3 ELSE duration_ms[TheThread]

LengthLoaded == IF Uploaded = {} THEN Free ELSE length[TheEffect]

\* While threads do not meet in the device and removals succeed, FFDevice does
\* one thing at a time: it implements ForceFeedback, though its table, its id and
\* its motor are changed in separate steps.
Motor == INSTANCE ForceFeedback WITH
             LengthWidth <- LengthWidth,
             Durations <- Durations \cup PrimitiveDurations,
             request <- RequestInside,
             loaded <- LengthLoaded,
             moving <- playing # {}

DeviceSpec ==
  /\ Motor!Init
  /\ [][overlaps' = 0 /\ failures' = 0 => Motor!Next]_(Motor!vars)
=============================================================================
