----------------------------- MODULE PowerBoost -----------------------------
(***************************************************************************)
(* The power HAL: hints that arrive on the single binder thread of the     *)
(* service (class Power) and the thread of GloDroidPower that raises the   *)
(* minimum frequency of every DVFS device while a hint asks for it.        *)
(*                                                                         *)
(* The condition variable has no predicate: the thread waits first and     *)
(* looks afterwards, so a notification sent while it does not wait is      *)
(* lost.  The history variable lost records which ones were.               *)
(*                                                                         *)
(* The service may die and be started again at any time; what it has       *)
(* written stays, what it knew is gone.                                    *)
(***************************************************************************)
EXTENDS DevFreq, Integers

CONSTANTS MaxTime,         \* bound on the clock
          Durations,       \* durations of setBoost, in clock ticks
          kDefaultTimeout, \* used for the durations that are not positive
          Modes            \* modes of setMode; only LAUNCH has an effect

ASSUME PowerAssumption ==
  /\ MaxTime \in Nat
  /\ Durations \subseteq Int
  /\ kDefaultTimeout \in Nat \ {0}

VARIABLES now,          \* steady_clock
          mode_enabled, \* the modes that are on
          boost_end,    \* when the last timed boost ends
          tpc,          \* the thread: "outside" the mutex, "waiting", or "none"
          boosted,      \* thread local: the maximum frequencies are written
          wakeup,       \* thread local: deadline of the wait, or Never
          notified,     \* the waiting thread was notified
          lost          \* history: notifications nobody waited for, since
                        \* the thread last looked

hintVars == <<mode_enabled, boost_end>>
threadVars == <<tpc, boosted, wakeup>>
vars == <<now, hintVars, threadVars, notified, lost, devVars>>

Never == -1
Boosts == {"DISPLAY_UPDATE_IMMINENT", "INTERACTION", "other"}
Notification == {"on", "off", "timed"}

TypeOK ==
  /\ DevTypeOK
  /\ now \in Nat /\ boost_end \in Nat
  /\ mode_enabled \in SUBSET Modes
  /\ tpc \in {"outside", "waiting", "none"}
  /\ boosted \in BOOLEAN /\ notified \in BOOLEAN
  /\ wakeup \in Nat \cup {Never}
  /\ lost \in SUBSET Notification

\* Without a usable device there is no thread.
Thread(devices) == IF devices = {} THEN "none" ELSE "outside"

Init ==
  /\ DevInit
  /\ now = 0 /\ boost_end = 0 /\ mode_enabled = {}
  /\ tpc = Thread(booster_list) /\ boosted = FALSE /\ wakeup = Never
  /\ notified = FALSE /\ lost = {}

boost_en == "LAUNCH" \in mode_enabled

-----------------------------------------------------------------------------
(* The binder thread.  It changes a hint and notifies under the mutex.     *)

Notify(kind) ==
  IF tpc = "waiting" THEN notified' = TRUE /\ UNCHANGED lost
                     ELSE lost' = lost \cup {kind} /\ UNCHANGED notified

\* Mutant: the thread is not notified.
BoostForSilently(end) ==
  /\ boost_end' = IF boost_end < end THEN end ELSE boost_end
  /\ UNCHANGED <<notified, lost>>

\* BoostFor: a boost that ends earlier than the one in force is dropped.
BoostFor(end) ==
  IF boost_end < end
    THEN boost_end' = end /\ Notify("timed")
    ELSE UNCHANGED <<boost_end, notified, lost>>

SetBoost(type, durationMs) ==
  LET timeout == IF durationMs <= 0 THEN kDefaultTimeout ELSE durationMs
  IN  /\ now + timeout <= MaxTime
      /\ IF type = "other" THEN UNCHANGED <<boost_end, notified, lost>>
                           ELSE BoostFor(now + timeout)
      /\ UNCHANGED <<now, mode_enabled, threadVars, devVars>>

\* Every mode re-evaluates LAUNCH, and BoostEn notifies each time.
SetMode(type, enabled) ==
  /\ mode_enabled' = IF enabled THEN mode_enabled \cup {type}
                                ELSE mode_enabled \ {type}
  /\ Notify(IF "LAUNCH" \in mode_enabled' THEN "on" ELSE "off")
  /\ UNCHANGED <<now, boost_end, threadVars, devVars>>

-----------------------------------------------------------------------------
(* The boost thread, ThreadFn.                                             *)

\* Lock the mutex and wait_until(wakeup).
Wait ==
  /\ tpc = "outside" /\ tpc' = "waiting"
  /\ UNCHANGED <<now, hintVars, boosted, wakeup, notified, lost, devVars>>

boost_active == boost_end > now \/ boost_en

\* The frequencies are switched when the boost begins or ends.
Switch == IF boosted' # boosted THEN BoostAll(boosted') ELSE UNCHANGED devVars

\* Mutants: no deadline is set for a timed boost; a relative deadline, set
\* even when nothing is boosted.
EvaluateWithoutDeadline ==
  /\ tpc = "waiting" /\ tpc' = "outside"
  /\ boosted' = boost_active /\ wakeup' = Never
  /\ notified' = FALSE /\ lost' = {}
  /\ Switch
  /\ UNCHANGED <<now, hintVars>>

EvaluateRelative ==
  /\ tpc = "waiting" /\ tpc' = "outside"
  /\ boosted' = boost_active
  /\ wakeup' = IF boost_en THEN Never ELSE boost_end - now
  /\ notified' = FALSE /\ lost' = {}
  /\ Switch
  /\ UNCHANGED <<now, hintVars>>

\* The wait is over, for whatever reason: look at the hints, switch the
\* frequencies if they have to change, choose the next deadline.
Evaluate ==
  /\ tpc = "waiting" /\ tpc' = "outside"
  /\ boosted' = boost_active
  /\ wakeup' = IF boost_active /\ ~boost_en THEN boost_end ELSE Never
  /\ notified' = FALSE /\ lost' = {}
  /\ Switch
  /\ UNCHANGED <<now, hintVars>>

\* What ends the wait for certain; without it a wake-up is spurious.
WakeUpDue == notified \/ (wakeup # Never /\ wakeup <= now)

Tick == now < MaxTime /\ now' = now + 1 /\ UNCHANGED <<hintVars, threadVars, notified, lost, devVars>>

\* The service is started again, whatever it was doing.
Restart(usable) ==
  /\ mode_enabled' = {} /\ boost_end' = 0
  /\ tpc' = Thread(usable) /\ boosted' = FALSE /\ wakeup' = Never
  /\ notified' = FALSE /\ lost' = {}
  /\ FindDevices(usable)
  /\ UNCHANGED now

-----------------------------------------------------------------------------
Next ==
  \/ \E type \in Boosts, d \in Durations : SetBoost(type, d)
  \/ \E type \in Modes, enabled \in BOOLEAN : SetMode(type, enabled)
  \/ Wait \/ Evaluate \/ Tick
  \/ \E usable \in SUBSET Devices : Restart(usable)

Spec == Init /\ [][Next]_vars

\* Time passes and the thread is scheduled; nothing is assumed of spurious
\* wake-ups.
FairSpec ==
  /\ Spec
  /\ WF_vars(Tick) /\ WF_vars(Wait) /\ WF_vars(WakeUpDue /\ Evaluate)

-----------------------------------------------------------------------------
Asleep == tpc = "waiting" /\ ~notified

Up(d) == min_freq[d] = "high" \/ d \in unwritten

\* While the thread sleeps every usable device is up when a hint asks for it,
\* unless the notification of the hint was lost or the write failed.
BoostFollowsHints ==
  Asleep =>
    /\ boost_en => (\A d \in booster_list : Up(d)) \/ "on" \in lost
    /\ boost_end > now => (\A d \in booster_list : Up(d)) \/ "timed" \in lost

\* A sleeping thread that keeps the frequencies up without a LAUNCH hint will
\* wake when the last timed boost it was told of ends: only a lost "LAUNCH is
\* off" can leave the device at full speed, a lost timed boost cannot.
BoostHasDeadline ==
  Asleep /\ boosted /\ ~boost_en /\ "off" \notin lost
    => wakeup # Never /\ wakeup <= boost_end

\* The inductive invariant: the same facts hold outside the mutex, where no
\* notification is ever pending, and the devices follow the thread.
HintsSeen ==
  /\ tpc # "waiting" => ~notified
  /\ tpc # "none" /\ ~notified =>
       /\ boost_en => boosted \/ "on" \in lost
       /\ boost_end > now => boosted \/ "timed" \in lost
       /\ boosted /\ ~boost_en /\ "off" \notin lost
            => wakeup # Never /\ wakeup <= boost_end

DevicesFollow ==
  \A d \in booster_list \ unwritten : min_freq[d] = IF boosted THEN "high" ELSE initial_value[d]

IndInv == TypeOK /\ HintsSeen /\ DevicesFollow

\* A device that no LAUNCH hint wants up comes down, whatever other
\* notifications are lost: only if its write fails, or the service has been
\* started in the middle of a boost and takes the maximum for the minimum, it
\* stays up.
TimedBoostEnds ==
  \A d \in Devices :
    min_freq[d] = "high" ~>
      \/ min_freq[d] = "low" \/ boost_en \/ "off" \in lost
      \/ d \in unwritten \/ d \notin booster_list \/ initial_value[d] = "high"
=============================================================================
