-------------------------------- MODULE Bcb --------------------------------
(***************************************************************************)
(* What the bootloader control block promises: Android leaves a request in *)
(* it and reboots.  A request for the bootloader is served once, by the    *)
(* next boot that reads it, whatever resets come in between, and is gone   *)
(* when it is served.  A request for recovery or fastbootd stays until     *)
(* somebody takes it back, and nothing but recovery starts meanwhile.  A   *)
(* boot that has trouble with the block may overlook a request: then it    *)
(* stays for the next boot, neither lost nor served.                       *)
(***************************************************************************)
VARIABLES command, \* the request that is stored, or "none"
          read,    \* this boot has read it, or tried to
          mode,    \* who runs: "script", "fastboot", "android" or "recovery"
          failed   \* this boot could not read or write misc once

vars == <<command, read, mode, failed>>

Bootloader == "bootonce-bootloader"
Requests == {"none", Bootloader, "boot-fastboot", "boot-recovery"}

Init == command = "none" /\ ~read /\ mode = "script" /\ ~failed

NewBoot == mode' = "script" /\ read' = FALSE /\ failed' = FALSE

\* A reset at any time changes nothing in the block.
Reset == NewBoot /\ UNCHANGED command

\* A system that runs leaves a request, or takes one back.
Post(c) == mode \in {"android", "recovery"} /\ command' = c /\ NewBoot

\* So does fastboot when it is told to reboot into fastbootd.
RebootFastboot == mode = "fastboot" /\ command' = "boot-fastboot" /\ NewBoot

Read ==
  /\ mode = "script" /\ ~read /\ read' = TRUE
  /\ command # Bootloader
  /\ UNCHANGED <<command, mode, failed>>

Serve ==
  /\ mode = "script" /\ ~read /\ read' = TRUE
  /\ command = Bootloader /\ command' = "none"
  /\ mode' = "fastboot" /\ UNCHANGED failed

\* Volume keys, or no slot to boot from: the request is left alone.
EnterFastboot ==
  /\ mode = "script" /\ ~read /\ mode' = "fastboot"
  /\ UNCHANGED <<command, read, failed>>

LeaveFastboot ==
  mode = "fastboot" /\ mode' = "script" /\ UNCHANGED <<command, read, failed>>

\* Fastboot does not work: fastbootd is requested instead.
Replace ==
  /\ mode = "fastboot" /\ mode' = "script"
  /\ command' = "boot-fastboot" /\ UNCHANGED <<read, failed>>

Erase == mode = "fastboot" /\ command' = "none" /\ UNCHANGED <<read, mode, failed>>

\* Trouble before the block is read, with reading it or clearing it, or in
\* fastboot: the stored request is left alone.
Fail ==
  /\ failed' = TRUE /\ UNCHANGED command
  /\ \/ mode = "script" /\ ~read /\ mode' = "fastboot" /\ UNCHANGED read
     \/ mode = "script" /\ ~read /\ read' = TRUE /\ UNCHANGED mode
     \/ mode = "fastboot" /\ mode' \in {"script", "fastboot"} /\ UNCHANGED read

StartAndroid ==
  /\ mode = "script" /\ read /\ (command = "none" \/ failed)
  /\ mode' = "android" /\ UNCHANGED <<command, read, failed>>

StartRecovery ==
  /\ mode = "script" /\ read /\ (command # Bootloader \/ failed)
  /\ mode' = "recovery" /\ UNCHANGED <<command, read, failed>>

Next ==
  \/ Reset \/ RebootFastboot \/ Read \/ Serve \/ EnterFastboot \/ LeaveFastboot
  \/ Replace \/ Erase \/ Fail \/ StartAndroid \/ StartRecovery
  \/ \E c \in Requests : Post(c)

Spec == Init /\ [][Next]_vars
=============================================================================
