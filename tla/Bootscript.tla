----------------------------- MODULE Bootscript -----------------------------
(***************************************************************************)
(* The U-Boot script that boots a board: bootcmd_bcb, bootcmd_avb,         *)
(* bootcmd_start and enter_fastboot, run again after every reset until an  *)
(* operating system starts.  The U-Boot commands it calls (ab_select, bcb, *)
(* avb, fastboot, bootm) and the Android it starts are external.           *)
(***************************************************************************)
EXTENDS Integers

CONSTANTS Slots,          \* a and b
          MaxTries,       \* boot attempts of a fresh slot (7 in U-Boot)
          HasVolumeKeys,  \* device_pinephone
          MaxCuts,        \* bound on the number of unforeseen resets
          MaxFaults       \* bound on the number of failed accesses to misc

ASSUME BootAssumption ==
  /\ "none" \notin Slots /\ MaxTries \in Nat \ {0} /\ MaxCuts \in Nat
  /\ MaxFaults \in Nat
  /\ HasVolumeKeys \in BOOLEAN

VARIABLES
  command, tries, successful,   \* the misc partition: BCB and A/B metadata
  good,                         \* slots whose images verify and boot
  fastbootWorks,                \* U-Boot's fastboot works on this board
  pc, slot_name, androidrecovery, bcb, \* the environment of this boot
  returnTo,                     \* where enter_fastboot was called
  fastboot_fail,
  miscFailed,                   \* history: this boot could not read or write
                                \* misc once; what it could not write stays
  cuts, faults,
  asked                         \* history: a request for the bootloader has
                                \* not been served yet

miscVars == <<command, tries, successful>>
envVars == <<slot_name, androidrecovery, bcb, returnTo, fastboot_fail, miscFailed>>
vars == <<miscVars, good, fastbootWorks, pc, envVars, cuts, faults, asked>>

Command == {"none", "bootonce-bootloader", "boot-fastboot", "boot-recovery"}

TypeOK ==
  /\ command \in Command /\ bcb \in Command
  /\ tries \in [Slots -> 0..MaxTries] /\ successful \in [Slots -> BOOLEAN]
  /\ good \in SUBSET Slots /\ fastbootWorks \in BOOLEAN
  /\ pc \in {"keys", "ab", "bcb", "tests", "verify", "start", "fastboot", "os"}
  /\ slot_name \in Slots \cup {"none"}
  /\ androidrecovery \in BOOLEAN /\ fastboot_fail \in BOOLEAN /\ miscFailed \in BOOLEAN
  /\ returnTo \in {"ab", "bcb", "tests"}
  /\ cuts \in 0..MaxCuts /\ faults \in 0..MaxFaults /\ asked \in BOOLEAN

PowerOn ==
  /\ pc' = "keys" /\ slot_name' = "none" /\ androidrecovery' = FALSE
  /\ bcb' = "none" /\ returnTo' = "ab" /\ fastboot_fail' = FALSE
  /\ miscFailed' = FALSE

Init ==
  /\ command = "none" /\ asked = FALSE /\ cuts = 0 /\ faults = 0
  /\ tries = [s \in Slots |-> MaxTries]
  /\ successful = [s \in Slots |-> FALSE]
  /\ good \in SUBSET Slots /\ fastbootWorks \in BOOLEAN
  /\ pc = "keys" /\ slot_name = "none" /\ androidrecovery = FALSE
  /\ bcb = "none" /\ returnTo = "ab" /\ fastboot_fail = FALSE
  /\ miscFailed = FALSE

Goto(label) == pc' = label /\ UNCHANGED envVars

\* run enter_fastboot
EnterFastboot(from) ==
  pc' = "fastboot" /\ returnTo' = from /\ fastboot_fail' = FALSE

\* An access to misc fails, or none does.
MiscFails == faults < MaxFaults /\ faults' = faults + 1 /\ miscFailed' = TRUE
MiscWorks == UNCHANGED <<faults, miscFailed>>

\* bcb load && bcb set command boot-fastboot && bcb store: without the load
\* there is no block in memory, without the store only there.
RequestFastbootd ==
  \/ MiscWorks /\ command' = "boot-fastboot" /\ bcb' = "boot-fastboot"
  \/ MiscFails /\ bcb' \in {"none", "boot-fastboot"} /\ UNCHANGED command

-----------------------------------------------------------------------------
\* bootcmd_block, first part: the volume keys of the PinePhone.
VolumeKey ==
  /\ pc = "keys"
  /\ \/ Goto("ab")
     \/ /\ HasVolumeKeys /\ EnterFastboot("ab")
        /\ UNCHANGED <<slot_name, androidrecovery, bcb, miscFailed>>
     \/ /\ HasVolumeKeys /\ pc' = "ab" /\ androidrecovery' = TRUE
        /\ UNCHANGED <<slot_name, bcb, returnTo, fastboot_fail, miscFailed>>
  /\ UNCHANGED <<miscVars, good, cuts, faults, asked>>

\* What ab_select may choose, and what it counts.
Bootable == {s \in Slots : tries[s] > 0}

Attempted(s) == IF successful[s] THEN tries
                                 ELSE [tries EXCEPT ![s] = @ - 1]

AbSelect ==
  /\ pc = "ab" /\ MiscWorks
  /\ \E s \in Bootable : slot_name' = s /\ tries' = Attempted(s)
  /\ pc' = "bcb"
  /\ UNCHANGED <<command, successful, good, androidrecovery, bcb, returnTo,
                 fastboot_fail, cuts, asked>>

\* Mutant: a failed ab_select does not lead to fastboot.
AbSelectFailsIgnored ==
  /\ pc = "ab" /\ Bootable = {} /\ Goto("bcb")
  /\ UNCHANGED <<miscVars, good, cuts, faults, asked>>

\* No slot has an attempt left, or the A/B metadata cannot be read or written.
AbSelectFails ==
  /\ pc = "ab" /\ EnterFastboot("bcb")
  /\ (Bootable = {} /\ MiscWorks) \/ MiscFails
  /\ UNCHANGED <<miscVars, good, slot_name, androidrecovery, bcb, cuts, asked>>

\* Mutant: the command is not cleared.
BcbLoadKeeps ==
  /\ pc = "bcb" /\ bcb' = command /\ MiscWorks
  /\ IF command = "bootonce-bootloader"
       THEN EnterFastboot("tests") /\ asked' = FALSE
       ELSE pc' = "tests" /\ UNCHANGED <<returnTo, fastboot_fail, asked>>
  /\ UNCHANGED <<miscVars, good, slot_name, androidrecovery, cuts>>

\* bcb load; a request for the bootloader is cleared before it is served.
BcbLoad ==
  /\ pc = "bcb" /\ MiscWorks
  /\ IF command = "bootonce-bootloader"
       THEN /\ command' = "none" /\ bcb' = "none" /\ EnterFastboot("tests")
            /\ asked' = FALSE
       ELSE /\ bcb' = command /\ pc' = "tests"
            /\ UNCHANGED <<command, returnTo, fastboot_fail, asked>>
  /\ UNCHANGED <<tries, successful, good, slot_name, androidrecovery, cuts>>

\* The block cannot be loaded, so that no test succeeds; or a request for the
\* bootloader is cleared in memory only, and not served.
BcbLoadFails ==
  /\ pc = "bcb" /\ MiscFails
  /\ bcb' = "none" /\ pc' = "tests"
  /\ UNCHANGED <<miscVars, good, slot_name, androidrecovery, returnTo,
                 fastboot_fail, cuts, asked>>

\* Mutant: boot-fastboot is not tested.
BcbTestRecovery ==
  /\ pc = "tests"
  /\ androidrecovery' = (androidrecovery \/ bcb = "boot-recovery")
  /\ pc' = IF androidrecovery' THEN "start" ELSE "verify"
  /\ UNCHANGED <<miscVars, good, slot_name, bcb, returnTo, fastboot_fail,
                 miscFailed, cuts, faults, asked>>

BcbTest ==
  /\ pc = "tests"
  /\ androidrecovery' =
       (androidrecovery \/ bcb \in {"boot-fastboot", "boot-recovery"})
  /\ pc' = IF androidrecovery' THEN "start" ELSE "verify"
  /\ UNCHANGED <<miscVars, good, slot_name, bcb, returnTo, fastboot_fail,
                 miscFailed, cuts, faults, asked>>

\* Mutant: the result of avb_verify is not looked at.
AvbIgnored ==
  pc = "verify" /\ Goto("start") /\ UNCHANGED <<miscVars, good, cuts, faults, asked>>

\* bootcmd_avb: a slot that does not verify resets the board.
AvbVerify ==
  /\ pc = "verify"
  /\ IF slot_name \in good THEN Goto("start") ELSE PowerOn
  /\ UNCHANGED <<miscVars, good, cuts, faults, asked>>

\* Load the images of the slot and start the kernel; after a failed bootm the
\* script ends in reset.
Start ==
  /\ pc = "start"
  /\ \/ slot_name \in Slots /\ Goto("os")
     \/ slot_name \notin good /\ PowerOn
  /\ UNCHANGED <<miscVars, good, cuts, faults, asked>>

\* Mutant: a command that nobody tests for is stored.
FastbootFailsTypo ==
  /\ pc = "fastboot" /\ ~fastbootWorks
  /\ fastboot_fail' = TRUE /\ MiscWorks
  /\ command' = "fastboot" /\ bcb' = "fastboot"
  /\ pc' = returnTo
  /\ UNCHANGED <<tries, successful, good, slot_name, androidrecovery, returnTo,
                 cuts, asked>>

\* enter_fastboot when `fastboot 0` fails: request fastbootd and go on.
FastbootFails ==
  /\ pc = "fastboot" /\ ~fastbootWorks
  /\ fastboot_fail' = TRUE /\ RequestFastbootd
  /\ pc' = returnTo
  /\ UNCHANGED <<tries, successful, good, slot_name, androidrecovery, returnTo,
                 cuts, asked>>

Script ==
  \/ VolumeKey \/ AbSelect \/ AbSelectFails \/ BcbLoad \/ BcbLoadFails \/ BcbTest
  \/ AvbVerify \/ Start \/ FastbootFails

-----------------------------------------------------------------------------
(* External: the user at the fastboot prompt, above all flash-all.sh, and   *)
(* Android.                                                                *)

FastbootContinue ==
  /\ pc = "fastboot" /\ fastbootWorks /\ Goto(returnTo)
  /\ UNCHANGED <<miscVars, good, cuts, faults, asked>>

\* fastboot flash.
FlashImage ==
  /\ pc = "fastboot" /\ fastbootWorks
  /\ good' \in SUBSET Slots
  /\ UNCHANGED <<miscVars, pc, envVars, cuts, faults, asked>>

\* fastboot erase misc.
EraseMisc ==
  /\ pc = "fastboot" /\ fastbootWorks
  /\ command' = "none" /\ tries' = [s \in Slots |-> MaxTries]
  /\ successful' = [s \in Slots |-> FALSE]
  /\ UNCHANGED <<good, pc, envVars, cuts, faults, asked>>

\* fastboot reboot-fastboot: U-Boot leaves the request of fastbootd itself,
\* and stays where it is if it cannot.
RebootFastboot ==
  /\ pc = "fastboot" /\ fastbootWorks
  /\ \/ command' = "boot-fastboot" /\ PowerOn /\ UNCHANGED faults
     \/ /\ MiscFails /\ bcb' \in {"none", "boot-fastboot"}
        /\ UNCHANGED <<command, pc, slot_name, androidrecovery, returnTo, fastboot_fail>>
  /\ UNCHANGED <<tries, successful, good, cuts, asked>>

\* fastboot reboot.
FastbootReboot ==
  /\ pc = "fastboot" /\ fastbootWorks /\ PowerOn
  /\ UNCHANGED <<miscVars, good, cuts, faults, asked>>

\* fastbootd flashes super and formats userdata and metadata.
FastbootdFlash ==
  /\ pc = "os" /\ androidrecovery
  /\ good' \in SUBSET Slots
  /\ UNCHANGED <<miscVars, pc, envVars, cuts, faults, asked>>

\* The boot HAL of a normal boot.
MarkBootSuccessful ==
  /\ pc = "os" /\ ~androidrecovery /\ ~successful[slot_name]
  /\ successful' = [successful EXCEPT ![slot_name] = TRUE]
  /\ tries' = [tries EXCEPT ![slot_name] = 1]
  /\ UNCHANGED <<command, good, pc, envVars, cuts, faults, asked>>

\* Reboot, for a reason (recovery clears its command when it is done); an
\* update may have damaged a slot.
Reboot ==
  /\ pc = "os" /\ cuts < MaxCuts /\ cuts' = cuts + 1
  /\ command' \in Command
  /\ asked' = (command' = "bootonce-bootloader")
  /\ good' \in SUBSET good
  /\ PowerOn /\ UNCHANGED <<tries, successful, faults>>

\* A crash, a watchdog or the power button.
Cut ==
  /\ cuts < MaxCuts /\ cuts' = cuts + 1
  /\ PowerOn /\ UNCHANGED <<miscVars, good, faults, asked>>

-----------------------------------------------------------------------------
Next ==
  /\ Script \/ FastbootContinue \/ FlashImage \/ EraseMisc \/ RebootFastboot
       \/ FastbootReboot \/ FastbootdFlash \/ MarkBootSuccessful \/ Reboot \/ Cut
  /\ UNCHANGED fastbootWorks

Spec == Init /\ [][Next]_vars
FairSpec == Spec /\ WF_vars(Script /\ UNCHANGED fastbootWorks)

-----------------------------------------------------------------------------
\* A request for the bootloader is served once: the BCB leads to fastboot only
\* if somebody asked for it since it last did, whatever resets, volume keys
\* and failures of fastboot happen in between.
BootonceIsOnce ==
  [][command = "bootonce-bootloader" /\ pc = "bcb" /\ pc' = "fastboot" => asked]_vars

\* A request for recovery or fastbootd is honoured by whatever starts next:
\* Android is not started normally while it is stored, unless this boot had
\* trouble with misc.
RecoveryHonoured ==
  [][pc # "os" /\ pc' = "os" /\ command \in {"boot-fastboot", "boot-recovery"}
       => androidrecovery \/ miscFailed]_vars

\* A normal boot starts only a slot that was verified.
NormalBootVerified ==
  [][pc # "os" /\ pc' = "os" /\ ~androidrecovery => slot_name \in good]_vars

\* "If for some reason uboot-fastboot fail for this board, fallback to
\* fastbootd": once fastboot has failed, what starts is never Android, and
\* there is a slot to start fastbootd from unless the attempts of all slots
\* are used up.  A boot that had trouble with misc promises nothing: its
\* request may not have been stored or not have been read.
FallbackReachesFastbootd ==
  pc = "start" /\ fastboot_fail /\ ~miscFailed
    => androidrecovery /\ (slot_name = "none" => Bootable = {})

\* The inductive invariant behind these four: somebody asked for a stored
\* request for the bootloader; without trouble the tests see the stored
\* command, and after the tests a stored request for recovery is remembered;
\* and a normal boot that has passed verification has a good slot.
RequestInv ==
  /\ command = "bootonce-bootloader" => asked
  /\ pc = "fastboot" /\ returnTo = "tests" => command = "none"
  /\ ~miscFailed =>
       /\ pc = "tests" \/ (pc = "fastboot" /\ returnTo = "tests") => bcb = command
       /\ pc \in {"verify", "start"} /\ command \in {"boot-fastboot", "boot-recovery"}
            => androidrecovery

\* Between the fallback and the start its request is stored, then remembered;
\* no slot is selected only if none could be.
FallbackInv ==
  /\ fastboot_fail => ~fastbootWorks
  /\ ~miscFailed =>
       /\ pc \in {"keys", "fastboot"} => ~fastboot_fail
       /\ pc \in {"ab", "bcb", "tests"} /\ fastboot_fail => command = "boot-fastboot"
       /\ pc \in {"verify", "start"} /\ fastboot_fail => androidrecovery
       /\ ~fastbootWorks /\ slot_name = "none" /\
            (\/ pc \in {"bcb", "tests", "verify", "start"}
             \/ pc = "fastboot" /\ returnTo \in {"bcb", "tests"})
            => Bootable = {}

VerifiedInv == pc = "start" /\ ~androidrecovery => slot_name \in good

IndInv == TypeOK /\ RequestInv /\ FallbackInv /\ VerifiedInv

\* "After 14 failed boot attempt fallback to fastboot": while no slot was
\* ever marked successful, the attempts of a board without a good slot run
\* out, and then it stands in a fastboot that works, unless the recovery of
\* some slot started before.  The exception is a board whose fastboot does not
\* work: without attempts left it has no slot to start fastbootd from, and
\* goes on resetting.
FreshBoardFallsBack ==
  (good = {} /\ \A s \in Slots : ~successful[s])
    ~> \/ pc = "os"
       \/ fastbootWorks /\ pc = "fastboot"
       \/ ~fastbootWorks /\ Bootable = {}

-----------------------------------------------------------------------------
\* The script, fastboot and Android keep what the BCB promises, whatever
\* resets, volume keys, empty slots, failures of fastboot and of misc come in
\* between.  A boot has read the block when it has passed bootcmd_bcb's load,
\* and fastboot returns to where it was called.
Mailbox == INSTANCE Bcb WITH
             command <- command,
             read <- \/ pc \in {"tests", "verify", "start", "os"}
                     \/ pc = "fastboot" /\ returnTo = "tests",
             mode <- IF pc = "fastboot" THEN "fastboot"
                     ELSE IF pc # "os" THEN "script"
                     ELSE IF androidrecovery THEN "recovery" ELSE "android",
             failed <- miscFailed

BcbSpec == Mailbox!Spec
=============================================================================
