-------------------------- MODULE BootscriptProofs --------------------------
(***************************************************************************)
(* The boot script serves the requests in the BCB and verifies what it     *)
(* starts, for every set of slots, number of attempts and number of        *)
(* resets, on boards whose fastboot works and on boards where it fails.    *)
(***************************************************************************)
EXTENDS Bootscript, TLAPS

LEMMA Initially == Init => IndInv
<1> SUFFICES ASSUME Init PROVE IndInv
  OBVIOUS
<1>1. tries \in [Slots -> 0..MaxTries] /\ cuts \in 0..MaxCuts
      /\ faults \in 0..MaxFaults
  BY BootAssumption DEF Init
<1>2. TypeOK
  BY <1>1 DEF Init, TypeOK, Command
<1>3. RequestInv /\ FallbackInv /\ VerifiedInv
  BY DEF Init, RequestInv, FallbackInv, VerifiedInv
<1> QED
  BY <1>2, <1>3 DEF IndInv

\* Every step of the script, the user, Android and the power supply keeps the
\* state in its types.
LEMMA TypesPreserved == TypeOK /\ [Next]_vars => TypeOK'
<1> SUFFICES ASSUME TypeOK, [Next]_vars PROVE TypeOK'
  OBVIOUS
<1>a. MaxTries \in Nat \ {0} /\ MaxCuts \in Nat /\ MaxFaults \in Nat
  BY BootAssumption
<1>b. MiscFails \/ MiscWorks => faults' \in 0..MaxFaults /\ miscFailed' \in BOOLEAN
  <2>1. CASE MiscFails
    BY <1>a, <2>1 DEF MiscFails, TypeOK
  <2>2. CASE MiscWorks
    BY <2>2 DEF MiscWorks, TypeOK
  <2> QED
    BY <2>1, <2>2
<1> USE DEF TypeOK, Command, miscVars, envVars, Goto, EnterFastboot, PowerOn
<1>1. CASE VolumeKey /\ UNCHANGED fastbootWorks
  BY <1>1 DEF VolumeKey
<1>2. CASE AbSelect /\ UNCHANGED fastbootWorks
  <2>1. PICK s \in Slots : /\ tries[s] > 0 /\ slot_name' = s
                           /\ tries' = Attempted(s)
    BY <1>2 DEF AbSelect, Bootable
  <2>2. tries' \in [Slots -> 0..MaxTries]
    BY <2>1, <1>a DEF Attempted
  <2> QED
    BY <1>2, <2>1, <2>2, <1>b DEF AbSelect
<1>3. CASE AbSelectFails /\ UNCHANGED fastbootWorks
  BY <1>3, <1>b DEF AbSelectFails
<1>4. CASE BcbLoad /\ UNCHANGED fastbootWorks
  BY <1>4, <1>b DEF BcbLoad
<1>5. CASE BcbTest /\ UNCHANGED fastbootWorks
  BY <1>5 DEF BcbTest
<1>6. CASE AvbVerify /\ UNCHANGED fastbootWorks
  BY <1>6 DEF AvbVerify
<1>7. CASE Start /\ UNCHANGED fastbootWorks
  BY <1>7 DEF Start
<1>8. CASE FastbootFails /\ UNCHANGED fastbootWorks
  BY <1>8, <1>b DEF FastbootFails, RequestFastbootd
<1>9. CASE FastbootContinue /\ UNCHANGED fastbootWorks
  BY <1>9 DEF FastbootContinue
<1>10. CASE EraseMisc /\ UNCHANGED fastbootWorks
  <2>1. tries' \in [Slots -> 0..MaxTries]
    BY <1>a, <1>10 DEF EraseMisc
  <2>2. successful' \in [Slots -> BOOLEAN]
    BY <1>10 DEF EraseMisc
  <2> QED
    BY <1>10, <2>1, <2>2 DEF EraseMisc
<1>11. CASE MarkBootSuccessful /\ UNCHANGED fastbootWorks
  <2>1. tries' \in [Slots -> 0..MaxTries]
    <3>1. tries' = [tries EXCEPT ![slot_name] = 1]
      BY <1>11 DEF MarkBootSuccessful
    <3>2. tries \in [Slots -> 0..MaxTries] /\ 1 \in 0..MaxTries
      BY <1>a
    <3> QED
      BY <3>1, <3>2
  <2>2. successful' \in [Slots -> BOOLEAN]
    BY <1>11 DEF MarkBootSuccessful
  <2> QED
    BY <1>11, <2>1, <2>2 DEF MarkBootSuccessful
<1>12. CASE Reboot /\ UNCHANGED fastbootWorks
  <2>1. cuts' \in 0..MaxCuts
    BY <1>a, <1>12 DEF Reboot
  <2> QED
    BY <1>12, <2>1 DEF Reboot
<1>13. CASE Cut /\ UNCHANGED fastbootWorks
  <2>1. cuts' \in 0..MaxCuts
    BY <1>a, <1>13 DEF Cut
  <2> QED
    BY <1>13, <2>1 DEF Cut
<1>14. CASE UNCHANGED vars
  BY <1>14 DEF vars
<1>15. CASE BcbLoadFails /\ UNCHANGED fastbootWorks
  BY <1>15, <1>b DEF BcbLoadFails
<1>16. CASE (FlashImage \/ FastbootReboot \/ FastbootdFlash) /\ UNCHANGED fastbootWorks
  BY <1>16 DEF FlashImage, FastbootReboot, FastbootdFlash
<1>17. CASE RebootFastboot /\ UNCHANGED fastbootWorks
  BY <1>17, <1>b DEF RebootFastboot
<1> QED
  BY <1>1, <1>2, <1>3, <1>4, <1>5, <1>6, <1>7, <1>8, <1>9, <1>10, <1>11,
     <1>12, <1>13, <1>14, <1>15, <1>16, <1>17 DEF Next, Script

\* A stored request is neither forgotten between the BCB and the start of an
\* operating system nor made up.
LEMMA RequestsPreserved ==
  TypeOK /\ RequestInv /\ [Next]_vars => RequestInv'
<1> SUFFICES ASSUME TypeOK, RequestInv, [Next]_vars PROVE RequestInv'
  OBVIOUS
<1> USE DEF TypeOK, RequestInv, Command, miscVars, envVars, Goto,
            EnterFastboot, PowerOn,
            MiscFails, MiscWorks, RequestFastbootd
<1>1. CASE VolumeKey
  BY <1>1 DEF VolumeKey
<1>2. CASE AbSelect
  BY <1>2 DEF AbSelect
<1>3. CASE AbSelectFails
  BY <1>3 DEF AbSelectFails
<1>4. CASE BcbLoad
  BY <1>4 DEF BcbLoad
<1>5. CASE BcbTest
  BY <1>5 DEF BcbTest
<1>6. CASE AvbVerify
  BY <1>6 DEF AvbVerify
<1>7. CASE Start
  BY <1>7 DEF Start
<1>8. CASE FastbootFails
  BY <1>8 DEF FastbootFails
<1>9. CASE FastbootContinue
  BY <1>9 DEF FastbootContinue
<1>10. CASE FlashImage \/ EraseMisc \/ RebootFastboot \/ FastbootReboot
              \/ FastbootdFlash
  BY <1>10 DEF FlashImage, EraseMisc, RebootFastboot, FastbootReboot,
       FastbootdFlash
<1>11. CASE MarkBootSuccessful
  BY <1>11 DEF MarkBootSuccessful
<1>12. CASE Reboot
  BY <1>12 DEF Reboot
<1>13. CASE Cut
  BY <1>13 DEF Cut
<1>14. CASE UNCHANGED vars
  BY <1>14 DEF vars
<1>15. CASE BcbLoadFails
  BY <1>15 DEF BcbLoadFails
<1> QED
  BY <1>1, <1>2, <1>3, <1>4, <1>5, <1>6, <1>7, <1>8, <1>9, <1>10, <1>11,
     <1>12, <1>13, <1>14, <1>15 DEF Next, Script

\* The request of the fallback is stored until it is remembered, and no slot's
\* attempts change between the selection and the start.
LEMMA FallbackPreserved ==
  TypeOK /\ RequestInv /\ FallbackInv /\ [Next]_vars => FallbackInv'
<1> SUFFICES ASSUME TypeOK, RequestInv, FallbackInv, [Next]_vars
             PROVE  FallbackInv'
  OBVIOUS
<1> USE DEF TypeOK, FallbackInv, Bootable, Command, miscVars, envVars, Goto,
            EnterFastboot, PowerOn,
            MiscFails, MiscWorks, RequestFastbootd
<1>f. UNCHANGED fastbootWorks
  BY DEF Next, vars
<1>1. CASE VolumeKey
  BY <1>1, <1>f DEF VolumeKey
<1>2. CASE AbSelect
  BY <1>2, <1>f, BootAssumption DEF AbSelect
<1>3. CASE AbSelectFails
  BY <1>3, <1>f DEF AbSelectFails
<1>4. CASE BcbLoad
  BY <1>4, <1>f DEF BcbLoad
<1>5. CASE BcbTest
  BY <1>5, <1>f DEF BcbTest, RequestInv
<1>6. CASE AvbVerify
  BY <1>6, <1>f DEF AvbVerify
<1>7. CASE Start
  BY <1>7, <1>f DEF Start
<1>8. CASE FastbootFails
  BY <1>8, <1>f DEF FastbootFails
<1>9. CASE FastbootContinue
  BY <1>9, <1>f DEF FastbootContinue
<1>10. CASE FlashImage \/ EraseMisc \/ RebootFastboot \/ FastbootReboot
              \/ FastbootdFlash
  BY <1>10, <1>f DEF FlashImage, EraseMisc, RebootFastboot, FastbootReboot,
       FastbootdFlash
<1>11. CASE MarkBootSuccessful
  BY <1>11, <1>f DEF MarkBootSuccessful
<1>12. CASE Reboot
  BY <1>12, <1>f DEF Reboot
<1>13. CASE Cut
  BY <1>13, <1>f DEF Cut
<1>14. CASE UNCHANGED vars
  BY <1>14, <1>f DEF vars
<1>15. CASE BcbLoadFails
  BY <1>15, <1>f DEF BcbLoadFails
<1> QED
  BY <1>1, <1>2, <1>3, <1>4, <1>5, <1>6, <1>7, <1>8, <1>9, <1>10, <1>11,
     <1>12, <1>13, <1>14, <1>15 DEF Next, Script

\* Only a slot that verified gets past bootcmd_avb, and nothing damages it
\* before it is started.
LEMMA VerifiedPreserved ==
  TypeOK /\ VerifiedInv /\ [Next]_vars => VerifiedInv'
<1> SUFFICES ASSUME TypeOK, VerifiedInv, [Next]_vars,
                    pc' = "start", ~androidrecovery'
             PROVE  slot_name' \in good'
  BY DEF VerifiedInv
<1> USE DEF TypeOK, VerifiedInv, miscVars, envVars, Goto, EnterFastboot, PowerOn,
            MiscFails, MiscWorks, RequestFastbootd
<1>1. CASE AvbVerify
  BY <1>1 DEF AvbVerify
<1>2. CASE UNCHANGED vars
  BY <1>2 DEF vars
<1>3. ~BcbTest
  BY DEF BcbTest
<1>4. ~(VolumeKey \/ AbSelect \/ AbSelectFails \/ BcbLoad \/ BcbLoadFails \/ Start)
  BY DEF VolumeKey, AbSelect, AbSelectFails, BcbLoad, BcbLoadFails, Start
<1>5. ~(FastbootFails \/ FastbootContinue \/ FlashImage \/ EraseMisc
        \/ RebootFastboot \/ FastbootReboot \/ FastbootdFlash \/ MarkBootSuccessful)
  BY DEF FastbootFails, FastbootContinue, FlashImage, EraseMisc, RebootFastboot,
       FastbootReboot, FastbootdFlash, MarkBootSuccessful
<1>6. ~(Reboot \/ Cut)
  BY DEF Reboot, Cut
<1> QED
  BY <1>1, <1>2, <1>3, <1>4, <1>5, <1>6 DEF Next, Script

THEOREM Invariance == Spec => []IndInv
<1>1. IndInv /\ [Next]_vars => IndInv'
  BY TypesPreserved, RequestsPreserved, FallbackPreserved, VerifiedPreserved
     DEF IndInv
<1> QED
  BY Initially, <1>1, PTL DEF Spec

\* The state of the boot script and of the misc partition stays in its types.
THEOREM TypeCorrect == Spec => []TypeOK
<1>1. IndInv => TypeOK
  BY DEF IndInv
<1> QED
  BY Invariance, <1>1, PTL

\* The one way from a step before the operating system into it is Start.
LEMMA OnlyStart ==
  ASSUME TypeOK, [Next]_vars, pc # "os", pc' = "os"
  PROVE  pc = "start" /\ UNCHANGED envVars /\ UNCHANGED <<command, good>>
<1> USE DEF TypeOK, miscVars, envVars, Goto, EnterFastboot, PowerOn,
            MiscFails, MiscWorks, RequestFastbootd
<1>1. CASE Start
  BY <1>1 DEF Start
<1>2. ~(VolumeKey \/ AbSelect \/ AbSelectFails \/ BcbLoad \/ BcbLoadFails \/ BcbTest \/ AvbVerify)
  BY DEF VolumeKey, AbSelect, AbSelectFails, BcbLoad, BcbLoadFails, BcbTest, AvbVerify
<1>3. ~(FastbootFails \/ FastbootContinue \/ FlashImage \/ EraseMisc
        \/ RebootFastboot \/ FastbootReboot \/ FastbootdFlash \/ MarkBootSuccessful)
  BY DEF FastbootFails, FastbootContinue, FlashImage, EraseMisc, RebootFastboot,
       FastbootReboot, FastbootdFlash, MarkBootSuccessful
<1>4. ~(Reboot \/ Cut \/ UNCHANGED vars)
  BY DEF Reboot, Cut, vars
<1> QED
  BY <1>1, <1>2, <1>3, <1>4 DEF Next, Script

\* The BCB leads to fastboot only if somebody asked for the bootloader since
\* it last did.
THEOREM ServedOnce == Spec => BootonceIsOnce
<1>1. IndInv => (command = "bootonce-bootloader" => asked)
  BY DEF IndInv, RequestInv
<1> QED
  BY Invariance, <1>1, PTL DEF BootonceIsOnce

\* Android is not started normally while a request for recovery or fastbootd
\* is stored, unless the boot had trouble with misc.
THEOREM Honoured == Spec => RecoveryHonoured
<1>1. IndInv /\ [Next]_vars
        => (pc # "os" /\ pc' = "os" /\ command \in {"boot-fastboot", "boot-recovery"}
              => androidrecovery \/ miscFailed)
  BY OnlyStart DEF IndInv, RequestInv
<1> QED
  BY Invariance, <1>1, PTL DEF RecoveryHonoured, Spec

\* A normal boot starts only a slot that was verified.
THEOREM Verified == Spec => NormalBootVerified
<1>1. IndInv /\ [Next]_vars
        => (pc # "os" /\ pc' = "os" /\ ~androidrecovery => slot_name \in good)
  BY OnlyStart DEF IndInv, VerifiedInv
<1> QED
  BY Invariance, <1>1, PTL DEF NormalBootVerified, Spec

\* A failed fastboot leads to fastbootd unless no slot is left to start it from
\* or the boot had trouble with misc.
THEOREM FallsBack == Spec => []FallbackReachesFastbootd
<1>1. IndInv => FallbackReachesFastbootd
  BY DEF IndInv, FallbackInv, FallbackReachesFastbootd
<1> QED
  BY Invariance, <1>1, PTL

-----------------------------------------------------------------------------
(* The BCB.                                                                *)

\* Once the block has been read without trouble, the tests see what is in it,
\* and Android starts normally only if nothing for recovery is.
LEMMA ReadMeansServed ==
  ASSUME IndInv, ~miscFailed
  PROVE  /\ pc = "tests" \/ (pc = "fastboot" /\ returnTo = "tests") => bcb = command
         /\ pc \in {"verify", "start"} /\ command \in {"boot-fastboot", "boot-recovery"}
              => androidrecovery
BY DEF IndInv, RequestInv

\* The block loses what BcbLoad serves, and nothing puts it back before Android.
NothingOwed ==
  /\ pc = "fastboot" /\ returnTo = "tests" => command # "bootonce-bootloader"
  /\ pc \in {"tests", "verify", "start"} /\ ~miscFailed
       => command # "bootonce-bootloader"

\* The script and Android implement the mailbox: a request for the bootloader
\* is served once, one for recovery is never skipped, and a boot that has trouble
\* with misc leaves either for the next.
THEOREM ImplementsMailbox == Spec => BcbSpec
<1> USE DEF TypeOK, miscVars, envVars, Goto, EnterFastboot, PowerOn,
            MiscFails, MiscWorks, RequestFastbootd, Mailbox!Bootloader
<1>1. Init => NothingOwed /\ Mailbox!Init
  BY DEF Init, NothingOwed, Mailbox!Init
<1>2. ASSUME IndInv, NothingOwed, [Next]_vars
      PROVE  NothingOwed' /\ [Mailbox!Next]_(Mailbox!vars)
  <2> USE DEF IndInv, NothingOwed, Mailbox!Next, Mailbox!vars
  <2>1. CASE VolumeKey
    BY <1>2, <2>1 DEF VolumeKey, Mailbox!EnterFastboot
  <2>2. CASE AbSelect
    BY <1>2, <2>2 DEF AbSelect
  <2>3. CASE AbSelectFails
    BY <1>2, <2>3 DEF AbSelectFails, Mailbox!EnterFastboot, Mailbox!Fail
  <2>4. CASE BcbLoad
    BY <1>2, <2>4 DEF BcbLoad, Mailbox!Read, Mailbox!Serve
  <2>5. CASE BcbTest
    BY <1>2, <2>5 DEF BcbTest
  <2>6. CASE AvbVerify
    BY <1>2, <2>6 DEF AvbVerify, Mailbox!Reset, Mailbox!NewBoot
  <2>7. CASE Start
    BY <1>2, <2>7, ReadMeansServed
       DEF Start, Command, Mailbox!Reset, Mailbox!NewBoot, Mailbox!StartAndroid, Mailbox!StartRecovery
  <2>8. CASE FastbootFails
    BY <1>2, <2>8 DEF FastbootFails, Mailbox!Replace, Mailbox!Fail
  <2>9. CASE FastbootContinue
    BY <1>2, <2>9 DEF FastbootContinue, Mailbox!LeaveFastboot
  <2>10. CASE EraseMisc
    BY <1>2, <2>10 DEF EraseMisc, Mailbox!Erase
  <2>11. CASE MarkBootSuccessful
    BY <1>2, <2>11 DEF MarkBootSuccessful
  <2>12. CASE Reboot
    BY <1>2, <2>12 DEF Reboot, Command, Mailbox!Requests, Mailbox!Post,
         Mailbox!NewBoot
  <2>13. CASE Cut
    BY <1>2, <2>13 DEF Cut, Mailbox!Reset, Mailbox!NewBoot
  <2>14. CASE UNCHANGED vars
    BY <1>2, <2>14 DEF vars
  <2>15. CASE BcbLoadFails
    BY <1>2, <2>15 DEF BcbLoadFails, Mailbox!Fail
  <2>16. CASE RebootFastboot
    BY <1>2, <2>16 DEF RebootFastboot, Mailbox!RebootFastboot, Mailbox!NewBoot,
         Mailbox!Fail
  <2>17. CASE FlashImage \/ FastbootReboot \/ FastbootdFlash
    BY <1>2, <2>17 DEF FlashImage, FastbootReboot, FastbootdFlash, Mailbox!Reset,
         Mailbox!NewBoot
  <2> QED
    BY <1>2, <2>1, <2>2, <2>3, <2>4, <2>5, <2>6, <2>7, <2>8, <2>9, <2>10, <2>11,
       <2>12, <2>13, <2>14, <2>15, <2>16, <2>17 DEF Next, Script
<1> QED
  BY Invariance, <1>1, <1>2, PTL DEF Spec, BcbSpec, Mailbox!Spec
=============================================================================
