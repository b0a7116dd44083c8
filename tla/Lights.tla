------------------------------- MODULE Lights -------------------------------
(***************************************************************************)
(* The lights HAL of the PinePhone: eight lights of the framework on three *)
(* LEDs, each a sysfs file that is on or off, and the backlight.  BATTERY  *)
(* has the red and the green LED, NOTIFICATIONS and ATTENTION share the    *)
(* blue one; the other lights have nothing to show.                        *)
(*                                                                         *)
(* The service has one thread.  A write that fails is only logged, and the *)
(* files outlive the service.  The alpha of a color is never looked at.    *)
(***************************************************************************)
EXTENDS Integers

CONSTANTS Colors,       \* colors of the requests, 0xRRGGBB
          MaxBrightness \* what max_brightness of the backlight reads

\* SYS_MAX_BRIGHTNESS * 100 is an int, which no backlight's steps overflow.
ASSUME LightsAssumption == Colors \subseteq Nat /\ MaxBrightness \in Nat \ {0}

VARIABLES
  red, green, blue, lcd, \* the brightness files
  SYS_MAX_BRIGHTNESS,
  pc,    \* "serve"; "green": BATTERY has written red only; "start": in main()
  asked, \* history: the color each light was last asked for
  stale  \* history: the files whose last write did not happen

files == <<red, green, blue, lcd>>
vars == <<files, SYS_MAX_BRIGHTNESS, pc, asked, stale>>

LightType == {"BACKLIGHT", "KEYBOARD", "BUTTONS", "BATTERY", "NOTIFICATIONS", "ATTENTION",
              "BLUETOOTH", "WIFI"}
Shown == {"BACKLIGHT", "BATTERY", "NOTIFICATIONS", "ATTENTION"}
Files == {"red", "green", "blue", "lcd"}

Red(color) == (color \div 65536) % 256
Green(color) == (color \div 256) % 256
Blue(color) == color % 256

TypeOK ==
  /\ red \in 0..1 /\ green \in 0..1 /\ blue \in 0..1
  /\ lcd \in 0..MaxBrightness
  /\ SYS_MAX_BRIGHTNESS \in {0, MaxBrightness}
  /\ pc \in {"serve", "green", "start"}
  /\ asked \in [Shown -> Colors \cup {0}] /\ stale \in SUBSET Files

Init ==
  /\ red = 0 /\ green = 0 /\ blue = 0 /\ lcd = 0
  /\ SYS_MAX_BRIGHTNESS = 0 /\ pc = "start"
  /\ asked = [l \in Shown |-> 0] /\ stale = {}

-----------------------------------------------------------------------------
\* rgbToBrightness(): scaled to the LED's channels, small values vanish.
rgbToBrightness(color) ==
  ((Red(color) * 77) \div 255) * 65536 + ((Green(color) * 150) \div 255) * 256
    + (Blue(color) * 29) \div 255

\* Mutant: the result is kept in a byte.
ConvertToByte(max, color) == ((max * ((Blue(color) * 100) \div 255)) \div 100) % 256

\* Mutant: the level is taken for a percentage.
ConvertUnscaled(max, color) == (max * Blue(color)) \div 100

\* convertBrightness(), by way of a percentage.
convertBrightness(max, color) == (max * ((Blue(color) * 100) \div 255)) \div 100

\* The LEDs of BATTERY are lit by a channel above one half.
Bit(channel) == IF channel > 128 THEN 1 ELSE 0

\* The file has the value, or it could not be opened or written.
Write(name, file, value) ==
  \/ file' = value /\ stale' = stale \ {name}
  \/ file' = file /\ stale' = stale \cup {name}

Ask(light, color) == asked' = [asked EXCEPT ![light] = color]

\* setLightState() for BATTERY writes two files, one after the other.
SetBattery(color) ==
  /\ pc = "serve" /\ pc' = "green"
  /\ Ask("BATTERY", color)
  /\ Write("red", red, Bit(Red(color)))
  /\ UNCHANGED <<green, blue, lcd, SYS_MAX_BRIGHTNESS>>

WriteGreen ==
  /\ pc = "green" /\ pc' = "serve"
  /\ Write("green", green, Bit(Green(asked["BATTERY"])))
  /\ UNCHANGED <<red, blue, lcd, SYS_MAX_BRIGHTNESS, asked>>

\* Mutant: ATTENTION shows its blue channel only.
SetBlueChannel(light, color) ==
  /\ pc = "serve" /\ light \in {"NOTIFICATIONS", "ATTENTION"}
  /\ Ask(light, color)
  /\ Write("blue", blue, IF Blue(color) # 0 THEN 1 ELSE 0)
  /\ UNCHANGED <<red, green, lcd, SYS_MAX_BRIGHTNESS, pc>>

SetBlue(light, color) ==
  /\ pc = "serve" /\ light \in {"NOTIFICATIONS", "ATTENTION"}
  /\ Ask(light, color)
  /\ Write("blue", blue, IF rgbToBrightness(color) # 0 THEN 1 ELSE 0)
  /\ UNCHANGED <<red, green, lcd, SYS_MAX_BRIGHTNESS, pc>>

SetBacklight(color) ==
  /\ pc = "serve"
  /\ Ask("BACKLIGHT", color)
  /\ Write("lcd", lcd, convertBrightness(SYS_MAX_BRIGHTNESS, color))
  /\ UNCHANGED <<red, green, blue, SYS_MAX_BRIGHTNESS, pc>>

\* setLightState().  A light with nothing to show is accepted and ignored.
setLightState(light, color) ==
  \/ light = "BATTERY" /\ SetBattery(color)
  \/ SetBlue(light, color)
  \/ light = "BACKLIGHT" /\ SetBacklight(color)
  \/ light \notin Shown /\ pc = "serve" /\ UNCHANGED vars

\* The service dies, at worst between the two writes.
Die ==
  /\ pc # "start" /\ pc' = "start"
  /\ SYS_MAX_BRIGHTNESS' = 0
  /\ stale' = IF pc = "green" THEN stale \cup {"green"} ELSE stale
  /\ UNCHANGED <<files, asked>>

\* main(): serves even if max_brightness could not be read.
Start ==
  /\ pc = "start" /\ pc' = "serve"
  /\ SYS_MAX_BRIGHTNESS' \in {0, MaxBrightness}
  /\ UNCHANGED <<files, asked, stale>>

Next ==
  \/ \E light \in LightType, color \in Colors : setLightState(light, color)
  \/ WriteGreen \/ Die \/ Start

Spec == Init /\ [][Next]_vars

-----------------------------------------------------------------------------
Dim(color) == Red(color) < 4 /\ Green(color) < 2 /\ Blue(color) < 9

\* Between requests the LEDs can be accounted for, whatever failed or restarted:
\* red and green show the battery's last color, and the blue one, which two
\* lights write without regard to each other, is lit only if one of them asks
\* for a color and dark only if one of them does not.  A file whose write did
\* not happen is excused, and no other.
LedsAccounted ==
  pc # "green" =>
    /\ "red" \notin stale => red = Bit(Red(asked["BATTERY"]))
    /\ "green" \notin stale => green = Bit(Green(asked["BATTERY"]))
    /\ "blue" \notin stale =>
         \E l \in {"NOTIFICATIONS", "ATTENTION"} : blue = 0 <=> Dim(asked[l])

\* A screen that was asked for three steps of brightness or more is lit, if the
\* backlight has a hundred steps and the service knew them: the percentage takes
\* no more from it.
ScreenLit ==
  [][lcd' # lcd /\ Blue(asked'["BACKLIGHT"]) >= 3 /\ MaxBrightness >= 100
       => lcd' > 0 \/ SYS_MAX_BRIGHTNESS = 0]_vars

\* Unless a write failed, a request for a brighter screen never darkens it,
\* as long as the service knows the number of steps.
NeverDarker ==
  [][Blue(asked'["BACKLIGHT"]) >= Blue(asked["BACKLIGHT"])
     /\ "lcd" \notin stale /\ SYS_MAX_BRIGHTNESS # 0 => lcd' >= lcd]_vars
=============================================================================
