---------------------------- MODULE LightsProofs ----------------------------
(***************************************************************************)
(* Proofs about Lights, for any colors and any number of brightness steps. *)
(***************************************************************************)
EXTENDS Lights, TLAPS

\* The channels are bytes.
LEMMA Channels ==
  ASSUME NEW color \in Nat
  PROVE  Red(color) \in 0..255 /\ Green(color) \in 0..255 /\ Blue(color) \in 0..255
<1>1. color \div 65536 \in Nat /\ color \div 256 \in Nat
  BY SMT
<1>2. \A n \in Nat : n % 256 \in 0..255
  OBVIOUS
<1>3. QED BY <1>1, <1>2, SMT DEF Red, Green, Blue

\* The colors that rgbToBrightness() turns into nothing.
LEMMA DimVanishes ==
  ASSUME NEW color \in Nat
  PROVE  rgbToBrightness(color) = 0 <=> Dim(color)
<1>1. Red(color) \in 0..255 /\ Green(color) \in 0..255 /\ Blue(color) \in 0..255
  BY Channels
<1> DEFINE r == (Red(color) * 77) \div 255
           g == (Green(color) * 150) \div 255
           b == (Blue(color) * 29) \div 255
<1>2. r \in Nat /\ (r = 0 <=> Red(color) < 4)
  BY <1>1
<1>3. g \in Nat /\ (g = 0 <=> Green(color) < 2)
  BY <1>1
<1>4. b \in Nat /\ (b = 0 <=> Blue(color) < 9)
  BY <1>1
<1>5. rgbToBrightness(color) = r * 65536 + g * 256 + b
  BY SMT DEF rgbToBrightness
<1> HIDE DEF r, g, b
<1>6. r * 65536 + g * 256 + b = 0 <=> r = 0 /\ g = 0 /\ b = 0
  BY <1>2, <1>3, <1>4, SMT
<1>7. QED BY <1>2, <1>3, <1>4, <1>5, <1>6, SMT DEF Dim

\* A product divided by 100 grows with its factor.
LEMMA Scaled ==
  ASSUME NEW m \in Nat, NEW p \in Nat, NEW q \in Nat, p <= q
  PROVE  m * p \in Nat /\ (m * p) \div 100 \in Nat /\ (m * p) \div 100 <= (m * q) \div 100
<1>1. m * p \in Nat /\ m * q \in Nat /\ m * p <= m * q
  <2>1. PICK d \in Nat : q = p + d
    <3>1. q - p \in Nat /\ q = p + (q - p)
      OBVIOUS
    <3>2. QED BY <3>1
  <2>2. m * q = m * p + m * d
    BY <2>1
  <2>3. m * p \in Nat /\ m * d \in Nat
    BY <2>1
  <2>4. QED BY <2>2, <2>3
<1>2. \A x, y \in Nat : x <= y => x \div 100 \in Nat /\ x \div 100 <= y \div 100
  OBVIOUS
<1>3. QED BY <1>1, <1>2

\* convertBrightness() stays within the steps of the backlight, and a higher
\* level never gives a lower step.
LEMMA BrightnessGrows ==
  ASSUME NEW max \in Nat, NEW c \in Nat, NEW d \in Nat, Blue(c) <= Blue(d)
  PROVE  /\ convertBrightness(max, c) \in 0..max
         /\ convertBrightness(max, c) <= convertBrightness(max, d)
<1> DEFINE p == (Blue(c) * 100) \div 255
           q == (Blue(d) * 100) \div 255
<1>1. Blue(c) \in 0..255 /\ Blue(d) \in 0..255
  BY Channels
<1>2. p \in Nat /\ q \in Nat /\ p <= q /\ q <= 100
  <2>1. \A x, y \in 0..255 : x <= y =>
          /\ (x * 100) \div 255 \in Nat /\ (y * 100) \div 255 \in Nat
          /\ (x * 100) \div 255 <= (y * 100) \div 255 /\ (y * 100) \div 255 <= 100
    BY SMT
  <2> DEFINE x == Blue(c) y == Blue(d)
  <2>2. x \in 0..255 /\ y \in 0..255 /\ x <= y
    BY <1>1
  <2> HIDE DEF x, y
  <2>3. /\ (x * 100) \div 255 \in Nat /\ (y * 100) \div 255 \in Nat
        /\ (x * 100) \div 255 <= (y * 100) \div 255 /\ (y * 100) \div 255 <= 100
    BY <2>1, <2>2
  <2>4. QED BY <2>3 DEF p, q, x, y
<1>3. convertBrightness(max, c) = (max * p) \div 100 /\ convertBrightness(max, d) = (max * q) \div 100
  BY DEF convertBrightness
<1> HIDE DEF p, q
<1>4. (max * p) \div 100 \in Nat /\ (max * p) \div 100 <= (max * q) \div 100
  BY <1>2, Scaled
<1>5. (max * p) \div 100 <= (max * 100) \div 100
  BY <1>2, Scaled
<1>6. (max * 100) \div 100 = max
  OBVIOUS
<1>7. QED BY <1>3, <1>4, <1>5, <1>6

\* In particular it stays within them.
LEMMA BrightnessBounded ==
  ASSUME NEW max \in Nat, NEW c \in Nat
  PROVE  convertBrightness(max, c) \in 0..max
<1>1. Blue(c) <= Blue(c)
  <2>1. Blue(c) \in 0..255
    BY Channels
  <2>2. QED BY <2>1
<1>2. QED BY <1>1, BrightnessGrows

\* Three steps of 255 are one of a hundred.
LEMMA BrightnessShows ==
  ASSUME NEW max \in Nat, max >= 100, NEW c \in Nat, Blue(c) >= 3
  PROVE  convertBrightness(max, c) > 0
<1> DEFINE p == (Blue(c) * 100) \div 255
<1>1. p \in Nat /\ 1 <= p
  <2>1. Blue(c) \in 0..255
    BY Channels
  <2>2. QED BY <2>1
<1>2. convertBrightness(max, c) = (max * p) \div 100
  BY DEF convertBrightness
<1> HIDE DEF p
<1>3. (max * 1) \div 100 <= (max * p) \div 100 /\ (max * p) \div 100 \in Nat
  BY <1>1, Scaled
<1>4. (max * 1) \div 100 >= 1
  OBVIOUS
<1>5. QED BY <1>2, <1>3, <1>4

-----------------------------------------------------------------------------
\* The types of all variables; the backlight is never set beyond its last step.
THEOREM TypeCorrect == Spec => []TypeOK
<1> USE LightsAssumption DEF LightsAssumption
<1>1. Init => TypeOK
  BY DEF Init, TypeOK
<1>2. ASSUME TypeOK, [Next]_vars PROVE TypeOK'
  <2> USE <1>2 DEF TypeOK, Write, Files
  <2>1. ASSUME NEW light \in Shown, NEW color \in Colors, Ask(light, color)
        PROVE  asked' \in [Shown -> Colors \cup {0}]
    BY <2>1 DEF Ask
  <2>2. ASSUME NEW color \in Colors, SetBattery(color) PROVE TypeOK'
    <3>1. asked' \in [Shown -> Colors \cup {0}] /\ Bit(Red(color)) \in 0..1
      BY <2>1, <2>2 DEF SetBattery, Bit, Shown
    <3>2. QED BY <2>2, <3>1 DEF SetBattery
  <2>3. CASE WriteGreen
    <3>1. Bit(Green(asked["BATTERY"])) \in 0..1
      BY DEF Bit
    <3>2. QED BY <2>3, <3>1 DEF WriteGreen
  <2>4. ASSUME NEW light \in LightType, NEW color \in Colors, SetBlue(light, color)
        PROVE  TypeOK'
    <3>1. light \in Shown
      BY <2>4 DEF SetBlue, Shown
    <3>2. asked' \in [Shown -> Colors \cup {0}]
      BY <2>1, <2>4, <3>1 DEF SetBlue
    <3>3. (IF rgbToBrightness(color) # 0 THEN 1 ELSE 0) \in 0..1
      OBVIOUS
    <3>4. QED BY <2>4, <3>2, <3>3 DEF SetBlue
  <2>5. ASSUME NEW color \in Colors, SetBacklight(color) PROVE TypeOK'
    <3>1. convertBrightness(SYS_MAX_BRIGHTNESS, color) \in 0..MaxBrightness
      BY BrightnessBounded
    <3>2. asked' \in [Shown -> Colors \cup {0}]
      BY <2>1, <2>5 DEF SetBacklight, Shown
    <3>3. QED BY <2>5, <3>1, <3>2 DEF SetBacklight
  <2>6. CASE Die \/ Start
    BY <2>6 DEF Die, Start, files
  <2>7. CASE UNCHANGED vars
    BY <2>7 DEF vars, files
  <2>8. QED BY <2>2, <2>3, <2>4, <2>5, <2>6, <2>7 DEF Next, setLightState
<1>3. QED BY <1>1, <1>2, PTL DEF Spec

\* The LEDs, also while the second one of BATTERY is not written yet.
LedInv ==
  /\ "red" \notin stale => red = Bit(Red(asked["BATTERY"]))
  /\ "green" \notin stale /\ pc # "green" => green = Bit(Green(asked["BATTERY"]))
  /\ "blue" \notin stale =>
       \E l \in {"NOTIFICATIONS", "ATTENTION"} : blue = 0 <=> Dim(asked[l])

\* The LEDs show what their lights were asked for, whatever failed, died or
\* restarted.
THEOREM LedsRight == Spec => []LedsAccounted
<1> USE LightsAssumption DEF LightsAssumption
<1>1. Init => LedInv
  <2>1. Red(0) = 0 /\ Green(0) = 0 /\ Blue(0) = 0
    BY SMT DEF Red, Green, Blue
  <2>2. QED BY <2>1 DEF Init, LedInv, Shown, Bit, Dim
<1>2. ASSUME TypeOK, LedInv, [Next]_vars PROVE LedInv'
  <2> USE <1>2 DEF LedInv, Write
  <2>1. ASSUME NEW light \in Shown, NEW color \in Colors, Ask(light, color)
        PROVE  \A l \in Shown : asked'[l] = IF l = light THEN color ELSE asked[l]
    BY <2>1 DEF Ask, TypeOK
  <2>2. ASSUME NEW color \in Colors, SetBattery(color) PROVE LedInv'
    <3>1. /\ asked'["BATTERY"] = color
          /\ \A l \in {"NOTIFICATIONS", "ATTENTION"} : asked'[l] = asked[l]
      BY <2>1, <2>2 DEF SetBattery, Shown
    <3>2. "blue" \in stale' <=> "blue" \in stale
      BY <2>2 DEF SetBattery, TypeOK
    <3>3. QED BY <2>2, <3>1, <3>2 DEF SetBattery
  <2>3. CASE WriteGreen
    BY <2>3 DEF WriteGreen
  <2>4. ASSUME NEW light \in LightType, NEW color \in Colors, SetBlue(light, color)
        PROVE  LedInv'
    <3>1. light \in {"NOTIFICATIONS", "ATTENTION"}
      BY <2>4 DEF SetBlue
    <3>2. asked'[light] = color /\ asked'["BATTERY"] = asked["BATTERY"]
      BY <2>1, <2>4, <3>1 DEF SetBlue, Shown
    <3>3. rgbToBrightness(color) = 0 <=> Dim(color)
      BY DimVanishes
    <3>4. "blue" \notin stale' => (blue' = 0 <=> Dim(asked'[light]))
      BY <2>4, <3>2, <3>3 DEF SetBlue
    <3>5. /\ "red" \in stale' <=> "red" \in stale
          /\ "green" \in stale' <=> "green" \in stale
          /\ UNCHANGED <<red, green, pc>>
      BY <2>4 DEF SetBlue
    <3>6. QED BY <3>1, <3>2, <3>4, <3>5
  <2>5. ASSUME NEW color \in Colors, SetBacklight(color) PROVE LedInv'
    <3>1. \A l \in {"BATTERY", "NOTIFICATIONS", "ATTENTION"} : asked'[l] = asked[l]
      BY <2>1, <2>5 DEF SetBacklight, Shown
    <3>2. \A f \in {"red", "green", "blue"} : f \in stale' <=> f \in stale
      BY <2>5 DEF SetBacklight
    <3>3. QED BY <2>5, <3>1, <3>2 DEF SetBacklight
  <2>6. CASE Die \/ Start
    BY <2>6 DEF Die, Start, files
  <2>7. CASE UNCHANGED vars
    BY <2>7 DEF vars, files
  <2>8. QED BY <2>2, <2>3, <2>4, <2>5, <2>6, <2>7 DEF Next, setLightState
<1>3. LedInv => LedsAccounted
  BY DEF LedInv, LedsAccounted
<1>4. QED BY <1>1, <1>2, <1>3, TypeCorrect, PTL DEF Spec

-----------------------------------------------------------------------------
\* The backlight is at most as bright as it was asked to be.
LcdInv == "lcd" \notin stale => lcd <= convertBrightness(MaxBrightness, asked["BACKLIGHT"])

\* A request for a brighter screen does not darken it.
THEOREM Monotone == Spec => NeverDarker
<1> USE LightsAssumption DEF LightsAssumption
<1>1. Init => LcdInv
  <2>1. convertBrightness(MaxBrightness, 0) \in 0..MaxBrightness
    BY BrightnessBounded
  <2>2. QED BY <2>1 DEF Init, LcdInv, Shown
<1>2. ASSUME TypeOK, LcdInv, [Next]_vars
      PROVE  /\ LcdInv'
             /\ Blue(asked'["BACKLIGHT"]) >= Blue(asked["BACKLIGHT"])
                  /\ "lcd" \notin stale /\ SYS_MAX_BRIGHTNESS # 0 => lcd' >= lcd
  <2>1. CASE \E color \in Colors : SetBacklight(color)
    <3>1. PICK color \in Colors : SetBacklight(color)
      BY <2>1
    <3>2. asked'["BACKLIGHT"] = color /\ asked["BACKLIGHT"] \in Nat /\ color \in Nat
      <4>1. asked \in [Shown -> Colors \cup {0}] /\ "BACKLIGHT" \in Shown
        BY <1>2 DEF TypeOK, Shown
      <4>2. asked' = [asked EXCEPT !["BACKLIGHT"] = color]
        BY <3>1 DEF SetBacklight, Ask
      <4>3. color \in Nat /\ 0 \in Nat
        OBVIOUS
      <4>4. QED BY <4>1, <4>2, <4>3
    <3> DEFINE new == convertBrightness(SYS_MAX_BRIGHTNESS, color)
               best == convertBrightness(MaxBrightness, color)
               old == convertBrightness(MaxBrightness, asked["BACKLIGHT"])
    <3>3. best \in 0..MaxBrightness /\ new \in 0..MaxBrightness /\ old \in 0..MaxBrightness
          /\ new \in 0..SYS_MAX_BRIGHTNESS
      <4>1. SYS_MAX_BRIGHTNESS \in {0, MaxBrightness} /\ MaxBrightness \in Nat /\ 0 \in Nat
        BY <1>2 DEF TypeOK
      <4>2. best \in 0..MaxBrightness /\ old \in 0..MaxBrightness /\ new \in 0..SYS_MAX_BRIGHTNESS
        BY <3>2, <4>1, BrightnessBounded
      <4>3. QED BY <4>1, <4>2
    <3>4. Blue(color) >= Blue(asked["BACKLIGHT"]) => old <= best
      BY <3>2, Channels, BrightnessGrows
    <3>5. /\ SYS_MAX_BRIGHTNESS = 0 => new = 0
          /\ SYS_MAX_BRIGHTNESS # 0 => new = best
      BY <1>2, <3>3 DEF TypeOK
    <3>6. /\ lcd' = new \/ lcd' = lcd
          /\ "lcd" \notin stale' => lcd' = new
          /\ lcd \in 0..MaxBrightness
      BY <1>2, <3>1 DEF SetBacklight, Write, TypeOK
    <3> HIDE DEF new, best, old
    <3>7. "lcd" \notin stale' => lcd' <= best
      BY <3>3, <3>5, <3>6
    <3>8. Blue(color) >= Blue(asked["BACKLIGHT"]) /\ "lcd" \notin stale /\ SYS_MAX_BRIGHTNESS # 0
            => lcd' >= lcd
      <4>1. "lcd" \notin stale => lcd <= old
        BY <1>2 DEF LcdInv, old
      <4>2. QED BY <3>3, <3>4, <3>5, <3>6, <4>1
    <3>9. QED BY <3>2, <3>7, <3>8 DEF LcdInv, best
  <2>2. CASE ~\E color \in Colors : SetBacklight(color)
    <3>1. /\ lcd' = lcd /\ asked'["BACKLIGHT"] = asked["BACKLIGHT"]
          /\ "lcd" \in stale' <=> "lcd" \in stale
      <4>1. CASE \E color \in Colors : SetBattery(color)
        BY <1>2, <4>1 DEF SetBattery, Ask, Write, TypeOK, Shown
      <4>2. CASE \E light \in LightType, color \in Colors : SetBlue(light, color)
        BY <1>2, <4>2 DEF SetBlue, Ask, Write, TypeOK, Shown
      <4>3. CASE WriteGreen \/ Die \/ Start
        BY <4>3 DEF WriteGreen, Write, Die, Start, files
      <4>4. CASE UNCHANGED vars
        BY <4>4 DEF vars, files
      <4>5. QED BY <1>2, <2>2, <4>1, <4>2, <4>3, <4>4 DEF Next, setLightState
    <3>2. LcdInv'
      BY <1>2, <3>1 DEF LcdInv
    <3>3. lcd \in Int
      BY <1>2 DEF TypeOK
    <3>4. QED BY <3>1, <3>2, <3>3
  <2>3. QED BY <2>1, <2>2
<1>3. QED BY <1>1, <1>2, TypeCorrect, PTL DEF Spec, NeverDarker

\* A screen asked for three steps or more is lit.
THEOREM Lit == Spec => ScreenLit
<1> USE LightsAssumption DEF LightsAssumption
<1>1. ASSUME TypeOK, [Next]_vars
      PROVE  lcd' # lcd /\ Blue(asked'["BACKLIGHT"]) >= 3 /\ MaxBrightness >= 100
               => lcd' > 0 \/ SYS_MAX_BRIGHTNESS = 0
  <2>1. ASSUME lcd' # lcd PROVE \E color \in Colors : SetBacklight(color)
    BY <1>1, <2>1 DEF Next, setLightState, SetBattery, SetBlue, WriteGreen, Die, Start, vars, files
  <2>2. ASSUME NEW color \in Colors, SetBacklight(color), lcd' # lcd,
               Blue(asked'["BACKLIGHT"]) >= 3, MaxBrightness >= 100, SYS_MAX_BRIGHTNESS # 0
        PROVE  lcd' > 0
    <3>1. /\ asked'["BACKLIGHT"] = color /\ color \in Nat
          /\ lcd' = convertBrightness(SYS_MAX_BRIGHTNESS, color)
          /\ SYS_MAX_BRIGHTNESS = MaxBrightness
      BY <1>1, <2>2 DEF SetBacklight, Ask, Write, TypeOK, Shown
    <3>2. QED BY <2>2, <3>1, BrightnessShows
  <2>3. QED BY <2>1, <2>2
<1>2. QED BY <1>1, TypeCorrect, PTL DEF Spec, ScreenLit
=============================================================================
