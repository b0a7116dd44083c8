------------------------- MODULE HwcDisplayProofs -------------------------
(***************************************************************************)
(* What is proved of HwcDisplay, for every number of layers and planes:    *)
(* the ranges ExtendClientRange() weighs are the right ones, a validated   *)
(* frame fits the planes, and the screen shows what the client asked for.  *)
(* The controller's thread loses no notification, and the controller keeps *)
(* what QuietPeriod promises.                                              *)
(***************************************************************************)
EXTENDS HwcDisplay, FiniteSetTheorems, SequenceTheorems, WellFoundedInduction, TLAPS

-----------------------------------------------------------------------------
(* Ranges of positions.                                                    *)

\* A set of positions that is not empty has a first one.
LEMMA FirstExists ==
  ASSUME NEW n \in Nat, NEW C \in SUBSET (1..n), C # {}
  PROVE  First(C) \in C /\ \A j \in C : First(C) <= j
<1> DEFINE T == {C \cap (1..i) : i \in C}
<1>1. T \subseteq FiniteSubsetsOf(Nat) /\ T # {}
  <2>1. IsFiniteSet(C)
    <3>1. IsFiniteSet(1..n)
      BY FS_Interval
    <3>2. QED BY <3>1, FS_Subset
  <2>2. \A i \in C : IsFiniteSet(C \cap (1..i))
    BY <2>1, FS_Intersection
  <2>3. \A i \in C : C \cap (1..i) \in SUBSET Nat
    OBVIOUS
  <2>4. QED BY <2>2, <2>3 DEF FiniteSubsetsOf
<1>2. PICK x \in T : \A y \in T : <<y, x>> \notin StrictSubsetOrdering(Nat)
  BY <1>1, FS_StrictSubsetOrderingWellFounded, WFMin
<1>3. PICK i \in C : x = C \cap (1..i)
  OBVIOUS
<1>4. \A j \in C : i <= j
  <2> SUFFICES ASSUME NEW j \in C, j < i PROVE FALSE
    OBVIOUS
  <2>1. C \cap (1..j) \in T /\ C \cap (1..j) \subseteq x /\ i \in x /\ i \notin C \cap (1..j)
    BY <1>3
  <2>2. C \cap (1..j) \subseteq Nat /\ x \subseteq Nat
    BY <1>3
  <2>3. QED BY <2>1, <2>2, <1>2 DEF StrictSubsetOrdering
<1>5. QED BY <1>4 DEF First

\* And a last one.
LEMMA LastExists ==
  ASSUME NEW n \in Nat, NEW C \in SUBSET (1..n), C # {}
  PROVE  Last(C) \in C /\ \A j \in C : j <= Last(C)
<1> DEFINE T == {C \cap (i..n) : i \in C}
<1>1. T \subseteq FiniteSubsetsOf(Nat) /\ T # {}
  <2>1. IsFiniteSet(C)
    <3>1. IsFiniteSet(1..n)
      BY FS_Interval
    <3>2. QED BY <3>1, FS_Subset
  <2>2. \A i \in C : IsFiniteSet(C \cap (i..n))
    BY <2>1, FS_Intersection
  <2>3. \A i \in C : C \cap (i..n) \in SUBSET Nat
    OBVIOUS
  <2>4. QED BY <2>2, <2>3 DEF FiniteSubsetsOf
<1>2. PICK x \in T : \A y \in T : <<y, x>> \notin StrictSubsetOrdering(Nat)
  BY <1>1, FS_StrictSubsetOrderingWellFounded, WFMin
<1>3. PICK i \in C : x = C \cap (i..n)
  OBVIOUS
<1>4. \A j \in C : j <= i
  <2> SUFFICES ASSUME NEW j \in C, i < j PROVE FALSE
    OBVIOUS
  <2>1. C \cap (j..n) \in T /\ C \cap (j..n) \subseteq x /\ i \in x /\ i \notin C \cap (j..n)
    BY <1>3
  <2>2. C \cap (j..n) \subseteq Nat /\ x \subseteq Nat
    BY <1>3
  <2>3. QED BY <2>1, <2>2, <1>2 DEF StrictSubsetOrdering
<1>5. QED BY <1>4 DEF Last

\* The sizes: the client range holds the client layers, and grows just so much
\* that the rest fits the planes beside the client target.
LEMMA Sizes ==
  ASSUME NEW n \in Nat, NEW C \in SUBSET (1..n)
  PROVE  LET size == ClientSize(C) big == ExtendedSize(n, size) IN
         /\ size \in 0..n /\ big \in size..n
         /\ size = 0 <=> C = {}
         /\ C # {} => First(C) + size - 1 = Last(C)
         /\ n - big + (IF big = 0 THEN 0 ELSE 1) <= Planes
<1> DEFINE size == ClientSize(C) big == ExtendedSize(n, size)
<1>1. /\ size \in 0..n /\ (size = 0 <=> C = {})
      /\ C # {} => First(C) + size - 1 = Last(C)
  <2>1. CASE C = {}
    BY <2>1 DEF ClientSize
  <2>2. CASE C # {}
    <3>1. First(C) \in 1..n /\ Last(C) \in 1..n /\ First(C) <= Last(C)
      BY <2>2, FirstExists, LastExists
    <3>2. size = Last(C) - First(C) + 1
      BY <2>2 DEF ClientSize
    <3> HIDE DEF size
    <3>3. size \in 0..n /\ size # 0
      BY <3>1, <3>2
    <3>4. First(C) + size - 1 = Last(C)
      BY <3>1, <3>2
    <3>5. size = 0 <=> C = {}
      BY <2>2, <3>3, Zenon
    <3>6. QED BY <3>3, <3>4, <3>5, Zenon
  <2>3. QED BY <2>1, <2>2
<1>2. ASSUME NEW k \in 0..n
      PROVE  LET m == ExtendedSize(n, k) IN
             m \in k..n /\ n - m + (IF m = 0 THEN 0 ELSE 1) <= Planes
  <2>1. /\ AvailPlanes(n) \in Nat
        /\ AvailPlanes(n) = IF Planes < n THEN Planes - 1 ELSE Planes
    BY DisplayAssumption DEF DisplayAssumption, AvailPlanes
  <2>2. CASE n - k - AvailPlanes(n) > 0
    <3>1. ExtendedSize(n, k) = n - AvailPlanes(n)
      BY <2>1, <2>2 DEF ExtendedSize, ExtraClient
    <3>2. QED BY <2>1, <2>2, <3>1, DisplayAssumption DEF DisplayAssumption
  <2>3. CASE n - k - AvailPlanes(n) <= 0
    <3>1. ExtendedSize(n, k) = k
      BY <2>1, <2>3 DEF ExtendedSize, ExtraClient
    <3>2. QED BY <2>1, <2>3, <3>1, DisplayAssumption DEF DisplayAssumption
  <2>4. QED BY <2>1, <2>2, <2>3
<1>3. big \in size..n /\ n - big + (IF big = 0 THEN 0 ELSE 1) <= Planes
  BY <1>1, <1>2
<1>4. QED BY <1>1, <1>3

\* ExtendClientRange() weighs every range that holds the client layers, of the
\* size that fits, and no other.
LEMMA RangesOfClients ==
  ASSUME NEW n \in Nat, NEW C \in SUBSET (1..n), C # {},
         NEW size, size = ExtendedSize(n, ClientSize(C))
  PROVE  ClientRanges(n, C) =
           {r \in {s..s + size - 1 : s \in 1..n} : C \subseteq r /\ r \subseteq 1..n}
<1> DEFINE a == First(C) b == Last(C) small == ClientSize(C)
           extra == ExtraClient(n, small)
<1>1. /\ a \in C /\ b \in C /\ \A j \in C : a <= j /\ j <= b
      /\ a \in 1..n /\ b \in 1..n /\ small \in 1..n /\ size \in small..n
      /\ a + small - 1 = b
  <2>1. a \in C /\ b \in C /\ \A j \in C : a <= j /\ j <= b
    BY FirstExists, LastExists
  <2>2. small \in 1..n /\ size \in small..n /\ a + small - 1 = b
    <3>1. /\ small \in 0..n /\ size \in small..n
          /\ (small = 0 <=> C = {})
          /\ C # {} => a + small - 1 = b
      BY Sizes
    <3>2. small # 0 /\ a + small - 1 = b
      BY <3>1, Zenon
    <3> HIDE DEF small, a, b
    <3>3. QED BY <3>1, <3>2
  <2>3. QED BY <2>1, <2>2
<1>2. size = IF extra > 0 THEN small + extra ELSE small
  BY DEF ExtendedSize
<1>3. extra \in Int
  BY <1>1, DisplayAssumption DEF ExtraClient, AvailPlanes
<1>4. ASSUME NEW s \in Int
      PROVE  s \in ExtendedStarts(n, a, small)
               <=> /\ 1 <= s /\ s <= a /\ b <= s + size - 1 /\ s + size - 1 <= n
  <2>1. CASE extra <= 0
    BY <1>1, <1>2, <1>3, <2>1 DEF ExtendedStarts
  <2>2. CASE extra > 0
    <3> DEFINE prepend == MinOf(a - 1, extra)
               append == MinOf(n - (a - 1 + small), extra)
               first == a - prepend
               room == n - (first - 1 + small + extra)
    <3>1. ExtendedStarts(n, a, small) = first..first + MinOf(MinOf(append, prepend), room)
      BY <1>1, <1>3, <2>2 DEF ExtendedStarts
    <3>2. a \in Int /\ b \in Int /\ small \in Int /\ size = small + extra
      BY <1>1, <1>2, <2>2
    <3>3. prepend \in 0..extra /\ (prepend = a - 1 \/ prepend = extra) /\ prepend <= a - 1
      BY <1>1, <1>3, <2>2 DEF MinOf
    <3>4. append \in 0..extra /\ (append = n - b \/ append = extra) /\ append <= n - b
      BY <1>1, <1>3, <2>2 DEF MinOf
    <3> HIDE DEF prepend, append, a, b, small, extra
    <3>5. s \in first..first + MinOf(MinOf(append, prepend), room)
            <=> first <= s /\ s <= first + append /\ s <= first + prepend /\ s <= first + room
      BY <1>3, <3>2, <3>3, <3>4 DEF MinOf
    <3>6. (first <= s /\ s <= first + append /\ s <= first + prepend /\ s <= first + room)
            <=> (1 <= s /\ s <= a /\ b <= s + size - 1 /\ s + size - 1 <= n)
      BY <1>1, <1>3, <2>2, <3>2, <3>3, <3>4
    <3>7. QED BY <3>1, <3>5, <3>6
  <2>3. QED BY <2>1, <2>2, <1>3
<1>5. ExtendedStarts(n, a, small) \subseteq Int
  <2>1. CASE extra <= 0
    BY <1>1, <1>3, <2>1 DEF ExtendedStarts
  <2>2. CASE extra > 0
    BY <1>1, <1>3, <2>2 DEF ExtendedStarts, MinOf
  <2>3. QED BY <2>1, <2>2, <1>3
<1>6. ASSUME NEW s \in Int
      PROVE  (/\ 1 <= s /\ s <= a /\ b <= s + size - 1 /\ s + size - 1 <= n)
               <=> (s \in 1..n /\ C \subseteq s..s + size - 1 /\ s..s + size - 1 \subseteq 1..n)
  BY <1>1
<1>7. ClientRanges(n, C) = {s..s + size - 1 : s \in ExtendedStarts(n, a, small)}
  BY DEF ClientRanges
<1> HIDE DEF a, b, small, extra
<1>8. ASSUME NEW s
      PROVE  s \in ExtendedStarts(n, a, small)
               <=> (s \in 1..n /\ C \subseteq s..s + size - 1 /\ s..s + size - 1 \subseteq 1..n)
  BY <1>4, <1>5, <1>6
<1>9. QED BY <1>7, <1>8

\* Whatever the client must compose, each choice is a range without gaps, in
\* which it lies, and leaves a frame that fits.
LEMMA RangesFit ==
  ASSUME NEW n \in Nat, NEW C \in SUBSET (1..n), NEW R \in ClientRanges(n, C)
  PROVE  /\ R \subseteq 1..n /\ C \subseteq R
         /\ \A a, b \in R : a..b \subseteq R
         /\ Cardinality((1..n) \ R) + (IF R = {} THEN 0 ELSE 1) <= Planes
<1> DEFINE size == ExtendedSize(n, ClientSize(C))
<1>1. size \in 0..n /\ n - size + (IF size = 0 THEN 0 ELSE 1) <= Planes
  BY Sizes
<1>2. PICK s \in Int : R = s..s + size - 1 /\ R \subseteq 1..n /\ C \subseteq R
  <2>1. CASE C # {}
    BY <2>1, RangesOfClients
  <2>2. CASE C = {}
    <3> DEFINE extra == ExtraClient(n, 0)
    <3>1. ClientSize(C) = 0 /\ extra \in Int /\ size = IF extra > 0 THEN extra ELSE 0
      BY <2>2, DisplayAssumption DEF ClientSize, ExtraClient, AvailPlanes, ExtendedSize
    <3>2. PICK s \in ExtendedStarts(n, 1, 0) : R = s..s + size - 1
      BY <2>2, <3>1 DEF ClientRanges
    <3>3. ExtendedStarts(n, 1, 0) = IF extra <= 0 THEN {1} ELSE 1..1 + n - extra
      BY <3>1 DEF ExtendedStarts
    <3>4. QED BY <2>2, <3>1, <3>2, <3>3, <1>1
  <2>3. QED BY <2>1, <2>2
<1>3. IsFiniteSet(R) /\ Cardinality(R) = size /\ (R = {} <=> size = 0)
  <2> HIDE DEF size
  <2>1. size \in Int /\ s + size - 1 \in Int
    BY <1>1, <1>2
  <2>2. IsFiniteSet(R) /\ Cardinality(R) = IF s > s + size - 1 THEN 0 ELSE s + size - 1 - s + 1
    BY <1>2, <2>1, FS_Interval
  <2>3. QED BY <1>1, <1>2, <2>1, <2>2
<1>4. Cardinality((1..n) \ R) = n - size
  <2>1. IsFiniteSet(1..n) /\ Cardinality(1..n) = n
    BY FS_Interval
  <2>2. Cardinality((1..n) \ R) = Cardinality(1..n) - Cardinality((1..n) \cap R)
    BY <2>1, FS_Difference
  <2>3. (1..n) \cap R = R
    BY <1>2
  <2>4. QED BY <2>1, <2>2, <2>3, <1>3
<1>5. QED BY <1>1, <1>2, <1>3, <1>4

-----------------------------------------------------------------------------
(* The calls between frames.                                               *)

\* A function on 1..n is a sequence of length n.
LEMMA IsLayers ==
  ASSUME NEW n \in Nat, NEW f \in [1..n -> Layer]
  PROVE  f \in Seq(Layer) /\ Len(f) = n /\ DOMAIN f = 1..n
<1>1. f \in Seq(Layer)
  BY SeqDef
<1>2. f \in [1..Len(f) -> Layer] /\ Len(f) \in Nat
  BY <1>1, LenProperties
<1>3. 1..n = 1..Len(f)
  BY <1>2
<1>4. QED BY <1>1, <1>2, <1>3

Kept(a, b) ==
  a.use_client = b.use_client /\ a.pi_changed = b.pi_changed /\ a.drawn = b.drawn

Touched(a) == ~a.drawn /\ a.pi_changed /\ (a.use_client => Clients(layers) # {})

\* What the calls have in common: new is layers with changes at the positions
\* in S, which the client target no longer shows as they are.
Changed(new, S) ==
  /\ new \in Seq(Layer) /\ Len(new) <= MaxLayers
  /\ \A i \in DOMAIN layers \ S : i \in DOMAIN new /\ Kept(new[i], layers[i])
  /\ \A i \in DOMAIN new : i \in S \/ i \notin DOMAIN layers => Touched(new[i])

\* A changed layer is one that Touched describes.
LEMMA TouchTouches ==
  ASSUME NEW l \in Layer, l.use_client => Clients(layers) # {}
  PROVE  Touch(l) \in Layer /\ Touched(Touch(l))
BY DEF Touch, Touched, Layer

\* Inserting a layer touches what lies above it.
LEMMA CreateChanges ==
  ASSUME TypeOK, NEW p \in 1..Len(layers) + 1, NEW scanout \in BOOLEAN,
         CreateLayer(p, scanout)
  PROVE  Changed(layers', p..Len(layers))
<1> DEFINE l == [use_client |-> FALSE, pi_changed |-> TRUE, scanout |-> scanout,
                 drawn |-> FALSE]
           n == Len(layers)
           mid == SubSeq(layers, 1, p - 1) \o <<l>>
           ins == mid \o SubSeq(layers, p, n)
           new == TouchFrom(p, ins)
<1>1. layers \in Seq(Layer) /\ l \in Layer /\ n \in Nat /\ n + 1 <= MaxLayers /\ layers' = new
      /\ DOMAIN layers = 1..n /\ p \in Int
  BY LenProperties, DisplayAssumption DEF DisplayAssumption, TypeOK, Layer, CreateLayer, Build
<1>2. l.use_client = FALSE
  OBVIOUS
<1> HIDE DEF l
<1>3. /\ ins \in Seq(Layer) /\ Len(ins) = n + 1
      /\ \A i \in 1..n + 1 : ins[i] = IF i < p THEN layers[i] ELSE IF i = p THEN l ELSE layers[i - 1]
  <2> DEFINE low == SubSeq(layers, 1, p - 1) high == SubSeq(layers, p, n)
  <2>1. low \in Seq(Layer) /\ Len(low) = p - 1 /\ \A i \in 1..p - 1 : low[i] = layers[i]
    BY <1>1, ElementOfSeq, SubSeqProperties
  <2>2. /\ high \in Seq(Layer) /\ Len(high) = n - p + 1
        /\ \A i \in 1..n - p + 1 : high[i] = layers[p + i - 1]
    BY <1>1, ElementOfSeq, SubSeqProperties
  <2> HIDE DEF low, high
  <2>3. /\ mid \in Seq(Layer) /\ Len(mid) = p
        /\ \A i \in 1..p : mid[i] = IF i < p THEN layers[i] ELSE l
    BY <1>1, <2>1
  <2> HIDE DEF mid
  <2>4. /\ mid \o high \in Seq(Layer) /\ Len(mid \o high) = n + 1
        /\ \A i \in 1..n + 1 : (mid \o high)[i] = IF i <= p THEN mid[i] ELSE high[i - p]
    <3>1. /\ mid \o high \in Seq(Layer) /\ Len(mid \o high) = Len(mid) + Len(high)
          /\ \A i \in 1..Len(mid) + Len(high) :
               (mid \o high)[i] = IF i <= Len(mid) THEN mid[i] ELSE high[i - Len(mid)]
      BY <2>2, <2>3, ConcatProperties
    <3>2. Len(mid) = p /\ Len(mid) + Len(high) = n + 1
      BY <1>1, <2>2, <2>3
    <3>3. QED BY <3>1, <3>2
  <2>5. ASSUME NEW i \in 1..n + 1, i > p PROVE high[i - p] = layers[i - 1]
    BY <1>1, <2>2, <2>5
  <2>6. QED BY <1>1, <2>3, <2>4, <2>5 DEF high
<1> HIDE DEF ins
<1>4. \A i \in 1..n + 1 : i >= p => ins[i] \in Layer /\ (ins[i].use_client => Clients(layers) # {})
  <2> TAKE i \in 1..n + 1
  <2> HAVE i >= p
  <2>1. ins[i] \in Layer
    BY <1>3, ElementOfSeq
  <2>2. ins[i].use_client => Clients(layers) # {}
    <3>1. CASE i = p
      BY <1>1, <1>2, <1>3, <3>1
    <3>2. CASE i > p
      BY <1>1, <1>3, <3>2 DEF Clients
    <3>3. QED BY <3>1, <3>2, <1>1
  <2>3. QED BY <2>1, <2>2
<1>5. /\ DOMAIN new = 1..n + 1
      /\ \A i \in 1..n + 1 : new[i] = IF i >= p THEN Touch(ins[i]) ELSE ins[i]
  BY <1>3, LenProperties DEF TouchFrom
<1>6. \A i \in 1..n + 1 : i >= p => new[i] \in Layer /\ Touched(new[i])
  BY <1>4, <1>5, TouchTouches
<1>7. new \in [1..n + 1 -> Layer]
  <2>1. \A i \in 1..n + 1 : new[i] \in Layer
    BY <1>1, <1>3, <1>5, <1>6, ElementOfSeq
  <2>2. QED BY <2>1, <1>5 DEF TouchFrom
<1> HIDE DEF new
<1>8. new \in Seq(Layer) /\ Len(new) = n + 1
  BY <1>1, <1>7, IsLayers
<1>9. \A i \in DOMAIN layers \ (p..n) : i \in DOMAIN new /\ Kept(new[i], layers[i])
  BY <1>1, <1>3, <1>5 DEF Kept
<1>10. QED BY <1>1, <1>5, <1>6, <1>8, <1>9 DEF Changed

\* So does removing one.
LEMMA DestroyChanges ==
  ASSUME TypeOK, NEW p \in DOMAIN layers, DestroyLayer(p)
  PROVE  Changed(layers', p..Len(layers))
<1> DEFINE n == Len(layers)
           del == SubSeq(layers, 1, p - 1) \o SubSeq(layers, p + 1, n)
           new == TouchFrom(p, del)
<1>1. layers \in Seq(Layer) /\ n \in Nat \ {0} /\ n <= MaxLayers /\ layers' = new
      /\ DOMAIN layers = 1..n /\ p \in 1..n
  BY LenProperties, DisplayAssumption DEF DisplayAssumption, TypeOK, DestroyLayer, Build
<1>3. /\ del \in Seq(Layer) /\ Len(del) = n - 1
      /\ \A i \in 1..n - 1 : del[i] = IF i < p THEN layers[i] ELSE layers[i + 1]
  <2> DEFINE low == SubSeq(layers, 1, p - 1) high == SubSeq(layers, p + 1, n)
  <2>1. low \in Seq(Layer) /\ Len(low) = p - 1 /\ \A i \in 1..p - 1 : low[i] = layers[i]
    BY <1>1, ElementOfSeq, SubSeqProperties
  <2>2. /\ high \in Seq(Layer) /\ Len(high) = n - p
        /\ \A i \in 1..n - p : high[i] = layers[p + i]
    <3>1. \A i \in p + 1..n : layers[i] \in Layer
      BY <1>1, ElementOfSeq
    <3>2. /\ high \in Seq(Layer) /\ Len(high) = IF p + 1 <= n THEN n - (p + 1) + 1 ELSE 0
          /\ \A i \in 1..n - (p + 1) + 1 : high[i] = layers[p + 1 + i - 1]
      BY <1>1, <3>1, SubSeqProperties
    <3> HIDE DEF high
    <3>3. Len(high) = n - p /\ n - (p + 1) + 1 = n - p
      BY <1>1, <3>2
    <3>4. \A i \in 1..n - p : p + 1 + i - 1 = p + i
      BY <1>1
    <3>5. QED BY <3>2, <3>3, <3>4
  <2> HIDE DEF low, high
  <2>3. /\ low \o high \in Seq(Layer) /\ Len(low \o high) = n - 1
        /\ \A i \in 1..n - 1 : (low \o high)[i] = IF i <= p - 1 THEN low[i] ELSE high[i - (p - 1)]
    <3>1. /\ low \o high \in Seq(Layer) /\ Len(low \o high) = Len(low) + Len(high)
          /\ \A i \in 1..Len(low) + Len(high) :
               (low \o high)[i] = IF i <= Len(low) THEN low[i] ELSE high[i - Len(low)]
      BY <2>1, <2>2, ConcatProperties
    <3>2. Len(low) = p - 1 /\ Len(low) + Len(high) = n - 1
      BY <1>1, <2>1, <2>2
    <3>3. QED BY <3>1, <3>2
  <2>4. ASSUME NEW i \in 1..n - 1, i >= p PROVE high[i - (p - 1)] = layers[i + 1]
    <3>1. i - (p - 1) \in 1..n - p /\ p + (i - (p - 1)) = i + 1
      BY <1>1, <2>4
    <3>2. QED BY <2>2, <3>1
  <2>5. \A i \in 1..n - 1 : (low \o high)[i] = IF i < p THEN layers[i] ELSE layers[i + 1]
    BY <1>1, <2>1, <2>3, <2>4
  <2>6. QED BY <2>3, <2>5 DEF low, high
<1> HIDE DEF del
<1>4. \A i \in 1..n - 1 : i >= p => del[i] \in Layer /\ (del[i].use_client => Clients(layers) # {})
  <2> TAKE i \in 1..n - 1
  <2> HAVE i >= p
  <2>1. del[i] \in Layer
    BY <1>3, ElementOfSeq
  <2>2. del[i].use_client => Clients(layers) # {}
    BY <1>1, <1>3 DEF Clients
  <2>3. QED BY <2>1, <2>2
<1>5. /\ DOMAIN new = 1..n - 1
      /\ \A i \in 1..n - 1 : new[i] = IF i >= p THEN Touch(del[i]) ELSE del[i]
  BY <1>3, LenProperties DEF TouchFrom
<1>6. \A i \in 1..n - 1 : i >= p => new[i] \in Layer /\ Touched(new[i])
  BY <1>4, <1>5, TouchTouches
<1>7. new \in [1..n - 1 -> Layer]
  <2>1. \A i \in 1..n - 1 : new[i] \in Layer
    BY <1>1, <1>3, <1>5, <1>6, ElementOfSeq
  <2>2. QED BY <2>1, <1>5 DEF TouchFrom
<1> HIDE DEF new
<1>8. new \in Seq(Layer) /\ Len(new) = n - 1
  <2>1. n - 1 \in Nat
    BY <1>1
  <2>2. QED BY <2>1, <1>7, IsLayers
<1>9. \A i \in DOMAIN layers \ (p..n) : i \in DOMAIN new /\ Kept(new[i], layers[i])
  BY <1>1, <1>3, <1>5 DEF Kept
<1>10. QED BY <1>1, <1>5, <1>6, <1>8, <1>9, DisplayAssumption DEF DisplayAssumption, Changed

\* The calls that keep the number of layers.
LEMMA UpdateChanges ==
  ASSUME TypeOK, NEW new \in [DOMAIN layers -> Layer], NEW S,
         \A i \in DOMAIN layers \ S : Kept(new[i], layers[i]),
         \A i \in DOMAIN layers \cap S : Touched(new[i])
  PROVE  Changed(new, S)
<1>1. layers \in Seq(Layer) /\ Len(layers) \in Nat /\ DOMAIN layers = 1..Len(layers)
  BY LenProperties DEF TypeOK
<1>2. new \in Seq(Layer) /\ Len(new) = Len(layers) /\ DOMAIN new = DOMAIN layers
  BY <1>1, IsLayers
<1>3. QED BY <1>2 DEF Changed, TypeOK

\* Another buffer or property touches one layer.
LEMMA ChangeChanges ==
  ASSUME TypeOK, NEW p \in DOMAIN layers, NEW scanout \in BOOLEAN, ChangeLayer(p, scanout)
  PROVE  Changed(layers', {p})
<1> DEFINE l == [Touch(layers[p]) EXCEPT !.scanout = scanout]
<1>1. layers \in Seq(Layer) /\ layers[p] \in Layer /\ \A i \in DOMAIN layers : layers[i] \in Layer
  BY ElementOfSeq, LenProperties DEF TypeOK
<1>2. layers' = [layers EXCEPT ![p] = l]
  BY DEF ChangeLayer, Build
<1>3. layers[p].use_client => Clients(layers) # {}
  BY DEF Clients
<1>4. l \in Layer /\ Touched(l)
  BY <1>1, <1>3 DEF Touch, Touched, Layer
<1> HIDE DEF l
<1>5. /\ layers' \in [DOMAIN layers -> Layer] /\ layers'[p] = l
      /\ \A i \in DOMAIN layers \ {p} : layers'[i] = layers[i]
  BY <1>1, <1>2, <1>4, LenProperties
<1>6. \A i \in DOMAIN layers \cap {p} : Touched(layers'[i])
  BY <1>4, <1>5 DEF Touched
<1>7. \A i \in DOMAIN layers \ {p} : Kept(layers'[i], layers[i])
  BY <1>5 DEF Kept
<1>8. QED BY <1>5, <1>6, <1>7, UpdateChanges

\* A swap of two neighbours touches both.
LEMMA ZOrderChanges ==
  ASSUME TypeOK, NEW p \in DOMAIN layers, SetLayerZOrder(p)
  PROVE  Changed(layers', {p, p + 1})
<1>1. /\ layers \in Seq(Layer) /\ p + 1 \in DOMAIN layers /\ p # p + 1
      /\ \A i \in DOMAIN layers : layers[i] \in Layer
  <2>1. layers \in Seq(Layer) /\ p < Len(layers) /\ DOMAIN layers = 1..Len(layers)
        /\ Len(layers) \in Nat
    BY LenProperties DEF TypeOK, SetLayerZOrder
  <2>2. QED BY <2>1, ElementOfSeq
<1>2. layers' = [layers EXCEPT ![p] = Touch(layers[p + 1]), ![p + 1] = Touch(layers[p])]
  BY DEF SetLayerZOrder, Build
<1>3. \A i \in DOMAIN layers : Touch(layers[i]) \in Layer /\ Touched(Touch(layers[i]))
  BY <1>1, TouchTouches DEF Clients
<1>4. /\ layers' \in [DOMAIN layers -> Layer]
      /\ \A i \in DOMAIN layers \ {p, p + 1} : layers'[i] = layers[i]
      /\ layers'[p] = Touch(layers[p + 1]) /\ layers'[p + 1] = Touch(layers[p])
  BY <1>1, <1>2, <1>3, LenProperties
<1>5. QED BY <1>1, <1>3, <1>4, UpdateChanges DEF Kept

\* Another composition type counts as no change at all.
LEMMA CompositionTypeChanges ==
  ASSUME TypeOK, NEW p \in DOMAIN layers, SetLayerCompositionType(p)
  PROVE  Changed(layers', {})
<1>1. layers \in Seq(Layer) /\ \A i \in DOMAIN layers : layers[i] \in Layer
  BY ElementOfSeq, LenProperties DEF TypeOK
<1>2. layers' = [layers EXCEPT ![p].scanout = ~@]
  BY DEF SetLayerCompositionType, Build
<1>3. [layers[p] EXCEPT !.scanout = ~@] \in Layer /\ Kept([layers[p] EXCEPT !.scanout = ~@], layers[p])
  BY <1>1 DEF Layer, Kept
<1>4. /\ layers' \in [DOMAIN layers -> Layer]
      /\ \A i \in DOMAIN layers : Kept(layers'[i], layers[i])
  BY <1>1, <1>2, <1>3, LenProperties DEF Kept
<1>5. QED BY <1>4, UpdateChanges

\* All of them.
LEMMA ChangesOnly ==
  ASSUME TypeOK, Change
  PROVE  /\ \E S : Changed(layers', S) /\ ghosts' = (ghosts \/ S \cap Drawn(layers) # {})
         /\ cpc \in {"idle", "build"} /\ cpc' = "build"
         /\ UNCHANGED <<fcVars, client_layers_count_, frame_validated_, lastFrame>>
<1>1. ASSUME NEW p \in 1..Len(layers) + 1, NEW scanout \in BOOLEAN, CreateLayer(p, scanout)
      PROVE  Changed(layers', p..Len(layers)) /\ GhostsFrom(p..Len(layers)) /\ \E new : Build(new)
  BY <1>1, CreateChanges DEF CreateLayer
<1>2. ASSUME NEW p \in DOMAIN layers, DestroyLayer(p)
      PROVE  Changed(layers', p..Len(layers)) /\ GhostsFrom(p..Len(layers)) /\ \E new : Build(new)
  BY <1>2, DestroyChanges DEF DestroyLayer
<1>3. ASSUME NEW p \in DOMAIN layers, NEW scanout \in BOOLEAN, ChangeLayer(p, scanout)
      PROVE  Changed(layers', {p}) /\ GhostsFrom({p}) /\ \E new : Build(new)
  BY <1>3, ChangeChanges DEF ChangeLayer
<1>4. ASSUME NEW p \in DOMAIN layers, SetLayerZOrder(p)
      PROVE  Changed(layers', {p, p + 1}) /\ GhostsFrom({p, p + 1}) /\ \E new : Build(new)
  BY <1>4, ZOrderChanges DEF SetLayerZOrder
<1>5. ASSUME NEW p \in DOMAIN layers, SetLayerCompositionType(p)
      PROVE  Changed(layers', {}) /\ ghosts' = ghosts /\ \E new : Build(new)
  BY <1>5, CompositionTypeChanges DEF SetLayerCompositionType
<1>6. ghosts \in BOOLEAN
  BY DEF TypeOK
<1>7. (ghosts \/ {} \cap Drawn(layers) # {}) = ghosts
  BY <1>6
<1>8. \E S : Changed(layers', S) /\ ghosts' = (ghosts \/ S \cap Drawn(layers) # {})
  BY <1>1, <1>2, <1>3, <1>4, <1>5, <1>7, Zenon DEF Change, GhostsFrom
<1>9. \E new : Build(new)
  BY <1>1, <1>2, <1>3, <1>4, <1>5, Zenon DEF Change
<1>10. QED BY <1>8, <1>9 DEF Build

-----------------------------------------------------------------------------
(* The types.                                                              *)

NoGaps(C) == \A a, b \in C : a..b \subseteq C

\* What SelectClientLayers() returns.
LEMMA SelectionFits ==
  ASSUME TypeOK, NEW C \in SUBSET DOMAIN layers, NEW R \in SelectClientLayers(C)
  PROVE  /\ R \subseteq DOMAIN layers /\ C \subseteq R /\ NoGaps(R)
         /\ IsFiniteSet(R) /\ Cardinality(R) \in 0..MaxLayers
         /\ Cardinality(DOMAIN layers \ R) + (IF R = {} THEN 0 ELSE 1) <= Planes
<1>1. Len(layers) \in Nat /\ DOMAIN layers = 1..Len(layers) /\ Len(layers) <= MaxLayers
  BY LenProperties DEF TypeOK
<1>2. /\ R \subseteq DOMAIN layers /\ C \subseteq R /\ NoGaps(R)
      /\ Cardinality(DOMAIN layers \ R) + (IF R = {} THEN 0 ELSE 1) <= Planes
  <2>1. CASE R = DOMAIN layers
    <3>1. DOMAIN layers \ R = {} /\ Cardinality({}) = 0
      BY <2>1, FS_EmptySet
    <3>2. Cardinality(DOMAIN layers \ R) + (IF R = {} THEN 0 ELSE 1) <= Planes
      BY <3>1, DisplayAssumption DEF DisplayAssumption
    <3>3. NoGaps(R)
      BY <1>1, <2>1 DEF NoGaps
    <3>4. QED BY <2>1, <3>2, <3>3
  <2>2. CASE R \in ClientRanges(Len(layers), C)
    BY <1>1, <2>2, RangesFit DEF NoGaps
  <2>3. QED BY <2>1, <2>2 DEF SelectClientLayers
<1>3. IsFiniteSet(1..Len(layers)) /\ Cardinality(1..Len(layers)) = Len(layers)
  BY <1>1, FS_Interval
<1>4. IsFiniteSet(R) /\ Cardinality(R) <= Len(layers) /\ Cardinality(R) \in Nat
  BY <1>1, <1>2, <1>3, FS_Subset, FS_CardinalityType
<1>5. QED BY <1>1, <1>2, <1>4, DisplayAssumption DEF DisplayAssumption

\* A frame's marks keep the layers.
LEMMA MarkedLayers ==
  ASSUME TypeOK, NEW f \in [DOMAIN layers -> Layer]
  PROVE  f \in Seq(Layer) /\ Len(f) <= MaxLayers /\ DOMAIN f = DOMAIN layers
<1>1. Len(layers) \in Nat /\ DOMAIN layers = 1..Len(layers) /\ Len(layers) <= MaxLayers
  BY LenProperties DEF TypeOK
<1>2. f \in Seq(Layer) /\ Len(f) = Len(layers) /\ DOMAIN f = 1..Len(layers)
  BY <1>1, IsLayers
<1>3. QED BY <1>1, <1>2

\* An element of layers is a layer.
LEMMA LayersTyped ==
  ASSUME TypeOK, NEW i \in DOMAIN layers
  PROVE  layers[i] \in Layer
BY ElementOfSeq, LenProperties DEF TypeOK

\* The updates a frame makes of a layer give a layer.
LEMMA Remarked ==
  ASSUME NEW l \in Layer, NEW mark \in BOOLEAN, NEW changed \in BOOLEAN, NEW fits \in BOOLEAN,
         NEW shown \in BOOLEAN
  PROVE  /\ [l EXCEPT !.use_client = mark] \in Layer
         /\ [l EXCEPT !.use_client = mark, !.pi_changed = changed] \in Layer
         /\ [l EXCEPT !.scanout = fits, !.drawn = shown] \in Layer
BY DEF Layer

\* Marking client layers keeps the layers typed.
LEMMA WithClientsTyped ==
  ASSUME TypeOK, NEW S
  PROVE  WithClients(layers, S) \in [DOMAIN layers -> Layer]
<1>1. \A i \in DOMAIN layers : [layers[i] EXCEPT !.use_client = i \in S] \in Layer
  <2> TAKE i \in DOMAIN layers
  <2>1. layers[i] \in Layer
    BY LayersTyped
  <2>2. (i \in S) \in BOOLEAN
    OBVIOUS
  <2>3. QED BY <2>1, <2>2, Remarked
<1>2. QED BY <1>1 DEF WithClients

\* The operations of the controller keep its types.
LEMMA ControllerTyped ==
  ASSUME FcTypeOK, ThreadFn \/ WakeUp \/ StopThread \/ (NewFrame /\ UNCHANGED <<trigger, refresh>>)
                   \/ (Disable /\ UNCHANGED <<trigger, refresh>>)
  PROVE  FcTypeOK'
BY DEF FcTypeOK, ThreadFn, ThreadEnds, Timeout, Wait, WakeUp, StopThread, NotifyAll, NewFrame,
       Disable, flagVars

\* PresentComposition() keeps the types.
LEMMA PresentTyped ==
  ASSUME TypeOK, NEW ls \in [DOMAIN layers -> Layer], NEW validated \in BOOLEAN,
         PresentComposition(ls, validated), trigger' \in BOOLEAN, refresh' \in BOOLEAN,
         trigger' = trigger
  PROVE  FcTypeOK' /\ layers' = ls /\ lastFrame' \in {"normal", "dropped", "skipped"}
         /\ cpc' \in {"idle", "build", "validate"}
<1>1. flatten_next_frame_' \in BOOLEAN /\ disabled_' \in BOOLEAN
      /\ tpc' \in {"loop", "wait", "wait_until", "ended"}
  BY DEF PresentComposition, TypeOK, FcTypeOK, flagVars, NewFrame, Disable, NotifyAll
<1>2. QED BY <1>1 DEF PresentComposition, TypeOK, FcTypeOK

\* The types of all variables.
THEOREM TypeCorrect == Spec => []TypeOK
<1>1. Init => TypeOK
  <2>1. <<>> \in Seq(Layer) /\ Len(<<>>) <= MaxLayers /\ 0 \in 0..MaxLayers
    BY EmptySeq, DisplayAssumption DEF DisplayAssumption
  <2>2. QED BY <2>1 DEF Init, FcInit, TypeOK, FcTypeOK
<1>2. ASSUME TypeOK, [Next]_vars PROVE TypeOK'
  <2>1. CASE Change
    <3>1. /\ layers' \in Seq(Layer) /\ Len(layers') <= MaxLayers /\ ghosts' \in BOOLEAN
          /\ cpc' = "build"
          /\ UNCHANGED <<fcVars, client_layers_count_, frame_validated_, lastFrame>>
      BY <1>2, <2>1, ChangesOnly DEF Changed
    <3>2. QED BY <1>2, <3>1 DEF TypeOK, FcTypeOK, fcVars, flagVars
  <2>2. ASSUME NEW scaled \in SUBSET {i \in DOMAIN layers : layers[i].scanout},
               ValidateDisplay(scaled)
        PROVE  TypeOK'
    <3> DEFINE unfit == {i \in DOMAIN layers : ~layers[i].scanout} \cup scaled
    <3>1. PICK C \in SelectClientLayers(unfit) :
            /\ layers' = [i \in DOMAIN layers |->
                            [layers[i] EXCEPT !.use_client = i \in C, !.pi_changed = FALSE]]
            /\ client_layers_count_' = Cardinality(C)
      BY <2>2 DEF ValidateDisplay
    <3>2. Cardinality(C) \in 0..MaxLayers
      BY <1>2, SelectionFits
    <3>3. layers' \in [DOMAIN layers -> Layer]
      <4>1. \A i \in DOMAIN layers :
              [layers[i] EXCEPT !.use_client = i \in C, !.pi_changed = FALSE] \in Layer
        <5> TAKE i \in DOMAIN layers
        <5>1. layers[i] \in Layer
          BY <1>2, LayersTyped
        <5>2. (i \in C) \in BOOLEAN /\ FALSE \in BOOLEAN
          OBVIOUS
        <5>3. QED BY <5>1, <5>2, Remarked
      <4>2. QED BY <3>1, <4>1
    <3>4. layers' \in Seq(Layer) /\ Len(layers') <= MaxLayers
      BY <1>2, <3>3, MarkedLayers
    <3>5. /\ refresh' \in BOOLEAN /\ UNCHANGED <<flagVars, trigger, tpc, ghosts>>
          /\ frame_validated_' = TRUE /\ cpc' = "compose"
          /\ lastFrame' \in {"normal", "dropped", "skipped"}
      BY <1>2, <2>2 DEF ValidateDisplay, FrameBegins, TypeOK, FcTypeOK
    <3>6. QED BY <1>2, <3>1, <3>2, <3>4, <3>5 DEF TypeOK, FcTypeOK, flagVars
  <2>3. CASE Compose
    <3> DEFINE C == Clients(layers)
    <3>1. layers' \in [DOMAIN layers -> Layer]
      <4>1. \A i \in DOMAIN layers :
              [layers[i] EXCEPT !.scanout = @ /\ i \notin C,
                                !.drawn = IF C = {} THEN @ ELSE i \in C] \in Layer
        <5> SUFFICES ASSUME NEW i \in DOMAIN layers
                     PROVE  [layers[i] EXCEPT !.scanout = @ /\ i \notin C,
                              !.drawn = IF C = {} THEN @ ELSE i \in C] \in Layer
          OBVIOUS
        <5>1. layers[i] \in Layer /\ layers[i].scanout \in BOOLEAN /\ layers[i].drawn \in BOOLEAN
          BY <1>2, LayersTyped DEF Layer
        <5>2. /\ (layers[i].scanout /\ i \notin C) \in BOOLEAN
              /\ (i \in C) \in BOOLEAN
          OBVIOUS
        <5>4. (IF C = {} THEN layers[i].drawn ELSE i \in C) \in BOOLEAN
          BY <5>1, <5>2
        <5>5. QED BY <5>1, <5>2, <5>4, Remarked
      <4>2. layers' = [i \in DOMAIN layers |->
              [layers[i] EXCEPT !.scanout = @ /\ i \notin C,
                                !.drawn = IF C = {} THEN @ ELSE i \in C]]
        BY <2>3 DEF Compose
      <4>3. QED BY <4>1, <4>2
    <3>2. layers' \in Seq(Layer) /\ Len(layers') <= MaxLayers
      BY <1>2, <3>1, MarkedLayers
    <3>3. ghosts' \in BOOLEAN
      BY <1>2, <2>3 DEF Compose, TypeOK
    <3>4. QED BY <1>2, <2>3, <3>2, <3>3 DEF Compose, TypeOK, FcTypeOK, fcVars, flagVars
  <2>4. CASE PresentDisplay
    <3>1. /\ refresh' \in BOOLEAN /\ UNCHANGED <<trigger, client_layers_count_, ghosts>>
          /\ frame_validated_' = FALSE /\ trigger' \in BOOLEAN
      BY <1>2, <2>4 DEF PresentDisplay, FrameBegins, TypeOK, FcTypeOK
    <3>2. layers \in [DOMAIN layers -> Layer]
      BY <1>2, LenProperties DEF TypeOK
    <3>3. ASSUME NEW ls \in [DOMAIN layers -> Layer], NEW validated \in BOOLEAN,
                 PresentComposition(ls, validated)
          PROVE  TypeOK'
      <4>1. FcTypeOK' /\ layers' = ls /\ lastFrame' \in {"normal", "dropped", "skipped"}
            /\ cpc' \in {"idle", "build", "validate"}
        BY <1>2, <3>1, <3>3, PresentTyped
      <4>2. layers' \in Seq(Layer) /\ Len(layers') <= MaxLayers
        BY <1>2, <4>1, MarkedLayers
      <4>3. QED BY <1>2, <3>1, <4>1, <4>2 DEF TypeOK
    <3>4. CASE frame_validated_
      BY <2>4, <3>2, <3>3, <3>4 DEF PresentDisplay
    <3>5. ASSUME NEW S, layers' = WithClients(layers, S), cpc' = "validate",
                 UNCHANGED <<flagVars, tpc, lastFrame>>
          PROVE  TypeOK'
      <4>1. layers' \in Seq(Layer) /\ Len(layers') <= MaxLayers
        BY <1>2, <3>5, WithClientsTyped, MarkedLayers
      <4>2. QED BY <1>2, <3>1, <3>5, <4>1 DEF TypeOK, FcTypeOK, flagVars
    <3>6. CASE TryReuse
      <4>1. \/ \E S : layers' = WithClients(layers, S) /\ cpc' = "validate"
                      /\ UNCHANGED <<flagVars, tpc, lastFrame>>
            \/ \E S : PresentComposition(WithClients(layers, S), FALSE)
        BY <3>6 DEF TryReuse
      <4>2. QED BY <1>2, <4>1, <3>3, <3>5, WithClientsTyped
    <3>7. QED BY <2>4, <3>4, <3>6 DEF PresentDisplay
  <2>5. CASE DropFrame
    BY <1>2, <2>5 DEF DropFrame, TypeOK, FcTypeOK, fcVars, flagVars, displayVars
  <2>6. CASE Deinit
    <3>1. FcTypeOK'
      BY <1>2, <2>6, ControllerTyped DEF Deinit, TypeOK
    <3>2. QED BY <1>2, <2>6, <3>1 DEF Deinit, TypeOK, displayVars
  <2>7. CASE Controller
    <3>1. FcTypeOK'
      BY <1>2, <2>7, ControllerTyped DEF Controller, TypeOK
    <3>2. QED BY <1>2, <2>7, <3>1 DEF Controller, TypeOK, displayVars
  <2>8. CASE UNCHANGED vars
    BY <1>2, <2>8 DEF vars, TypeOK, FcTypeOK, fcVars, flagVars, displayVars
  <2>9. QED BY <1>2, <2>1, <2>2, <2>3, <2>4, <2>5, <2>6, <2>7, <2>8 DEF Next, Frame
<1>3. QED BY <1>1, <1>2, PTL DEF Spec

-----------------------------------------------------------------------------
(* The controller.                                                         *)

\* What the display does with the controller.
LEMMA ControllerSteps ==
  ASSUME [Next]_vars
  PROVE  \/ UNCHANGED <<flagVars, trigger, tpc>> /\ (refresh' => refresh)
         \/ (NewFrame \/ Disable) /\ UNCHANGED trigger /\ (refresh' => refresh)
         \/ StopThread \/ ThreadFn \/ WakeUp
<1>1. CASE Change
  BY <1>1 DEF Change, CreateLayer, DestroyLayer, SetLayerZOrder, SetLayerCompositionType,
              ChangeLayer, Build, fcVars
<1>2. CASE Frame
  BY <1>2 DEF Frame, ValidateDisplay, Compose, PresentDisplay, FrameBegins, TryReuse,
              PresentComposition, fcVars
<1>3. CASE DropFrame \/ Deinit \/ Controller
  BY <1>3 DEF DropFrame, Deinit, Controller, fcVars
<1>4. CASE UNCHANGED vars
  BY <1>4 DEF vars, fcVars
<1>5. QED BY <1>1, <1>2, <1>3, <1>4 DEF Next

\* The thread never sleeps through a notification: without a deadline it only
\* waits while the controller is disabled, and not at all after StopThread().
THEOREM WakeupsKept == Spec => []NoLostWakeup
<1>1. Init => NoLostWakeup
  BY DEF Init, FcInit, NoLostWakeup
<1>2. NoLostWakeup /\ [Next]_vars => NoLostWakeup'
  <2> SUFFICES ASSUME NoLostWakeup, [Next]_vars PROVE NoLostWakeup'
    OBVIOUS
  <2>1. CASE UNCHANGED <<flagVars, trigger, tpc>>
    BY <2>1 DEF NoLostWakeup, flagVars
  <2>2. CASE NewFrame /\ UNCHANGED trigger
    BY <2>2 DEF NoLostWakeup, NewFrame, NotifyAll
  <2>3. CASE Disable /\ UNCHANGED trigger
    BY <2>3 DEF NoLostWakeup, Disable
  <2>4. CASE StopThread
    BY <2>4 DEF NoLostWakeup, StopThread, NotifyAll
  <2>5. CASE ThreadFn \/ WakeUp
    BY <2>5 DEF NoLostWakeup, ThreadFn, ThreadEnds, Timeout, Wait, WakeUp, flagVars
  <2>6. QED BY <2>1, <2>2, <2>3, <2>4, <2>5, ControllerSteps
<1>3. QED BY <1>1, <1>2, PTL DEF Spec

\* After StopThread() the thread does not call the client.
THEOREM Stopped == Spec => NoTriggerAfterStop
<1>1. [Next]_vars => [~trigger => (refresh' => refresh)]_fcVars
  BY ControllerSteps DEF StopThread, ThreadFn, ThreadEnds, Timeout, Wait, WakeUp
<1>2. QED BY <1>1, PTL DEF Spec, NoTriggerAfterStop

\* A frame is asked for once per quiet period, and never after StopThread().
THEOREM ImplementsQuiet == Spec => QuietSpec
<1> DEFINE DueIsDisabled == flatten_next_frame_ => disabled_
<1>1. Init => DueIsDisabled /\ Quiet!Init
  BY DEF Init, FcInit, Quiet!Init
<1>2. ASSUME TypeOK, TypeOK', DueIsDisabled, [Next]_vars
      PROVE  DueIsDisabled' /\ [Quiet!Next]_(Quiet!vars)
  <2> USE DEF TypeOK, FcTypeOK, flagVars
  <2>1. TypeOK'
    BY <1>2
  <2>2. CASE UNCHANGED <<flagVars, trigger, tpc>> /\ (refresh' => refresh)
    BY <1>2, <2>1, <2>2 DEF Quiet!Next, Quiet!Begin, Quiet!Answered
  <2>3. CASE NewFrame /\ UNCHANGED trigger /\ (refresh' => refresh)
    <3>1. DueIsDisabled'
      BY <1>2, <2>3 DEF NewFrame
    <3>2. Quiet!Answered
      BY <1>2, <2>1, <2>3 DEF Quiet!Answered
    <3>3. CASE ~trigger
      BY <1>2, <2>1, <2>3, <3>1, <3>2, <3>3 DEF Quiet!Next, Quiet!Begin
    <3>4. CASE trigger
      BY <1>2, <2>1, <2>3, <3>1, <3>2, <3>4 DEF NewFrame, Quiet!Next, Quiet!Frame
    <3>5. QED BY <1>2, <3>1, <3>3, <3>4
  <2>4. CASE Disable /\ UNCHANGED trigger /\ (refresh' => refresh)
    <3>1. CASE ~trigger
      BY <1>2, <2>1, <2>4, <3>1 DEF Disable, Quiet!Next, Quiet!Begin, Quiet!Answered
    <3>2. CASE trigger
      BY <1>2, <2>1, <2>4, <3>2 DEF Disable, Quiet!Next, Quiet!Rest, Quiet!Answered
    <3>3. QED BY <1>2, <3>1, <3>2
  <2>5. CASE StopThread
    BY <1>2, <2>5 DEF StopThread, Quiet!Next, Quiet!Stop
  <2>6. CASE ThreadEnds \/ Wait \/ WakeUp
    BY <1>2, <2>6 DEF ThreadEnds, Wait, WakeUp, Quiet!vars
  <2>7. CASE Timeout
    BY <1>2, <2>7 DEF Timeout, Quiet!Next, Quiet!Ask
  <2>8. QED BY <1>2, <2>2, <2>3, <2>4, <2>5, <2>6, <2>7, ControllerSteps DEF ThreadFn
<1>3. QED BY <1>1, <1>2, TypeCorrect, PTL DEF Spec, QuietSpec, Quiet!Spec

-----------------------------------------------------------------------------
(* The frames.                                                             *)

\* ValidateDisplay() leaves marks that SelectClientLayers() has chosen.
LEMMA Validated ==
  ASSUME TypeOK, NEW scaled \in SUBSET {i \in DOMAIN layers : layers[i].scanout},
         ValidateDisplay(scaled)
  PROVE  /\ DOMAIN layers' = DOMAIN layers
         /\ NoGaps(Clients(layers')) /\ client_layers_count_' = Cardinality(Clients(layers'))
         /\ \A i \in DOMAIN layers' : ~layers'[i].pi_changed
         /\ \A i \in DOMAIN layers' \ Clients(layers') : layers'[i].scanout
         /\ Cardinality(DOMAIN layers' \ Clients(layers'))
              + (IF Clients(layers') = {} THEN 0 ELSE 1) <= Planes
<1> DEFINE unfit == {i \in DOMAIN layers : ~layers[i].scanout} \cup scaled
<1>1. PICK C \in SelectClientLayers(unfit) :
        /\ layers' = [i \in DOMAIN layers |->
                        [layers[i] EXCEPT !.use_client = i \in C, !.pi_changed = FALSE]]
        /\ client_layers_count_' = Cardinality(C)
  BY DEF ValidateDisplay
<1>2. unfit \in SUBSET DOMAIN layers
  OBVIOUS
<1>3. /\ C \subseteq DOMAIN layers /\ unfit \subseteq C /\ NoGaps(C)
      /\ Cardinality(DOMAIN layers \ C) + (IF C = {} THEN 0 ELSE 1) <= Planes
  BY <1>2, SelectionFits
<1>4. DOMAIN layers' = DOMAIN layers
  BY <1>1
<1>5. ASSUME NEW i \in DOMAIN layers
      PROVE  /\ layers'[i].use_client = (i \in C) /\ layers'[i].pi_changed = FALSE
             /\ layers'[i].scanout = layers[i].scanout
  <2>1. layers[i] \in Layer
    BY LayersTyped
  <2>2. layers'[i] = [layers[i] EXCEPT !.use_client = i \in C, !.pi_changed = FALSE]
    BY <1>1
  <2>3. QED BY <2>1, <2>2 DEF Layer
<1>6. Clients(layers') = C
  BY <1>3, <1>4, <1>5 DEF Clients
<1>7. QED BY <1>1, <1>3, <1>4, <1>5, <1>6

\* A composed frame keeps its marks, and the client target shows them.
LEMMA Composed ==
  ASSUME TypeOK, Compose
  PROVE  /\ DOMAIN layers' = DOMAIN layers /\ Clients(layers') = Clients(layers)
         /\ \A i \in DOMAIN layers : layers'[i].pi_changed = layers[i].pi_changed
         /\ \A i \in DOMAIN layers \ Clients(layers) : layers'[i].scanout = layers[i].scanout
         /\ Clients(layers) # {} => ~ghosts' /\ Drawn(layers') = Clients(layers)
<1> DEFINE C == Clients(layers)
<1>1. /\ layers' = [i \in DOMAIN layers |->
                     [layers[i] EXCEPT !.scanout = @ /\ i \notin C,
                                       !.drawn = IF C = {} THEN @ ELSE i \in C]]
      /\ ghosts' = (ghosts /\ C = {})
  BY DEF Compose
<1>2. ASSUME NEW i \in DOMAIN layers
      PROVE  /\ layers'[i].use_client = layers[i].use_client
             /\ layers'[i].pi_changed = layers[i].pi_changed
             /\ layers'[i].scanout = (layers[i].scanout /\ i \notin C)
             /\ layers'[i].drawn = IF C = {} THEN layers[i].drawn ELSE i \in C
  <2>1. layers[i] \in Layer
    BY LayersTyped
  <2>2. layers'[i] = [layers[i] EXCEPT !.scanout = @ /\ i \notin C,
                                       !.drawn = IF C = {} THEN @ ELSE i \in C]
    BY <1>1
  <2>3. QED BY <2>1, <2>2 DEF Layer
<1>3. DOMAIN layers' = DOMAIN layers
  BY <1>1
<1>4. Clients(layers') = C
  BY <1>2, <1>3 DEF Clients
<1>5. \A i \in DOMAIN layers \ C : layers'[i].scanout = layers[i].scanout
  <2> TAKE i \in DOMAIN layers \ C
  <2>1. layers[i].scanout \in BOOLEAN
    BY LayersTyped DEF Layer
  <2>2. QED BY <2>1, <1>2
<1>6. C # {} => Drawn(layers') = C
  BY <1>2, <1>3 DEF Drawn, Clients
<1>7. QED BY <1>1, <1>2, <1>3, <1>4, <1>5, <1>6

\* Steps that are no frame's, or drop it.
LEMMA OtherSteps ==
  ASSUME TypeOK, Change \/ DropFrame \/ PresentDisplay \/ Deinit
  PROVE  cpc' \in {"idle", "build", "validate", "gone"}
<1>1. CASE Change
  BY <1>1, ChangesOnly
<1>2. CASE DropFrame \/ Deinit
  BY <1>2 DEF DropFrame, Deinit
<1>3. CASE PresentDisplay
  BY <1>3 DEF PresentDisplay, PresentComposition, TryReuse
<1>4. QED BY <1>1, <1>2, <1>3

\* The step that leaves the frame alone.
LEMMA ControllerApart ==
  ASSUME Controller \/ UNCHANGED vars
  PROVE  UNCHANGED <<layers, client_layers_count_, frame_validated_, cpc, ghosts, lastFrame>>
BY DEF Controller, vars, displayVars

\* A validated frame fits the planes.
THEOREM PlansFit == Spec => []PlanFits
<1>1. Init => PlanFits
  BY DEF Init, PlanFits
<1>2. ASSUME TypeOK, PlanFits, [Next]_vars PROVE PlanFits'
  <2>1. CASE Change \/ DropFrame \/ PresentDisplay \/ Deinit
    BY <1>2, <2>1, OtherSteps DEF PlanFits
  <2>2. CASE Controller \/ UNCHANGED vars
    BY <1>2, <2>2, ControllerApart DEF PlanFits
  <2>3. ASSUME NEW scaled \in SUBSET {i \in DOMAIN layers : layers[i].scanout},
               ValidateDisplay(scaled)
        PROVE  PlanFits'
    BY <1>2, <2>3, Validated DEF PlanFits
  <2>4. CASE Compose
    <3>1. cpc = "compose"
      BY <2>4 DEF Compose
    <3>2. QED BY <1>2, <2>4, <3>1, Composed DEF PlanFits
  <2>5. QED BY <1>2, <2>1, <2>2, <2>3, <2>4 DEF Next, Frame
<1>3. QED BY <1>1, <1>2, TypeCorrect, PTL DEF Spec

\* Every range of ExtendClientRange() is the right one, whatever the layers.
THEOREM RangesAlwaysComplete == Spec => []RangesComplete
<1>1. TypeOK => RangesComplete
  <2> SUFFICES ASSUME TypeOK PROVE RangesComplete
    OBVIOUS
  <2>1. Len(layers) \in Nat /\ DOMAIN layers = 1..Len(layers)
    BY LenProperties DEF TypeOK
  <2>2. QED BY <2>1, RangesOfClients DEF RangesComplete
<1>2. QED BY <1>1, TypeCorrect, PTL

\* What makes the screen current.  Between frames the client target can be
\* trusted for the layers that are marked for the client and unchanged: they are
\* the ones it shows, they are no more than were validated, and fewer as soon as
\* it shows anything that is gone.
Trust(ls, count, stale) ==
  /\ count = 0 => Clients(ls) = {}
  /\ count > 0 =>
       /\ \A i \in DOMAIN ls : ls[i].drawn <=> ls[i].use_client /\ ~ls[i].pi_changed
       /\ Cardinality(Drawn(ls)) <= count
       /\ stale => Cardinality(Drawn(ls)) < count
       /\ ~stale => NoGaps(Drawn(ls))

FrameInv ==
  /\ cpc \in {"compose", "present"} =>
       /\ frame_validated_ /\ lastFrame # "dropped"
       /\ client_layers_count_ = Cardinality(Clients(layers))
       /\ NoGaps(Clients(layers))
       /\ \A i \in DOMAIN layers : ~layers[i].pi_changed
  /\ cpc = "present" /\ Clients(layers) # {} => ~ghosts /\ Drawn(layers) = Clients(layers)
  /\ cpc \in {"idle", "build"} /\ lastFrame # "dropped" =>
       ~frame_validated_ /\ Trust(layers, client_layers_count_, ghosts)

\* Sets of positions are finite.
LEMMA DrawnFinite ==
  ASSUME NEW ls \in Seq(Layer)
  PROVE  /\ IsFiniteSet(Drawn(ls)) /\ Cardinality(Drawn(ls)) \in Nat
         /\ IsFiniteSet(Clients(ls)) /\ Cardinality(Clients(ls)) \in Nat
<1>1. DOMAIN ls = 1..Len(ls) /\ Len(ls) \in Nat
  BY LenProperties
<1>2. IsFiniteSet(1..Len(ls))
  BY <1>1, FS_Interval
<1>3. Drawn(ls) \in SUBSET (1..Len(ls)) /\ Clients(ls) \in SUBSET (1..Len(ls))
  BY <1>1 DEF Drawn, Clients
<1>4. QED BY <1>2, <1>3, FS_Subset, FS_CardinalityType

\* No call of the client between frames takes the trust away.
LEMMA ChangeKeepsTrust ==
  ASSUME TypeOK, Trust(layers, client_layers_count_, ghosts),
         NEW new, NEW S, Changed(new, S)
  PROVE  Trust(new, client_layers_count_, ghosts \/ S \cap Drawn(layers) # {})
<1> DEFINE stale == ghosts \/ S \cap Drawn(layers) # {}
<1>1. client_layers_count_ \in Nat /\ ghosts \in BOOLEAN /\ new \in Seq(Layer) /\ layers \in Seq(Layer)
  BY DisplayAssumption DEF DisplayAssumption, TypeOK, Changed
<1>2. \A i \in DOMAIN layers : layers[i].drawn \in BOOLEAN
  BY LayersTyped DEF Layer
<1>3. Clients(layers) = {} => Clients(new) = {}
  BY DEF Clients, Changed, Kept, Touched
<1>4. Drawn(new) = Drawn(layers) \ S
  BY <1>2 DEF Drawn, Changed, Kept, Touched
<1>5. ASSUME \A i \in DOMAIN layers : layers[i].drawn <=> layers[i].use_client /\ ~layers[i].pi_changed
      PROVE  \A i \in DOMAIN new : new[i].drawn <=> new[i].use_client /\ ~new[i].pi_changed
  BY <1>5 DEF Changed, Kept, Touched
<1>6. /\ Cardinality(Drawn(new)) <= Cardinality(Drawn(layers))
      /\ S \cap Drawn(layers) # {} => Cardinality(Drawn(new)) < Cardinality(Drawn(layers))
      /\ S \cap Drawn(layers) = {} => Drawn(new) = Drawn(layers)
  <2>1. IsFiniteSet(Drawn(layers)) /\ Drawn(new) \in SUBSET Drawn(layers)
    BY <1>1, <1>4, DrawnFinite
  <2>2. /\ Cardinality(Drawn(new)) <= Cardinality(Drawn(layers))
        /\ Cardinality(Drawn(layers)) = Cardinality(Drawn(new)) => Drawn(layers) = Drawn(new)
    BY <2>1, FS_Subset
  <2>3. Cardinality(Drawn(new)) \in Nat /\ Cardinality(Drawn(layers)) \in Nat
    BY <1>1, DrawnFinite
  <2>4. QED BY <1>4, <2>2, <2>3
<1>7. Cardinality(Drawn(new)) \in Nat /\ Cardinality(Drawn(layers)) \in Nat
  BY <1>1, DrawnFinite
<1>8. CASE client_layers_count_ = 0
  BY <1>3, <1>8 DEF Trust
<1>9. CASE client_layers_count_ > 0
  <2>1. /\ \A i \in DOMAIN layers : layers[i].drawn <=> layers[i].use_client /\ ~layers[i].pi_changed
        /\ Cardinality(Drawn(layers)) <= client_layers_count_
        /\ ghosts => Cardinality(Drawn(layers)) < client_layers_count_
        /\ ~ghosts => NoGaps(Drawn(layers))
    BY <1>9 DEF Trust
  <2>2. Cardinality(Drawn(new)) <= client_layers_count_
    BY <1>1, <1>6, <1>7, <2>1
  <2>3. stale => Cardinality(Drawn(new)) < client_layers_count_
    <3>1. CASE ghosts
      BY <1>1, <1>6, <1>7, <2>1, <3>1
    <3>2. CASE S \cap Drawn(layers) # {}
      BY <1>1, <1>6, <1>7, <2>1, <3>2
    <3>3. QED BY <3>1, <3>2
  <2>4. ~stale => NoGaps(Drawn(new))
    BY <1>6, <2>1
  <2>5. \A i \in DOMAIN new : new[i].drawn <=> new[i].use_client /\ ~new[i].pi_changed
    BY <1>5, <2>1
  <2>6. QED BY <1>9, <2>2, <2>3, <2>4, <2>5 DEF Trust
<1>10. QED BY <1>1, <1>8, <1>9

\* What FrameIsCurrent asks of a frame on the screen.
Current(ls, stale) ==
  Clients(ls) # {} => ~stale /\ Drawn(ls) = Clients(ls) /\ NoGaps(Clients(ls))

\* A frame validated and composed.
LEMMA ValidatedIsCurrent ==
  ASSUME TypeOK, FrameInv, cpc = "present"
  PROVE  Trust(layers, client_layers_count_, ghosts) /\ Current(layers, ghosts)
<1>1. /\ client_layers_count_ = Cardinality(Clients(layers)) /\ NoGaps(Clients(layers))
      /\ \A i \in DOMAIN layers : ~layers[i].pi_changed
      /\ Clients(layers) # {} => ~ghosts /\ Drawn(layers) = Clients(layers)
  BY DEF FrameInv
<1>2. layers \in Seq(Layer)
  BY DEF TypeOK
<1>3. client_layers_count_ \in Nat /\ (client_layers_count_ = 0 <=> Clients(layers) = {})
  BY <1>1, <1>2, DrawnFinite, FS_EmptySet
<1>4. CASE Clients(layers) = {}
  BY <1>3, <1>4 DEF Trust, Current
<1>5. CASE Clients(layers) # {}
  <2>1. Drawn(layers) = Clients(layers) /\ ~ghosts
    BY <1>1, <1>5
  <2>2. \A i \in DOMAIN layers : layers[i].drawn \in BOOLEAN /\ layers[i].use_client \in BOOLEAN
    BY LayersTyped DEF Layer
  <2>3. \A i \in DOMAIN layers : layers[i].drawn <=> layers[i].use_client
    BY <2>1, <2>2 DEF Drawn, Clients
  <2>4. QED BY <1>1, <1>3, <1>5, <2>1, <2>3 DEF Trust, Current
<1>6. QED BY <1>4, <1>5

\* A frame presented without validation, with the client target of an earlier one.
LEMMA ReusedIsCurrent ==
  ASSUME TypeOK, Trust(layers, client_layers_count_, ghosts),
         NEW R, R = {i \in Clients(layers) : ~layers[i].pi_changed},
         R # {} => Cardinality(R) = client_layers_count_,
         NEW ls, ls = WithClients(layers, R)
  PROVE  Trust(ls, client_layers_count_, ghosts) /\ Current(ls, ghosts)
<1>1. DOMAIN ls = DOMAIN layers /\ client_layers_count_ \in Nat /\ layers \in Seq(Layer)
      /\ ghosts \in BOOLEAN
  BY DisplayAssumption DEF DisplayAssumption, WithClients, TypeOK
<1>2. ASSUME NEW i \in DOMAIN layers
      PROVE  /\ ls[i].use_client = (i \in R) /\ ls[i].pi_changed = layers[i].pi_changed
             /\ ls[i].drawn = layers[i].drawn
  <2>1. layers[i] \in Layer /\ ls[i] = [layers[i] EXCEPT !.use_client = i \in R]
    BY LayersTyped DEF WithClients
  <2>2. QED BY <2>1 DEF Layer
<1>3. R \subseteq DOMAIN layers
  BY DEF Clients
<1>4. Clients(ls) = R /\ Drawn(ls) = Drawn(layers)
  BY <1>1, <1>2, <1>3 DEF Clients, Drawn
<1>5. CASE client_layers_count_ = 0
  <2>1. Clients(ls) = {}
    BY <1>4, <1>5 DEF Trust
  <2>2. QED BY <2>1, <1>5 DEF Trust, Current
<1>6. CASE client_layers_count_ > 0
  <2>1. /\ \A i \in DOMAIN layers : layers[i].drawn <=> layers[i].use_client /\ ~layers[i].pi_changed
        /\ Cardinality(Drawn(layers)) <= client_layers_count_
        /\ ghosts => Cardinality(Drawn(layers)) < client_layers_count_
        /\ ~ghosts => NoGaps(Drawn(layers))
    BY <1>6 DEF Trust
  <2>2. R = Drawn(layers)
    <3>1. \A i \in DOMAIN layers : i \in R <=> i \in Drawn(layers)
      BY <2>1 DEF Clients, Drawn
    <3>2. Drawn(layers) \subseteq DOMAIN layers
      BY DEF Drawn
    <3>3. QED BY <1>3, <3>1, <3>2
  <2>3. \A i \in DOMAIN ls : ls[i].drawn <=> ls[i].use_client /\ ~ls[i].pi_changed
    BY <1>1, <1>2, <2>1, <2>2 DEF Drawn
  <2>4. Trust(ls, client_layers_count_, ghosts)
    BY <1>4, <1>6, <2>1, <2>3 DEF Trust
  <2>5. ASSUME R # {} PROVE ~ghosts
    <3>1. Cardinality(Drawn(layers)) \in Nat /\ Cardinality(Drawn(layers)) = client_layers_count_
      BY <1>1, <2>2, <2>5, DrawnFinite
    <3>2. QED BY <1>1, <2>1, <3>1
  <2>6. Current(ls, ghosts)
    BY <1>4, <2>1, <2>2, <2>5 DEF Current
  <2>7. QED BY <2>4, <2>6
<1>7. QED BY <1>1, <1>5, <1>6

\* What PresentDisplay() may do.
LEMMA Presented ==
  ASSUME TypeOK, FrameInv, PresentDisplay
  PROVE  FrameInv' /\ (cpc' = "idle" /\ lastFrame' # "dropped" => Current(layers', ghosts'))
<1>1. /\ frame_validated_' = FALSE /\ UNCHANGED <<client_layers_count_, ghosts>>
      /\ cpc \in {"idle", "build", "present"}
  BY DEF PresentDisplay, FrameBegins
<1>2. CASE cpc' = "validate"
  BY <1>2 DEF FrameInv
<1>3. CASE lastFrame' = "dropped" /\ cpc' \in {"idle", "build"}
  BY <1>3 DEF FrameInv
<1>4. ASSUME NEW ls, NEW validated, PresentComposition(ls, validated)
      PROVE  /\ layers' = ls
             /\ cpc' \in {"idle", "build", "validate"}
             /\ lastFrame' = "dropped" <=> lastFrame = "dropped"
  <2>1. layers' = ls /\ cpc' \in {"idle", "build", "validate"}
    BY <1>4 DEF PresentComposition
  <2>2. \/ lastFrame' = lastFrame
        \/ lastFrame' = CASE lastFrame = "dropped" -> "dropped"
                          [] lastFrame # "dropped" /\ flatten_next_frame_ /\ ~validated -> "skipped"
                          [] OTHER -> "normal"
    BY <1>4 DEF PresentComposition
  <2>3. lastFrame' = "dropped" <=> lastFrame = "dropped"
    <3>1. CASE lastFrame = "dropped"
      BY <2>2, <3>1
    <3>2. CASE lastFrame # "dropped" /\ flatten_next_frame_ /\ ~validated
      BY <2>2, <3>2
    <3>3. CASE lastFrame # "dropped" /\ ~(flatten_next_frame_ /\ ~validated)
      BY <2>2, <3>3
    <3>4. QED BY <3>1, <3>2, <3>3
  <2>4. QED BY <2>1, <2>3
<1>5. ASSUME Trust(layers', client_layers_count_, ghosts), Current(layers', ghosts),
             cpc' \in {"idle", "build"}
      PROVE  FrameInv' /\ Current(layers', ghosts')
  BY <1>1, <1>5 DEF FrameInv
<1>6. CASE frame_validated_ /\ cpc = "present"
  <2>1. layers' = layers /\ cpc' \in {"idle", "build", "validate"}
    BY <1>4, <1>6 DEF PresentDisplay
  <2>2. QED BY <1>2, <1>5, <1>6, <2>1, ValidatedIsCurrent
<1>7. CASE frame_validated_ /\ cpc # "present"
  <2>1. lastFrame = "dropped"
    BY <1>1, <1>7 DEF FrameInv
  <2>2. QED BY <1>2, <1>3, <1>4, <1>7, <2>1 DEF PresentDisplay
<1>8. CASE ~frame_validated_
  <2> DEFINE R == {i \in Clients(layers) : ~layers[i].pi_changed}
  <2>1. cpc \in {"idle", "build"} /\ TryReuse
    BY <1>1, <1>8 DEF FrameInv, PresentDisplay
  <2>2. CASE /\ PresentComposition(WithClients(layers, R), FALSE)
             /\ R # {} => Cardinality(R) = client_layers_count_
    <3>1. CASE lastFrame = "dropped"
      BY <1>2, <1>3, <1>4, <2>2, <3>1
    <3>2. CASE lastFrame # "dropped"
      <4>1. Trust(layers, client_layers_count_, ghosts)
        BY <2>1, <3>2 DEF FrameInv
      <4>2. layers' = WithClients(layers, R) /\ cpc' \in {"idle", "build", "validate"}
        BY <1>4, <2>2
      <4>3. Trust(layers', client_layers_count_, ghosts) /\ Current(layers', ghosts)
        BY <4>1, <4>2, <2>2, ReusedIsCurrent
      <4>4. QED BY <1>2, <1>5, <4>2, <4>3
    <3>3. QED BY <3>1, <3>2
  <2>3. cpc' = "validate" \/ (/\ PresentComposition(WithClients(layers, R), FALSE)
                              /\ R # {} => Cardinality(R) = client_layers_count_)
    BY <2>1 DEF TryReuse
  <2>4. QED BY <1>2, <2>2, <2>3
<1>9. QED BY <1>6, <1>7, <1>8

\* The screen shows what the client asked for, however frames are validated,
\* reused, refused or dropped.
THEOREM ScreenIsCurrent == Spec => []FrameIsCurrent
<1>1. Init => FrameInv /\ FrameIsCurrent
  <2>1. Clients(<<>>) = {}
    BY DEF Clients
  <2>2. QED BY <2>1 DEF Init, FrameInv, FrameIsCurrent, Trust
<1>2. ASSUME TypeOK, FrameInv, FrameIsCurrent, [Next]_vars PROVE FrameInv' /\ FrameIsCurrent'
  <2>1. CASE Change
    <3>1. /\ cpc \in {"idle", "build"} /\ cpc' = "build"
          /\ UNCHANGED <<client_layers_count_, frame_validated_, lastFrame>>
      BY <1>2, <2>1, ChangesOnly
    <3>2. PICK S : Changed(layers', S) /\ ghosts' = (ghosts \/ S \cap Drawn(layers) # {})
      BY <1>2, <2>1, ChangesOnly
    <3>3. ASSUME lastFrame # "dropped"
          PROVE  ~frame_validated_ /\ Trust(layers', client_layers_count_, ghosts')
      <4>1. ~frame_validated_ /\ Trust(layers, client_layers_count_, ghosts)
        BY <1>2, <3>1, <3>3 DEF FrameInv
      <4>2. QED BY <1>2, <3>2, <4>1, ChangeKeepsTrust
    <3>4. QED BY <3>1, <3>3 DEF FrameInv, FrameIsCurrent
  <2>2. ASSUME NEW scaled \in SUBSET {i \in DOMAIN layers : layers[i].scanout},
               ValidateDisplay(scaled)
        PROVE  FrameInv' /\ FrameIsCurrent'
    <3>1. frame_validated_' = TRUE /\ cpc' = "compose" /\ lastFrame' # "dropped"
      BY <2>2 DEF ValidateDisplay
    <3>2. QED BY <1>2, <2>2, <3>1, Validated DEF FrameInv, FrameIsCurrent
  <2>3. CASE Compose
    <3>1. cpc = "compose" /\ cpc' = "present"
          /\ UNCHANGED <<client_layers_count_, frame_validated_, lastFrame>>
      BY <2>3 DEF Compose
    <3>2. QED BY <1>2, <2>3, <3>1, Composed DEF FrameInv, FrameIsCurrent
  <2>4. CASE PresentDisplay
    <3>1. FrameInv' /\ (cpc' = "idle" /\ lastFrame' # "dropped" => Current(layers', ghosts'))
      BY <1>2, <2>4, Presented
    <3>2. QED BY <3>1 DEF FrameIsCurrent, Current, NoGaps
  <2>5. CASE DropFrame \/ Deinit
    BY <2>5 DEF DropFrame, Deinit, FrameInv, FrameIsCurrent
  <2>6. CASE Controller \/ UNCHANGED vars
    BY <1>2, <2>6, ControllerApart DEF FrameInv, FrameIsCurrent
  <2>7. QED BY <1>2, <2>1, <2>2, <2>3, <2>4, <2>5, <2>6 DEF Next, Frame
<1>3. QED BY <1>1, <1>2, TypeCorrect, PTL DEF Spec
=============================================================================
