---------------------------- MODULE HwcDisplay ----------------------------
(***************************************************************************)
(* One display of drm_hwcomposer with the patches of this repository: the  *)
(* client (SurfaceFlinger) changes layers and asks for frames, the display *)
(* decides which layers the hardware planes scan out and which the client  *)
(* composes into the client target, and the flattening controller asks for *)
(* frames of its own.  The client's calls are serialised; the thread of    *)
(* the controller interleaves with them.                                   *)
(*                                                                         *)
(* PresentDisplay() without ValidateDisplay() (HWC2_CAPABILITY_SKIP_       *)
(* VALIDATE) uses the client target of an earlier frame when nothing in it *)
(* has changed.                                                            *)
(***************************************************************************)
EXTENDS FlatteningController, Integers, Sequences, FiniteSets

CONSTANTS MaxLayers, \* bound on the layers of the display
          Planes     \* GetUsablePlanes().size()

ASSUME DisplayAssumption == MaxLayers \in Nat /\ Planes \in Nat \ {0}

VARIABLES
  layers,               \* the layers in z order
  client_layers_count_, \* layers validated as CLIENT by ValidateDisplay()
  frame_validated_,
  cpc,                  \* the client's control point
  ghosts,               \* the client target shows what is no longer so
  lastFrame             \* history: "skipped" if it was not validated but took the
                        \* flag, "dropped" after DropFrame

displayVars == <<layers, client_layers_count_, frame_validated_>>
vars == <<fcVars, displayVars, cpc, ghosts, lastFrame>>

\* scanout: CanScanout(), by the type the client asks for, the buffer and the
\* scaling.  drawn: the client target shows the layer as it is.
Layer == [use_client : BOOLEAN, pi_changed : BOOLEAN, scanout : BOOLEAN, drawn : BOOLEAN]

Clients(ls) == {i \in DOMAIN ls : ls[i].use_client}
Drawn(ls) == {i \in DOMAIN ls : ls[i].drawn}

\* ls with the positions in S marked as client layers, and no others.
WithClients(ls, S) == [i \in DOMAIN ls |-> [ls[i] EXCEPT !.use_client = i \in S]]

TypeOK ==
  /\ FcTypeOK
  /\ layers \in Seq(Layer) /\ Len(layers) <= MaxLayers
  /\ client_layers_count_ \in 0..MaxLayers
  /\ cpc \in {"idle", "build", "validate", "compose", "present", "gone"}
  /\ frame_validated_ \in BOOLEAN /\ ghosts \in BOOLEAN
  /\ lastFrame \in {"normal", "dropped", "skipped"}

Init ==
  /\ FcInit
  /\ layers = <<>> /\ client_layers_count_ = 0 /\ frame_validated_ = FALSE
  /\ cpc = "idle" /\ ghosts = FALSE
  /\ lastFrame = "normal"

-----------------------------------------------------------------------------
(* The client changes layers between frames.                               *)

Touch(l) == [l EXCEPT !.pi_changed = TRUE, !.drawn = FALSE]

Build(new) ==
  /\ cpc \in {"idle", "build"}
  /\ layers' = new /\ cpc' = "build"
  /\ UNCHANGED <<fcVars, client_layers_count_, frame_validated_, lastFrame>>

GhostsFrom(S) == ghosts' = (ghosts \/ S \cap Drawn(layers) # {})

\* Layers at and above p get another z position.
TouchFrom(p, ls) == [i \in DOMAIN ls |-> IF i >= p THEN Touch(ls[i]) ELSE ls[i]]

CreateLayer(p, scanout) ==
  LET new == [use_client |-> FALSE, pi_changed |-> TRUE, scanout |-> scanout,
              drawn |-> FALSE] IN
  /\ Len(layers) < MaxLayers
  /\ Build(TouchFrom(p, SubSeq(layers, 1, p - 1) \o <<new>> \o SubSeq(layers, p, Len(layers))))
  /\ GhostsFrom(p..Len(layers))

DestroyLayer(p) ==
  /\ Build(TouchFrom(p, SubSeq(layers, 1, p - 1) \o SubSeq(layers, p + 1, Len(layers))))
  /\ GhostsFrom(p..Len(layers))

\* A new buffer, or a property that changes what the screen shows.
ChangeLayer(p, scanout) ==
  /\ Build([layers EXCEPT ![p] = [Touch(@) EXCEPT !.scanout = scanout]])
  /\ GhostsFrom({p})

SetLayerZOrder(p) ==
  /\ p < Len(layers)
  /\ Build([layers EXCEPT ![p] = Touch(layers[p + 1]), ![p + 1] = Touch(layers[p])])
  /\ GhostsFrom({p, p + 1})

\* Not counted as a change.
SetLayerCompositionType(p) ==
  /\ Build([layers EXCEPT ![p].scanout = ~@]) /\ UNCHANGED ghosts

-----------------------------------------------------------------------------
(* ValidateDisplay().                                                      *)

MinOf(a, b) == IF a <= b THEN a ELSE b

\* GetOrderedLayers(): the smallest range of positions that holds C.
First(C) == CHOOSE i \in C : \A j \in C : i <= j
Last(C) == CHOOSE i \in C : \A j \in C : j <= i
ClientSize(C) == IF C = {} THEN 0 ELSE Last(C) - First(C) + 1

\* Mutant: no plane is kept for the client target.
AllPlanes(n) == Planes

\* If there are more layers than planes, one plane is for the client target.
AvailPlanes(n) == IF Planes < n THEN Planes - 1 ELSE Planes

\* Layers the client must compose for want of planes.
ExtraClient(n, size) == n - size - AvailPlanes(n)
ExtendedSize(n, size) == IF ExtraClient(n, size) > 0 THEN size + ExtraClient(n, size) ELSE size

\* Mutant: only what lies below the range is weighed.
ExtendedStartsShort(n, start, size) ==
  LET extra == ExtraClient(n, size)
      prepend == MinOf(start - 1, extra)
      append == MinOf(n - (start - 1 + size), extra)
      first == start - prepend
      room == n - (first - 1 + size + extra)
  IN CASE extra <= 0 -> {start}
       [] extra > 0 /\ size # 0 -> first..first + MinOf(MinOf(append, prepend), room) - 1
       [] OTHER -> 1..1 + n - extra

\* ExtendClientRange(): the first positions of the ranges it weighs for n layers
\* and a client range that begins at start (if it is not empty).
ExtendedStarts(n, start, size) ==
  LET extra == ExtraClient(n, size)
      prepend == MinOf(start - 1, extra)
      append == MinOf(n - (start - 1 + size), extra)
      first == start - prepend
      room == n - (first - 1 + size + extra)
  IN CASE extra <= 0 -> {start}
       [] extra > 0 /\ size # 0 -> first..first + MinOf(MinOf(append, prepend), room)
       [] OTHER -> 1..1 + n - extra

\* The ranges among which the one with the fewest pixels is taken.
ClientRanges(n, C) ==
  LET size == ExtendedSize(n, ClientSize(C))
      start == IF C = {} THEN 1 ELSE First(C)
  IN {s..s + size - 1 : s \in ExtendedStarts(n, start, ClientSize(C))}

\* Mutant: the request to flatten is not looked at.
NeverFlatten(C) == ClientRanges(Len(layers), C) \cup {DOMAIN layers}

\* SelectClientLayers(): when the test commit is refused all are for the client.
SelectClientLayers(C) ==
  LET all == DOMAIN layers IN
  IF flatten_next_frame_ THEN {all} ELSE ClientRanges(Len(layers), C) \cup {all}

\* A frame begins for a change or because the controller asks for one.
FrameBegins ==
  \/ cpc = "build" /\ refresh' = FALSE
  \/ cpc = "idle" /\ refresh /\ refresh' = FALSE

\* Mutant: the count goes on from the last frame.
ValidateDisplayCounts(scaled) ==
  /\ FrameBegins \/ (cpc = "validate" /\ UNCHANGED refresh)
  /\ LET unfit == {i \in DOMAIN layers : ~layers[i].scanout} \cup scaled IN
     \E C \in SelectClientLayers(unfit) :
       /\ layers' = [i \in DOMAIN layers |->
                       [layers[i] EXCEPT !.use_client = i \in C, !.pi_changed = FALSE]]
       /\ client_layers_count_' = client_layers_count_ + Cardinality(C)
  /\ frame_validated_' = TRUE /\ cpc' = "compose"
  /\ lastFrame' = IF lastFrame = "dropped" THEN "normal" ELSE lastFrame
  /\ UNCHANGED <<flagVars, trigger, tpc, ghosts>>

\* scaled: the layers CompositorSunxi cannot scale; CompositorClient takes all.
ValidateDisplay(scaled) ==
  /\ FrameBegins \/ (cpc = "validate" /\ UNCHANGED refresh)
  /\ LET unfit == {i \in DOMAIN layers : ~layers[i].scanout} \cup scaled IN
     \E C \in SelectClientLayers(unfit) :
       /\ layers' = [i \in DOMAIN layers |->
                       [layers[i] EXCEPT !.use_client = i \in C, !.pi_changed = FALSE]]
       /\ client_layers_count_' = Cardinality(C)
  /\ frame_validated_' = TRUE /\ cpc' = "compose"
  /\ lastFrame' = IF lastFrame = "dropped" THEN "normal" ELSE lastFrame
  /\ UNCHANGED <<flagVars, trigger, tpc, ghosts>>

\* AcceptDisplayChanges(), and SetClientTarget() if there are client layers.
Compose ==
  /\ cpc = "compose" /\ cpc' = "present"
  /\ LET C == Clients(layers) IN
     /\ layers' = [i \in DOMAIN layers |->
                     [layers[i] EXCEPT !.scanout = @ /\ i \notin C,
                                       !.drawn = IF C = {} THEN @ ELSE i \in C]]
     /\ ghosts' = (ghosts /\ C = {})
  /\ UNCHANGED <<fcVars, client_layers_count_, frame_validated_, lastFrame>>

\* The client gives up a frame it has validated.
DropFrame ==
  /\ cpc \in {"compose", "present"}
  /\ cpc' = "build" /\ lastFrame' = "dropped"
  /\ UNCHANGED <<fcVars, displayVars, ghosts>>

-----------------------------------------------------------------------------
(* PresentDisplay().                                                       *)

\* PresentComposition() counts the client target as a layer.
Planned(ls) == Len(ls) + (IF Clients(ls) = {} THEN 0 ELSE 1)

\* The commit; refused by the kernel, or without layers.
PresentComposition(ls, validated) ==
  /\ layers' = ls
  /\ \/ /\ ls # <<>> /\ cpc' = "idle"
        /\ IF Planned(ls) <= 1 THEN Disable ELSE NewFrame
        /\ lastFrame' = CASE lastFrame = "dropped" -> "dropped"
                          [] lastFrame # "dropped" /\ flatten_next_frame_ /\ ~validated -> "skipped"
                          [] OTHER -> "normal"
     \/ /\ cpc' = (IF validated THEN "build" ELSE "validate")
        /\ UNCHANGED <<flagVars, tpc, lastFrame>>

\* Mutant: some unchanged client layers are enough to use their target.
TryReuseSome ==
  LET reuse == {i \in Clients(layers) : ~layers[i].pi_changed} IN
  IF \E i \in DOMAIN layers : ~layers[i].scanout
    THEN cpc' = "validate" /\ UNCHANGED <<layers, flagVars, tpc, lastFrame>>
    ELSE PresentComposition(WithClients(layers, reuse), FALSE)

\* TryPresentDisplayInt() before the frame is validated.  A layer that cannot
\* be scanned out ends the loop over the layers, in an order of its own.
TryReuse ==
  LET reuse == {i \in Clients(layers) : ~layers[i].pi_changed}
      try == Clients(layers) \ reuse
      NotValidated(C) ==
        /\ layers' = WithClients(layers, C) /\ cpc' = "validate"
        /\ UNCHANGED <<flagVars, tpc, lastFrame>>
      refused == reuse # {} /\ Cardinality(reuse) # client_layers_count_
  IN \/ /\ \E i \in DOMAIN layers : ~layers[i].scanout
        /\ \E S \in SUBSET try : NotValidated(Clients(layers) \ S)
     \/ /\ \A i \in DOMAIN layers : layers[i].scanout
        /\ \/ refused /\ NotValidated(reuse)
           \/ ~refused /\ PresentComposition(WithClients(layers, reuse), FALSE)

PresentDisplay ==
  /\ FrameBegins \/ (cpc = "present" /\ UNCHANGED refresh)
  /\ frame_validated_' = FALSE
  /\ IF frame_validated_ THEN PresentComposition(layers, TRUE) ELSE TryReuse
  /\ UNCHANGED <<trigger, client_layers_count_, ghosts>>

\* The display goes: ~CompositorGeneric().
Deinit ==
  /\ cpc \in {"idle", "build"} /\ cpc' = "gone"
  /\ StopThread
  /\ UNCHANGED <<displayVars, ghosts, lastFrame>>

-----------------------------------------------------------------------------
Change ==
  \/ \E p \in 1..Len(layers) + 1, scanout \in BOOLEAN : CreateLayer(p, scanout)
  \/ \E p \in DOMAIN layers :
       DestroyLayer(p) \/ SetLayerZOrder(p) \/ SetLayerCompositionType(p)
  \/ \E p \in DOMAIN layers, scanout \in BOOLEAN : ChangeLayer(p, scanout)

Frame ==
  \/ \E scaled \in SUBSET {i \in DOMAIN layers : layers[i].scanout} : ValidateDisplay(scaled)
  \/ Compose \/ PresentDisplay

Controller ==
  /\ ThreadFn \/ WakeUp
  /\ UNCHANGED <<displayVars, cpc, ghosts, lastFrame>>

Next == Change \/ Frame \/ DropFrame \/ Deinit \/ Controller

Spec == Init /\ [][Next]_vars

\* The thread is scheduled, waits end and time passes, the client presents
\* what it has changed and serves the controller.
FairSpec ==
  /\ Spec
  /\ WF_vars(Frame)
  /\ WF_vars(Controller /\ ThreadFn)
  /\ SF_vars(Controller /\ Timeout)
  /\ WF_vars(Controller /\ WakeUp /\ tpc = "wait_until")

-----------------------------------------------------------------------------
\* What the screen shows is what the client asked for: the client target holds
\* all client layers as they are now and nothing else, and no layer on a plane
\* lies between two of them.  A client that drops a validated frame is on its
\* own until it validates again.
FrameIsCurrent ==
  cpc = "idle" /\ lastFrame # "dropped" /\ Clients(layers) # {} =>
    /\ ~ghosts /\ Drawn(layers) = Clients(layers)
    /\ \A a, b \in Clients(layers) : a..b \subseteq Clients(layers)

\* A validated frame fits the planes, one of them kept for the client target,
\* and leaves no layer to a plane that cannot scan it out.
PlanFits ==
  cpc \in {"compose", "present"} =>
    LET scanout == DOMAIN layers \ Clients(layers) IN
    /\ Cardinality(scanout) + (IF Clients(layers) = {} THEN 0 ELSE 1) <= Planes
    /\ \A i \in scanout : layers[i].scanout

\* ExtendClientRange() considers every range of the size it needs that holds
\* the layers the client must compose, and only those.
RangesComplete ==
  \A C \in SUBSET DOMAIN layers :
    LET n == Len(layers)
        size == ExtendedSize(n, ClientSize(C))
    IN C # {} => ClientRanges(n, C) =
                   {r \in {s..s + size - 1 : s \in 1..n} : C \subseteq r /\ r \subseteq 1..n}

\* When the client stops changing layers, a screen with several of them ends
\* composed into one buffer, unless the frame the controller asked for was
\* presented without validation, which takes the request and ignores it.  When
\* the display goes, the thread of the controller ends.
EndsFlattened ==
  <>[][cpc' # "build"]_cpc =>
    <>[](\/ cpc = "idle" /\ (Planned(layers) <= 1 \/ Clients(layers) = DOMAIN layers)
         \/ lastFrame \in {"skipped", "dropped"} \/ tpc = "ended")
=============================================================================
