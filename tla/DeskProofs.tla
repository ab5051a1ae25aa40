------------------------------ MODULE DeskProofs ------------------------------
(***************************************************************************)
(* What the surfaces show, for every number of models and every player who *)
(* mutes by voice or from the tray.                                        *)
(***************************************************************************)
EXTENDS Desk, TLAPS

Phases == {"idle", "listening", "error"}

Chips == {"none", "hidden", "muted", "listening", "error"}

Models == [state : Chips, revision : Nat]

Intents == [kind : {"ready"}] \cup [kind : {"paint"}, revision : Nat]

TypeOK ==
    /\ machine \in [phase : Phases, muted : BOOLEAN, revision : Nat]
    /\ win \in {"loading", "ready"}
    /\ <<shown, wanted, hold, lost, awaited>> \in BOOLEAN \X BOOLEAN \X BOOLEAN \X BOOLEAN \X BOOLEAN
    /\ cached \in Models
    /\ toView \in Seq(Models)
    /\ toMain \in Seq(Intents)
    /\ view \in [mounted : BOOLEAN, drawn : Models]
    /\ paints \subseteq Nat
    /\ tray \in [glyph : {"idle", "active", "muted"}, muted : BOOLEAN]

-----------------------------------------------------------------------------
(* Operators *)

LEMMA ModelType ==
    ASSUME NEW m \in [phase : Phases, muted : BOOLEAN, revision : Nat]
    PROVE  /\ ModelOf(m) \in Models
           /\ GlyphOf(m) \in {"idle", "active", "muted"}
BY DEF ModelOf, ChipOf, GlyphOf, Models, Chips, Phases

\* What main sends reaches a mounted renderer, and only it.
LEMMA DeliveredForm ==
    ASSUME TypeOK, NEW command \in Models
    PROVE  /\ Delivered(toView, command) \in Seq(Models)
           /\ view.mounted =>
                /\ Len(Delivered(toView, command)) = Len(toView) + 1
                /\ Delivered(toView, command)[Len(toView) + 1] = command
           /\ ~view.mounted => Delivered(toView, command) = toView
BY DEF TypeOK, Delivered

LEMMA ProjectForm ==
    ASSUME TypeOK, NEW m \in [phase : Phases, muted : BOOLEAN, revision : Nat], Project(m)
    PROVE  /\ cached' = ModelOf(m)
           /\ cached' \in Models
           /\ toView' \in Seq(Models)
           /\ view.mounted => toView' # <<>> /\ toView'[Len(toView')] = ModelOf(m)
           /\ ~view.mounted => toView' = toView
<1>1. ModelOf(m) \in Models
  BY ModelType
<1>2. QED
  BY <1>1, DeliveredForm DEF Project

\* Taking the head leaves the last message where it is.
LEMMA LastOfTail ==
    ASSUME NEW S, NEW q \in Seq(S), q # <<>>, Len(q) # 1
    PROVE  Tail(q) # <<>> /\ Tail(q)[Len(Tail(q))] = q[Len(q)]
<1>1. Len(q) \in Nat /\ Len(q) # 0
  OBVIOUS
<1>2. \A n \in Nat : n # 0 /\ n # 1 => n - 1 \in 1 .. n - 1
  OBVIOUS
<1>3. Len(q) - 1 \in 1 .. Len(q) - 1
  BY <1>1, <1>2
<1>4. Len(Tail(q)) = Len(q) - 1
  BY <1>1
<1>5. Tail(q)[Len(q) - 1] = q[Len(q)]
  BY <1>1, <1>3
<1>6. Len(Tail(q)) # 0
  BY <1>1, <1>3, <1>4
<1>7. Tail(q) # <<>>
  <2>1. Len(<< >>) = 0
    OBVIOUS
  <2>2. QED
    BY <1>6, <2>1, Zenon
<1>8. QED
  BY <1>4, <1>5, <1>7

-----------------------------------------------------------------------------
(* Types *)

LEMMA MuteType ==
    ASSUME TypeOK, NEW muted \in BOOLEAN, NEW checked \in BOOLEAN, Mute(muted, checked)
    PROVE  TypeOK'
<1> DEFINE visible == muted \/ machine.phase = "idle"
           next == [phase |-> IF muted THEN "idle" ELSE machine.phase,
                    muted |-> muted,
                    revision |-> IF visible THEN machine.revision + 1 ELSE machine.revision]
<1>1. next \in [phase : Phases, muted : BOOLEAN, revision : Nat]
  BY DEF TypeOK, Phases
<1>2. GlyphOf(next) \in {"idle", "active", "muted"}
  BY <1>1, ModelType
<1>3. /\ machine' = next
      /\ UNCHANGED <<win, toMain, view, paints>>
      /\ Tell(IF visible THEN GlyphOf(next) ELSE tray.glyph, checked)
      /\ IF visible THEN Project(next) ELSE UNCHANGED <<cached, toView>>
      /\ IF muted THEN Show ELSE IF visible THEN Hide ELSE UNCHANGED <<wanted, hold, lost, awaited, shown>>
  BY DEF Mute
<1> HIDE DEF next, visible
<1>4. cached' \in Models /\ toView' \in Seq(Models)
  BY <1>1, <1>3, ProjectForm DEF TypeOK
<1>5. <<shown, wanted, hold, lost, awaited>>' \in BOOLEAN \X BOOLEAN \X BOOLEAN \X BOOLEAN \X BOOLEAN
  BY <1>3 DEF TypeOK, Show, Hide
<1>6. tray' \in [glyph : {"idle", "active", "muted"}, muted : BOOLEAN]
  BY <1>2, <1>3 DEF TypeOK, Tell
<1>7. QED
  BY <1>1, <1>3, <1>4, <1>5, <1>6 DEF TypeOK

LEMMA PerformsForm ==
    ASSUME TypeOK, NEW m \in [phase : Phases, muted : BOOLEAN, revision : Nat], Performs(m)
    PROVE  LET next == [m EXCEPT !.revision = @ + 1]
           IN  /\ next \in [phase : Phases, muted : BOOLEAN, revision : Nat]
               /\ machine' = next
               /\ Project(next)
               /\ tray' \in [glyph : {"idle", "active", "muted"}, muted : BOOLEAN]
<1> DEFINE next == [m EXCEPT !.revision = @ + 1]
<1>1. next \in [phase : Phases, muted : BOOLEAN, revision : Nat]
  OBVIOUS
<1>2. GlyphOf(next) \in {"idle", "active", "muted"}
  BY <1>1, ModelType
<1>3. QED
  BY <1>1, <1>2 DEF Performs, Tell, TypeOK

\* A step of the machine that is one of the trigger's or of a failure's.
LEMMA PerformsType ==
    ASSUME TypeOK, NEW m \in [phase : Phases, muted : BOOLEAN, revision : Nat], Performs(m),
           UNCHANGED <<win, toMain, view, paints>>,
           \/ Show
           \/ Hide
           \/ UNCHANGED <<shown, wanted, hold, lost, awaited>>
    PROVE  TypeOK'
<1>1. machine' \in [phase : Phases, muted : BOOLEAN, revision : Nat]
      /\ cached' \in Models /\ toView' \in Seq(Models)
      /\ tray' \in [glyph : {"idle", "active", "muted"}, muted : BOOLEAN]
  BY PerformsForm, ProjectForm
<1>2. <<shown, wanted, hold, lost, awaited>>' \in BOOLEAN \X BOOLEAN \X BOOLEAN \X BOOLEAN \X BOOLEAN
  BY DEF TypeOK, Show, Hide
<1>3. QED
  BY <1>1, <1>2 DEF TypeOK

\* Every variable keeps its type.
THEOREM DeskTypes == Spec => []TypeOK
<1>1. Init => TypeOK
  <2> SUFFICES ASSUME Init PROVE TypeOK
    OBVIOUS
  <2>1. FirstMachine \in [phase : Phases, muted : BOOLEAN, revision : Nat]
    BY DEF FirstMachine, Phases
  <2>2. ModelOf(FirstMachine) \in Models
    BY <2>1, ModelType
  <2>3. None \in Models
    BY DEF None, Models, Chips
  <2>5. /\ cached \in Models /\ toView \in Seq(Models) /\ toMain \in Seq(Intents)
        /\ view \in [mounted : BOOLEAN, drawn : Models]
    BY <2>2, <2>3 DEF Init
  <2>6. QED
    BY <2>1, <2>5 DEF Init, TypeOK
<1>2. TypeOK /\ [Next]_deskVars => TypeOK'
  <2> SUFFICES ASSUME TypeOK, [Next]_deskVars PROVE TypeOK'
    OBVIOUS
  <2> USE DEF deskVars
  <2>1. CASE Warmed
    BY <2>1 DEF TypeOK, Warmed
  <2>2. CASE HoldExpires
    BY <2>2 DEF TypeOK, HoldExpires
  <2>3. CASE Begins
    <3>1. [machine EXCEPT !.phase = "listening"] \in [phase : Phases, muted : BOOLEAN, revision : Nat]
      BY DEF TypeOK, Phases
    <3>2. QED
      BY <2>3, <3>1, PerformsType DEF Begins
  <2>4. CASE Faults
    <3>1. [machine EXCEPT !.phase = "error"] \in [phase : Phases, muted : BOOLEAN, revision : Nat]
      BY DEF TypeOK, Phases
    <3>2. QED
      BY <2>4, <3>1, PerformsType DEF Faults
  <2>5. CASE Updates
    <3>1. machine \in [phase : Phases, muted : BOOLEAN, revision : Nat]
      BY DEF TypeOK
    <3>2. QED
      BY <2>5, <3>1, PerformsType DEF Updates
  <2>6. CASE Rests
    <3>1. [machine EXCEPT !.phase = "idle"] \in [phase : Phases, muted : BOOLEAN, revision : Nat]
      BY DEF TypeOK, Phases
    <3>2. QED
      BY <2>6, <3>1, PerformsType DEF Rests
  <2>7. CASE ToggleMute
    <3>1. (~machine.muted) \in BOOLEAN
      BY DEF TypeOK
    <3>2. QED
      BY <2>7, <3>1, MuteType DEF ToggleMute
  <2>8. CASE SpokenMute
    <3>1. tray.muted \in BOOLEAN
      BY DEF TypeOK
    <3>2. QED
      BY <2>8, <3>1, MuteType DEF SpokenMute
  <2>9. CASE HandleReady
    <3>1. ModelOf(machine) \in Models
      BY ModelType DEF TypeOK
    <3>2. <<cached, ModelOf(machine)>> \in Seq(Models)
      BY <3>1 DEF TypeOK
    <3>3. toView' \in Seq(Models)
      BY <2>9, <3>2 DEF TypeOK, HandleReady
    <3>4. toMain' \in Seq(Intents)
      BY <2>9 DEF TypeOK, HandleReady
    <3>5. QED
      BY <2>9, <3>1, <3>3, <3>4 DEF TypeOK, HandleReady
  <2>10. CASE HandlePaint
    <3>1. toMain' \in Seq(Intents)
      BY <2>10 DEF TypeOK, HandlePaint
    <3>2. awaited' \in BOOLEAN
      BY <2>10 DEF TypeOK, HandlePaint
    <3>3. QED
      BY <2>10, <3>1, <3>2 DEF TypeOK, HandlePaint
  <2>11. CASE Mounts
    <3>1. Ready \in Intents
      BY DEF Ready, Intents
    <3>2. toMain' \in Seq(Intents)
      BY <2>11, <3>1 DEF TypeOK, Mounts
    <3>3. view' \in [mounted : BOOLEAN, drawn : Models]
      BY <2>11 DEF TypeOK, Mounts
    <3>4. QED
      BY <2>11, <3>2, <3>3 DEF TypeOK, Mounts
  <2>12. CASE HandleModel
    <3>1. Head(toView) \in Models /\ Tail(toView) \in Seq(Models)
      BY <2>12 DEF TypeOK, HandleModel
    <3>2. view' \in [mounted : BOOLEAN, drawn : Models]
      BY <2>12, <3>1 DEF HandleModel, TypeOK
    <3>3. Head(toView).revision \in Nat
      BY <3>1 DEF Models
    <3>4. QED
      BY <2>12, <3>1, <3>2, <3>3 DEF TypeOK, HandleModel
  <2>13. CASE ReportPaint
    <3>1. PICK revision \in paints :
            /\ paints' = paints \ {revision}
            /\ toMain' = Append(toMain, [kind |-> "paint", revision |-> revision])
      BY <2>13 DEF ReportPaint
    <3>2. [kind |-> "paint", revision |-> revision] \in Intents
      BY DEF TypeOK, Intents
    <3>3. toMain' \in Seq(Intents)
      BY <3>1, <3>2 DEF TypeOK
    <3>4. QED
      BY <2>13, <3>1, <3>3 DEF TypeOK, ReportPaint
  <2>14. CASE UNCHANGED deskVars
    BY <2>14 DEF TypeOK
  <2>15. QED
    BY <2>1, <2>2, <2>3, <2>4, <2>5, <2>6, <2>7, <2>8, <2>9, <2>10, <2>11, <2>12, <2>13, <2>14
    DEF Next
<1>3. QED
  BY <1>1, <1>2, PTL DEF Spec

-----------------------------------------------------------------------------
(* The chip *)

Asked == \E i \in DOMAIN toMain : toMain[i].kind = "ready"

\* What the renderer will draw last is what main projected last, unless main
\* is still to be asked for it; and what main projected is what the machine is.
Projected ==
    /\ cached = ModelOf(machine)
    /\ ~view.mounted => toView = <<>> /\ toMain = <<>> /\ paints = {}
    /\ view.mounted =>
        \/ Asked
        \/ toView # <<>> /\ toView[Len(toView)] = cached
        \/ toView = <<>> /\ view.drawn = cached

LEMMA PerformsProjects ==
    ASSUME TypeOK, Projected, NEW m \in [phase : Phases, muted : BOOLEAN, revision : Nat], Performs(m),
           UNCHANGED <<win, toMain, view, paints>>
    PROVE  Projected'
<1> DEFINE next == [m EXCEPT !.revision = @ + 1]
<1>1. next \in [phase : Phases, muted : BOOLEAN, revision : Nat] /\ machine' = next /\ Project(next)
  BY PerformsForm
<1> HIDE DEF next
<1>2. QED
  BY <1>1, ProjectForm DEF Projected

LEMMA MuteProjects ==
    ASSUME TypeOK, Projected, NEW muted \in BOOLEAN, NEW checked \in BOOLEAN, Mute(muted, checked)
    PROVE  Projected'
<1> DEFINE visible == muted \/ machine.phase = "idle"
           next == [phase |-> IF muted THEN "idle" ELSE machine.phase,
                    muted |-> muted,
                    revision |-> IF visible THEN machine.revision + 1 ELSE machine.revision]
<1>1. next \in [phase : Phases, muted : BOOLEAN, revision : Nat]
  BY DEF TypeOK, Phases
<1>2. /\ machine' = next
      /\ UNCHANGED <<win, toMain, view, paints>>
      /\ IF visible THEN Project(next) ELSE UNCHANGED <<cached, toView>>
  BY DEF Mute
<1>3. CASE visible
  <2> HIDE DEF next
  <2>1. QED
    BY <1>1, <1>2, <1>3, ProjectForm DEF Projected
<1>4. CASE ~visible
  <2>1. ModelOf(next) = ModelOf(machine)
    BY <1>4 DEF ModelOf, ChipOf
  <2> HIDE DEF next
  <2>2. ModelOf(machine)' = ModelOf(machine)
    BY <1>2, <2>1
  <2>3. QED
    BY <1>2, <1>4, <2>2 DEF Projected, Asked
<1>5. QED
  BY <1>3, <1>4

\* Once nothing is on its way, the chip that is drawn is the one the machine
\* is in, for every number of models and every way of muting.
THEOREM ChipDrawn == Spec => []ChipIsDrawn
<1>1. Init => Projected
  BY DEF Init, Projected
<1>2. TypeOK /\ Projected /\ [Next]_deskVars => Projected'
  <2> SUFFICES ASSUME TypeOK, Projected, [Next]_deskVars PROVE Projected'
    OBVIOUS
  <2>1. CASE Warmed \/ HoldExpires
    BY <2>1 DEF Warmed, HoldExpires, Projected, Asked
  <2>2. CASE Begins \/ Faults \/ Updates \/ Rests
    <3>1. /\ [machine EXCEPT !.phase = "listening"] \in [phase : Phases, muted : BOOLEAN, revision : Nat]
          /\ [machine EXCEPT !.phase = "error"] \in [phase : Phases, muted : BOOLEAN, revision : Nat]
          /\ [machine EXCEPT !.phase = "idle"] \in [phase : Phases, muted : BOOLEAN, revision : Nat]
          /\ machine \in [phase : Phases, muted : BOOLEAN, revision : Nat]
      BY DEF TypeOK, Phases
    <3>2. QED
      BY <2>2, <3>1, PerformsProjects DEF Begins, Faults, Updates, Rests
  <2>3. CASE ToggleMute \/ SpokenMute
    <3>1. (~machine.muted) \in BOOLEAN /\ tray.muted \in BOOLEAN
      BY DEF TypeOK
    <3>2. QED
      BY <2>3, <3>1, MuteProjects DEF ToggleMute, SpokenMute
  <2>4. CASE HandleReady
    <3>1. ModelOf(machine) \in Models
      BY ModelType DEF TypeOK
    <3>2. toView' # <<>> /\ toView'[Len(toView')] = ModelOf(machine)
      BY <2>4, <3>1 DEF HandleReady, TypeOK
    <3>3. cached' = ModelOf(machine) /\ UNCHANGED <<machine, view>>
      BY <2>4 DEF HandleReady
    <3>4. view.mounted
      BY <2>4 DEF HandleReady, Projected
    <3>5. QED
      BY <3>2, <3>3, <3>4 DEF Projected
  <2>5. CASE HandlePaint
    <3>1. /\ toMain # <<>> /\ Head(toMain).kind = "paint" /\ toMain' = Tail(toMain)
          /\ UNCHANGED <<machine, cached, toView, view, paints>>
      BY <2>5 DEF HandlePaint
    <3>2. view.mounted
      BY <3>1 DEF Projected
    <3>3. Asked => Asked'
      <4> SUFFICES ASSUME NEW i \in DOMAIN toMain, toMain[i].kind = "ready" PROVE Asked'
        BY DEF Asked
      <4>1. i # 1
        BY <3>1 DEF TypeOK
      <4>2. i - 1 \in DOMAIN Tail(toMain) /\ Tail(toMain)[i - 1] = toMain[i]
        BY <3>1, <4>1 DEF TypeOK
      <4>3. QED
        BY <3>1, <4>2 DEF Asked
    <3>4. QED
      BY <3>1, <3>2, <3>3 DEF Projected
  <2>6. CASE Mounts
    <3>1. toMain' = Append(toMain, Ready) /\ view'.mounted /\ UNCHANGED <<machine, cached>>
      BY <2>6 DEF Mounts, TypeOK
    <3>2. Len(toMain) + 1 \in DOMAIN toMain' /\ toMain'[Len(toMain) + 1] = Ready
      BY <3>1 DEF TypeOK
    <3>3. Asked'
      BY <3>2 DEF Asked, Ready
    <3>4. QED
      BY <3>1, <3>3 DEF Projected
  <2>7. CASE HandleModel
    <3>1. /\ toView # <<>> /\ toView' = Tail(toView) /\ view' = [view EXCEPT !.drawn = Head(toView)]
          /\ UNCHANGED <<machine, cached, toMain>>
      BY <2>7 DEF HandleModel
    <3>2. Head(toView) \in Models
      BY <3>1 DEF TypeOK
    <3>3. view'.mounted = view.mounted /\ view'.drawn = Head(toView)
      BY <3>1, <3>2 DEF TypeOK
    <3>4. view.mounted
      BY <3>1 DEF Projected
    <3>5. Asked => Asked'
      BY <3>1 DEF Asked
    <3>6. ASSUME toView[Len(toView)] = cached
          PROVE  \/ toView' # <<>> /\ toView'[Len(toView')] = cached
                 \/ toView' = <<>> /\ view'.drawn = cached
      <4>1. CASE Len(toView) = 1
        BY <3>1, <3>3, <3>6, <4>1 DEF TypeOK
      <4>2. CASE Len(toView) # 1
        BY <3>1, <3>6, <4>2, LastOfTail DEF TypeOK
      <4>3. QED
        BY <4>1, <4>2
    <3>7. QED
      BY <3>1, <3>3, <3>4, <3>5, <3>6 DEF Projected
  <2>8. CASE ReportPaint
    <3>1. PICK revision \in paints : toMain' = Append(toMain, [kind |-> "paint", revision |-> revision])
      BY <2>8 DEF ReportPaint
    <3>2. view.mounted /\ UNCHANGED <<machine, cached, toView, view>>
      BY <2>8, <3>1 DEF Projected, ReportPaint
    <3>3. Asked => Asked'
      <4> SUFFICES ASSUME NEW i \in DOMAIN toMain, toMain[i].kind = "ready" PROVE Asked'
        BY DEF Asked
      <4>1. i \in DOMAIN toMain' /\ toMain'[i] = toMain[i]
        BY <3>1 DEF TypeOK
      <4>2. QED
        BY <4>1 DEF Asked
    <3>4. QED
      BY <3>2, <3>3 DEF Projected
  <2>9. CASE UNCHANGED deskVars
    BY <2>9 DEF deskVars, Projected, Asked
  <2>10. QED
    BY <2>1, <2>2, <2>3, <2>4, <2>5, <2>6, <2>7, <2>8, <2>9 DEF Next
<1>3. TypeOK /\ Projected => ChipIsDrawn
  <2> SUFFICES ASSUME TypeOK, Projected, view.mounted, toView = <<>>,
                      \A i \in DOMAIN toMain : toMain[i].kind # "ready"
               PROVE  view.drawn = cached /\ view.drawn.state = ChipOf(machine)
    BY DEF ChipIsDrawn
  <2>1. view.drawn = cached
    BY DEF Projected, Asked
  <2>2. QED
    BY <2>1 DEF Projected, ModelOf
<1>4. QED
  BY <1>1, <1>2, <1>3, DeskTypes, PTL DEF Spec

-----------------------------------------------------------------------------
(* The window *)

\* A hide that is held back is the last thing that was asked of the window,
\* and a window that shows another thing than was asked last was undone by the
\* load; only the end of the load undoes anything.
Mapped ==
    /\ hold => ~wanted
    /\ lost => win = "ready" /\ wanted
    /\ ~hold /\ ~lost => shown = wanted

\* The window is mapped when a chip is asked for, and unmapped when none is,
\* whoever mutes while it loads, but for a show that the end of the load undid.
THEOREM WindowMapped == Spec => []ShownAsAsked
<1>1. Init => Mapped
  BY DEF Init, Mapped
<1>2. TypeOK /\ Mapped /\ [Next]_deskVars => Mapped'
  <2> SUFFICES ASSUME TypeOK, Mapped, [Next]_deskVars PROVE Mapped'
    OBVIOUS
  <2>1. CASE UNCHANGED <<win, shown, wanted, hold, lost>>
    BY <2>1 DEF Mapped
  <2>2. CASE Warmed
    BY <2>2 DEF Warmed, Mapped, TypeOK
  <2>3. CASE HoldExpires
    BY <2>3 DEF HoldExpires, Mapped, TypeOK
  <2>4. CASE win' = win /\ (Show \/ Hide)
    BY <2>4 DEF Mapped, Show, Hide, TypeOK
  <2>5. QED
    BY <2>1, <2>2, <2>3, <2>4
    DEF Next, deskVars, Interactive, Begins, Faults, Updates, Rests, ToggleMute, SpokenMute, Mute,
        HandleReady, HandlePaint, Mounts, HandleModel, ReportPaint
<1>3. TypeOK /\ Mapped => ShownAsAsked
  BY DEF TypeOK, Mapped, ShownAsAsked
<1>4. QED
  BY <1>1, <1>2, <1>3, DeskTypes, PTL DEF Spec
===============================================================================
