-------------------------- MODULE FrontPanelProofs --------------------------
(***************************************************************************)
(* Proofs about FrontPanel, for every set of keys, states of the daemon    *)
(* and readings of the battery, and for every length of the channels: a    *)
(* dark screen is dark altogether, nobody acts on a screen that was not    *)
(* drawn, and no change is noted in the dark.                              *)
(***************************************************************************)
EXTENDS FrontPanel, TLAPS

-----------------------------------------------------------------------------
(* The pure parts.                                                          *)

LEMMA RotateType ==
  ASSUME NEW k \in PanelKeys PROVE rotateButton(k) \in {"A", "B", "X", "Y"}
  BY PanelAssumption DEF rotateButton

LEMMA HealthType == \A s : healthLED(s) \in {"red", "amber", "green"}
  BY DEF healthLED

LEMMA FlippedType == \A p \in Pages : Flipped[p] \in Pages
  BY DEF Pages, Flipped

-----------------------------------------------------------------------------
(* Types, with DarkIsDark.                                                  *)

LEMMA InputType ==
  ASSUME AroundTypeOK, Input PROVE inputs' \in 0..MaxInputs
  BY PanelAssumption DEF AroundTypeOK, Input

\* What happens around the panel leaves its own variables alone.
LEMMA AroundType ==
  ASSUME PanelTypeOK, Around
  PROVE  AroundTypeOK' /\ UNCHANGED <<keyVars, loopVars, idleOff, buttons, loop>>
  <1> USE DEF PanelTypeOK, AroundTypeOK
  <1>1. ASSUME NEW w \in Worlds, NEW announced \in BOOLEAN, Happens(w, announced)
        PROVE  AroundTypeOK'
    <2>1. watch' \in [open : BOOLEAN, n : 0..WatchBuffer]
      <3>1. CASE watch.n < WatchBuffer /\ watch' = [watch EXCEPT !.n = @ + 1]
        <4>1. watch.n + 1 \in 0..WatchBuffer
          BY <3>1, PanelAssumption
        <4> QED
          BY <3>1, <4>1
      <3> QED
        BY <1>1, <3>1 DEF Happens
    <2> QED
      BY <1>1, <2>1, InputType DEF Happens
  <1>2. CASE WatchEnds
    BY <1>2, InputType DEF WatchEnds
  <1>3. CASE ApiShutdown
    BY <1>3 DEF ApiShutdown
  <1>4. CASE StopDaemon
    BY <1>4 DEF StopDaemon
  <1> QED
    BY <1>1, <1>2, <1>3, <1>4
    DEF Around, Happens, WatchEnds, ApiShutdown, StopDaemon, keyVars, loopVars

LEMMA PollType ==
  ASSUME PanelTypeOK, PollButtons
  PROVE  KeysTypeOK' /\ AroundTypeOK' /\ UNCHANGED <<loopVars, idleOff, loop>>
  <1> USE DEF PanelTypeOK, KeysTypeOK
  <1>1. ASSUME NEW k \in PanelKeys, Press(k)
        PROVE  KeysTypeOK'
    BY <1>1 DEF Press
  <1>2. ASSUME NEW k \in PanelKeys, LongPress(k) PROVE KeysTypeOK'
    BY <1>2, RotateType DEF LongPress, ButtonEvents
  <1>3. ASSUME NEW k \in PanelKeys, Release(k) PROVE KeysTypeOK'
    BY <1>3, RotateType DEF Release, ButtonEvents
  <1>4. ASSUME Emit PROVE KeysTypeOK'
    <2>1. PICK e \in ButtonEvents : out = <<e>>
      BY <1>4 DEF Emit
    <2>2. buttons \o out \in Seq(ButtonEvents) /\ Len(buttons \o out) = Len(buttons) + 1
      BY <2>1
    <2> QED
      BY <1>4, <2>2, PanelAssumption DEF Emit
  <1>5. ASSUME PollerStops PROVE KeysTypeOK'
    BY <1>5 DEF PollerStops
  <1>6. UNCHANGED <<loopVars, idleOff, loop, world, watch, alive, power>>
    BY DEF PollButtons, Press, LongPress, Release, Emit, PollerStops, aroundVars
  <1>7. inputs' = inputs \/ Input
    BY DEF PollButtons, Press, LongPress, Release, Emit, PollerStops, aroundVars
  <1>8. AroundTypeOK'
    BY <1>6, <1>7, InputType DEF AroundTypeOK
  <1> QED
    BY <1>1, <1>2, <1>3, <1>4, <1>5, <1>6, <1>8 DEF PollButtons

\* The screen loop leaves the keys alone, takes at most one event of a button, and
\* changes nothing around it but by a picture that fails or by powering off.
LEMMA ScreenKeys ==
  ASSUME PanelTypeOK, ScreenLoop
  PROVE  KeysTypeOK' /\ AroundTypeOK' /\ idleOff' = idleOff
  <1>1. UNCHANGED keyVars /\ (buttons' = buttons \/ (buttons # <<>> /\ buttons' = Tail(buttons)))
    BY DEF ScreenLoop, Tick, RegistryEvent, Resubscribe, Sample, Paint, ButtonOnDark, Handled,
           FlipPage, ScreenOff, ShowQR, Farewell, PowerOff, ContextDone, Close
  <1>2. KeysTypeOK'
    <2>1. buttons' \in Seq(ButtonEvents) /\ Len(buttons') <= ButtonBuffer
      BY <1>1, PanelAssumption DEF PanelTypeOK, KeysTypeOK
    <2> QED
      BY <1>1, <2>1 DEF PanelTypeOK, KeysTypeOK, keyVars
  <1>3. /\ UNCHANGED <<world, idleOff>>
        /\ UNCHANGED <<alive, power>> \/ (power' = "off" /\ alive' = FALSE)
        /\ inputs' = inputs \/ Input
    BY DEF ScreenLoop, Tick, RegistryEvent, Resubscribe, Sample, Paint, ButtonOnDark,
           FlipPage, ScreenOff, ShowQR, Farewell, PowerOff, ContextDone, Close, aroundVars
  <1>4. inputs' \in 0..MaxInputs
    BY <1>3, InputType DEF PanelTypeOK, AroundTypeOK
  <1>5. \/ watch' = watch
        \/ watch.n > 0 /\ watch' = [watch EXCEPT !.n = @ - 1]
        \/ watch' = [watch EXCEPT !.open = TRUE]
    BY DEF ScreenLoop, Tick, RegistryEvent, Resubscribe, Sample, Paint, ButtonOnDark,
           FlipPage, ScreenOff, ShowQR, Farewell, PowerOff, ContextDone, Close
  <1>6. watch' \in [open : BOOLEAN, n : 0..WatchBuffer]
    <2>1. watch.n > 0 => watch.n - 1 \in 0..WatchBuffer
      BY PanelAssumption DEF PanelTypeOK, AroundTypeOK
    <2> QED
      BY <1>5, <2>1 DEF PanelTypeOK, AroundTypeOK
  <1> QED
    BY <1>2, <1>3, <1>4, <1>6 DEF PanelTypeOK, AroundTypeOK

\* What a draw leaves on the board.
LEMMA PaintedType ==
  ASSUME PanelTypeOK, loop = "paint", NEW blit \in BOOLEAN
  PROVE  /\ Painted(blit) \in Boards
         /\ LitNow \in BOOLEAN
         /\ Painted(blit).light = LitNow
         /\ ~LitNow => Painted(blit).led = "off"
         /\ activityOf(snap[1]) \in {activityOf(s) : s \in Snapshots} \cup {NoSig}
  <1> USE DEF PanelTypeOK, LoopTypeOK
  <1>1. snap[1] \in Snapshots /\ snap[1].world \in Worlds
    BY DEF Snapshots
  <1>2. LitNow \in BOOLEAN /\ (~LitNow => ~screenOn)
    BY DEF LitNow, Changed
  <1>3. panel.light = screenOn /\ (~screenOn => panel.led = "off")
    BY DEF DarkIsDark, Running
  <1>4. CASE LitNow
    BY <1>1, <1>4, HealthType DEF Painted, Boards
  <1>5. CASE ~LitNow
    BY <1>1, <1>2, <1>3, <1>5 DEF Painted
  <1> QED
    BY <1>4, <1>5

LEMMA WakeType ==
  ASSUME PanelTypeOK, Wake
  PROVE  /\ idle' \in 0..idleOff /\ screenOn' = TRUE /\ panel' \in Boards
         /\ panel'.light = TRUE /\ drawn' \in Drawn
  <1>1. panel' \in Boards /\ panel'.light = TRUE
    BY DEF PanelTypeOK, LoopTypeOK, Wake, Boards
  <1>2. idle' \in 0..idleOff
    BY PanelAssumption DEF PanelTypeOK, AroundTypeOK, Wake
  <1> QED
    BY <1>1, <1>2 DEF PanelTypeOK, LoopTypeOK, Wake, Drawn

LEMMA DarkType ==
  ASSUME NEW p \in Boards
  PROVE  Dark(p) \in Boards /\ Dark(p).light = FALSE /\ Dark(p).led = "off"
  BY DEF Dark, Boards

LEMMA ScreenType ==
  ASSUME PanelTypeOK, ScreenLoop, idleOff' = idleOff
  PROVE  LoopTypeOK' /\ DarkIsDark'
  <1> USE DEF PanelTypeOK, LoopTypeOK
  <1>i. idleOff \in Nat
    BY PanelAssumption DEF AroundTypeOK
  <1>1. ASSUME Tick PROVE LoopTypeOK' /\ DarkIsDark'
    BY <1>1, <1>i DEF Tick, DarkIsDark, Running
  <1>2. ASSUME RegistryEvent PROVE LoopTypeOK' /\ DarkIsDark'
    BY <1>2, WakeType DEF RegistryEvent, DarkIsDark, Running
  <1>3. ASSUME Resubscribe PROVE LoopTypeOK' /\ DarkIsDark'
    BY <1>3 DEF Resubscribe, loopVars, DarkIsDark, Running
  <1>4. ASSUME NEW battery \in Readings, Sample(battery) PROVE LoopTypeOK' /\ DarkIsDark'
    BY <1>4 DEF Sample, Snapshots, AroundTypeOK, DarkIsDark, Running
  <1>5. ASSUME NEW blit \in BOOLEAN, Paint(blit) PROVE LoopTypeOK' /\ DarkIsDark'
    <2> DEFINE woken == IF Changed THEN 0 ELSE idle
               sleeps == ticked /\ idleOff > 0 /\ LitNow /\ woken >= idleOff
    <2>1. loop = "paint" /\ loop' = "select"
      BY <1>5 DEF Paint
    <2>2. woken \in 0..idleOff /\ sleeps \in BOOLEAN
      BY <1>i
    <2>3. /\ idle' = woken /\ screenOn' = (LitNow /\ ~sleeps)
          /\ drawn' = IF LitNow /\ ~sleeps THEN DrawnBy(blit) ELSE "no"
          /\ panel' = IF sleeps THEN Dark(Painted(blit)) ELSE Painted(blit)
          /\ ticked' = FALSE /\ snap' = <<>> /\ page' = page
          /\ sigInit' = TRUE /\ lastSig' = activityOf(snap[1])
      BY <1>5 DEF Paint, Noted
    <2> HIDE DEF woken, sleeps
    <2>4. panel' \in Boards /\ panel'.light = screenOn' /\ (~screenOn' => panel'.led = "off")
      <3>1. CASE sleeps
        BY <2>1, <2>3, <3>1, PaintedType, DarkType
      <3>2. CASE ~sleeps
        BY <2>1, <2>3, <3>2, PaintedType
      <3> QED
        BY <3>1, <3>2
    <2>5. idle' \in 0..idleOff'
      BY <2>2, <2>3
    <2>6. screenOn' \in BOOLEAN /\ drawn' \in Drawn
      BY <2>2, <2>3 DEF DrawnBy, Drawn
    <2> QED
      BY <2>1, <2>3, <2>4, <2>5, <2>6, PaintedType DEF DarkIsDark
  <1>6. ASSUME ButtonOnDark PROVE LoopTypeOK' /\ DarkIsDark'
    BY <1>6, WakeType DEF ButtonOnDark, DarkIsDark, Running
  <1>7. ASSUME FlipPage PROVE LoopTypeOK' /\ DarkIsDark'
    BY <1>7, WakeType, FlippedType DEF FlipPage, DarkIsDark, Running
  <1>8. ASSUME ScreenOff PROVE LoopTypeOK' /\ DarkIsDark'
    <2>1. panel' \in Boards /\ panel'.light = FALSE /\ panel'.led = "off"
      BY <1>8, DarkType DEF ScreenOff
    <2>2. idle' \in 0..idleOff'
      BY <1>8, <1>i DEF ScreenOff
    <2> QED
      BY <1>8, <2>1, <2>2 DEF ScreenOff, DarkIsDark, Drawn
  <1>9. ASSUME ShowQR PROVE LoopTypeOK' /\ DarkIsDark'
    BY <1>9, WakeType DEF ShowQR, DarkIsDark, Running, Pages
  <1>10. ASSUME NEW blit \in BOOLEAN, Farewell(blit) PROVE LoopTypeOK' /\ DarkIsDark'
    BY <1>10, <1>i DEF Farewell, DarkIsDark, Running, Boards
  <1>11. ASSUME NEW ok \in BOOLEAN, PowerOff(ok) PROVE LoopTypeOK' /\ DarkIsDark'
    BY <1>11 DEF PowerOff, loopVars, DarkIsDark, Running
  <1>12. ASSUME ContextDone PROVE LoopTypeOK' /\ DarkIsDark'
    BY <1>12 DEF ContextDone, loopVars, DarkIsDark, Running
  <1>13. ASSUME Close PROVE LoopTypeOK' /\ DarkIsDark'
    BY <1>13, DarkType DEF Close, DarkIsDark, Running
  <1> QED
    BY <1>1, <1>2, <1>3, <1>4, <1>5, <1>6, <1>7, <1>8, <1>9, <1>10, <1>11, <1>12, <1>13
    DEF ScreenLoop

LEMMA PanelTypeStep == PanelTypeOK /\ [PanelNext]_panelVars => PanelTypeOK'
  <1> SUFFICES ASSUME PanelTypeOK, [PanelNext]_panelVars PROVE PanelTypeOK'
    OBVIOUS
  <1>1. CASE UNCHANGED panelVars
    BY <1>1
    DEF PanelTypeOK, KeysTypeOK, AroundTypeOK, LoopTypeOK, DarkIsDark, Running, panelVars,
        keyVars, loopVars, aroundVars
  <1>2. CASE Around
    BY <1>2, AroundType
    DEF PanelTypeOK, KeysTypeOK, LoopTypeOK, DarkIsDark, Running, keyVars, loopVars
  <1>3. CASE PollButtons
    BY <1>3, PollType DEF PanelTypeOK, LoopTypeOK, DarkIsDark, Running, loopVars
  <1>4. CASE ScreenLoop
    BY <1>4, ScreenKeys, ScreenType DEF PanelTypeOK
  <1> QED
    BY <1>1, <1>2, <1>3, <1>4 DEF PanelNext

\* A panel at any place of its loop that a host may start it in.
LEMMA PanelTypeInit ==
  ASSUME NEW place \in {"sample", "closed"}, PanelAt(place)
  PROVE  PanelTypeOK
  <1>1. KeysTypeOK
    BY PanelAssumption DEF PanelAt, KeysTypeOK
  <1>2. AroundTypeOK
    BY PanelAssumption DEF PanelAt, AroundTypeOK
  <1>3. panel \in Boards /\ panel.light = TRUE
    BY DEF PanelAt, Boards
  <1>4. idle \in 0..idleOff
    BY PanelAssumption DEF PanelAt
  <1> QED
    BY <1>1, <1>2, <1>3, <1>4 DEF PanelAt, PanelTypeOK, LoopTypeOK, DarkIsDark, Pages, Drawn

\* A dark screen is dark altogether at every turn of the loop: no draw lights the
\* backlight or the LED behind the back of screenOn (display.go:169-172, 180-191).
THEOREM PanelTypes == PanelSpec => []PanelTypeOK
  <1>1. PanelInit => PanelTypeOK
    BY PanelTypeInit DEF PanelInit
  <1> QED
    BY <1>1, PanelTypeStep, PTL DEF PanelSpec

-----------------------------------------------------------------------------
(* What a user and the daemon may rely on.                                  *)

\* A lit screen that waits has been drawn: whatever lights it, draws first.
LitIsDrawn == loop = "select" /\ screenOn => drawn # "no"

LEMMA LitIsDrawnStep == LitIsDrawn /\ PanelTypeOK /\ [PanelNext]_panelVars => LitIsDrawn'
  <1> SUFFICES ASSUME LitIsDrawn, PanelTypeOK, [PanelNext]_panelVars PROVE LitIsDrawn'
    OBVIOUS
  <1> USE DEF LitIsDrawn
  <1>1. CASE UNCHANGED panelVars
    BY <1>1 DEF panelVars, loopVars
  <1>2. CASE Around
    BY <1>2, AroundType DEF loopVars
  <1>3. CASE PollButtons
    BY <1>3, PollType DEF loopVars
  <1>4. CASE ScreenLoop
    BY <1>4
    DEF ScreenLoop, Tick, RegistryEvent, Resubscribe, Sample, Paint, DrawnBy, ButtonOnDark,
        FlipPage, ScreenOff, ShowQR, Farewell, PowerOff, ContextDone, Close, loopVars
  <1> QED
    BY <1>1, <1>2, <1>3, <1>4 DEF PanelNext

LEMMA NotBlindStep ==
  ASSUME LitIsDrawn, PanelTypeOK, [PanelNext]_panelVars,
         Acts
  PROVE  screenOn /\ drawn # "no"
  <1>1. CASE UNCHANGED panelVars
    BY <1>1 DEF Acts, panelVars, loopVars
  <1>2. CASE Around
    BY <1>2, AroundType DEF Acts, loopVars
  <1>3. CASE PollButtons
    BY <1>3, PollType DEF Acts, loopVars
  <1>4. CASE ScreenLoop
    BY <1>4
    DEF Acts, LitIsDrawn, ScreenLoop, Tick, RegistryEvent, Resubscribe, Sample, Paint, ButtonOnDark,
        Handled, FlipPage, ScreenOff, ShowQR, Farewell, PowerOff, ContextDone, Close, loopVars
  <1> QED
    BY <1>1, <1>2, <1>3, <1>4 DEF PanelNext

\* Nobody acts on a screen that was not drawn since it was lit: a press on a dark
\* panel only wakes it, and a press that waits in the channel meets a screen that is
\* painted, or whose every picture since the board refused (display.go:188-190,
\* 225-231).
THEOREM NobodyActsBlind == PanelSpec => NotBlind
  <1>1. PanelInit => LitIsDrawn
    BY DEF PanelInit, PanelAt, LitIsDrawn
  <1>2. LitIsDrawn /\ PanelTypeOK /\ [PanelNext]_panelVars =>
          [Acts => screenOn /\ drawn # "no"]_panelVars
    BY NotBlindStep
  <1> QED
    BY <1>1, <1>2, LitIsDrawnStep, PanelTypes, PTL DEF PanelSpec, NotBlind

LEMMA ChangesLightStep ==
  ASSUME PanelTypeOK, [PanelNext]_panelVars, sigInit, lastSig' # lastSig
  PROVE  screenOn'
  <1>1. CASE UNCHANGED panelVars
    BY <1>1 DEF panelVars, loopVars
  <1>2. CASE Around
    BY <1>2, AroundType DEF loopVars
  <1>3. CASE PollButtons
    BY <1>3, PollType DEF loopVars
  <1>4. CASE ScreenLoop
    <2>1. PICK blit \in BOOLEAN : Paint(blit)
      BY <1>4
      DEF ScreenLoop, Tick, RegistryEvent, Resubscribe, Sample, ButtonOnDark, FlipPage,
          ScreenOff, ShowQR, Farewell, PowerOff, ContextDone, Close, loopVars
    <2>2. Changed
      BY <2>1 DEF Paint, Noted, Changed
    <2>3. LitNow /\ ~(idleOff > 0 /\ 0 >= idleOff)
      BY <2>2, PanelAssumption DEF LitNow, PanelTypeOK, AroundTypeOK
    <2> QED
      BY <2>1, <2>2, <2>3 DEF Paint
  <1> QED
    BY <1>1, <1>2, <1>3, <1>4 DEF PanelNext

\* The loop takes note of a change only by lighting the screen: a transfer, a
\* device or a network that comes or goes is never missed in the dark
\* (display.go:180-187).
THEOREM ChangeIsSeen == PanelSpec => ChangesLight
  <1>1. PanelTypeOK /\ [PanelNext]_panelVars =>
          [sigInit /\ lastSig' # lastSig => screenOn']_panelVars
    BY ChangesLightStep
  <1> QED
    BY <1>1, PanelTypes, PTL DEF PanelSpec, ChangesLight

=============================================================================
