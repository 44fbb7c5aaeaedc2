----------------------------- MODULE FrontPanel -----------------------------
(***************************************************************************)
(* The front panel of a Raspberry Pi with a Display HAT Mini               *)
(* (internal/display): the goroutine that samples the four buttons and the *)
(* one that owns the screen.                                               *)
(*                                                                         *)
(* The screen loop waits for the refresh ticker, a registry event, a       *)
(* button event or the end of its context.  Every draw has two steps,      *)
(* because the state of the daemon may change between the snapshot and the *)
(* picture.  Time is counted in ticks of the refresh interval.  Calls of   *)
(* the hardware succeed, except that of the picture, which may fail.  The  *)
(* battery poller of its own goroutine is seen through the reading it last *)
(* cached, any of Charges at any time.                                     *)
(***************************************************************************)
EXTENDS Integers, Sequences

CONSTANTS
  PanelKeys,      \* the keys that are pressed: some of "A", "B", "X", "Y"
  Worlds,         \* states of the daemon: [busy, infos, net]
  Charges,        \* readings of a battery: [present, percent, external]
  Rotate180,      \* display.rotation is 180
  AllowShutdown,  \* display.allowShutdown
  IdleOffs,       \* values of display.idleOff, in ticks; 0: never
  ButtonBuffer,   \* bound: button events that wait (8 in the code)
  WatchBuffer,    \* bound: registry events that wait
  MaxInputs       \* bound: presses, changes around the panel, failing pictures

ASSUME PanelAssumption ==
  /\ PanelKeys \subseteq {"A", "B", "X", "Y"}
  /\ Rotate180 \in BOOLEAN /\ AllowShutdown \in BOOLEAN
  /\ IdleOffs \subseteq Nat /\ ButtonBuffer \in Nat /\ WatchBuffer \in Nat
  /\ MaxInputs \in Nat

VARIABLES
  world,    \* what the snapshot will see: transfers, devices, network
  held,     \* held[k]: the debounced state of a key; "fired": its long press is out
  out,      \* the event that emit is about to queue, if any
  buttons,  \* the channel of button events
  poller,   \* the goroutine that samples the keys
  watch,    \* the registry's channel: open, and the events in it
  loop,     \* where the screen loop is
  ticked,   \* the draw in progress is the ticker's
  snap, sigInit, lastSig, page, idle, screenOn,   \* variables of loop; snap: of a draw
  panel,    \* the board: [light, led, page, world], the last two as painted
  idleOff,  \* display.idleOff
  alive,    \* the daemon's context
  power,    \* the Raspberry Pi
  drawn,    \* history: what came of the draws since the panel was last lit
  inputs    \* how many so far

keyVars == <<held, out, poller>>
loopVars == <<ticked, snap, sigInit, lastSig, page, idle, screenOn, panel, drawn>>
aroundVars == <<idleOff, world, alive, power, inputs>>
panelVars == <<keyVars, buttons, watch, loop, loopVars, aroundVars>>

-----------------------------------------------------------------------------
(* Pure parts.                                                              *)

Pages == {"status", "transfer", "system", "logs", "qr"}
Flipped == [status |-> "transfer", transfer |-> "system", system |-> "logs",
            logs |-> "status", qr |-> "status"]

\* The keys follow the picture when the panel is mounted the other way round.
rotateButton(k) ==
  IF Rotate180 THEN k ELSE [A |-> "Y", B |-> "X", X |-> "B", Y |-> "A"][k]

\* The headline device: the first of those with the highest rank.
Rank(in) == (IF in.state = "online" THEN 2 ELSE 0) + (IF in.authorized THEN 1 ELSE 0)
Best(infos) ==
  CHOOSE i \in DOMAIN infos : \A j \in DOMAIN infos :
    \/ Rank(infos[j]) < Rank(infos[i])
    \/ Rank(infos[j]) = Rank(infos[i]) /\ i <= j
controllerStatus(infos) ==
  IF infos = <<>> THEN [connected |-> FALSE, label |-> "", state |-> ""]
  ELSE LET best == infos[Best(infos)] IN
       [connected |-> best.state = "online", label |-> best.label, state |-> best.state]

\* What counts as activity: neither the battery nor the clock.
activityOf(s) ==
  [busy |-> s.world.busy, ctrl |-> controllerStatus(s.world.infos), net |-> s.world.net]

healthLED(s) ==
  LET b == s.battery IN
  IF b.present /\ ~b.external /\ b.percent <= 10 THEN "red"
  ELSE IF \/ ~controllerStatus(s.world.infos).connected
          \/ b.present /\ (b.percent <= 20 \/ ~b.external) THEN "amber"
  ELSE "green"

NoBattery == [present |-> FALSE, percent |-> 0, external |-> FALSE]
NoSig == [busy |-> FALSE, ctrl |-> controllerStatus(<<>>), net |-> ""]
Readings == Charges \cup {NoBattery}
Snapshots == [world : Worlds, battery : Readings]
ButtonEvents == [button : {"A", "B", "X", "Y"}, long : BOOLEAN]

Running == loop \in {"select", "sample", "paint"}

\* A dark screen is dark altogether: no draw lights the backlight or the LED
\* behind the back of screenOn (display.go:169-172, 180-191).
DarkIsDark ==
  Running => panel.light = screenOn /\ (~screenOn => panel.led = "off")

KeysTypeOK ==
  /\ held \in [PanelKeys -> {"up", "down", "fired"}]
  /\ out \in {<<>>} \cup {<<e>> : e \in ButtonEvents}
  /\ buttons \in Seq(ButtonEvents) /\ Len(buttons) <= ButtonBuffer
  /\ poller \in {"polling", "stopped"}
AroundTypeOK ==
  /\ world \in Worlds /\ idleOff \in IdleOffs
  /\ watch \in [open : BOOLEAN, n : 0..WatchBuffer]
  /\ alive \in BOOLEAN /\ power \in {"on", "off"} /\ inputs \in 0..MaxInputs
Boards ==
  [light : BOOLEAN, led : {"off", "red", "amber", "green"},
   page : Pages \cup {"blank", "farewell"}, world : Worlds]
\* None of them was yet, all of them failed, or the panel has been painted.
Drawn == {"no", "failed", "painted"}
LoopTypeOK ==
  /\ loop \in {"select", "sample", "paint", "poweroff", "closing", "closed"}
  /\ ticked \in BOOLEAN /\ sigInit \in BOOLEAN /\ screenOn \in BOOLEAN /\ drawn \in Drawn
  /\ snap \in {<<>>} \cup {<<s>> : s \in Snapshots} /\ (loop = "paint" => snap # <<>>)
  /\ lastSig \in {activityOf(s) : s \in Snapshots} \cup {NoSig}
  /\ page \in Pages /\ idle \in 0..idleOff /\ panel \in Boards
PanelTypeOK == KeysTypeOK /\ AroundTypeOK /\ LoopTypeOK /\ DarkIsDark

\* A panel that is in the given place of its loop; Run draws first of all.
PanelAt(place) ==
  /\ world \in Worlds
  /\ held = [k \in PanelKeys |-> "up"] /\ out = <<>> /\ buttons = <<>>
  /\ poller = "polling" /\ watch = [open |-> TRUE, n |-> 0]
  /\ loop = place /\ ticked = FALSE
  /\ snap = <<>> /\ sigInit = FALSE /\ lastSig = NoSig
  /\ page = "status" /\ idleOff \in IdleOffs /\ idle = 0 /\ screenOn = TRUE
  /\ panel = [light |-> TRUE, led |-> "off", page |-> "blank", world |-> world]
  /\ alive = TRUE /\ power = "on" /\ drawn = "no"
  /\ inputs = 0
PanelInit == PanelAt("sample")

-----------------------------------------------------------------------------
(* Around the panel.                                                        *)

Input == power = "on" /\ inputs < MaxInputs /\ inputs' = inputs + 1

\* A transfer, a device or the network changes, or is only looked at again; the
\* registry may announce it, and drops the event of a full channel.
Happens(w, announced) ==
  /\ Input /\ (w # world \/ announced)
  /\ world' = w
  /\ watch' = IF announced /\ watch.open /\ watch.n < WatchBuffer
              THEN [watch EXCEPT !.n = @ + 1] ELSE watch
  /\ UNCHANGED <<keyVars, buttons, loop, loopVars, idleOff, alive, power>>

\* The watcher behind the channel dies.
WatchEnds ==
  /\ Input /\ watch.open /\ watch' = [watch EXCEPT !.open = FALSE]
  /\ UNCHANGED <<keyVars, buttons, loop, loopVars, idleOff, world, alive, power>>

\* The web UI powers the Raspberry Pi off, which ends the daemon as well.  The
\* command runs, after the answer, under the context of the request, which has
\* ended by then: it may as well not run, and nothing happens.
ShutdownAccepted == AllowShutdown /\ alive
ApiShutdown ==
  /\ ShutdownAccepted
  /\ power' = "off" /\ alive' = FALSE
  /\ UNCHANGED <<keyVars, buttons, watch, loop, loopVars, idleOff, world, inputs>>

\* The daemon is told to end.
StopDaemon ==
  /\ alive /\ alive' = FALSE
  /\ UNCHANGED <<keyVars, buttons, watch, loop, loopVars, idleOff, world, power, inputs>>

-----------------------------------------------------------------------------
(* pollButtons.                                                             *)

Polling == poller = "polling" /\ out = <<>>

Press(k) ==
  /\ Polling /\ held[k] = "up" /\ Input
  /\ held' = [held EXCEPT ![k] = "down"]
  /\ UNCHANGED <<out, poller, buttons, watch, loop, loopVars, idleOff, world, alive, power>>

\* Three seconds: the long press is out while the key is still down.
LongPress(k) ==
  /\ Polling /\ held[k] = "down"
  /\ held' = [held EXCEPT ![k] = "fired"]
  /\ out' = <<[button |-> rotateButton(k), long |-> TRUE]>>
  /\ UNCHANGED <<poller, buttons, watch, loop, loopVars, aroundVars>>

Release(k) ==
  /\ Polling /\ held[k] # "up"
  /\ held' = [held EXCEPT ![k] = "up"]
  /\ out' = IF held[k] = "fired" THEN <<>> ELSE <<[button |-> rotateButton(k), long |-> FALSE]>>
  /\ UNCHANGED <<poller, buttons, watch, loop, loopVars, aroundVars>>

\* emit drops the event of a full channel.
BugBlocks ==
  /\ out # <<>> /\ Len(buttons) < ButtonBuffer
  /\ buttons' = buttons \o out /\ out' = <<>>
  /\ UNCHANGED <<held, poller, watch, loop, loopVars, aroundVars>>
Emit ==
  /\ out # <<>>
  /\ buttons' = IF Len(buttons) < ButtonBuffer THEN buttons \o out ELSE buttons
  /\ out' = <<>>
  /\ UNCHANGED <<held, poller, watch, loop, loopVars, aroundVars>>

\* Between two samples it sees that the board is being closed.
PollerStops ==
  /\ Polling /\ loop = "closing" /\ poller' = "stopped"
  /\ UNCHANGED <<held, out, buttons, watch, loop, loopVars, aroundVars>>

-----------------------------------------------------------------------------
(* loop.                                                                    *)

Dark(p) == [p EXCEPT !.light = FALSE, !.led = "off"]

\* wake and sleep; nothing is drawn from the moment the screen is lit.
Wake ==
  /\ idle' = 0 /\ screenOn' = TRUE
  /\ panel' = [panel EXCEPT !.light = TRUE]
  /\ drawn' = IF screenOn THEN drawn ELSE "no"

BugKeepsSig(sig) == sigInit' = TRUE /\ lastSig' = IF sigInit THEN lastSig ELSE sig
Noted(sig) == sigInit' = TRUE /\ lastSig' = sig

Tick ==
  /\ loop = "select" /\ loop' = "sample" /\ ticked' = TRUE
  /\ idle' = IF idle < idleOff THEN idle + 1 ELSE idle
  /\ UNCHANGED <<keyVars, buttons, watch, snap, sigInit, lastSig, page, screenOn, panel,
                 drawn, aroundVars>>

RegistryEvent ==
  /\ loop = "select" /\ watch.n > 0
  /\ watch' = [watch EXCEPT !.n = @ - 1]
  /\ Wake /\ loop' = "sample" /\ ticked' = FALSE
  /\ UNCHANGED <<keyVars, buttons, snap, sigInit, lastSig, page, aroundVars>>

Resubscribe ==
  /\ loop = "select" /\ watch = [open |-> FALSE, n |-> 0]
  /\ watch' = [watch EXCEPT !.open = TRUE]
  /\ loop' = IF alive THEN "select" ELSE "closing"
  /\ UNCHANGED <<keyVars, buttons, loopVars, aroundVars>>

\* The first half of a draw.
Sample(battery) ==
  /\ loop = "sample" /\ loop' = "paint"
  /\ snap' = <<[world |-> world, battery |-> battery]>>
  /\ UNCHANGED <<keyVars, buttons, watch, ticked, sigInit, lastSig, page, idle, screenOn, panel,
                 drawn, aroundVars>>

\* The second: a change of the activity lights the screen, a lit screen is
\* painted, unless the board fails to take the picture, and after the ticker's draw a
\* screen idle for long enough goes dark.
Changed == sigInit /\ activityOf(snap[1]) # lastSig
BugOnlyLit == screenOn
LitNow == screenOn \/ Changed
BugPaintsDark(blit) ==
  [light |-> panel.light, led |-> healthLED(snap[1]), page |-> page, world |-> snap[1].world]
BugPaintsChanges(blit) ==
  IF ~Changed /\ sigInit THEN panel
  ELSE [light |-> TRUE, led |-> healthLED(snap[1]), page |-> page, world |-> snap[1].world]
Painted(blit) ==
  IF ~LitNow THEN panel
  ELSE [light |-> TRUE, led |-> healthLED(snap[1]),
        page |-> IF blit THEN page ELSE panel.page,
        world |-> IF blit THEN snap[1].world ELSE panel.world]
DrawnBy(blit) ==
  IF blit \/ (screenOn /\ drawn = "painted") THEN "painted" ELSE "failed"
Paint(blit) ==
  LET woken == IF Changed THEN 0 ELSE idle
      sleeps == ticked /\ idleOff > 0 /\ LitNow /\ woken >= idleOff IN
  /\ loop = "paint" /\ loop' = "select"
  /\ Noted(activityOf(snap[1]))
  /\ idle' = woken
  /\ screenOn' = (LitNow /\ ~sleeps)
  /\ panel' = IF sleeps THEN Dark(Painted(blit)) ELSE Painted(blit)
  /\ drawn' = IF LitNow /\ ~sleeps THEN DrawnBy(blit) ELSE "no"
  /\ ticked' = FALSE /\ snap' = <<>>
  /\ IF blit THEN UNCHANGED inputs ELSE Input
  /\ UNCHANGED <<keyVars, buttons, watch, page, idleOff, world, alive, power>>

\* A button event: on a dark screen it only lights it.
BugWakesOnly ==
  /\ loop = "select" /\ buttons # <<>> /\ ~screenOn
  /\ buttons' = Tail(buttons)
  /\ Wake
  /\ UNCHANGED <<keyVars, watch, loop, ticked, snap, sigInit, lastSig, page, aroundVars>>
ButtonOnDark ==
  /\ loop = "select" /\ buttons # <<>> /\ ~screenOn
  /\ buttons' = Tail(buttons)
  /\ Wake /\ loop' = "sample" /\ ticked' = FALSE
  /\ UNCHANGED <<keyVars, watch, snap, sigInit, lastSig, page, aroundVars>>

Pressed == Head(buttons)
Handled == loop = "select" /\ buttons # <<>> /\ screenOn /\ buttons' = Tail(buttons)

FlipPage ==
  /\ Handled /\ Pressed.button \in {"A", "X"}
  /\ page' = Flipped[page]
  /\ Wake /\ loop' = "sample" /\ ticked' = FALSE
  /\ UNCHANGED <<keyVars, watch, snap, sigInit, lastSig, aroundVars>>

ScreenOff ==
  /\ Handled /\ Pressed.button = "B"
  /\ idle' = 0 /\ screenOn' = FALSE /\ panel' = Dark(panel) /\ drawn' = "no"
  /\ loop' = "sample" /\ ticked' = FALSE
  /\ UNCHANGED <<keyVars, watch, snap, sigInit, lastSig, page, aroundVars>>

Safe == Pressed.button = "Y" /\ Pressed.long /\ AllowShutdown

ShowQR ==
  /\ Handled /\ Pressed.button = "Y" /\ ~Safe
  /\ page' = IF page = "qr" THEN "status" ELSE "qr"
  /\ Wake /\ loop' = "sample" /\ ticked' = FALSE
  /\ UNCHANGED <<keyVars, watch, snap, sigInit, lastSig, aroundVars>>

Farewell(blit) ==
  /\ Handled /\ Safe
  /\ idle' = 0 /\ panel' = IF blit THEN [panel EXCEPT !.page = "farewell"] ELSE panel
  /\ loop' = "poweroff"
  /\ UNCHANGED <<keyVars, watch, ticked, snap, sigInit, lastSig, page, screenOn, drawn, aroundVars>>

\* systemctl poweroff, which may be refused; Run ends either way.
PowerOff(ok) ==
  /\ loop = "poweroff" /\ loop' = "closing"
  /\ IF ok THEN power' = "off" /\ alive' = FALSE ELSE UNCHANGED <<power, alive>>
  /\ UNCHANGED <<keyVars, buttons, watch, loopVars, idleOff, world, inputs>>

ContextDone ==
  /\ loop = "select" /\ ~alive /\ loop' = "closing"
  /\ UNCHANGED <<keyVars, buttons, watch, loopVars, aroundVars>>

\* Close waits for the poller.
Close ==
  /\ loop = "closing" /\ poller = "stopped" /\ loop' = "closed"
  /\ panel' = Dark(panel)
  /\ UNCHANGED <<keyVars, buttons, watch, ticked, snap, sigInit, lastSig, page, idle, screenOn,
                 drawn, aroundVars>>

-----------------------------------------------------------------------------
Around ==
  \/ \E w \in Worlds, announced \in BOOLEAN : Happens(w, announced)
  \/ WatchEnds \/ ApiShutdown \/ StopDaemon

PollButtons ==
  \/ \E k \in PanelKeys : Press(k) \/ LongPress(k) \/ Release(k)
  \/ Emit \/ PollerStops

ScreenLoop ==
  \/ Tick \/ RegistryEvent \/ Resubscribe
  \/ \E battery \in Readings : Sample(battery)
  \/ \E blit \in BOOLEAN : Paint(blit)
  \/ ButtonOnDark \/ FlipPage \/ ScreenOff \/ ShowQR
  \/ \E blit \in BOOLEAN : Farewell(blit)
  \/ \E ok \in BOOLEAN : PowerOff(ok)
  \/ ContextDone \/ Close

PanelNext == Around \/ PollButtons \/ ScreenLoop

\* The ticker fires for ever, select takes each of its ready cases in the end,
\* and both goroutines are scheduled.
PanelFairness ==
  /\ WF_panelVars(Tick)
  /\ WF_panelVars(ContextDone)
  /\ WF_panelVars(\/ \E battery \in Readings : Sample(battery)
                  \/ Paint(TRUE)
                  \/ \E ok \in BOOLEAN : PowerOff(ok)
                  \/ Close)
  /\ WF_panelVars(Emit \/ PollerStops)

PanelSpec == PanelInit /\ [][PanelNext]_panelVars /\ PanelFairness

-----------------------------------------------------------------------------
(* Properties.                                                              *)

\* A press that does more than light the screen.
Acts == page' # page \/ (loop' = "poweroff" /\ loop # loop')

\* Nobody acts on a screen that was not drawn since it was lit, so no page is flipped
\* and no shutdown begun from what was on it before it went dark, unless the board
\* took none of the pictures since: that is only logged (display.go:188-190), and
\* the next press acts, though "you never trigger [...] blind" (225-226).
NotBlind == [][Acts => screenOn /\ drawn # "no"]_panelVars

\* The loop never takes note of a change in the dark: a transfer, a device or a
\* network that comes or goes lights the screen (display.go:180-187).
ChangesLight == [][sigInit /\ lastSig' # lastSig => screenOn']_panelVars

\* With idleOff set, and nothing happening any more, the screen goes dark and
\* stays dark (display.go:132-136): no draw of the ticker's own keeps it awake.
QuietGoesDark == idleOff > 0 => <>[](Running => ~screenOn)

\* The ticker alone keeps the screen right, whatever events are lost: in the end
\* the loop has taken note of the last change, and a lit screen shows it, on the
\* page it is on (display.go:212-219).
ShowsState ==
  <>[](Running =>
        /\ sigInit /\ lastSig = activityOf([world |-> world, battery |-> NoBattery])
        /\ screenOn => panel.page = page /\ panel.world = world)

\* Once nothing happens any more the panel comes to rest both ways: it shows the
\* last change, and goes dark where it may.
PanelSettles == QuietGoesDark /\ ShowsState

\* Closing the board always ends: the poller is never stuck on a full channel
\* whose reader has gone (hat_linux.go:141-149, 219-226).
CloseEnds == loop = "closing" ~> loop = "closed"

=============================================================================
