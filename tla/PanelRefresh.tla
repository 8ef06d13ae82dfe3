---------------------------- MODULE PanelRefresh ----------------------------
(***************************************************************************)
(* How a frame gets onto the e-ink panel: the RefreshPlanner of            *)
(* app-core/src/lib.rs, the display task's use of it (fw/src/tasks/        *)
(* display.rs: render, loading plate, sleep, wake), and the two drivers    *)
(* behind it (fw/src/display_flush, display/src/epd), down to the commands *)
(* a controller sees.  The controller is that of the emulator's panel      *)
(* models (tools/emulator/src/panel.rs, panel_uc8253.rs): two RAM planes,  *)
(* the old and the new picture, and what a refresh makes of them.          *)
(*                                                                         *)
(* One action is one command and its BUSY wait, any of which may fail      *)
(* before or after its effect.  The display task is sequential, so nothing *)
(* else happens meanwhile but the loss of power.                           *)
(***************************************************************************)
EXTENDS Integers, Sequences

CONSTANTS Views,       \* view, book, orientation and type settings of a frame
          Pages,
          White, SleepImage,
          Ghost,       \* a picture, or RAM contents, nobody asked for
          None,
          Interval,    \* full_refresh_interval, 8 in the firmware
          Controllers, \* subset of {"ssd1677", "uc8253"}: the X4 and the X3
          MaxFaults    \* bound on failing commands

ASSUME IntervalAssumption == Interval \in Nat /\ MaxFaults \in Nat
ASSUME ControllersAssumption == Controllers \subseteq {"ssd1677", "uc8253"}

VARIABLES controller,
          planner,  \* RefreshPlanner: screen_on, fast_refreshes, last_request,
                    \* panel_shows_sleep_screen
          prev,     \* prev_fb, the frame the driver believes the panel shows
          staged,   \* prev_prestaged
          powered,  \* SCREEN_POWERED, the UC8253 driver's belief
          job,      \* what the display task is doing
          steps,    \* the commands it has still to send
          chip,     \* the controller
          faults,   \* number of failed commands
          since,    \* history: jobs that failed since the panel was last initialized
          upset,    \* history: a command failed since the last absolute refresh
          streak    \* history: fast refreshes since the last absolute one

belief == <<planner, prev, staged>>
history == <<since, upset, streak>>
vars == <<controller, belief, powered, job, steps, chip, faults, history>>

Request == [boot : BOOLEAN, view : Views, page : Pages]
Drawn == [view : Views, page : Pages, plate : BOOLEAN]
Image == Drawn \union {White, SleepImage, Ghost}
Mode == {"full", "fast", "clean"}
ASSUME NoneAssumption == None \notin Request
PageImage(r) == [view |-> r.view, page |-> r.page, plate |-> FALSE]
PlateImage(r) == [PageImage(r) EXCEPT !.plate = TRUE]
-----------------------------------------------------------------------------
(* RefreshPlanner. fast_refresh_enabled is never cleared by the firmware.   *)

PlannerAtBoot == [on |-> FALSE, fasts |-> 0, last |-> None, slept |-> FALSE]

\* Faulty variant: the limit is not looked at.
ModeForUnlimited(r, policy) ==
  CASE planner.last = None -> IF planner.slept THEN "clean" ELSE "full"
    [] planner.last # None /\ ~planner.on -> "full"
    [] planner.last # None /\ planner.on /\ (planner.last.boot \/ r.view # planner.last.view) -> "clean"
    [] OTHER -> "fast"

ModeFor(r, policy) ==
  CASE planner.last = None -> IF planner.slept THEN "clean" ELSE "full"
    [] planner.last # None /\ ~planner.on -> "full"
    [] /\ planner.last # None /\ planner.on
       /\ \/ planner.last.boot \/ r.view # planner.last.view
          \/ policy = "everyTen" /\ planner.fasts >= Interval
       -> "clean"
    [] OTHER -> "fast"

\* The count matters up to Interval; past it this model stops counting.
\* Faulty variant: the count does not saturate.
RecordRenderUncapped(r, mode) ==
  planner' = [on    |-> TRUE, last |-> r, slept |-> FALSE,
              fasts |-> IF mode # "fast" THEN 0 ELSE planner.fasts + 1]
RecordRender(r, mode) ==
  planner' = [on    |-> TRUE, last |-> r, slept |-> FALSE,
              fasts |-> IF mode # "fast" THEN 0
                        ELSE IF planner.fasts < Interval THEN planner.fasts + 1 ELSE Interval]
RecordSleep == planner' = [on |-> FALSE, fasts |-> 0, last |-> None, slept |-> TRUE]
-----------------------------------------------------------------------------
(* The commands, and the controller that executes them.                     *)

Op(op) == [op |-> op]
Write(plane, image) == [op |-> "write", plane |-> plane, image |-> image]
Bank(mode) == [op |-> "bank", mode |-> mode]
Activate(mode, enable) == [op |-> "activate", mode |-> mode, enable |-> enable]

\* An absolute waveform drives every pixel, a fast one those that differ
\* between the planes: right only if the old plane is what the panel shows.
Drive(mode) ==
  IF mode # "fast" THEN chip.new
  ELSE IF chip.old = chip.shown THEN chip.new ELSE Ghost

IsRefresh(s) == s.op \in {"activate", "refresh"}
ModeOf(s) == IF s.op = "activate" THEN s.mode ELSE chip.bank
PumpOn(s) == chip.power \/ (s.op = "activate" /\ s.enable)
\* Commands whose end the BUSY line tells.
IsBusy(s) == s.op \in {"activate", "refresh", "loadTemp", "powerOn", "powerOff", "powerDown", "setup"}

\* A sleeping controller hears only its reset.
Effect(s) ==
  IF chip.asleep /\ s.op # "reset" THEN chip ELSE
  CASE s.op = "reset" -> [asleep |-> FALSE, ready |-> FALSE, power |-> FALSE, stop |-> FALSE,
                          hot |-> FALSE, bank |-> "full", old |-> Ghost, new |-> Ghost,
                          shown |-> chip.shown]
    [] s.op = "setup" -> [chip EXCEPT !.ready = TRUE,
                            !.old = IF controller = "ssd1677" THEN White ELSE @,
                            !.new = IF controller = "ssd1677" THEN White ELSE @]
    [] s.op = "write" /\ s.plane = "new" -> [chip EXCEPT !.new = s.image]
    [] s.op = "write" /\ s.plane = "old" ->
         [chip EXCEPT !.old = s.image, !.stop = controller = "uc8253"]
    [] s.op = "stop"  -> [chip EXCEPT !.stop = FALSE]
    [] s.op = "bank"  -> [chip EXCEPT !.bank = s.mode]
    [] s.op = "heat"  -> [chip EXCEPT !.hot = TRUE]
    [] s.op = "loadTemp" -> [chip EXCEPT !.hot = FALSE]
    [] s.op = "powerOn"  -> [chip EXCEPT !.power = TRUE]
    [] s.op \in {"powerOff", "powerDown"} -> [chip EXCEPT !.power = FALSE]
    [] s.op = "deepSleep" -> [chip EXCEPT !.asleep = TRUE]
    [] IsRefresh(s) -> [chip EXCEPT !.power = PumpOn(s),
                          !.hot = @ /\ ModeOf(s) # "full",
                          !.shown = IF PumpOn(s) THEN Drive(ModeOf(s)) ELSE @]

\* What a command that failed half-way may leave.
Remains(s) ==
  {chip, Effect(s)} \union
  (IF chip.asleep THEN {}
   ELSE IF s.op = "write" THEN {[Effect(s) EXCEPT ![s.plane] = Ghost]}
   ELSE IF IsRefresh(s) /\ PumpOn(s) THEN {[Effect(s) EXCEPT !.shown = Ghost]} ELSE {})
-----------------------------------------------------------------------------
(* The drivers: the commands of each operation. *)

InitSteps ==
  IF controller = "ssd1677" THEN <<Op("reset"), Op("setup")>>
  ELSE <<Op("reset"), Op("setup"), Write("old", White), Op("stop"), Write("new", White), Op("stop")>>

\* The flushes, with prev_staged as the display task has it by then.
SsdFlush(image, mode, prestaged) ==
  LET activate == Activate(mode, ~planner.on)
  IN  CASE mode = "full" -> <<Write("new", image), Write("old", image), activate>>
        [] mode = "clean" ->
             <<Write("new", image), Write("old", image), Op("heat"), activate, Op("loadTemp")>>
        [] mode = "fast" /\ prestaged -> <<Write("new", image), activate>>
        [] mode = "fast" /\ ~prestaged -> <<Write("new", image), Write("old", prev), activate>>

\* flush_plan promotes a fast refresh to a clean one while the pump is off.
Promoted(mode, pump) == IF mode = "fast" /\ ~pump THEN "clean" ELSE mode

UcFlush(image, mode, prestaged, pump) ==
  CASE mode = "full" ->
         <<Bank("full"), Write("old", White), Op("stop"), Write("new", image), Op("powerOn"),
           Op("refresh"), Write("old", image), Op("stop"), Bank("fast"), Write("new", image),
           Op("refresh"), Write("old", image), Op("stop")>>
    [] mode = "fast" /\ prestaged -> <<Bank("fast"), Write("new", image), Op("refresh")>>
    [] mode = "fast" /\ ~prestaged ->
         <<Bank("fast"), Write("old", prev), Op("stop"), Write("new", image), Op("refresh")>>
    [] mode = "clean" /\ pump -> <<Bank("clean"), Write("new", image), Op("refresh")>>
    [] mode = "clean" /\ ~pump ->
         <<Bank("clean"), Write("new", image), Op("powerOn"), Op("refresh")>>

FlushSteps(image, mode, prestaged, pump) ==
  IF controller = "ssd1677" THEN SsdFlush(image, mode, prestaged)
  ELSE UcFlush(image, Promoted(mode, pump), prestaged, pump)

\* Faulty variant: the old plane of a UC8253 is left open.
PrestageStepsUnstopped(image) == <<Write("old", image)>>
PrestageSteps(image) ==
  IF controller = "uc8253" THEN <<Write("old", image), Op("stop")>> ELSE <<Write("old", image)>>
SleepSteps(pump) ==
  IF controller = "ssd1677" THEN <<Op("powerDown"), Op("deepSleep")>>
  ELSE IF pump THEN <<Op("powerOff"), Op("deepSleep")>> ELSE <<Op("deepSleep")>>
-----------------------------------------------------------------------------
(* The display task. *)

Job(kind, request, image, mode) ==
  [kind |-> kind, request |-> request, image |-> image, mode |-> mode, settled |-> FALSE]
Idle == Job("idle", None, None, "full")
Flush(kind, request, image, mode) ==
  /\ job' = Job(kind, request, image, mode)
  /\ steps' = FlushSteps(image, mode, staged, powered)

ChipAtPowerUp(shown) ==
  [asleep |-> FALSE, ready |-> FALSE, power |-> FALSE, stop |-> FALSE, hot |-> FALSE,
   bank |-> "full", old |-> Ghost, new |-> Ghost, shown |-> shown]

Init ==
  /\ controller \in Controllers
  /\ planner = PlannerAtBoot /\ prev = White /\ staged = FALSE /\ powered = FALSE
  /\ job = Job("boot", None, None, "full")
  /\ steps = InitSteps
  /\ chip = ChipAtPowerUp(Ghost)
  /\ faults = 0 /\ since = {} /\ upset = FALSE /\ streak = 0

\* Power loss, or the wake from the deep sleep of the processor.
ColdBoot ==
  /\ planner' = PlannerAtBoot /\ prev' = White /\ staged' = FALSE /\ powered' = FALSE
  /\ job' = Job("boot", None, None, "full")
  /\ steps' = InitSteps
  /\ chip' \in {[chip EXCEPT !.ready = FALSE], ChipAtPowerUp(chip.shown), ChipAtPowerUp(Ghost)}
  /\ UNCHANGED <<controller, faults, history>>

\* A render of a panel asleep initializes it first.
StartRender(r, policy) ==
  /\ job.kind = "idle"
  /\ IF ~planner.on /\ planner.last = None
     THEN /\ job' = Job("wake", r, PageImage(r), ModeFor(r, policy))
          /\ steps' = InitSteps
     ELSE Flush("render", r, PageImage(r), ModeFor(r, policy))
  /\ UNCHANGED <<controller, belief, powered, chip, faults, history>>

\* The loading plate of a storage command stands in for the page to come.
StartPlate(view, page, policy) ==
  /\ job.kind = "idle" /\ planner.on /\ planner.last # None
  /\ LET r == [planner.last EXCEPT !.view = view, !.page = page]
     IN  Flush("plate", r, PlateImage(r), ModeFor(r, policy))
  /\ UNCHANGED <<controller, belief, powered, chip, faults, history>>

\* The panel may be asleep already: the Sleep of an aborted handshake stays in
\* the queue, and the next one comes behind it.
StartSleep ==
  /\ job.kind = "idle"
  /\ Flush("sleepFrame", None, SleepImage, "full")
  /\ UNCHANGED <<controller, belief, powered, chip, faults, history>>

\* The next command succeeds.  A sleeping UC8253 never answers on BUSY.
Absolute(s) == IsRefresh(s) /\ ModeOf(s) # "fast" /\ PumpOn(s) /\ ~chip.asleep
CountRefresh(s) ==
  streak' = IF Absolute(s) THEN 0
            ELSE IF /\ IsRefresh(s) /\ job.mode = "fast" /\ PumpOn(s) /\ ~chip.asleep
                    /\ streak < Interval + MaxFaults THEN streak + 1
            ELSE streak

Send ==
  /\ steps # <<>>
  /\ LET s == Head(steps)
     IN  /\ ~(chip.asleep /\ IsBusy(s) /\ controller = "uc8253")
         /\ chip' = Effect(s)
         /\ powered' = CASE s.op = "powerOn" -> TRUE [] s.op = "powerOff" -> FALSE [] OTHER -> powered
         /\ upset' = (upset /\ ~Absolute(s))
         /\ since' = IF s.op = "reset" THEN {} ELSE since
         /\ CountRefresh(s)
  /\ steps' = Tail(steps)
  /\ UNCHANGED <<controller, belief, job, faults>>
-----------------------------------------------------------------------------
(* What the display task does when an operation has ended. *)

\* A panel just initialized is neither staged nor powered.
EndInit ==
  /\ steps = <<>> /\ job.kind \in {"boot", "wake"}
  /\ staged' = FALSE /\ powered' = FALSE
  /\ IF job.kind = "boot" THEN job' = Idle /\ UNCHANGED steps
     ELSE /\ job' = [job EXCEPT !.kind = "render"]
          /\ steps' = FlushSteps(job.image, job.mode, FALSE, FALSE)
  /\ UNCHANGED <<controller, planner, prev, chip, faults, history>>

EndRender ==
  /\ steps = <<>> /\ job.kind = "render"
  /\ RecordRender(job.request, job.mode)
  /\ prev' = job.image
  /\ job' = [job EXCEPT !.kind = "prestage"]
  /\ steps' = PrestageSteps(job.image)
  /\ UNCHANGED <<controller, staged, powered, chip, faults, history>>

EndPrestage ==
  /\ steps = <<>> /\ job.kind = "prestage"
  /\ staged' = TRUE
  /\ job' = Idle
  /\ UNCHANGED <<controller, planner, prev, powered, steps, chip, faults, history>>

\* Faulty variants: the plate leaves prev_prestaged, or prev_fb, alone.
EndPlateStaged ==
  /\ steps = <<>> /\ job.kind = "plate"
  /\ RecordRender(job.request, job.mode)
  /\ prev' = job.image
  /\ job' = Idle
  /\ UNCHANGED <<controller, staged, powered, steps, chip, faults, history>>
EndPlateForgets ==
  /\ steps = <<>> /\ job.kind = "plate"
  /\ RecordRender(job.request, job.mode)
  /\ staged' = FALSE
  /\ job' = Idle
  /\ UNCHANGED <<controller, prev, powered, steps, chip, faults, history>>

EndPlate ==
  /\ steps = <<>> /\ job.kind = "plate"
  /\ RecordRender(job.request, job.mode)
  /\ prev' = job.image
  /\ staged' = FALSE
  /\ job' = Idle
  /\ UNCHANGED <<controller, powered, steps, chip, faults, history>>

\* The sleep frame ends, settled or not, in sleep_panel.
PowerDownPanel(settled) ==
  /\ prev' = IF settled THEN SleepImage ELSE prev
  /\ staged' = FALSE
  /\ job' = [job EXCEPT !.kind = "sleepPanel", !.settled = settled]
  /\ steps' = SleepSteps(powered)
  /\ UNCHANGED planner

EndSleepFrame ==
  /\ steps = <<>> /\ job.kind = "sleepFrame"
  /\ PowerDownPanel(TRUE)
  /\ UNCHANGED <<controller, powered, chip, faults, history>>

EndSleepPanel ==
  /\ steps = <<>> /\ job.kind = "sleepPanel"
  /\ IF job.settled THEN RecordSleep /\ UNCHANGED since
     ELSE UNCHANGED planner /\ since' = since \union {"sleep"}
  /\ job' = Idle
  /\ UNCHANGED <<controller, prev, staged, powered, steps, chip, faults, upset, streak>>

\* The next command fails.
FailJob ==
  CASE job.kind = "boot" -> UNCHANGED <<belief, job>> /\ steps' = InitSteps
    [] job.kind \in {"wake", "render"} ->
         staged' = FALSE /\ job' = Idle /\ steps' = <<>> /\ UNCHANGED <<planner, prev>>
    [] job.kind = "prestage" ->
         staged' = FALSE /\ job' = Idle /\ steps' = <<>> /\ UNCHANGED <<planner, prev>>
    [] job.kind = "plate" -> job' = Idle /\ steps' = <<>> /\ UNCHANGED belief
    [] job.kind = "sleepFrame" -> PowerDownPanel(FALSE)
    [] job.kind = "sleepPanel" -> job' = Idle /\ steps' = <<>> /\ UNCHANGED belief

FaultOf(kind) ==
  CASE kind \in {"boot", "wake"} -> "init"
    [] kind \in {"render", "prestage", "plate"} -> "flush"
    [] OTHER -> "sleep"

Fail ==
  /\ steps # <<>>
  /\ LET s == Head(steps)
         ignored == chip.asleep /\ IsBusy(s)
     IN  /\ faults < MaxFaults \/ ignored
         /\ faults' = IF ignored THEN faults ELSE faults + 1
         /\ chip' \in Remains(s)
         /\ CountRefresh(s)
  /\ FailJob
  /\ since' = since \union {FaultOf(job.kind)}
  /\ upset' = TRUE
  /\ UNCHANGED <<controller, powered>>

Policies == {"fastOnly", "everyTen"}
Work == \/ Send \/ Fail \/ EndInit \/ EndRender \/ EndPrestage \/ EndPlate
        \/ EndSleepFrame \/ EndSleepPanel
Next ==
  \/ Work
  \/ ColdBoot
  \/ \E r \in Request, policy \in Policies : StartRender(r, policy)
  \/ \E view \in Views, page \in Pages, policy \in Policies : StartPlate(view, page, policy)
  \/ StartSleep

Spec == Init /\ [][Next]_vars
-----------------------------------------------------------------------------
Commands == {"reset", "setup", "write", "bank", "activate", "stop", "heat", "loadTemp",
             "powerOn", "powerOff", "powerDown", "refresh", "deepSleep"}

\* Types: the planner's count keeps within the interval, and the planes and the
\* panel hold pictures that were drawn.
TypeOK ==
  /\ controller \in Controllers
  /\ planner \in [on : BOOLEAN, fasts : 0 .. Interval, last : Request \union {None},
                 slept : BOOLEAN]
  /\ prev \in Image /\ staged \in BOOLEAN /\ powered \in BOOLEAN
  /\ job.kind \in {"boot", "wake", "idle", "render", "prestage", "plate", "sleepFrame", "sleepPanel"}
  /\ job.mode \in Mode
  /\ \A i \in 1 .. Len(steps) : steps[i].op \in Commands
  /\ chip.shown \in Image /\ chip.old \in Image /\ chip.new \in Image
  /\ faults \in 0 .. MaxFaults

\* A fast refresh drives the pixels that differ between the planes, so when it
\* is about to run the old plane must hold what the panel shows, and the clean
\* waveform's temperature must be gone: however renders, plates, prestaging,
\* sleeps and restarts alternate, once an absolute refresh has gone well since
\* the last failed command.
FastBase ==
  /\ ~upset /\ steps # <<>>
  /\ LET s == Head(steps) IN IsRefresh(s) /\ ModeOf(s) = "fast"
  => chip.old = chip.shown /\ ~chip.hot

\* What the display task believes of the panel between two operations is so:
\* an awake panel is powered and shows prev_fb, the frame of the last request
\* or its loading plate; after a sleep it shows the sleep screen, the reason
\* the wake is content with a clean refresh.
BeliefIsTrue ==
  job.kind = "idle" /\ ~upset =>
    /\ planner.on => /\ ~chip.asleep /\ chip.power
                     /\ chip.shown = prev
                     /\ prev \in {PageImage(planner.last), PlateImage(planner.last)}
    /\ planner.slept => chip.asleep /\ chip.shown = SleepImage

\* Under FullEveryTen no more than the interval of fast refreshes follow each
\* other on the panel, apart from those that failed, whatever views, books,
\* policies, plates and sleeps come in between; a panel left asleep or powered
\* down by a failed sleep takes no refresh and is excepted.
GhostingBounded ==
  [][\A r \in Request :
       StartRender(r, "everyTen") /\ job'.mode = "fast" /\ "sleep" \notin since
         => streak < Interval + faults]_vars

\* The assertions of the emulator's panels: no command but a reset to a
\* sleeping controller, none to one not set up, no refresh with the charge pump
\* off, no deep sleep of a UC8253 with the pump on, none before DATA_STOP has
\* completed a plane.  Excepted are a Sleep served by a panel asleep and what
\* follows a failed sleep or a failed plane write, until the panel is next
\* initialized.
ProtocolKept ==
  steps # <<>> =>
    LET s == Head(steps)
        sleeping == "sleep" \in since \/ job.kind \in {"sleepFrame", "sleepPanel"}
    IN  /\ chip.asleep /\ s.op # "reset" => sleeping
        /\ ~chip.ready => s.op \in {"reset", "setup"} \/ since # {}
        /\ IsRefresh(s) /\ ~PumpOn(s) => sleeping
        /\ controller = "uc8253" /\ s.op = "deepSleep" /\ chip.power => since # {}
        /\ chip.stop => s.op \in {"stop", "reset"} \/ since # {}
=============================================================================
