------------------------- MODULE PanelRefreshProofs -------------------------
(***************************************************************************)
(* Theorems about PanelRefresh, for any views and pages, any interval of   *)
(* full refreshes, any number of failing commands and either controller:   *)
(* types, the protocol of the controllers, what the display task believes  *)
(* of the panel, the base of every fast refresh and the bound on ghosting. *)
(*                                                                         *)
(* A job is a plan, a fixed sequence of commands, and what it has still to *)
(* send is the rest of it.  The invariant says for each place in each plan *)
(* what the commands sent so far have done to the controller.              *)
(***************************************************************************)
EXTENDS PanelRefresh, TLAPS

(***************************************************************************)
(* Types, in full.                                                         *)

Step == [op : Commands \ {"write", "bank", "activate"}]
        \union [op : {"write"}, plane : {"old", "new"}, image : Image]
        \union [op : {"bank"}, mode : Mode]
        \union [op : {"activate"}, mode : Mode, enable : BOOLEAN]
Chip == [asleep : BOOLEAN, ready : BOOLEAN, power : BOOLEAN, stop : BOOLEAN, hot : BOOLEAN,
         bank : Mode, old : Image, new : Image, shown : Image]
Kind == {"boot", "wake", "idle", "render", "prestage", "plate", "sleepFrame", "sleepPanel"}
JobRecord == [kind : Kind, request : Request \union {None}, image : Image \union {None},
              mode : Mode, settled : BOOLEAN]

Typed ==
  /\ controller \in Controllers
  /\ planner \in [on : BOOLEAN, fasts : 0 .. Interval, last : Request \union {None},
                  slept : BOOLEAN]
  /\ prev \in Image /\ staged \in BOOLEAN /\ powered \in BOOLEAN
  /\ job \in JobRecord
  /\ steps \in Seq(Step)
  /\ chip \in Chip
  /\ faults \in 0 .. MaxFaults
  /\ since \in SUBSET {"init", "flush", "sleep"} /\ upset \in BOOLEAN /\ streak \in Nat

\* The planner's flags, and what it takes to be in a job.
PlannerFits == /\ planner.on <=> planner.last # None
               /\ planner.slept => ~planner.on
Starting == job.kind \in {"boot", "wake"}
Framing  == job.kind \in {"render", "plate"}
Flushing == Framing \/ job.kind = "sleepFrame"
ImageOf(r) == {PageImage(r), PlateImage(r)}
JobFits ==
  /\ job.kind = "idle" => steps = <<>>
  /\ Starting => ~planner.on /\ (job.kind = "boot" => ~planner.slept)
  /\ job.kind = "wake" => job.mode # "fast"
  /\ job.kind = "wake" \/ Framing => job.request \in Request /\ job.image \in ImageOf(job.request)
  /\ Framing /\ job.mode = "fast" => planner.on
  /\ job.kind = "plate" => planner.on
  /\ job.kind = "prestage" => planner.on /\ prev = job.image /\ prev \in ImageOf(planner.last)
  /\ job.kind = "sleepFrame" => job.mode = "full" /\ job.image = SleepImage
-----------------------------------------------------------------------------
(* Where a job is: what it has still to send is the rest of its plan.      *)

IsRest(plan, rest) ==
  /\ plan \in Seq(Step) /\ rest \in Seq(Step) /\ Len(rest) <= Len(plan)
  /\ \A k \in 1 .. Len(rest) : rest[k] = plan[Len(plan) - Len(rest) + k]

\* The refresh that shows the image is made with so many commands to come.
Shown(left) ==
  IF controller = "ssd1677" THEN left <= (IF job.mode = "clean" THEN 1 ELSE 0)
  ELSE left <= (IF job.mode = "full" THEN 7 ELSE 0)
\* The commands sent have taken effect, unless the controller sleeps; left is
\* the number of commands to come.
SsdTold(left) ==
  ~chip.asleep =>
    /\ ~planner.on /\ Shown(left) => chip.power
    /\ left < (IF job.mode = "clean" THEN 5 ELSE IF job.mode = "fast" /\ staged THEN 2 ELSE 3) =>
         chip.new = job.image
    /\ job.mode = "fast" /\ ~staged /\ left <= 1 => chip.old = prev
    /\ left = 0 /\ job.mode # "fast" => ~chip.hot
UcFullTold(left) ==
  /\ left \in 5 .. 12 /\ ~chip.asleep => chip.bank = "full"
  /\ left <= 9 /\ ~chip.asleep => chip.new = job.image
  /\ left <= 8 => ~chip.asleep /\ chip.power
  /\ left <= 7 => chip.shown = job.image
  /\ left <= 6 => chip.old = job.image
  /\ left <= 4 => chip.bank = "fast"
UcFastTold(left) ==
  ~chip.asleep =>
    /\ left < (IF staged THEN 3 ELSE 5) => chip.bank = "fast"
    /\ left <= 1 => chip.new = job.image
    /\ ~staged /\ left <= 3 => chip.old = prev
UcCleanTold(left, pump) ==
  LET whole == IF pump THEN 3 ELSE 4
  IN /\ left < whole /\ ~chip.asleep => chip.bank = "clean"
     /\ left < whole - 1 /\ ~chip.asleep => chip.new = job.image
     /\ left <= 1 /\ ~pump => ~chip.asleep /\ chip.power

FlushTold(left, pump) ==
  IF controller = "ssd1677" THEN SsdTold(left)
  ELSE CASE Promoted(job.mode, pump) = "full"  -> UcFullTold(left)
         [] Promoted(job.mode, pump) = "fast"  -> UcFastTold(left)
         [] Promoted(job.mode, pump) = "clean" -> UcCleanTold(left, pump)

\* What a flush knows of the panel before that refresh, and after it.
Before ==
  /\ planner.on => /\ ~chip.asleep /\ chip.power /\ chip.shown = prev
                   /\ job.mode = "fast" => ~chip.hot /\ (staged => chip.old = prev)
  /\ ~planner.on =>
       \/ ~chip.asleep
       \/ job.kind = "sleepFrame" /\ chip.shown = SleepImage
After(left) ==
  /\ chip.shown = job.image
  /\ (~chip.asleep /\ chip.power) \/ job.kind = "sleepFrame"
  /\ left = 0 /\ ~chip.asleep => ~chip.hot
FlushPicture(left) == ~upset => IF Shown(left) THEN After(left) ELSE Before

InitAt(left) == left < Len(InitSteps) => ~chip.asleep /\ ~chip.power
FlushAt(left, pump) == (pump => planner.on) /\ FlushTold(left, pump) /\ FlushPicture(left)
PrestageAt(left) ==
  /\ left < Len(PrestageSteps(job.image)) /\ ~chip.asleep => chip.old = prev
  /\ ~upset => ~chip.asleep /\ chip.power /\ chip.shown = prev /\ ~chip.hot
SleepAt(left) ==
  /\ ~upset => job.settled /\ chip.shown = SleepImage
  /\ left = 0 => chip.asleep

Placed ==
  /\ Starting => IsRest(InitSteps, steps) /\ InitAt(Len(steps))
  /\ Flushing => \E pump \in BOOLEAN :
                   /\ IsRest(FlushSteps(job.image, job.mode, staged, pump), steps)
                   /\ FlushAt(Len(steps), pump)
  /\ job.kind = "prestage" => IsRest(PrestageSteps(job.image), steps) /\ PrestageAt(Len(steps))
  /\ job.kind = "sleepPanel" =>
       (\E pump \in BOOLEAN : IsRest(SleepSteps(pump), steps)) /\ SleepAt(Len(steps))

\* What is true of the panel between two jobs.
AtRest ==
  job.kind = "idle" /\ ~upset =>
    /\ planner.on => /\ ~chip.asleep /\ chip.power /\ ~chip.hot /\ chip.shown = prev
                     /\ prev \in ImageOf(planner.last)
                     /\ staged => chip.old = prev
    /\ planner.slept => chip.asleep /\ chip.shown = SleepImage
    /\ ~planner.on /\ ~planner.slept => ~chip.asleep
-----------------------------------------------------------------------------
(* What holds until a sleep fails, and what until any command does.         *)

PowerKept ==
  "sleep" \notin since =>
    /\ planner.on /\ job.kind # "sleepPanel" => ~chip.asleep /\ chip.power
    /\ Framing \/ job.kind = "prestage" => ~chip.asleep

Untouched(ops) == steps # <<>> /\ Head(steps).op \in ops
Orderly ==
  since = {} =>
    /\ ~chip.ready => Starting /\ Untouched({"reset", "setup"})
    /\ chip.stop => Untouched({"reset"}) \/ (Untouched({"stop"}) /\ ~chip.asleep)
    /\ controller = "uc8253" /\ chip.power => powered \/ (job.kind = "boot" /\ Untouched({"reset"}))
    /\ controller = "uc8253" /\ Untouched({"deepSleep"}) => ~chip.power
NeverHot == controller = "uc8253" => ~chip.hot

\* The fast refreshes on the panel are those the planner has counted, those
\* that failed and the one it is about to count.
Uncounted == IF Framing /\ job.mode = "fast" /\ steps = <<>> THEN 1 ELSE 0
Counted ==
  "sleep" \notin since =>
    /\ planner.on /\ planner.fasts < Interval => streak <= planner.fasts + faults + Uncounted
    /\ Framing /\ job.mode # "fast" /\ Shown(Len(steps)) => streak = 0

IInv == /\ Typed /\ PlannerFits /\ JobFits
        /\ Placed /\ AtRest
        /\ PowerKept /\ Orderly /\ NeverHot /\ Counted
-----------------------------------------------------------------------------
(* The plans, command by command.                                          *)

LEMMA StepTypes ==
  /\ \A op \in Commands \ {"write", "bank", "activate"} : Op(op) \in Step
  /\ \A plane \in {"old", "new"}, image \in Image : Write(plane, image) \in Step
  /\ \A mode \in Mode : Bank(mode) \in Step
  /\ \A mode \in Mode, enable \in BOOLEAN : Activate(mode, enable) \in Step
BY DEF Op, Write, Bank, Activate, Step

LEMMA InitPlan ==
  ASSUME Typed
  PROVE  /\ InitSteps \in Seq(Step)
         /\ InitSteps[1] = Op("reset") /\ InitSteps[2] = Op("setup")
         /\ Len(InitSteps) = IF controller = "ssd1677" THEN 2 ELSE 6
         /\ controller # "ssd1677" =>
              /\ InitSteps[3] = Write("old", White) /\ InitSteps[4] = Op("stop")
              /\ InitSteps[5] = Write("new", White) /\ InitSteps[6] = Op("stop")
<1>1. /\ Op("reset") \in Step /\ Op("setup") \in Step /\ Op("stop") \in Step
      /\ Write("old", White) \in Step /\ Write("new", White) \in Step
  BY StepTypes DEF Commands, Image
<1> QED BY <1>1 DEF InitSteps

LEMMA SsdPlan ==
  ASSUME Typed, controller = "ssd1677", NEW image \in Image, NEW mode \in Mode,
         NEW plan, plan = SsdFlush(image, mode, staged)
  PROVE  /\ plan \in Seq(Step) /\ plan[1] = Write("new", image)
         /\ mode = "full" => /\ Len(plan) = 3 /\ plan[2] = Write("old", image)
                             /\ plan[3] = Activate(mode, ~planner.on)
         /\ mode = "clean" => /\ Len(plan) = 5 /\ plan[2] = Write("old", image)
                              /\ plan[3] = Op("heat") /\ plan[4] = Activate(mode, ~planner.on)
                              /\ plan[5] = Op("loadTemp")
         /\ mode = "fast" /\ staged => Len(plan) = 2 /\ plan[2] = Activate(mode, ~planner.on)
         /\ mode = "fast" /\ ~staged => /\ Len(plan) = 3 /\ plan[2] = Write("old", prev)
                                        /\ plan[3] = Activate(mode, ~planner.on)
<1>1. /\ Write("new", image) \in Step /\ Write("old", image) \in Step /\ Write("old", prev) \in Step
      /\ Op("heat") \in Step /\ Op("loadTemp") \in Step
      /\ Activate(mode, ~planner.on) \in Step
  BY StepTypes DEF Commands, Typed
<1>2. CASE mode = "full"
  <2>1. plan = <<Write("new", image), Write("old", image), Activate(mode, ~planner.on)>>
    BY <1>2 DEF SsdFlush
  <2> QED BY <2>1, <1>1, <1>2
<1>3. CASE mode = "clean"
  <2>1. plan = <<Write("new", image), Write("old", image), Op("heat"),
                 Activate(mode, ~planner.on), Op("loadTemp")>>
    BY <1>3 DEF SsdFlush
  <2> QED BY <2>1, <1>1, <1>3
<1>4. CASE mode = "fast" /\ staged
  <2>1. plan = <<Write("new", image), Activate(mode, ~planner.on)>>
    BY <1>4 DEF SsdFlush
  <2> QED BY <2>1, <1>1, <1>4
<1>5. CASE mode = "fast" /\ ~staged
  <2>1. plan = <<Write("new", image), Write("old", prev), Activate(mode, ~planner.on)>>
    BY <1>5 DEF SsdFlush
  <2> QED BY <2>1, <1>1, <1>5
<1> QED BY <1>2, <1>3, <1>4, <1>5 DEF Mode, Typed

LEMMA UcPlan ==
  ASSUME Typed, NEW image \in Image, NEW mode \in Mode, NEW pump \in BOOLEAN,
         NEW plan, plan = UcFlush(image, mode, staged, pump)
  PROVE  /\ plan \in Seq(Step)
         /\ mode = "full" =>
              /\ Len(plan) = 13
              /\ plan[1] = Bank("full") /\ plan[2] = Write("old", White) /\ plan[3] = Op("stop")
              /\ plan[4] = Write("new", image) /\ plan[5] = Op("powerOn") /\ plan[6] = Op("refresh")
              /\ plan[7] = Write("old", image) /\ plan[8] = Op("stop") /\ plan[9] = Bank("fast")
              /\ plan[10] = Write("new", image) /\ plan[11] = Op("refresh")
              /\ plan[12] = Write("old", image) /\ plan[13] = Op("stop")
         /\ mode = "fast" /\ staged =>
              /\ Len(plan) = 3 /\ plan[1] = Bank("fast")
              /\ plan[2] = Write("new", image) /\ plan[3] = Op("refresh")
         /\ mode = "fast" /\ ~staged =>
              /\ Len(plan) = 5 /\ plan[1] = Bank("fast")
              /\ plan[2] = Write("old", prev) /\ plan[3] = Op("stop")
              /\ plan[4] = Write("new", image) /\ plan[5] = Op("refresh")
         /\ mode = "clean" /\ pump =>
              /\ Len(plan) = 3 /\ plan[1] = Bank("clean")
              /\ plan[2] = Write("new", image) /\ plan[3] = Op("refresh")
         /\ mode = "clean" /\ ~pump =>
              /\ Len(plan) = 4 /\ plan[1] = Bank("clean")
              /\ plan[2] = Write("new", image) /\ plan[3] = Op("powerOn") /\ plan[4] = Op("refresh")
<1>1. /\ Write("new", image) \in Step /\ Write("old", image) \in Step /\ Write("old", prev) \in Step
      /\ Write("old", White) \in Step /\ Op("stop") \in Step /\ Op("powerOn") \in Step
      /\ Op("refresh") \in Step
      /\ Bank("full") \in Step /\ Bank("fast") \in Step /\ Bank("clean") \in Step
  BY StepTypes DEF Commands, Typed, Image, Mode
<1>2. CASE mode = "full"
  <2>1. plan = <<Bank("full"), Write("old", White), Op("stop"), Write("new", image),
                 Op("powerOn"), Op("refresh"), Write("old", image), Op("stop"), Bank("fast"),
                 Write("new", image), Op("refresh"), Write("old", image), Op("stop")>>
    BY <1>2 DEF UcFlush
  <2> QED BY <2>1, <1>1, <1>2
<1>3. CASE mode = "fast" /\ staged
  <2>1. plan = <<Bank("fast"), Write("new", image), Op("refresh")>> BY <1>3 DEF UcFlush
  <2> QED BY <2>1, <1>1, <1>3
<1>4. CASE mode = "fast" /\ ~staged
  <2>1. plan = <<Bank("fast"), Write("old", prev), Op("stop"), Write("new", image), Op("refresh")>>
    BY <1>4 DEF UcFlush
  <2> QED BY <2>1, <1>1, <1>4
<1>5. CASE mode = "clean" /\ pump
  <2>1. plan = <<Bank("clean"), Write("new", image), Op("refresh")>> BY <1>5 DEF UcFlush
  <2> QED BY <2>1, <1>1, <1>5
<1>6. CASE mode = "clean" /\ ~pump
  <2>1. plan = <<Bank("clean"), Write("new", image), Op("powerOn"), Op("refresh")>>
    BY <1>6 DEF UcFlush
  <2> QED BY <2>1, <1>1, <1>6
<1> QED BY <1>2, <1>3, <1>4, <1>5, <1>6 DEF Mode, Typed

LEMMA PrestagePlan ==
  ASSUME NEW image \in Image
  PROVE  /\ PrestageSteps(image) \in Seq(Step)
         /\ PrestageSteps(image)[1] = Write("old", image)
         /\ controller # "uc8253" => Len(PrestageSteps(image)) = 1
         /\ controller = "uc8253" => /\ Len(PrestageSteps(image)) = 2
                                     /\ PrestageSteps(image)[2] = Op("stop")
<1>1. Write("old", image) \in Step /\ Op("stop") \in Step
  BY StepTypes DEF Commands
<1> QED BY <1>1 DEF PrestageSteps

LEMMA SleepPlan ==
  ASSUME NEW pump \in BOOLEAN
  PROVE  /\ SleepSteps(pump) \in Seq(Step)
         /\ controller = "ssd1677" => /\ Len(SleepSteps(pump)) = 2
                                      /\ SleepSteps(pump)[1] = Op("powerDown")
                                      /\ SleepSteps(pump)[2] = Op("deepSleep")
         /\ controller # "ssd1677" /\ pump => /\ Len(SleepSteps(pump)) = 2
                                              /\ SleepSteps(pump)[1] = Op("powerOff")
                                              /\ SleepSteps(pump)[2] = Op("deepSleep")
         /\ controller # "ssd1677" /\ ~pump => /\ Len(SleepSteps(pump)) = 1
                                               /\ SleepSteps(pump)[1] = Op("deepSleep")
<1>1. Op("powerDown") \in Step /\ Op("powerOff") \in Step /\ Op("deepSleep") \in Step
  BY StepTypes DEF Commands
<1> QED BY <1>1 DEF SleepSteps
-----------------------------------------------------------------------------
(* One command of a plan.                                                  *)

LEMMA WholePlan == ASSUME NEW plan \in Seq(Step) PROVE IsRest(plan, plan)
BY DEF IsRest

LEMMA NextOfPlan ==
  ASSUME NEW plan, NEW rest, IsRest(plan, rest), rest # <<>>
  PROVE  /\ Len(rest) \in 1 .. Len(plan)
         /\ Head(rest) = plan[Len(plan) - Len(rest) + 1] /\ Head(rest) \in Step
         /\ Len(Tail(rest)) = Len(rest) - 1 /\ IsRest(plan, Tail(rest))
<1>1. /\ plan \in Seq(Step) /\ rest \in Seq(Step) /\ Len(rest) \in 1 .. Len(plan)
  BY DEF IsRest
<1>2. Tail(rest) \in Seq(Step) /\ Len(Tail(rest)) = Len(rest) - 1 BY <1>1
<1>3. Head(rest) = rest[1] /\ rest[1] \in Step BY <1>1
<1>4. ASSUME NEW k \in 1 .. Len(Tail(rest))
      PROVE  Tail(rest)[k] = plan[Len(plan) - Len(Tail(rest)) + k]
  <2>1. Tail(rest)[k] = rest[k + 1] /\ k + 1 \in 1 .. Len(rest) BY <1>1, <1>2
  <2>2. rest[k + 1] = plan[Len(plan) - Len(rest) + (k + 1)] BY <2>1 DEF IsRest
  <2>3. Len(plan) - Len(rest) + (k + 1) = Len(plan) - Len(Tail(rest)) + k BY <1>1, <1>2
  <2> QED BY <2>1, <2>2, <2>3
<1>5. rest[1] = plan[Len(plan) - Len(rest) + 1] BY <1>1 DEF IsRest
<1> QED BY <1>1, <1>2, <1>3, <1>4, <1>5 DEF IsRest

\* What the controller makes of a command it hears.
LEMMA Heard ==
  ASSUME chip \in Chip, ~chip.asleep
  PROVE  /\ Effect(Op("setup")) = [chip EXCEPT !.ready = TRUE,
                                     !.old = IF controller = "ssd1677" THEN White ELSE @,
                                     !.new = IF controller = "ssd1677" THEN White ELSE @]
         /\ \A m : Effect(Write("new", m)) = [chip EXCEPT !.new = m]
         /\ \A m : Effect(Write("old", m)) =
                     [chip EXCEPT !.old = m, !.stop = controller = "uc8253"]
         /\ Effect(Op("stop")) = [chip EXCEPT !.stop = FALSE]
         /\ \A m : Effect(Bank(m)) = [chip EXCEPT !.bank = m]
         /\ Effect(Op("heat")) = [chip EXCEPT !.hot = TRUE]
         /\ Effect(Op("loadTemp")) = [chip EXCEPT !.hot = FALSE]
         /\ Effect(Op("powerOn")) = [chip EXCEPT !.power = TRUE]
         /\ Effect(Op("powerOff")) = [chip EXCEPT !.power = FALSE]
         /\ Effect(Op("powerDown")) = [chip EXCEPT !.power = FALSE]
         /\ Effect(Op("deepSleep")) = [chip EXCEPT !.asleep = TRUE]
BY DEF Effect, Op, Write, Bank, IsRefresh

LEMMA Reset ==
  Effect(Op("reset")) =
    [asleep |-> FALSE, ready |-> FALSE, power |-> FALSE, stop |-> FALSE, hot |-> FALSE,
     bank |-> "full", old |-> Ghost, new |-> Ghost, shown |-> chip.shown]
BY DEF Effect, Op, IsRefresh

LEMMA Refreshed ==
  ASSUME chip \in Chip, ~chip.asleep, NEW s, IsRefresh(s)
  PROVE  Effect(s) = [chip EXCEPT !.power = PumpOn(s), !.hot = @ /\ ModeOf(s) # "full",
                        !.shown = IF PumpOn(s) THEN Drive(ModeOf(s)) ELSE @]
BY DEF Effect, IsRefresh

LEMMA Unheard ==
  ASSUME chip.asleep, NEW s, s.op # "reset"
  PROVE  Effect(s) = chip
BY DEF Effect

LEMMA EffectTypes ==
  ASSUME chip \in Chip, NEW s \in Step
  PROVE  Effect(s) \in Chip
<1>1. CASE chip.asleep /\ s.op # "reset" BY <1>1, Unheard
<1>2. CASE s.op = "reset"
  <2>1. s = Op("reset") BY <1>2 DEF Step, Op, Commands
  <2>2. chip.shown \in Image /\ Ghost \in Image /\ "full" \in Mode BY DEF Chip, Image, Mode
  <2>3. Effect(s) = [asleep |-> FALSE, ready |-> FALSE, power |-> FALSE, stop |-> FALSE,
                     hot |-> FALSE, bank |-> "full", old |-> Ghost, new |-> Ghost,
                     shown |-> chip.shown]
    BY <2>1, Reset
  <2> QED BY <2>2, <2>3 DEF Chip
<1>3. CASE ~chip.asleep /\ s.op \in {"write", "bank", "setup"}
  <2>1. \/ s = Op("setup")
        \/ \E m \in Image : s = Write("new", m) \/ s = Write("old", m)
        \/ \E m \in Mode : s = Bank(m)
    BY <1>3 DEF Step, Op, Write, Bank
  <2>2. White \in Image BY DEF Image
  <2>3. CASE s = Op("setup")
    <3>1. Effect(s) = [chip EXCEPT !.ready = TRUE,
                         !.old = IF controller = "ssd1677" THEN White ELSE @,
                         !.new = IF controller = "ssd1677" THEN White ELSE @]
      BY <2>3, <1>3, Heard
    <3> QED BY <3>1, <2>2 DEF Chip
  <2>4. ASSUME NEW m \in Image, s = Write("new", m) PROVE Effect(s) \in Chip
    <3>1. Effect(s) = [chip EXCEPT !.new = m] BY <2>4, <1>3, Heard
    <3> QED BY <3>1 DEF Chip
  <2>5. ASSUME NEW m \in Image, s = Write("old", m) PROVE Effect(s) \in Chip
    <3>1. Effect(s) = [chip EXCEPT !.old = m, !.stop = controller = "uc8253"] BY <2>5, <1>3, Heard
    <3> QED BY <3>1 DEF Chip
  <2>6. ASSUME NEW m \in Mode, s = Bank(m) PROVE Effect(s) \in Chip
    <3>1. Effect(s) = [chip EXCEPT !.bank = m] BY <2>6, <1>3, Heard
    <3> QED BY <3>1 DEF Chip
  <2> QED BY <2>1, <2>3, <2>4, <2>5, <2>6
<1>4. CASE ~chip.asleep /\ IsRefresh(s)
  <2>1. ModeOf(s) \in Mode /\ PumpOn(s) \in BOOLEAN
    BY <1>4 DEF ModeOf, PumpOn, IsRefresh, Step, Chip
  <2>2. Drive(ModeOf(s)) \in Image BY DEF Drive, Chip, Image
  <2>3. Effect(s) = [chip EXCEPT !.power = PumpOn(s), !.hot = @ /\ ModeOf(s) # "full",
                       !.shown = IF PumpOn(s) THEN Drive(ModeOf(s)) ELSE @]
    BY <1>4, Refreshed
  <2> QED BY <2>1, <2>2, <2>3 DEF Chip
<1>5. CASE ~chip.asleep /\ s.op \notin {"reset", "write", "bank", "setup", "activate", "refresh"}
  <2>1. s \in {Op("stop"), Op("heat"), Op("loadTemp"), Op("powerOn"), Op("powerOff"),
               Op("powerDown"), Op("deepSleep")}
    BY <1>5 DEF Step, Op, Commands
  <2>2. \E v \in BOOLEAN : \/ Effect(s) = [chip EXCEPT !.stop = v] \/ Effect(s) = [chip EXCEPT !.hot = v]
                            \/ Effect(s) = [chip EXCEPT !.power = v]
                            \/ Effect(s) = [chip EXCEPT !.asleep = v]
    BY <2>1, <1>5, Heard
  <2> QED BY <2>2 DEF Chip
<1> QED BY <1>1, <1>2, <1>3, <1>4, <1>5 DEF IsRefresh

\* A step that sends the next command of a plan.
LEMMA Sends ==
  ASSUME Typed, Send, NEW plan, IsRest(plan, steps), NEW s,
         s = plan[Len(plan) - Len(steps) + 1]
  PROVE  /\ s \in Step /\ Len(steps) \in 1 .. Len(plan)
         /\ IsRest(plan, steps') /\ Len(steps') = Len(steps) - 1 /\ steps' \in Seq(Step)
         /\ chip' = Effect(s) /\ chip' \in Chip
         /\ chip.asleep => ~(IsBusy(s) /\ controller = "uc8253")
         /\ upset' = (upset /\ ~Absolute(s)) /\ CountRefresh(s)
         /\ since' = (IF s.op = "reset" THEN {} ELSE since)
         /\ powered' = (CASE s.op = "powerOn" -> TRUE [] s.op = "powerOff" -> FALSE [] OTHER -> powered)
         /\ UNCHANGED <<controller, planner, prev, staged, job, faults>>
<1>1. steps # <<>> /\ steps' = Tail(steps) BY DEF Send
<1>2. s = Head(steps) /\ s \in Step BY <1>1, NextOfPlan
<1>3. /\ chip' = Effect(s) /\ ~(chip.asleep /\ IsBusy(s) /\ controller = "uc8253")
      /\ upset' = (upset /\ ~Absolute(s)) /\ CountRefresh(s)
      /\ since' = (IF s.op = "reset" THEN {} ELSE since)
      /\ powered' = (CASE s.op = "powerOn" -> TRUE [] s.op = "powerOff" -> FALSE [] OTHER -> powered)
      /\ UNCHANGED <<controller, belief, job, faults>>
  BY <1>2 DEF Send
<1>4. chip' \in Chip BY <1>2, <1>3, EffectTypes DEF Typed
<1>5. Tail(steps) \in Seq(Step) BY <1>1 DEF Typed
<1> QED BY <1>1, <1>2, <1>3, <1>4, <1>5, NextOfPlan DEF belief
-----------------------------------------------------------------------------
(* The commands one by one, heard or not.                                  *)

LEMMA WriteSent ==
  ASSUME chip \in Chip, NEW m, NEW plane \in {"old", "new"}, chip' = Effect(Write(plane, m))
  PROVE  /\ chip'.asleep = chip.asleep /\ chip'.ready = chip.ready /\ chip'.power = chip.power
         /\ chip'.hot = chip.hot /\ chip'.bank = chip.bank /\ chip'.shown = chip.shown
         /\ plane = "new" => /\ chip'.old = chip.old /\ chip'.stop = chip.stop
                             /\ ~chip.asleep => chip'.new = m
         /\ plane = "old" => /\ chip'.new = chip.new
                             /\ chip.asleep => chip'.stop = chip.stop
                             /\ ~chip.asleep => chip'.old = m /\ chip'.stop = (controller = "uc8253")
<1>1. CASE chip.asleep
  <2>1. chip' = chip BY <1>1, Unheard DEF Write
  <2> QED BY <2>1, <1>1
<1>2. CASE ~chip.asleep /\ plane = "new"
  <2>1. chip' = [chip EXCEPT !.new = m] BY <1>2, Heard
  <2> QED BY <2>1, <1>2 DEF Chip
<1>3. CASE ~chip.asleep /\ plane = "old"
  <2>1. chip' = [chip EXCEPT !.old = m, !.stop = controller = "uc8253"] BY <1>3, Heard
  <2> QED BY <2>1, <1>3 DEF Chip
<1> QED BY <1>1, <1>2, <1>3

LEMMA BankSent ==
  ASSUME chip \in Chip, NEW m, chip' = Effect(Bank(m))
  PROVE  /\ chip'.asleep = chip.asleep /\ chip'.ready = chip.ready /\ chip'.power = chip.power
         /\ chip'.hot = chip.hot /\ chip'.stop = chip.stop /\ chip'.shown = chip.shown
         /\ chip'.old = chip.old /\ chip'.new = chip.new
         /\ ~chip.asleep => chip'.bank = m
<1>1. CASE chip.asleep
  <2>1. chip' = chip BY <1>1, Unheard DEF Bank
  <2> QED BY <2>1, <1>1
<1>2. CASE ~chip.asleep
  <2>1. chip' = [chip EXCEPT !.bank = m] BY <1>2, Heard
  <2> QED BY <2>1, <1>2 DEF Chip
<1> QED BY <1>1, <1>2

LEMMA PlainSent ==
  ASSUME chip \in Chip, NEW op \in {"stop", "heat", "loadTemp", "powerOn", "powerOff", "powerDown", "deepSleep"},
         chip' = Effect(Op(op))
  PROVE  /\ chip'.ready = chip.ready /\ chip'.bank = chip.bank
         /\ chip'.shown = chip.shown /\ chip'.old = chip.old /\ chip'.new = chip.new
         /\ chip.asleep => chip' = chip
         /\ ~chip.asleep =>
              /\ IF op = "deepSleep" THEN chip'.asleep ELSE chip'.asleep = chip.asleep
              /\ IF op = "stop" THEN ~chip'.stop ELSE chip'.stop = chip.stop
              /\ op = "heat" => chip'.hot
              /\ op = "loadTemp" => ~chip'.hot
              /\ op \notin {"heat", "loadTemp"} => chip'.hot = chip.hot
              /\ op = "powerOn" => chip'.power
              /\ op \in {"powerOff", "powerDown"} => ~chip'.power
              /\ op \notin {"powerOn", "powerOff", "powerDown"} => chip'.power = chip.power
<1>1. CASE chip.asleep
  <2>1. chip' = chip BY <1>1, Unheard DEF Op
  <2> QED BY <2>1, <1>1
<1>2. CASE ~chip.asleep
  <2>1. CASE op = "stop"
    <3>1. chip' = [chip EXCEPT !.stop = FALSE] BY <1>2, <2>1, Heard
    <3> QED BY <3>1, <2>1, <1>2 DEF Chip
  <2>2. CASE op = "heat"
    <3>1. chip' = [chip EXCEPT !.hot = TRUE] BY <1>2, <2>2, Heard
    <3> QED BY <3>1, <2>2, <1>2 DEF Chip
  <2>3. CASE op = "loadTemp"
    <3>1. chip' = [chip EXCEPT !.hot = FALSE] BY <1>2, <2>3, Heard
    <3> QED BY <3>1, <2>3, <1>2 DEF Chip
  <2>4. CASE op = "powerOn"
    <3>1. chip' = [chip EXCEPT !.power = TRUE] BY <1>2, <2>4, Heard
    <3> QED BY <3>1, <2>4, <1>2 DEF Chip
  <2>5. CASE op \in {"powerOff", "powerDown"}
    <3>1. chip' = [chip EXCEPT !.power = FALSE] BY <1>2, <2>5, Heard
    <3> QED BY <3>1, <2>5, <1>2 DEF Chip
  <2>6. CASE op = "deepSleep"
    <3>1. chip' = [chip EXCEPT !.asleep = TRUE] BY <1>2, <2>6, Heard
    <3> QED BY <3>1, <2>6, <1>2 DEF Chip
  <2> QED BY <2>1, <2>2, <2>3, <2>4, <2>5, <2>6
<1> QED BY <1>1, <1>2

LEMMA RefreshSent ==
  ASSUME chip \in Chip, NEW s \in Step, IsRefresh(s), chip' = Effect(s)
  PROVE  /\ chip'.asleep = chip.asleep /\ chip'.ready = chip.ready /\ chip'.bank = chip.bank
         /\ chip'.stop = chip.stop /\ chip'.old = chip.old /\ chip'.new = chip.new
         /\ chip.asleep => chip' = chip
         /\ ~chip.asleep =>
              /\ chip'.power = PumpOn(s)
              /\ chip'.hot = (chip.hot /\ ModeOf(s) # "full")
              /\ ~PumpOn(s) => chip'.shown = chip.shown
              /\ PumpOn(s) /\ ModeOf(s) # "fast" => chip'.shown = chip.new
              /\ PumpOn(s) /\ chip.old = chip.shown => chip'.shown = chip.new
<1>1. CASE chip.asleep
  <2>1. chip' = chip BY <1>1, Unheard DEF IsRefresh
  <2> QED BY <2>1, <1>1
<1>2. CASE ~chip.asleep
  <2>1. chip' = [chip EXCEPT !.power = PumpOn(s), !.hot = @ /\ ModeOf(s) # "full",
                   !.shown = IF PumpOn(s) THEN Drive(ModeOf(s)) ELSE @]
    BY <1>2, Refreshed
  <2>2. /\ ModeOf(s) # "fast" => Drive(ModeOf(s)) = chip.new
        /\ chip.old = chip.shown => Drive(ModeOf(s)) = chip.new
    BY DEF Drive
  <2> QED BY <2>1, <2>2, <1>2 DEF Chip
<1> QED BY <1>1, <1>2

LEMMA QuietSent ==
  ASSUME NEW s, ~IsRefresh(s), upset' = (upset /\ ~Absolute(s)), CountRefresh(s), upset \in BOOLEAN
  PROVE  upset' = upset /\ streak' = streak
BY DEF Absolute, CountRefresh

LEMMA QuietSteps ==
  /\ \A op \in Commands \ {"activate", "refresh"} : ~IsRefresh(Op(op))
  /\ \A plane, m : ~IsRefresh(Write(plane, m))
  /\ \A m : ~IsRefresh(Bank(m))
  /\ IsRefresh(Op("refresh")) /\ (\A m, e : IsRefresh(Activate(m, e)))
BY DEF IsRefresh, Op, Write, Bank, Activate

LEMMA ImageTypes ==
  /\ White \in Image /\ SleepImage \in Image /\ Ghost \in Image
  /\ \A r \in Request : PageImage(r) \in Image /\ PlateImage(r) \in Image
<1>1. ASSUME NEW r \in Request PROVE PageImage(r) \in Image /\ PlateImage(r) \in Image
  <2>1. r.view \in Views /\ r.page \in Pages BY DEF Request
  <2>2. PageImage(r) \in Drawn /\ PlateImage(r) \in Drawn BY <2>1 DEF PageImage, PlateImage, Drawn
  <2> QED BY <2>2 DEF Image
<1> QED BY <1>1 DEF Image

LEMMA FlushTypes ==
  ASSUME Typed, JobFits, Flushing
  PROVE  /\ job.image \in Image /\ job.kind \in Kind /\ job.mode \in Mode
         /\ chip \in Chip /\ upset \in BOOLEAN
<1>1. job \in JobRecord /\ chip \in Chip /\ upset \in BOOLEAN BY DEF Typed
<1>2. job.kind \in Kind /\ job.mode \in Mode BY <1>1 DEF JobRecord
<1>3. job.image \in Image BY ImageTypes DEF JobFits, Flushing, ImageOf
<1> QED BY <1>1, <1>2, <1>3
-----------------------------------------------------------------------------
(* A flush, command by command.                                            *)

\* The next command of the display task succeeds.
Executes(s, left) ==
  /\ s \in Step /\ chip \in Chip /\ upset \in BOOLEAN
  /\ chip' = Effect(s)
  /\ Len(steps') = left - 1
  /\ chip.asleep => ~(IsBusy(s) /\ controller = "uc8253")
  /\ upset' = (upset /\ ~Absolute(s))
  /\ UNCHANGED <<controller, planner, prev, staged, job, faults>>

LEMMA ChipTypes ==
  ASSUME chip \in Chip
  PROVE  /\ chip.asleep \in BOOLEAN /\ chip.power \in BOOLEAN /\ chip.hot \in BOOLEAN
         /\ chip.ready \in BOOLEAN /\ chip.stop \in BOOLEAN
BY DEF Chip

\* What a command that is no refresh leaves of the picture.
LEMMA PictureKept ==
  ASSUME NEW left \in Nat \ {0}, NEW s, Executes(s, left), FlushPicture(left), ~IsRefresh(s),
         Shown(left) <=> Shown(left - 1),
         chip'.shown = chip.shown, chip'.asleep = chip.asleep, chip.power => chip'.power,
         job.mode = "fast" => chip'.hot = chip.hot /\ (staged => chip'.old = chip.old),
         left = 1 /\ ~chip.asleep => ~chip'.hot
  PROVE  FlushPicture(Len(steps))'
<1>1. /\ Len(steps') = left - 1
      /\ UNCHANGED <<controller, planner, prev, staged, job, faults>>
  BY DEF Executes
<1>2. upset' = upset BY DEF Executes, Absolute
<1>3. Shown(Len(steps))' <=> Shown(left) BY <1>1 DEF Shown
<1>4. Before => Before' BY <1>1 DEF Before
<1>5. After(left) => After(Len(steps))' BY <1>1 DEF After
<1> QED BY <1>2, <1>3, <1>4, <1>5 DEF FlushPicture

\* What the refresh makes of it that shows the image.
LEMMA RefreshShows ==
  ASSUME NEW left \in Nat \ {0}, NEW s, Executes(s, left), FlushPicture(left), IsRefresh(s), JobFits,
         ~Shown(left), Shown(left - 1), Flushing,
         ~chip.asleep => chip.new = job.image /\ (~planner.on => PumpOn(s)),
         ModeOf(s) = "fast" /\ ~upset /\ ~chip.asleep => chip.old = chip.shown,
         left = 1 /\ ~chip.asleep => \/ ~chip.hot \/ ModeOf(s) = "full"
                                     \/ upset /\ ModeOf(s) = "fast"
  PROVE  FlushPicture(Len(steps))'
<1>1. /\ Len(steps') = left - 1 /\ chip \in Chip /\ upset \in BOOLEAN
      /\ UNCHANGED <<controller, planner, prev, staged, job, faults>>
      /\ s \in Step /\ chip' = Effect(s) /\ upset' = (upset /\ ~Absolute(s))
  BY DEF Executes
<1>2. Shown(Len(steps))' BY <1>1 DEF Shown
<1>3. SUFFICES ASSUME ~upset' PROVE After(Len(steps))'
  BY <1>2 DEF FlushPicture
<1>4. CASE chip.asleep
  <2>1. chip' = chip /\ ~upset BY <1>1, <1>3, <1>4, RefreshSent DEF Absolute
  <2>2. Before BY <2>1 DEF FlushPicture
  <2>3. job.kind = "sleepFrame" /\ chip.shown = SleepImage BY <2>2, <1>4 DEF Before
  <2> QED BY <2>1, <2>3, <1>1, <1>4 DEF After, JobFits
<1>5. CASE ~chip.asleep
  <2>1. PumpOn(s)
    <3>1. CASE upset BY <3>1, <1>1, <1>3 DEF Absolute
    <3>2. CASE ~upset
      <4>1. planner.on => chip.power BY <3>2 DEF FlushPicture, Before
      <4> QED BY <4>1, <1>5 DEF PumpOn
    <3> QED BY <1>1, <3>1, <3>2
  <2>2. chip'.shown = job.image
    <3>1. CASE ModeOf(s) # "fast" BY <3>1, <2>1, <1>1, <1>5, RefreshSent
    <3>2. CASE ModeOf(s) = "fast"
      <4>1. ~upset BY <3>2, <1>1, <1>3 DEF Absolute
      <4> QED BY <4>1, <3>2, <2>1, <1>1, <1>5, RefreshSent
    <3> QED BY <3>1, <3>2
  <2>3. ModeOf(s) = "fast" => ~upset BY <1>1, <1>3 DEF Absolute
  <2>4. ~chip'.asleep /\ chip'.power /\ (left = 1 => ~chip'.hot)
    BY <2>1, <2>3, <1>1, <1>5, RefreshSent, ChipTypes
  <2> QED BY <2>2, <2>4, <1>1 DEF After
<1> QED BY <1>4, <1>5

LEMMA PlansKept ==
  ASSUME UNCHANGED <<controller, planner, prev, staged, job>>
  PROVE  /\ UNCHANGED SsdFlush(job.image, job.mode, staged)
         /\ UNCHANGED UcFlush(job.image, "fast", staged, TRUE)
         /\ \A pump \in BOOLEAN : UNCHANGED FlushSteps(job.image, job.mode, staged, pump)
         /\ UNCHANGED InitSteps /\ UNCHANGED PrestageSteps(job.image)
         /\ \A pump \in BOOLEAN : UNCHANGED SleepSteps(pump)
<1>1. UNCHANGED SsdFlush(job.image, job.mode, staged) BY DEF SsdFlush
<1>2. UNCHANGED UcFlush(job.image, "fast", staged, TRUE) BY DEF UcFlush
<1>3. ASSUME NEW pump \in BOOLEAN PROVE UNCHANGED FlushSteps(job.image, job.mode, staged, pump)
  <2>1. UNCHANGED UcFlush(job.image, Promoted(job.mode, pump), staged, pump)
    BY DEF UcFlush, Promoted
  <2> QED BY <1>1, <2>1 DEF FlushSteps
<1>4. UNCHANGED InitSteps /\ UNCHANGED PrestageSteps(job.image) BY DEF InitSteps, PrestageSteps
<1>5. \A pump \in BOOLEAN : UNCHANGED SleepSteps(pump) BY DEF SleepSteps
<1> QED BY <1>1, <1>2, <1>3, <1>4, <1>5

\* The commands of a full flush of the UC8253, so many before the end.
UcFullNext(s, left) ==
  /\ left = 13 => s = Bank("full")
  /\ left = 12 => s = Write("old", White)
  /\ left = 11 => s = Op("stop")
  /\ left = 10 => s = Write("new", job.image)
  /\ left = 9 => s = Op("powerOn")
  /\ left = 8 => s = Op("refresh")
  /\ left = 7 => s = Write("old", job.image)
  /\ left = 6 => s = Op("stop")
  /\ left = 5 => s = Bank("fast")
  /\ left = 4 => s = Write("new", job.image)
  /\ left = 3 => s = Op("refresh")
  /\ left = 2 => s = Write("old", job.image)
  /\ left = 1 => s = Op("stop")

LEMMA UcFullSent ==
  ASSUME Typed, JobFits, NeverHot, Flushing, NEW pump \in BOOLEAN, controller = "uc8253",
         job.mode = "full",
         NEW left \in 1 .. 13, FlushAt(left, pump), NEW s, Executes(s, left),
         UcFullNext(s, left)
  PROVE  FlushAt(Len(steps), pump)'
<1>1. /\ s \in Step /\ chip \in Chip /\ upset \in BOOLEAN /\ chip' = Effect(s)
      /\ Len(steps') = left - 1
      /\ chip.asleep => ~(IsBusy(s) /\ controller = "uc8253")
      /\ UNCHANGED <<controller, planner, prev, staged, job, faults>>
  BY DEF Executes
<1>3. (pump => planner.on) /\ UcFullTold(left) /\ FlushPicture(left)
  BY DEF FlushAt, FlushTold, Promoted
<1>4. SUFFICES UcFullTold(Len(steps))' /\ FlushPicture(Len(steps))'
  BY <1>1, <1>3 DEF FlushAt, FlushTold, Promoted
<1>5. left \in Nat \ {0} /\ (left # 8 => (Shown(left) <=> Shown(left - 1)))
      /\ (left = 8 => ~Shown(left) /\ Shown(left - 1))
  BY DEF Shown
<1>6. CASE left = 13
  <2>1. s = Bank("full") /\ ~IsRefresh(s) BY <1>6, QuietSteps DEF Commands, UcFullNext
  <2>3. UcFullTold(Len(steps))' BY <2>1, <1>1, <1>3, <1>6, BankSent, ChipTypes DEF UcFullTold
  <2>4. FlushPicture(Len(steps))'
    BY <2>1, <1>1, <1>3, <1>5, <1>6, BankSent, PictureKept, ChipTypes DEF NeverHot
  <2> QED BY <2>3, <2>4
<1>7. CASE left = 12
  <2>1. s = Write("old", White) /\ ~IsRefresh(s) BY <1>7, QuietSteps DEF Commands, UcFullNext
  <2>3. UcFullTold(Len(steps))' BY <2>1, <1>1, <1>3, <1>7, WriteSent, ChipTypes DEF UcFullTold
  <2>4. FlushPicture(Len(steps))'
    BY <2>1, <1>1, <1>3, <1>5, <1>7, WriteSent, PictureKept, ChipTypes DEF NeverHot
  <2> QED BY <2>3, <2>4
<1>8. CASE left = 11
  <2>1. s = Op("stop") /\ ~IsRefresh(s) BY <1>8, QuietSteps DEF Commands, UcFullNext
  <2>3. UcFullTold(Len(steps))' BY <2>1, <1>1, <1>3, <1>8, PlainSent, ChipTypes DEF UcFullTold
  <2>4. FlushPicture(Len(steps))'
    BY <2>1, <1>1, <1>3, <1>5, <1>8, PlainSent, PictureKept, ChipTypes DEF NeverHot
  <2> QED BY <2>3, <2>4
<1>9. CASE left = 10
  <2>1. s = Write("new", job.image) /\ ~IsRefresh(s) BY <1>9, QuietSteps DEF Commands, UcFullNext
  <2>3. UcFullTold(Len(steps))' BY <2>1, <1>1, <1>3, <1>9, WriteSent, ChipTypes DEF UcFullTold
  <2>4. FlushPicture(Len(steps))'
    BY <2>1, <1>1, <1>3, <1>5, <1>9, WriteSent, PictureKept, ChipTypes DEF NeverHot
  <2> QED BY <2>3, <2>4
<1>10. CASE left = 9
  <2>1. s = Op("powerOn") /\ ~IsRefresh(s) BY <1>10, QuietSteps DEF Commands, UcFullNext
  <2>2. ~chip.asleep BY <2>1, <1>1 DEF IsBusy, Op
  <2>3. UcFullTold(Len(steps))'
    BY <2>1, <2>2, <1>1, <1>3, <1>10, PlainSent, ChipTypes DEF UcFullTold
  <2>4. FlushPicture(Len(steps))'
    BY <2>1, <2>2, <1>1, <1>3, <1>5, <1>10, PlainSent, PictureKept, ChipTypes DEF NeverHot
  <2> QED BY <2>3, <2>4
<1>11. CASE left = 8
  <2>1. s = Op("refresh") /\ IsRefresh(s) BY <1>11, QuietSteps DEF UcFullNext
  <2>2. ~chip.asleep /\ ModeOf(s) = chip.bank BY <2>1, <1>1 DEF IsBusy, Op, ModeOf
  <2>3. UcFullTold(Len(steps))'
    BY <2>1, <2>2, <1>1, <1>3, <1>11, RefreshSent, ChipTypes DEF UcFullTold, PumpOn
  <2>9. /\ ~chip.asleep => chip.new = job.image /\ (~planner.on => PumpOn(s))
        /\ ModeOf(s) = "fast" /\ ~upset /\ ~chip.asleep => chip.old = chip.shown
        /\ left = 1 /\ ~chip.asleep => \/ ~chip.hot \/ ModeOf(s) = "full"
                                       \/ upset /\ ModeOf(s) = "fast"
    BY <2>1, <2>2, <1>1, <1>3, <1>11, ChipTypes DEF NeverHot, UcFullTold, PumpOn
  <2>10. ~Shown(left) /\ Shown(left - 1) BY <1>5, <1>11
  <2>4. FlushPicture(Len(steps))' BY <2>1, <2>9, <2>10, <1>3, <1>5, RefreshShows
  <2> QED BY <2>3, <2>4
<1>12. CASE left = 7
  <2>1. s = Write("old", job.image) /\ ~IsRefresh(s) BY <1>12, QuietSteps DEF Commands, UcFullNext
  <2>3. UcFullTold(Len(steps))' BY <2>1, <1>1, <1>3, <1>12, WriteSent, ChipTypes DEF UcFullTold
  <2>4. FlushPicture(Len(steps))'
    BY <2>1, <1>1, <1>3, <1>5, <1>12, WriteSent, PictureKept, ChipTypes DEF NeverHot
  <2> QED BY <2>3, <2>4
<1>13. CASE left = 6
  <2>1. s = Op("stop") /\ ~IsRefresh(s) BY <1>13, QuietSteps DEF Commands, UcFullNext
  <2>3. UcFullTold(Len(steps))' BY <2>1, <1>1, <1>3, <1>13, PlainSent, ChipTypes DEF UcFullTold
  <2>4. FlushPicture(Len(steps))'
    BY <2>1, <1>1, <1>3, <1>5, <1>13, PlainSent, PictureKept, ChipTypes DEF NeverHot
  <2> QED BY <2>3, <2>4
<1>14. CASE left = 5
  <2>1. s = Bank("fast") /\ ~IsRefresh(s) BY <1>14, QuietSteps DEF Commands, UcFullNext
  <2>3. UcFullTold(Len(steps))' BY <2>1, <1>1, <1>3, <1>14, BankSent, ChipTypes DEF UcFullTold
  <2>4. FlushPicture(Len(steps))'
    BY <2>1, <1>1, <1>3, <1>5, <1>14, BankSent, PictureKept, ChipTypes DEF NeverHot
  <2> QED BY <2>3, <2>4
<1>15. CASE left = 4
  <2>1. s = Write("new", job.image) /\ ~IsRefresh(s) BY <1>15, QuietSteps DEF Commands, UcFullNext
  <2>3. UcFullTold(Len(steps))' BY <2>1, <1>1, <1>3, <1>15, WriteSent, ChipTypes DEF UcFullTold
  <2>4. FlushPicture(Len(steps))'
    BY <2>1, <1>1, <1>3, <1>5, <1>15, WriteSent, PictureKept, ChipTypes DEF NeverHot
  <2> QED BY <2>3, <2>4
<1>16. CASE left = 3
  <2>1. s = Op("refresh") /\ IsRefresh(s) BY <1>16, QuietSteps DEF UcFullNext
  <2>2. ~chip.asleep /\ ModeOf(s) = chip.bank BY <2>1, <1>1 DEF IsBusy, Op, ModeOf
  <2>3. UcFullTold(Len(steps))'
    BY <2>1, <2>2, <1>1, <1>3, <1>16, RefreshSent, ChipTypes DEF UcFullTold, PumpOn
  <2>4. upset' = upset BY <2>1, <2>2, <1>3, <1>16 DEF Executes, Absolute, UcFullTold
  <2>5. FlushPicture(Len(steps))'
    BY <2>3, <2>4, <1>1, <1>3, <1>5, <1>16, RefreshSent DEF FlushPicture, After, Shown, UcFullTold
  <2> QED BY <2>3, <2>5
<1>17. CASE left = 2
  <2>1. s = Write("old", job.image) /\ ~IsRefresh(s) BY <1>17, QuietSteps DEF Commands, UcFullNext
  <2>3. UcFullTold(Len(steps))' BY <2>1, <1>1, <1>3, <1>17, WriteSent, ChipTypes DEF UcFullTold
  <2>4. FlushPicture(Len(steps))'
    BY <2>1, <1>1, <1>3, <1>5, <1>17, WriteSent, PictureKept, ChipTypes DEF NeverHot
  <2> QED BY <2>3, <2>4
<1>18. CASE left = 1
  <2>1. s = Op("stop") /\ ~IsRefresh(s) BY <1>18, QuietSteps DEF Commands, UcFullNext
  <2>3. UcFullTold(Len(steps))' BY <2>1, <1>1, <1>3, <1>18, PlainSent, ChipTypes DEF UcFullTold
  <2>4. FlushPicture(Len(steps))'
    BY <2>1, <1>1, <1>3, <1>5, <1>18, PlainSent, PictureKept, ChipTypes DEF NeverHot
  <2> QED BY <2>3, <2>4
<1>19. \/ left = 1 \/ left = 2 \/ left = 3 \/ left = 4 \/ left = 5
       \/ left = 6 \/ left = 7 \/ left = 8 \/ left = 9 \/ left = 10
       \/ left = 11 \/ left = 12 \/ left = 13
  OBVIOUS
<1> QED BY ONLY <1>4, <1>5, <1>6, <1>7, <1>8, <1>9, <1>10, <1>11, <1>12, <1>13, <1>14, <1>15,
     <1>16, <1>17, <1>18, <1>19

LEMMA UcFastStagedSent ==
  ASSUME Typed, JobFits, NeverHot, Flushing, NEW pump \in BOOLEAN, controller = "uc8253",
         job.mode = "fast", pump, staged,
         NEW left \in 1 .. 3, FlushAt(left, pump), NEW s, Executes(s, left),
         left = 3 => s = Bank("fast"),
         left = 2 => s = Write("new", job.image),
         left = 1 => s = Op("refresh")
  PROVE  FlushAt(Len(steps), pump)'
<1>1. /\ s \in Step /\ chip \in Chip /\ upset \in BOOLEAN /\ chip' = Effect(s)
      /\ Len(steps') = left - 1
      /\ chip.asleep => ~(IsBusy(s) /\ controller = "uc8253")
      /\ UNCHANGED <<controller, planner, prev, staged, job, faults>>
  BY DEF Executes
<1>3. (pump => planner.on) /\ UcFastTold(left) /\ FlushPicture(left)
  BY DEF FlushAt, FlushTold, Promoted
<1>4. SUFFICES UcFastTold(Len(steps))' /\ FlushPicture(Len(steps))'
  BY <1>1, <1>3 DEF FlushAt, FlushTold, Promoted
<1>5. left \in Nat \ {0} /\ (left # 1 => (Shown(left) <=> Shown(left - 1)))
      /\ (left = 1 => ~Shown(left) /\ Shown(left - 1))
  BY DEF Shown
<1>6. CASE left = 3
  <2>1. s = Bank("fast") /\ ~IsRefresh(s) BY <1>6, QuietSteps DEF Commands
  <2>3. UcFastTold(Len(steps))' BY <2>1, <1>1, <1>3, <1>6, BankSent, ChipTypes DEF UcFastTold
  <2>4. FlushPicture(Len(steps))'
    BY <2>1, <1>1, <1>3, <1>5, <1>6, BankSent, PictureKept, ChipTypes DEF NeverHot
  <2> QED BY <2>3, <2>4
<1>7. CASE left = 2
  <2>1. s = Write("new", job.image) /\ ~IsRefresh(s) BY <1>7, QuietSteps DEF Commands
  <2>3. UcFastTold(Len(steps))' BY <2>1, <1>1, <1>3, <1>7, WriteSent, ChipTypes DEF UcFastTold
  <2>4. FlushPicture(Len(steps))'
    BY <2>1, <1>1, <1>3, <1>5, <1>7, WriteSent, PictureKept, ChipTypes DEF NeverHot
  <2> QED BY <2>3, <2>4
<1>8. CASE left = 1
  <2>1. s = Op("refresh") /\ IsRefresh(s) BY <1>8, QuietSteps
  <2>2. ~chip.asleep /\ ModeOf(s) = chip.bank BY <2>1, <1>1 DEF IsBusy, Op, ModeOf
  <2>3. UcFastTold(Len(steps))'
    BY <2>1, <2>2, <1>1, <1>3, <1>8, RefreshSent, ChipTypes DEF UcFastTold, PumpOn
  <2>7. ~upset => /\ planner.on /\ ~chip.asleep /\ chip.power /\ ~chip.hot
                  /\ chip.old = chip.shown
    BY <1>3, <1>5, <1>8 DEF FlushPicture, Before, JobFits, Flushing, UcFastTold
  <2>9. /\ ~chip.asleep => chip.new = job.image /\ (~planner.on => PumpOn(s))
        /\ ModeOf(s) = "fast" /\ ~upset /\ ~chip.asleep => chip.old = chip.shown
        /\ left = 1 /\ ~chip.asleep => \/ ~chip.hot \/ ModeOf(s) = "full"
                                       \/ upset /\ ModeOf(s) = "fast"
    BY <2>1, <2>2, <2>7, <1>1, <1>3, <1>8, ChipTypes DEF NeverHot, UcFastTold, PumpOn
  <2>10. ~Shown(left) /\ Shown(left - 1) BY <1>5, <1>8
  <2>4. FlushPicture(Len(steps))' BY <2>1, <2>9, <2>10, <1>3, <1>5, RefreshShows
  <2> QED BY <2>3, <2>4
<1>9. left = 1 \/ left = 2 \/ left = 3
  OBVIOUS
<1> QED BY ONLY <1>4, <1>5, <1>6, <1>7, <1>8, <1>9

LEMMA UcFastSent ==
  ASSUME Typed, JobFits, NeverHot, Flushing, NEW pump \in BOOLEAN, controller = "uc8253",
         job.mode = "fast", pump, ~staged,
         NEW left \in 1 .. 5, FlushAt(left, pump), NEW s, Executes(s, left),
         left = 5 => s = Bank("fast"),
         left = 4 => s = Write("old", prev),
         left = 3 => s = Op("stop"),
         left = 2 => s = Write("new", job.image),
         left = 1 => s = Op("refresh")
  PROVE  FlushAt(Len(steps), pump)'
<1>1. /\ s \in Step /\ chip \in Chip /\ upset \in BOOLEAN /\ chip' = Effect(s)
      /\ Len(steps') = left - 1
      /\ chip.asleep => ~(IsBusy(s) /\ controller = "uc8253")
      /\ UNCHANGED <<controller, planner, prev, staged, job, faults>>
  BY DEF Executes
<1>3. (pump => planner.on) /\ UcFastTold(left) /\ FlushPicture(left)
  BY DEF FlushAt, FlushTold, Promoted
<1>4. SUFFICES UcFastTold(Len(steps))' /\ FlushPicture(Len(steps))'
  BY <1>1, <1>3 DEF FlushAt, FlushTold, Promoted
<1>5. left \in Nat \ {0} /\ (left # 1 => (Shown(left) <=> Shown(left - 1)))
      /\ (left = 1 => ~Shown(left) /\ Shown(left - 1))
  BY DEF Shown
<1>6. CASE left = 5
  <2>1. s = Bank("fast") /\ ~IsRefresh(s) BY <1>6, QuietSteps DEF Commands
  <2>3. UcFastTold(Len(steps))' BY <2>1, <1>1, <1>3, <1>6, BankSent, ChipTypes DEF UcFastTold
  <2>4. FlushPicture(Len(steps))'
    BY <2>1, <1>1, <1>3, <1>5, <1>6, BankSent, PictureKept, ChipTypes DEF NeverHot
  <2> QED BY <2>3, <2>4
<1>7. CASE left = 4
  <2>1. s = Write("old", prev) /\ ~IsRefresh(s) BY <1>7, QuietSteps DEF Commands
  <2>3. UcFastTold(Len(steps))' BY <2>1, <1>1, <1>3, <1>7, WriteSent, ChipTypes DEF UcFastTold
  <2>4. FlushPicture(Len(steps))'
    BY <2>1, <1>1, <1>3, <1>5, <1>7, WriteSent, PictureKept, ChipTypes DEF NeverHot
  <2> QED BY <2>3, <2>4
<1>8. CASE left = 3
  <2>1. s = Op("stop") /\ ~IsRefresh(s) BY <1>8, QuietSteps DEF Commands
  <2>3. UcFastTold(Len(steps))' BY <2>1, <1>1, <1>3, <1>8, PlainSent, ChipTypes DEF UcFastTold
  <2>4. FlushPicture(Len(steps))'
    BY <2>1, <1>1, <1>3, <1>5, <1>8, PlainSent, PictureKept, ChipTypes DEF NeverHot
  <2> QED BY <2>3, <2>4
<1>9. CASE left = 2
  <2>1. s = Write("new", job.image) /\ ~IsRefresh(s) BY <1>9, QuietSteps DEF Commands
  <2>3. UcFastTold(Len(steps))' BY <2>1, <1>1, <1>3, <1>9, WriteSent, ChipTypes DEF UcFastTold
  <2>4. FlushPicture(Len(steps))'
    BY <2>1, <1>1, <1>3, <1>5, <1>9, WriteSent, PictureKept, ChipTypes DEF NeverHot
  <2> QED BY <2>3, <2>4
<1>10. CASE left = 1
  <2>1. s = Op("refresh") /\ IsRefresh(s) BY <1>10, QuietSteps
  <2>2. ~chip.asleep /\ ModeOf(s) = chip.bank BY <2>1, <1>1 DEF IsBusy, Op, ModeOf
  <2>3. UcFastTold(Len(steps))'
    BY <2>1, <2>2, <1>1, <1>3, <1>10, RefreshSent, ChipTypes DEF UcFastTold, PumpOn
  <2>7. ~upset => /\ planner.on /\ ~chip.asleep /\ chip.power /\ ~chip.hot
                  /\ chip.old = chip.shown
    BY <1>3, <1>5, <1>10 DEF FlushPicture, Before, JobFits, Flushing, UcFastTold
  <2>9. /\ ~chip.asleep => chip.new = job.image /\ (~planner.on => PumpOn(s))
        /\ ModeOf(s) = "fast" /\ ~upset /\ ~chip.asleep => chip.old = chip.shown
        /\ left = 1 /\ ~chip.asleep => \/ ~chip.hot \/ ModeOf(s) = "full"
                                       \/ upset /\ ModeOf(s) = "fast"
    BY <2>1, <2>2, <2>7, <1>1, <1>3, <1>10, ChipTypes DEF NeverHot, UcFastTold, PumpOn
  <2>10. ~Shown(left) /\ Shown(left - 1) BY <1>5, <1>10
  <2>4. FlushPicture(Len(steps))' BY <2>1, <2>9, <2>10, <1>3, <1>5, RefreshShows
  <2> QED BY <2>3, <2>4
<1>11. left = 1 \/ left = 2 \/ left = 3 \/ left = 4 \/ left = 5
  OBVIOUS
<1> QED BY ONLY <1>4, <1>5, <1>6, <1>7, <1>8, <1>9, <1>10, <1>11

LEMMA UcCleanPoweredSent ==
  ASSUME Typed, JobFits, NeverHot, Flushing, NEW pump \in BOOLEAN, controller = "uc8253",
         job.mode = "clean", pump,
         NEW left \in 1 .. 3, FlushAt(left, pump), NEW s, Executes(s, left),
         left = 3 => s = Bank("clean"),
         left = 2 => s = Write("new", job.image),
         left = 1 => s = Op("refresh")
  PROVE  FlushAt(Len(steps), pump)'
<1>1. /\ s \in Step /\ chip \in Chip /\ upset \in BOOLEAN /\ chip' = Effect(s)
      /\ Len(steps') = left - 1
      /\ chip.asleep => ~(IsBusy(s) /\ controller = "uc8253")
      /\ UNCHANGED <<controller, planner, prev, staged, job, faults>>
  BY DEF Executes
<1>3. (pump => planner.on) /\ UcCleanTold(left, pump) /\ FlushPicture(left)
  BY DEF FlushAt, FlushTold, Promoted
<1>4. SUFFICES UcCleanTold(Len(steps), pump)' /\ FlushPicture(Len(steps))'
  BY <1>1, <1>3 DEF FlushAt, FlushTold, Promoted
<1>5. left \in Nat \ {0} /\ (left # 1 => (Shown(left) <=> Shown(left - 1)))
      /\ (left = 1 => ~Shown(left) /\ Shown(left - 1))
  BY DEF Shown
<1>6. CASE left = 3
  <2>1. s = Bank("clean") /\ ~IsRefresh(s) BY <1>6, QuietSteps DEF Commands
  <2>3. UcCleanTold(Len(steps), pump)'
    BY <2>1, <1>1, <1>3, <1>6, BankSent, ChipTypes DEF UcCleanTold
  <2>4. FlushPicture(Len(steps))'
    BY <2>1, <1>1, <1>3, <1>5, <1>6, BankSent, PictureKept, ChipTypes DEF NeverHot
  <2> QED BY <2>3, <2>4
<1>7. CASE left = 2
  <2>1. s = Write("new", job.image) /\ ~IsRefresh(s) BY <1>7, QuietSteps DEF Commands
  <2>3. UcCleanTold(Len(steps), pump)'
    BY <2>1, <1>1, <1>3, <1>7, WriteSent, ChipTypes DEF UcCleanTold
  <2>4. FlushPicture(Len(steps))'
    BY <2>1, <1>1, <1>3, <1>5, <1>7, WriteSent, PictureKept, ChipTypes DEF NeverHot
  <2> QED BY <2>3, <2>4
<1>8. CASE left = 1
  <2>1. s = Op("refresh") /\ IsRefresh(s) BY <1>8, QuietSteps
  <2>2. ~chip.asleep /\ ModeOf(s) = chip.bank BY <2>1, <1>1 DEF IsBusy, Op, ModeOf
  <2>3. UcCleanTold(Len(steps), pump)'
    BY <2>1, <2>2, <1>1, <1>3, <1>8, RefreshSent, ChipTypes DEF UcCleanTold, PumpOn
  <2>9. /\ ~chip.asleep => chip.new = job.image /\ (~planner.on => PumpOn(s))
        /\ ModeOf(s) = "fast" /\ ~upset /\ ~chip.asleep => chip.old = chip.shown
        /\ left = 1 /\ ~chip.asleep => \/ ~chip.hot \/ ModeOf(s) = "full"
                                       \/ upset /\ ModeOf(s) = "fast"
    BY <2>1, <2>2, <1>1, <1>3, <1>8, ChipTypes DEF NeverHot, UcCleanTold, PumpOn
  <2>10. ~Shown(left) /\ Shown(left - 1) BY <1>5, <1>8
  <2>4. FlushPicture(Len(steps))' BY <2>1, <2>9, <2>10, <1>3, <1>5, RefreshShows
  <2> QED BY <2>3, <2>4
<1>9. left = 1 \/ left = 2 \/ left = 3
  OBVIOUS
<1> QED BY ONLY <1>4, <1>5, <1>6, <1>7, <1>8, <1>9

LEMMA UcCleanSent ==
  ASSUME Typed, JobFits, NeverHot, Flushing, NEW pump \in BOOLEAN, controller = "uc8253",
         job.mode # "full", ~pump,
         NEW left \in 1 .. 4, FlushAt(left, pump), NEW s, Executes(s, left),
         left = 4 => s = Bank("clean"),
         left = 3 => s = Write("new", job.image),
         left = 2 => s = Op("powerOn"),
         left = 1 => s = Op("refresh")
  PROVE  FlushAt(Len(steps), pump)'
<1>1. /\ s \in Step /\ chip \in Chip /\ upset \in BOOLEAN /\ chip' = Effect(s)
      /\ Len(steps') = left - 1
      /\ chip.asleep => ~(IsBusy(s) /\ controller = "uc8253")
      /\ UNCHANGED <<controller, planner, prev, staged, job, faults>>
  BY DEF Executes
<1>3. (pump => planner.on) /\ UcCleanTold(left, pump) /\ FlushPicture(left)
  BY FlushTypes DEF FlushAt, FlushTold, Promoted, Mode
<1>4. SUFFICES UcCleanTold(Len(steps), pump)' /\ FlushPicture(Len(steps))'
  BY FlushTypes, <1>1, <1>3 DEF FlushAt, FlushTold, Promoted, Mode
<1>5. left \in Nat \ {0} /\ (left # 1 => (Shown(left) <=> Shown(left - 1)))
      /\ (left = 1 => ~Shown(left) /\ Shown(left - 1))
  BY DEF Shown
<1>6. CASE left = 4
  <2>1. s = Bank("clean") /\ ~IsRefresh(s) BY <1>6, QuietSteps DEF Commands
  <2>3. UcCleanTold(Len(steps), pump)'
    BY <2>1, <1>1, <1>3, <1>6, BankSent, ChipTypes DEF UcCleanTold
  <2>4. FlushPicture(Len(steps))'
    BY <2>1, <1>1, <1>3, <1>5, <1>6, BankSent, PictureKept, ChipTypes DEF NeverHot
  <2> QED BY <2>3, <2>4
<1>7. CASE left = 3
  <2>1. s = Write("new", job.image) /\ ~IsRefresh(s) BY <1>7, QuietSteps DEF Commands
  <2>3. UcCleanTold(Len(steps), pump)'
    BY <2>1, <1>1, <1>3, <1>7, WriteSent, ChipTypes DEF UcCleanTold
  <2>4. FlushPicture(Len(steps))'
    BY <2>1, <1>1, <1>3, <1>5, <1>7, WriteSent, PictureKept, ChipTypes DEF NeverHot
  <2> QED BY <2>3, <2>4
<1>8. CASE left = 2
  <2>1. s = Op("powerOn") /\ ~IsRefresh(s) BY <1>8, QuietSteps DEF Commands
  <2>2. ~chip.asleep BY <2>1, <1>1 DEF IsBusy, Op
  <2>3. UcCleanTold(Len(steps), pump)'
    BY <2>1, <2>2, <1>1, <1>3, <1>8, PlainSent, ChipTypes DEF UcCleanTold
  <2>4. FlushPicture(Len(steps))'
    BY <2>1, <2>2, <1>1, <1>3, <1>5, <1>8, PlainSent, PictureKept, ChipTypes DEF NeverHot
  <2> QED BY <2>3, <2>4
<1>9. CASE left = 1
  <2>1. s = Op("refresh") /\ IsRefresh(s) BY <1>9, QuietSteps
  <2>2. ~chip.asleep /\ ModeOf(s) = chip.bank BY <2>1, <1>1 DEF IsBusy, Op, ModeOf
  <2>3. UcCleanTold(Len(steps), pump)'
    BY <2>1, <2>2, <1>1, <1>3, <1>9, RefreshSent, ChipTypes DEF UcCleanTold, PumpOn
  <2>9. /\ ~chip.asleep => chip.new = job.image /\ (~planner.on => PumpOn(s))
        /\ ModeOf(s) = "fast" /\ ~upset /\ ~chip.asleep => chip.old = chip.shown
        /\ left = 1 /\ ~chip.asleep => \/ ~chip.hot \/ ModeOf(s) = "full"
                                       \/ upset /\ ModeOf(s) = "fast"
    BY <2>1, <2>2, <1>1, <1>3, <1>9, ChipTypes DEF NeverHot, UcCleanTold, PumpOn
  <2>10. ~Shown(left) /\ Shown(left - 1) BY <1>5, <1>9
  <2>4. FlushPicture(Len(steps))' BY <2>1, <2>9, <2>10, <1>3, <1>5, RefreshShows
  <2> QED BY <2>3, <2>4
<1>10. left = 1 \/ left = 2 \/ left = 3 \/ left = 4
  OBVIOUS
<1> QED BY ONLY <1>4, <1>5, <1>6, <1>7, <1>8, <1>9, <1>10

LEMMA SsdFullSent ==
  ASSUME Typed, JobFits, NeverHot, Flushing, NEW pump \in BOOLEAN, controller = "ssd1677",
         job.mode = "full",
         NEW left \in 1 .. 3, FlushAt(left, pump), NEW s, Executes(s, left),
         left = 3 => s = Write("new", job.image),
         left = 2 => s = Write("old", job.image),
         left = 1 => s = Activate("full", ~planner.on)
  PROVE  FlushAt(Len(steps), pump)'
<1>1. /\ s \in Step /\ chip \in Chip /\ upset \in BOOLEAN /\ chip' = Effect(s)
      /\ Len(steps') = left - 1
      /\ chip.asleep => ~(IsBusy(s) /\ controller = "uc8253")
      /\ UNCHANGED <<controller, planner, prev, staged, job, faults>>
  BY DEF Executes
<1>3. (pump => planner.on) /\ SsdTold(left) /\ FlushPicture(left)
  BY DEF FlushAt, FlushTold
<1>4. SUFFICES SsdTold(Len(steps))' /\ FlushPicture(Len(steps))'
  BY <1>1, <1>3 DEF FlushAt, FlushTold
<1>5. left \in Nat \ {0} /\ (left # 1 => (Shown(left) <=> Shown(left - 1)))
      /\ (left = 1 => ~Shown(left) /\ Shown(left - 1))
  BY DEF Shown
<1>6. CASE left = 3
  <2>1. s = Write("new", job.image) /\ ~IsRefresh(s) BY <1>6, QuietSteps DEF Commands
  <2>3. SsdTold(Len(steps))' BY <2>1, <1>1, <1>3, <1>6, WriteSent, ChipTypes DEF SsdTold, Shown
  <2>4. FlushPicture(Len(steps))'
    BY <2>1, <1>1, <1>3, <1>5, <1>6, WriteSent, PictureKept, ChipTypes DEF NeverHot
  <2> QED BY <2>3, <2>4
<1>7. CASE left = 2
  <2>1. s = Write("old", job.image) /\ ~IsRefresh(s) BY <1>7, QuietSteps DEF Commands
  <2>3. SsdTold(Len(steps))' BY <2>1, <1>1, <1>3, <1>7, WriteSent, ChipTypes DEF SsdTold, Shown
  <2>4. FlushPicture(Len(steps))'
    BY <2>1, <1>1, <1>3, <1>5, <1>7, WriteSent, PictureKept, ChipTypes DEF NeverHot
  <2> QED BY <2>3, <2>4
<1>8. CASE left = 1
  <2>1. s = Activate("full", ~planner.on) /\ IsRefresh(s) BY <1>8, QuietSteps
  <2>2. ModeOf(s) = "full" /\ (~planner.on => PumpOn(s)) BY <2>1 DEF Activate, ModeOf, PumpOn
  <2>6. /\ chip'.asleep = chip.asleep /\ chip'.new = chip.new /\ chip'.old = chip.old
        /\ ~chip.asleep /\ ~planner.on => chip'.power
        /\ ~chip.asleep => ~chip'.hot
    BY <2>1, <2>2, <1>1, RefreshSent, ChipTypes
  <2>3. SsdTold(Len(steps))' BY <2>6, <1>1, <1>3, <1>8 DEF SsdTold, Shown
  <2>9. /\ ~chip.asleep => chip.new = job.image /\ (~planner.on => PumpOn(s))
        /\ ModeOf(s) = "fast" /\ ~upset /\ ~chip.asleep => chip.old = chip.shown
        /\ left = 1 /\ ~chip.asleep => \/ ~chip.hot \/ ModeOf(s) = "full"
                                       \/ upset /\ ModeOf(s) = "fast"
    BY <2>1, <2>2, <1>1, <1>3, <1>8, ChipTypes DEF NeverHot, SsdTold
  <2>10. ~Shown(left) /\ Shown(left - 1) BY <1>5, <1>8
  <2>4. FlushPicture(Len(steps))' BY <2>1, <2>9, <2>10, <1>3, <1>5, RefreshShows
  <2> QED BY <2>3, <2>4
<1>9. left = 1 \/ left = 2 \/ left = 3
  OBVIOUS
<1> QED BY ONLY <1>4, <1>5, <1>6, <1>7, <1>8, <1>9

LEMMA SsdCleanSent ==
  ASSUME Typed, JobFits, NeverHot, Flushing, NEW pump \in BOOLEAN, controller = "ssd1677",
         job.mode = "clean",
         NEW left \in 1 .. 5, FlushAt(left, pump), NEW s, Executes(s, left),
         left = 5 => s = Write("new", job.image),
         left = 4 => s = Write("old", job.image),
         left = 3 => s = Op("heat"),
         left = 2 => s = Activate("clean", ~planner.on),
         left = 1 => s = Op("loadTemp")
  PROVE  FlushAt(Len(steps), pump)'
<1>1. /\ s \in Step /\ chip \in Chip /\ upset \in BOOLEAN /\ chip' = Effect(s)
      /\ Len(steps') = left - 1
      /\ chip.asleep => ~(IsBusy(s) /\ controller = "uc8253")
      /\ UNCHANGED <<controller, planner, prev, staged, job, faults>>
  BY DEF Executes
<1>3. (pump => planner.on) /\ SsdTold(left) /\ FlushPicture(left)
  BY DEF FlushAt, FlushTold
<1>4. SUFFICES SsdTold(Len(steps))' /\ FlushPicture(Len(steps))'
  BY <1>1, <1>3 DEF FlushAt, FlushTold
<1>5. left \in Nat \ {0} /\ (left # 2 => (Shown(left) <=> Shown(left - 1)))
      /\ (left = 2 => ~Shown(left) /\ Shown(left - 1))
  BY DEF Shown
<1>6. CASE left = 5
  <2>1. s = Write("new", job.image) /\ ~IsRefresh(s) BY <1>6, QuietSteps DEF Commands
  <2>3. SsdTold(Len(steps))' BY <2>1, <1>1, <1>3, <1>6, WriteSent, ChipTypes DEF SsdTold, Shown
  <2>4. FlushPicture(Len(steps))'
    BY <2>1, <1>1, <1>3, <1>5, <1>6, WriteSent, PictureKept, ChipTypes DEF NeverHot
  <2> QED BY <2>3, <2>4
<1>7. CASE left = 4
  <2>1. s = Write("old", job.image) /\ ~IsRefresh(s) BY <1>7, QuietSteps DEF Commands
  <2>3. SsdTold(Len(steps))' BY <2>1, <1>1, <1>3, <1>7, WriteSent, ChipTypes DEF SsdTold, Shown
  <2>4. FlushPicture(Len(steps))'
    BY <2>1, <1>1, <1>3, <1>5, <1>7, WriteSent, PictureKept, ChipTypes DEF NeverHot
  <2> QED BY <2>3, <2>4
<1>8. CASE left = 3
  <2>1. s = Op("heat") /\ ~IsRefresh(s) BY <1>8, QuietSteps DEF Commands
  <2>3. SsdTold(Len(steps))' BY <2>1, <1>1, <1>3, <1>8, PlainSent, ChipTypes DEF SsdTold, Shown
  <2>4. FlushPicture(Len(steps))'
    BY <2>1, <1>1, <1>3, <1>5, <1>8, PlainSent, PictureKept, ChipTypes DEF NeverHot
  <2> QED BY <2>3, <2>4
<1>9. CASE left = 2
  <2>1. s = Activate("clean", ~planner.on) /\ IsRefresh(s) BY <1>9, QuietSteps
  <2>2. ModeOf(s) = "clean" /\ (~planner.on => PumpOn(s)) BY <2>1 DEF Activate, ModeOf, PumpOn
  <2>6. /\ chip'.asleep = chip.asleep /\ chip'.new = chip.new /\ chip'.old = chip.old
        /\ ~chip.asleep /\ ~planner.on => chip'.power
    BY <2>1, <2>2, <1>1, RefreshSent, ChipTypes
  <2>3. SsdTold(Len(steps))' BY <2>6, <1>1, <1>3, <1>9 DEF SsdTold, Shown
  <2>9. /\ ~chip.asleep => chip.new = job.image /\ (~planner.on => PumpOn(s))
        /\ ModeOf(s) = "fast" /\ ~upset /\ ~chip.asleep => chip.old = chip.shown
        /\ left = 1 /\ ~chip.asleep => \/ ~chip.hot \/ ModeOf(s) = "full"
                                       \/ upset /\ ModeOf(s) = "fast"
    BY <2>1, <2>2, <1>1, <1>3, <1>9, ChipTypes DEF NeverHot, SsdTold
  <2>10. ~Shown(left) /\ Shown(left - 1) BY <1>5, <1>9
  <2>4. FlushPicture(Len(steps))' BY <2>1, <2>9, <2>10, <1>3, <1>5, RefreshShows
  <2> QED BY <2>3, <2>4
<1>10. CASE left = 1
  <2>1. s = Op("loadTemp") /\ ~IsRefresh(s) BY <1>10, QuietSteps DEF Commands
  <2>3. SsdTold(Len(steps))' BY <2>1, <1>1, <1>3, <1>10, PlainSent, ChipTypes DEF SsdTold, Shown
  <2>4. FlushPicture(Len(steps))'
    BY <2>1, <1>1, <1>3, <1>5, <1>10, PlainSent, PictureKept, ChipTypes DEF NeverHot
  <2> QED BY <2>3, <2>4
<1>11. left = 1 \/ left = 2 \/ left = 3 \/ left = 4 \/ left = 5
  OBVIOUS
<1> QED BY ONLY <1>4, <1>5, <1>6, <1>7, <1>8, <1>9, <1>10, <1>11

LEMMA SsdFastStagedSent ==
  ASSUME Typed, JobFits, NeverHot, Flushing, NEW pump \in BOOLEAN, controller = "ssd1677",
         job.mode = "fast", staged,
         NEW left \in 1 .. 2, FlushAt(left, pump), NEW s, Executes(s, left),
         left = 2 => s = Write("new", job.image),
         left = 1 => s = Activate("fast", ~planner.on)
  PROVE  FlushAt(Len(steps), pump)'
<1>1. /\ s \in Step /\ chip \in Chip /\ upset \in BOOLEAN /\ chip' = Effect(s)
      /\ Len(steps') = left - 1
      /\ chip.asleep => ~(IsBusy(s) /\ controller = "uc8253")
      /\ UNCHANGED <<controller, planner, prev, staged, job, faults>>
  BY DEF Executes
<1>3. (pump => planner.on) /\ SsdTold(left) /\ FlushPicture(left)
  BY DEF FlushAt, FlushTold
<1>4. SUFFICES SsdTold(Len(steps))' /\ FlushPicture(Len(steps))'
  BY <1>1, <1>3 DEF FlushAt, FlushTold
<1>5. left \in Nat \ {0} /\ (left # 1 => (Shown(left) <=> Shown(left - 1)))
      /\ (left = 1 => ~Shown(left) /\ Shown(left - 1))
  BY DEF Shown
<1>6. CASE left = 2
  <2>1. s = Write("new", job.image) /\ ~IsRefresh(s) BY <1>6, QuietSteps DEF Commands
  <2>3. SsdTold(Len(steps))' BY <2>1, <1>1, <1>3, <1>6, WriteSent, ChipTypes DEF SsdTold, Shown
  <2>4. FlushPicture(Len(steps))'
    BY <2>1, <1>1, <1>3, <1>5, <1>6, WriteSent, PictureKept, ChipTypes DEF NeverHot
  <2> QED BY <2>3, <2>4
<1>7. CASE left = 1
  <2>1. s = Activate("fast", ~planner.on) /\ IsRefresh(s) BY <1>7, QuietSteps
  <2>2. ModeOf(s) = "fast" /\ (~planner.on => PumpOn(s)) BY <2>1 DEF Activate, ModeOf, PumpOn
  <2>6. /\ chip'.asleep = chip.asleep /\ chip'.new = chip.new /\ chip'.old = chip.old
        /\ ~chip.asleep /\ ~planner.on => chip'.power
    BY <2>1, <2>2, <1>1, RefreshSent, ChipTypes
  <2>3. SsdTold(Len(steps))' BY <2>6, <1>1, <1>3, <1>7 DEF SsdTold, Shown
  <2>7. ~upset => /\ planner.on /\ ~chip.asleep /\ chip.power /\ ~chip.hot
                  /\ chip.old = chip.shown
    BY <1>3, <1>5, <1>7 DEF FlushPicture, Before, JobFits, Flushing, SsdTold
  <2>9. /\ ~chip.asleep => chip.new = job.image /\ (~planner.on => PumpOn(s))
        /\ ModeOf(s) = "fast" /\ ~upset /\ ~chip.asleep => chip.old = chip.shown
        /\ left = 1 /\ ~chip.asleep => \/ ~chip.hot \/ ModeOf(s) = "full"
                                       \/ upset /\ ModeOf(s) = "fast"
    BY <2>1, <2>2, <2>7, <1>1, <1>3, <1>7, ChipTypes DEF NeverHot, SsdTold
  <2>10. ~Shown(left) /\ Shown(left - 1) BY <1>5, <1>7
  <2>4. FlushPicture(Len(steps))' BY <2>1, <2>9, <2>10, <1>3, <1>5, RefreshShows
  <2> QED BY <2>3, <2>4
<1>8. left = 1 \/ left = 2
  OBVIOUS
<1> QED BY ONLY <1>4, <1>5, <1>6, <1>7, <1>8

LEMMA SsdFastSent ==
  ASSUME Typed, JobFits, NeverHot, Flushing, NEW pump \in BOOLEAN, controller = "ssd1677",
         job.mode = "fast", ~staged,
         NEW left \in 1 .. 3, FlushAt(left, pump), NEW s, Executes(s, left),
         left = 3 => s = Write("new", job.image),
         left = 2 => s = Write("old", prev),
         left = 1 => s = Activate("fast", ~planner.on)
  PROVE  FlushAt(Len(steps), pump)'
<1>1. /\ s \in Step /\ chip \in Chip /\ upset \in BOOLEAN /\ chip' = Effect(s)
      /\ Len(steps') = left - 1
      /\ chip.asleep => ~(IsBusy(s) /\ controller = "uc8253")
      /\ UNCHANGED <<controller, planner, prev, staged, job, faults>>
  BY DEF Executes
<1>3. (pump => planner.on) /\ SsdTold(left) /\ FlushPicture(left)
  BY DEF FlushAt, FlushTold
<1>4. SUFFICES SsdTold(Len(steps))' /\ FlushPicture(Len(steps))'
  BY <1>1, <1>3 DEF FlushAt, FlushTold
<1>5. left \in Nat \ {0} /\ (left # 1 => (Shown(left) <=> Shown(left - 1)))
      /\ (left = 1 => ~Shown(left) /\ Shown(left - 1))
  BY DEF Shown
<1>6. CASE left = 3
  <2>1. s = Write("new", job.image) /\ ~IsRefresh(s) BY <1>6, QuietSteps DEF Commands
  <2>3. SsdTold(Len(steps))' BY <2>1, <1>1, <1>3, <1>6, WriteSent, ChipTypes DEF SsdTold, Shown
  <2>4. FlushPicture(Len(steps))'
    BY <2>1, <1>1, <1>3, <1>5, <1>6, WriteSent, PictureKept, ChipTypes DEF NeverHot
  <2> QED BY <2>3, <2>4
<1>7. CASE left = 2
  <2>1. s = Write("old", prev) /\ ~IsRefresh(s) BY <1>7, QuietSteps DEF Commands
  <2>3. SsdTold(Len(steps))' BY <2>1, <1>1, <1>3, <1>7, WriteSent, ChipTypes DEF SsdTold, Shown
  <2>4. FlushPicture(Len(steps))'
    BY <2>1, <1>1, <1>3, <1>5, <1>7, WriteSent, PictureKept, ChipTypes DEF NeverHot
  <2> QED BY <2>3, <2>4
<1>8. CASE left = 1
  <2>1. s = Activate("fast", ~planner.on) /\ IsRefresh(s) BY <1>8, QuietSteps
  <2>2. ModeOf(s) = "fast" /\ (~planner.on => PumpOn(s)) BY <2>1 DEF Activate, ModeOf, PumpOn
  <2>6. /\ chip'.asleep = chip.asleep /\ chip'.new = chip.new /\ chip'.old = chip.old
        /\ ~chip.asleep /\ ~planner.on => chip'.power
    BY <2>1, <2>2, <1>1, RefreshSent, ChipTypes
  <2>3. SsdTold(Len(steps))' BY <2>6, <1>1, <1>3, <1>8 DEF SsdTold, Shown
  <2>7. ~upset => /\ planner.on /\ ~chip.asleep /\ chip.power /\ ~chip.hot
                  /\ chip.old = chip.shown
    BY <1>3, <1>5, <1>8 DEF FlushPicture, Before, JobFits, Flushing, SsdTold
  <2>9. /\ ~chip.asleep => chip.new = job.image /\ (~planner.on => PumpOn(s))
        /\ ModeOf(s) = "fast" /\ ~upset /\ ~chip.asleep => chip.old = chip.shown
        /\ left = 1 /\ ~chip.asleep => \/ ~chip.hot \/ ModeOf(s) = "full"
                                       \/ upset /\ ModeOf(s) = "fast"
    BY <2>1, <2>2, <2>7, <1>1, <1>3, <1>8, ChipTypes DEF NeverHot, SsdTold
  <2>10. ~Shown(left) /\ Shown(left - 1) BY <1>5, <1>8
  <2>4. FlushPicture(Len(steps))' BY <2>1, <2>9, <2>10, <1>3, <1>5, RefreshShows
  <2> QED BY <2>3, <2>4
<1>9. left = 1 \/ left = 2 \/ left = 3
  OBVIOUS
<1> QED BY ONLY <1>4, <1>5, <1>6, <1>7, <1>8, <1>9

LEMMA FlushSent ==
  ASSUME Typed, JobFits, NeverHot, Flushing, Send, NEW pump \in BOOLEAN,
         NEW plan, plan = FlushSteps(job.image, job.mode, staged, pump), IsRest(plan, steps),
         NEW left, left = Len(steps), FlushAt(left, pump)
  PROVE  /\ IsRest(FlushSteps(job.image, job.mode, staged, pump), steps)'
         /\ FlushAt(Len(steps), pump)'
<1> DEFINE s == plan[Len(plan) - left + 1]
<1>1. /\ s \in Step /\ left \in 1 .. Len(plan) /\ IsRest(plan, steps') /\ Executes(s, left)
      /\ UNCHANGED <<controller, planner, prev, staged, job>>
  BY Sends, FlushTypes DEF Executes
<1>2. IsRest(FlushSteps(job.image, job.mode, staged, pump), steps)'
  <2>1. FlushSteps(job.image, job.mode, staged, pump)' = plan BY <1>1, PlansKept
  <2> QED BY <2>1, <1>1 DEF IsRest
<1>3. job.image \in Image /\ job.mode \in Mode /\ staged \in BOOLEAN BY FlushTypes DEF Typed
<1>4. controller = "uc8253" =>
        plan = UcFlush(job.image, Promoted(job.mode, pump), staged, pump)
  BY DEF FlushSteps
<1>5. controller = "ssd1677" => plan = SsdFlush(job.image, job.mode, staged)
  BY DEF FlushSteps
<1>6. CASE controller = "uc8253" /\ job.mode = "full"
  <2>1. plan = UcFlush(job.image, "full", staged, pump) BY <1>3, <1>4, <1>6 DEF Promoted, Mode
  <2>2. /\ Len(plan) = 13
        /\ plan[1] = Bank("full")
        /\ plan[2] = Write("old", White)
        /\ plan[3] = Op("stop")
        /\ plan[4] = Write("new", job.image)
        /\ plan[5] = Op("powerOn")
        /\ plan[6] = Op("refresh")
        /\ plan[7] = Write("old", job.image)
        /\ plan[8] = Op("stop")
        /\ plan[9] = Bank("fast")
        /\ plan[10] = Write("new", job.image)
        /\ plan[11] = Op("refresh")
        /\ plan[12] = Write("old", job.image)
        /\ plan[13] = Op("stop")
    <3>1. plan = <<Bank("full"), Write("old", White), Op("stop"), Write("new", job.image),
                   Op("powerOn"), Op("refresh"), Write("old", job.image), Op("stop"), Bank("fast"),
                   Write("new", job.image), Op("refresh"), Write("old", job.image), Op("stop")>>
      BY <2>1, <1>6 DEF UcFlush
    <3> QED BY <3>1
  <2>3. left \in 1 .. 13 /\ s = plan[13 - left + 1] BY <2>2, <1>1
  <2> HIDE DEF s
  <2>4. /\ left = 13 => s = Bank("full")
        /\ left = 12 => s = Write("old", White)
        /\ left = 11 => s = Op("stop")
        /\ left = 10 => s = Write("new", job.image)
        /\ left = 9 => s = Op("powerOn")
        /\ left = 8 => s = Op("refresh")
        /\ left = 7 => s = Write("old", job.image)
        /\ left = 6 => s = Op("stop")
        /\ left = 5 => s = Bank("fast")
        /\ left = 4 => s = Write("new", job.image)
        /\ left = 3 => s = Op("refresh")
        /\ left = 2 => s = Write("old", job.image)
        /\ left = 1 => s = Op("stop")
    <3>1. \A i \in 1 .. 13 : left = 14 - i => s = plan[i] BY <2>3
    <3>2. left = 13 => s = Bank("full") BY <3>1, <2>2, 1 \in 1 .. 13, 14 - 1 = 13
    <3>3. left = 12 => s = Write("old", White) BY <3>1, <2>2, 2 \in 1 .. 13, 14 - 2 = 12
    <3>4. left = 11 => s = Op("stop") BY <3>1, <2>2, 3 \in 1 .. 13, 14 - 3 = 11
    <3>5. left = 10 => s = Write("new", job.image) BY <3>1, <2>2, 4 \in 1 .. 13, 14 - 4 = 10
    <3>6. left = 9 => s = Op("powerOn") BY <3>1, <2>2, 5 \in 1 .. 13, 14 - 5 = 9
    <3>7. left = 8 => s = Op("refresh") BY <3>1, <2>2, 6 \in 1 .. 13, 14 - 6 = 8
    <3>8. left = 7 => s = Write("old", job.image) BY <3>1, <2>2, 7 \in 1 .. 13, 14 - 7 = 7
    <3>9. left = 6 => s = Op("stop") BY <3>1, <2>2, 8 \in 1 .. 13, 14 - 8 = 6
    <3>10. left = 5 => s = Bank("fast") BY <3>1, <2>2, 9 \in 1 .. 13, 14 - 9 = 5
    <3>11. left = 4 => s = Write("new", job.image) BY <3>1, <2>2, 10 \in 1 .. 13, 14 - 10 = 4
    <3>12. left = 3 => s = Op("refresh") BY <3>1, <2>2, 11 \in 1 .. 13, 14 - 11 = 3
    <3>13. left = 2 => s = Write("old", job.image) BY <3>1, <2>2, 12 \in 1 .. 13, 14 - 12 = 2
    <3>14. left = 1 => s = Op("stop") BY <3>1, <2>2, 13 \in 1 .. 13, 14 - 13 = 1
    <3> QED BY <3>2, <3>3, <3>4, <3>5, <3>6, <3>7, <3>8, <3>9, <3>10, <3>11, <3>12, <3>13, <3>14
  <2>5. UcFullNext(s, left) BY <2>4 DEF UcFullNext
  <2>6. FlushAt(Len(steps), pump)' BY <2>3, <2>5, <1>1, <1>6, UcFullSent
  <2> QED BY <2>6, <1>2
<1>7. CASE controller = "uc8253" /\ job.mode = "fast" /\ pump /\ staged
  <2>1. plan = UcFlush(job.image, "fast", staged, pump) BY <1>3, <1>4, <1>7 DEF Promoted, Mode
  <2>2. /\ Len(plan) = 3
        /\ plan[1] = Bank("fast")
        /\ plan[2] = Write("new", job.image)
        /\ plan[3] = Op("refresh")
    <3>1. plan = <<Bank("fast"), Write("new", job.image), Op("refresh")>>
      BY <2>1, <1>7 DEF UcFlush
    <3> QED BY <3>1
  <2>3. left \in 1 .. 3 /\ s = plan[3 - left + 1] BY <2>2, <1>1
  <2> HIDE DEF s
  <2>4. /\ left = 3 => s = Bank("fast")
        /\ left = 2 => s = Write("new", job.image)
        /\ left = 1 => s = Op("refresh")
    <3>1. \A i \in 1 .. 3 : left = 4 - i => s = plan[i] BY <2>3
    <3>2. left = 3 => s = Bank("fast") BY <3>1, <2>2, 1 \in 1 .. 3, 4 - 1 = 3
    <3>3. left = 2 => s = Write("new", job.image) BY <3>1, <2>2, 2 \in 1 .. 3, 4 - 2 = 2
    <3>4. left = 1 => s = Op("refresh") BY <3>1, <2>2, 3 \in 1 .. 3, 4 - 3 = 1
    <3> QED BY <3>2, <3>3, <3>4
  <2>5. FlushAt(Len(steps), pump)' BY <2>3, <2>4, <1>1, <1>7, UcFastStagedSent
  <2> QED BY <2>5, <1>2
<1>8. CASE controller = "uc8253" /\ job.mode = "fast" /\ pump /\ ~staged
  <2>1. plan = UcFlush(job.image, "fast", staged, pump) BY <1>3, <1>4, <1>8 DEF Promoted, Mode
  <2>2. /\ Len(plan) = 5
        /\ plan[1] = Bank("fast")
        /\ plan[2] = Write("old", prev)
        /\ plan[3] = Op("stop")
        /\ plan[4] = Write("new", job.image)
        /\ plan[5] = Op("refresh")
    <3>1. plan = <<Bank("fast"), Write("old", prev), Op("stop"), Write("new", job.image),
                   Op("refresh")>>
      BY <2>1, <1>8 DEF UcFlush
    <3> QED BY <3>1
  <2>3. left \in 1 .. 5 /\ s = plan[5 - left + 1] BY <2>2, <1>1
  <2> HIDE DEF s
  <2>4. /\ left = 5 => s = Bank("fast")
        /\ left = 4 => s = Write("old", prev)
        /\ left = 3 => s = Op("stop")
        /\ left = 2 => s = Write("new", job.image)
        /\ left = 1 => s = Op("refresh")
    <3>1. \A i \in 1 .. 5 : left = 6 - i => s = plan[i] BY <2>3
    <3>2. left = 5 => s = Bank("fast") BY <3>1, <2>2, 1 \in 1 .. 5, 6 - 1 = 5
    <3>3. left = 4 => s = Write("old", prev) BY <3>1, <2>2, 2 \in 1 .. 5, 6 - 2 = 4
    <3>4. left = 3 => s = Op("stop") BY <3>1, <2>2, 3 \in 1 .. 5, 6 - 3 = 3
    <3>5. left = 2 => s = Write("new", job.image) BY <3>1, <2>2, 4 \in 1 .. 5, 6 - 4 = 2
    <3>6. left = 1 => s = Op("refresh") BY <3>1, <2>2, 5 \in 1 .. 5, 6 - 5 = 1
    <3> QED BY <3>2, <3>3, <3>4, <3>5, <3>6
  <2>5. FlushAt(Len(steps), pump)' BY <2>3, <2>4, <1>1, <1>8, UcFastSent
  <2> QED BY <2>5, <1>2
<1>9. CASE controller = "uc8253" /\ job.mode = "clean" /\ pump
  <2>1. plan = UcFlush(job.image, "clean", staged, pump) BY <1>3, <1>4, <1>9 DEF Promoted, Mode
  <2>2. /\ Len(plan) = 3
        /\ plan[1] = Bank("clean")
        /\ plan[2] = Write("new", job.image)
        /\ plan[3] = Op("refresh")
    <3>1. plan = <<Bank("clean"), Write("new", job.image), Op("refresh")>>
      BY <2>1, <1>9 DEF UcFlush
    <3> QED BY <3>1
  <2>3. left \in 1 .. 3 /\ s = plan[3 - left + 1] BY <2>2, <1>1
  <2> HIDE DEF s
  <2>4. /\ left = 3 => s = Bank("clean")
        /\ left = 2 => s = Write("new", job.image)
        /\ left = 1 => s = Op("refresh")
    <3>1. \A i \in 1 .. 3 : left = 4 - i => s = plan[i] BY <2>3
    <3>2. left = 3 => s = Bank("clean") BY <3>1, <2>2, 1 \in 1 .. 3, 4 - 1 = 3
    <3>3. left = 2 => s = Write("new", job.image) BY <3>1, <2>2, 2 \in 1 .. 3, 4 - 2 = 2
    <3>4. left = 1 => s = Op("refresh") BY <3>1, <2>2, 3 \in 1 .. 3, 4 - 3 = 1
    <3> QED BY <3>2, <3>3, <3>4
  <2>5. FlushAt(Len(steps), pump)' BY <2>3, <2>4, <1>1, <1>9, UcCleanPoweredSent
  <2> QED BY <2>5, <1>2
<1>10. CASE controller = "uc8253" /\ job.mode # "full" /\ ~pump
  <2>1. plan = UcFlush(job.image, "clean", staged, pump) BY <1>3, <1>4, <1>10 DEF Promoted, Mode
  <2>2. /\ Len(plan) = 4
        /\ plan[1] = Bank("clean")
        /\ plan[2] = Write("new", job.image)
        /\ plan[3] = Op("powerOn")
        /\ plan[4] = Op("refresh")
    <3>1. plan = <<Bank("clean"), Write("new", job.image), Op("powerOn"), Op("refresh")>>
      BY <2>1, <1>10 DEF UcFlush
    <3> QED BY <3>1
  <2>3. left \in 1 .. 4 /\ s = plan[4 - left + 1] BY <2>2, <1>1
  <2> HIDE DEF s
  <2>4. /\ left = 4 => s = Bank("clean")
        /\ left = 3 => s = Write("new", job.image)
        /\ left = 2 => s = Op("powerOn")
        /\ left = 1 => s = Op("refresh")
    <3>1. \A i \in 1 .. 4 : left = 5 - i => s = plan[i] BY <2>3
    <3>2. left = 4 => s = Bank("clean") BY <3>1, <2>2, 1 \in 1 .. 4, 5 - 1 = 4
    <3>3. left = 3 => s = Write("new", job.image) BY <3>1, <2>2, 2 \in 1 .. 4, 5 - 2 = 3
    <3>4. left = 2 => s = Op("powerOn") BY <3>1, <2>2, 3 \in 1 .. 4, 5 - 3 = 2
    <3>5. left = 1 => s = Op("refresh") BY <3>1, <2>2, 4 \in 1 .. 4, 5 - 4 = 1
    <3> QED BY <3>2, <3>3, <3>4, <3>5
  <2>5. FlushAt(Len(steps), pump)' BY <2>3, <2>4, <1>1, <1>10, UcCleanSent
  <2> QED BY <2>5, <1>2
<1>11. CASE controller = "ssd1677" /\ job.mode = "full"
  <2>1. plan = SsdFlush(job.image, job.mode, staged) BY <1>5, <1>11
  <2>2. /\ Len(plan) = 3
        /\ plan[1] = Write("new", job.image)
        /\ plan[2] = Write("old", job.image)
        /\ plan[3] = Activate("full", ~planner.on)
    <3>1. plan = <<Write("new", job.image), Write("old", job.image), Activate("full", ~planner.on)>>
      BY <2>1, <1>11 DEF SsdFlush
    <3> QED BY <3>1
  <2>3. left \in 1 .. 3 /\ s = plan[3 - left + 1] BY <2>2, <1>1
  <2> HIDE DEF s
  <2>4. /\ left = 3 => s = Write("new", job.image)
        /\ left = 2 => s = Write("old", job.image)
        /\ left = 1 => s = Activate("full", ~planner.on)
    <3>1. \A i \in 1 .. 3 : left = 4 - i => s = plan[i] BY <2>3
    <3>2. left = 3 => s = Write("new", job.image) BY <3>1, <2>2, 1 \in 1 .. 3, 4 - 1 = 3
    <3>3. left = 2 => s = Write("old", job.image) BY <3>1, <2>2, 2 \in 1 .. 3, 4 - 2 = 2
    <3>4. left = 1 => s = Activate("full", ~planner.on) BY <3>1, <2>2, 3 \in 1 .. 3, 4 - 3 = 1
    <3> QED BY <3>2, <3>3, <3>4
  <2>5. FlushAt(Len(steps), pump)' BY <2>3, <2>4, <1>1, <1>11, SsdFullSent
  <2> QED BY <2>5, <1>2
<1>12. CASE controller = "ssd1677" /\ job.mode = "clean"
  <2>1. plan = SsdFlush(job.image, job.mode, staged) BY <1>5, <1>12
  <2>2. /\ Len(plan) = 5
        /\ plan[1] = Write("new", job.image)
        /\ plan[2] = Write("old", job.image)
        /\ plan[3] = Op("heat")
        /\ plan[4] = Activate("clean", ~planner.on)
        /\ plan[5] = Op("loadTemp")
    <3>1. plan = <<Write("new", job.image), Write("old", job.image), Op("heat"),
                   Activate("clean", ~planner.on), Op("loadTemp")>>
      BY <2>1, <1>12 DEF SsdFlush
    <3> QED BY <3>1
  <2>3. left \in 1 .. 5 /\ s = plan[5 - left + 1] BY <2>2, <1>1
  <2> HIDE DEF s
  <2>4. /\ left = 5 => s = Write("new", job.image)
        /\ left = 4 => s = Write("old", job.image)
        /\ left = 3 => s = Op("heat")
        /\ left = 2 => s = Activate("clean", ~planner.on)
        /\ left = 1 => s = Op("loadTemp")
    <3>1. \A i \in 1 .. 5 : left = 6 - i => s = plan[i] BY <2>3
    <3>2. left = 5 => s = Write("new", job.image) BY <3>1, <2>2, 1 \in 1 .. 5, 6 - 1 = 5
    <3>3. left = 4 => s = Write("old", job.image) BY <3>1, <2>2, 2 \in 1 .. 5, 6 - 2 = 4
    <3>4. left = 3 => s = Op("heat") BY <3>1, <2>2, 3 \in 1 .. 5, 6 - 3 = 3
    <3>5. left = 2 => s = Activate("clean", ~planner.on) BY <3>1, <2>2, 4 \in 1 .. 5, 6 - 4 = 2
    <3>6. left = 1 => s = Op("loadTemp") BY <3>1, <2>2, 5 \in 1 .. 5, 6 - 5 = 1
    <3> QED BY <3>2, <3>3, <3>4, <3>5, <3>6
  <2>5. FlushAt(Len(steps), pump)' BY <2>3, <2>4, <1>1, <1>12, SsdCleanSent
  <2> QED BY <2>5, <1>2
<1>13. CASE controller = "ssd1677" /\ job.mode = "fast" /\ staged
  <2>1. plan = SsdFlush(job.image, job.mode, staged) BY <1>5, <1>13
  <2>2. /\ Len(plan) = 2
        /\ plan[1] = Write("new", job.image)
        /\ plan[2] = Activate("fast", ~planner.on)
    <3>1. plan = <<Write("new", job.image), Activate("fast", ~planner.on)>>
      BY <2>1, <1>13 DEF SsdFlush
    <3> QED BY <3>1
  <2>3. left \in 1 .. 2 /\ s = plan[2 - left + 1] BY <2>2, <1>1
  <2> HIDE DEF s
  <2>4. /\ left = 2 => s = Write("new", job.image)
        /\ left = 1 => s = Activate("fast", ~planner.on)
    <3>1. \A i \in 1 .. 2 : left = 3 - i => s = plan[i] BY <2>3
    <3>2. left = 2 => s = Write("new", job.image) BY <3>1, <2>2, 1 \in 1 .. 2, 3 - 1 = 2
    <3>3. left = 1 => s = Activate("fast", ~planner.on) BY <3>1, <2>2, 2 \in 1 .. 2, 3 - 2 = 1
    <3> QED BY <3>2, <3>3
  <2>5. FlushAt(Len(steps), pump)' BY <2>3, <2>4, <1>1, <1>13, SsdFastStagedSent
  <2> QED BY <2>5, <1>2
<1>14. CASE controller = "ssd1677" /\ job.mode = "fast" /\ ~staged
  <2>1. plan = SsdFlush(job.image, job.mode, staged) BY <1>5, <1>14
  <2>2. /\ Len(plan) = 3
        /\ plan[1] = Write("new", job.image)
        /\ plan[2] = Write("old", prev)
        /\ plan[3] = Activate("fast", ~planner.on)
    <3>1. plan = <<Write("new", job.image), Write("old", prev), Activate("fast", ~planner.on)>>
      BY <2>1, <1>14 DEF SsdFlush
    <3> QED BY <3>1
  <2>3. left \in 1 .. 3 /\ s = plan[3 - left + 1] BY <2>2, <1>1
  <2> HIDE DEF s
  <2>4. /\ left = 3 => s = Write("new", job.image)
        /\ left = 2 => s = Write("old", prev)
        /\ left = 1 => s = Activate("fast", ~planner.on)
    <3>1. \A i \in 1 .. 3 : left = 4 - i => s = plan[i] BY <2>3
    <3>2. left = 3 => s = Write("new", job.image) BY <3>1, <2>2, 1 \in 1 .. 3, 4 - 1 = 3
    <3>3. left = 2 => s = Write("old", prev) BY <3>1, <2>2, 2 \in 1 .. 3, 4 - 2 = 2
    <3>4. left = 1 => s = Activate("fast", ~planner.on) BY <3>1, <2>2, 3 \in 1 .. 3, 4 - 3 = 1
    <3> QED BY <3>2, <3>3, <3>4
  <2>5. FlushAt(Len(steps), pump)' BY <2>3, <2>4, <1>1, <1>14, SsdFastSent
  <2> QED BY <2>5, <1>2
<1> QED BY <1>3, <1>6, <1>7, <1>8, <1>9, <1>10, <1>11, <1>12, <1>13, <1>14, ControllersAssumption
  DEF Mode, Typed
-----------------------------------------------------------------------------
(* The other plans.                                                        *)

\* A plane of a UC8253 is closed by the command after it.
StopFollows(s) ==
  s.op = "write" /\ s.plane = "old" => steps' # <<>> /\ Head(steps').op = "stop"

LEMMA InitSent ==
  ASSUME Typed, Send, IsRest(InitSteps, steps), NEW left, left = Len(steps), InitAt(left),
         NEW s, s = Head(steps)
  PROVE  /\ IsRest(InitSteps, steps)' /\ InitAt(Len(steps))'
         /\ s.op \in {"reset", "setup", "write", "stop"}
         /\ s.op = "reset" => Untouched({"setup"})'
         /\ s.op # "reset" => ~chip.asleep /\ ~chip.power
         /\ controller = "uc8253" => StopFollows(s)
         /\ s.op = "setup" => s = Op("setup")
         /\ s.op = "reset" => s = Op("reset")
         /\ s.op = "write" => controller = "uc8253"
<1> DEFINE size == Len(InitSteps)
<1>1. /\ left \in 1 .. size /\ s = InitSteps[size - left + 1] /\ steps # <<>>
      /\ s \in Step
  BY NextOfPlan DEF Send
<1>2. /\ Len(steps') = left - 1 /\ IsRest(InitSteps, steps') /\ chip' = Effect(s) /\ chip \in Chip
      /\ UNCHANGED <<controller, planner, prev, staged, job>>
  BY <1>1, Sends DEF Typed
<1>3. InitSteps' = InitSteps BY <1>2, PlansKept
<1>4. IsRest(InitSteps, steps)' BY <1>2, <1>3 DEF IsRest
<1>5. left < size => ~chip.asleep /\ ~chip.power BY DEF InitAt
<1>6. size \in {2, 6} /\ (size = 2 <=> controller = "ssd1677") BY InitPlan
<1>7. left > 1 => steps' # <<>> /\ Head(steps') = InitSteps[size - (left - 1) + 1]
  BY <1>1, <1>2, <1>6, NextOfPlan
<1> HIDE DEF size
<1>8. CASE left = size
  <2>1. s = Op("reset") BY <1>1, <1>6, <1>8, InitPlan
  <2>2. ~chip'.asleep /\ ~chip'.power BY <2>1, <1>2, Reset
  <2>3. steps' # <<>> /\ Head(steps') = Op("setup") BY <1>6, <1>7, <1>8, InitPlan
  <2>4. InitAt(Len(steps))' BY <2>2 DEF InitAt
  <2>5. Untouched({"setup"})' BY <2>3 DEF Untouched, Op
  <2> QED BY <2>1, <2>4, <2>5, <1>4 DEF Op, StopFollows
<1>9. CASE left = size - 1
  <2>1. s = Op("setup") /\ ~chip.asleep /\ ~chip.power BY <1>1, <1>5, <1>6, <1>9, InitPlan
  <2>2. chip' = [chip EXCEPT !.ready = TRUE,
                   !.old = IF controller = "ssd1677" THEN White ELSE @,
                   !.new = IF controller = "ssd1677" THEN White ELSE @]
    BY <2>1, <1>2, Heard
  <2>3. ~chip'.asleep /\ ~chip'.power BY <2>1, <2>2, <1>2 DEF Chip
  <2>4. InitAt(Len(steps))' BY <2>3 DEF InitAt
  <2> QED BY <2>1, <2>4, <1>4 DEF Op, StopFollows
<1>10. CASE left < size - 1
  <2>1. size = 6 /\ controller = "uc8253" /\ left \in 1 .. 4
    <3>1. left \in 1 .. size /\ size \in {2, 6} BY <1>1, <1>6
    <3>2. size = 6 /\ left \in 1 .. 4 BY ONLY <3>1, <1>10
    <3> QED BY <3>2, <1>6, ControllersAssumption DEF Typed
  <2>2. /\ InitSteps[3] = Write("old", White) /\ InitSteps[4] = Op("stop")
        /\ InitSteps[5] = Write("new", White) /\ InitSteps[6] = Op("stop")
    BY <2>1, InitPlan
  <2>3. s = InitSteps[6 - left + 1] BY <1>1, <2>1
  <2>4. \/ s = Write("old", White) /\ steps' # <<>> /\ Head(steps') = Op("stop")
        \/ s = Write("new", White)
        \/ s = Op("stop")
    <3>1. CASE left = 4
      <4>1. s = InitSteps[3] BY <2>3, <3>1
      <4>2. steps' # <<>> /\ Head(steps') = InitSteps[4] BY <2>1, <3>1, <1>7
      <4> QED BY <4>1, <4>2, <2>2
    <3>2. CASE left = 3 BY <2>2, <2>3, <3>2
    <3>3. CASE left = 2 BY <2>2, <2>3, <3>3
    <3>4. CASE left = 1 BY <2>2, <2>3, <3>4
    <3> QED BY <2>1, <3>1, <3>2, <3>3, <3>4
  <2>5. ~chip.asleep /\ ~chip.power BY <2>1, <1>5
  <2>6. ~chip'.asleep /\ ~chip'.power BY <2>4, <2>5, <1>2, WriteSent, PlainSent, ChipTypes
  <2>7. InitAt(Len(steps))' BY <2>6 DEF InitAt
  <2> QED BY <2>1, <2>4, <2>5, <2>7, <1>4 DEF Op, Write, StopFollows
<1> QED BY <1>1, <1>6, <1>8, <1>9, <1>10

LEMMA PrestageSent ==
  ASSUME Typed, Send, JobFits, job.kind = "prestage", IsRest(PrestageSteps(job.image), steps),
         NEW left, left = Len(steps), PrestageAt(left), NEW s, s = Head(steps)
  PROVE  /\ IsRest(PrestageSteps(job.image), steps)' /\ PrestageAt(Len(steps))'
         /\ s.op \in {"write", "stop"} /\ (s.op = "stop" => controller = "uc8253")
         /\ controller = "uc8253" => StopFollows(s)
<1> DEFINE plan == PrestageSteps(job.image)
           size == Len(plan)
<1>1. /\ left \in 1 .. size /\ s = plan[size - left + 1] /\ steps # <<>> /\ s \in Step
  BY NextOfPlan DEF Send
<1>2. /\ Len(steps') = left - 1 /\ IsRest(plan, steps') /\ chip' = Effect(s) /\ chip \in Chip
      /\ upset' = (upset /\ ~Absolute(s)) /\ upset \in BOOLEAN /\ staged \in BOOLEAN
      /\ UNCHANGED <<controller, planner, prev, staged, job>>
  BY <1>1, Sends DEF Typed
<1>3. plan' = plan BY <1>2, PlansKept
<1>4. IsRest(PrestageSteps(job.image), steps)' BY <1>2, <1>3 DEF IsRest
<1>5. prev = job.image /\ prev \in Image BY DEF JobFits, Typed
<1>6. /\ plan[1] = Write("old", prev) /\ size \in {1, 2}
      /\ controller # "uc8253" => size = 1
      /\ controller = "uc8253" => size = 2 /\ plan[2] = Op("stop")
  BY <1>5, PrestagePlan
<1>7. left > 1 => steps' # <<>> /\ Head(steps') = plan[size - (left - 1) + 1]
  BY <1>1, <1>2, <1>6, NextOfPlan
<1>8. /\ left < size /\ ~chip.asleep => chip.old = prev
      /\ ~upset => ~chip.asleep /\ chip.power /\ chip.shown = prev /\ ~chip.hot
  BY DEF PrestageAt
<1> HIDE DEF plan, size
<1>9. CASE left = size
  <2>1. s = Write("old", prev) BY <1>1, <1>6, <1>9
  <2>2. upset' = upset BY <2>1, <1>2, QuietSteps DEF Absolute
  <2>3. left = 1 \/ (steps' # <<>> /\ Head(steps') = Op("stop")) BY <1>6, <1>7, <1>9
  <2>4. PrestageAt(Len(steps))'
    <3>1. ~chip'.asleep => chip'.old = prev BY <2>1, <1>2, WriteSent
    <3>2. ~upset' => ~chip'.asleep /\ chip'.power /\ chip'.shown = prev /\ ~chip'.hot
      BY <2>1, <2>2, <1>2, <1>8, WriteSent
    <3> QED BY <3>1, <3>2, <1>2 DEF PrestageAt
  <2> QED BY <2>1, <2>3, <2>4, <1>4, <1>6, <1>9 DEF StopFollows, Write, Op
<1>10. CASE left # size
  <2>1. s = Op("stop") /\ controller = "uc8253" /\ left < size BY <1>1, <1>6, <1>10
  <2>2. upset' = upset BY <2>1, <1>2, QuietSteps DEF Absolute, Commands
  <2>3. PrestageAt(Len(steps))'
    <3>1. ~chip'.asleep => chip'.old = prev BY <2>1, <1>2, <1>8, PlainSent
    <3>2. ~upset' => ~chip'.asleep /\ chip'.power /\ chip'.shown = prev /\ ~chip'.hot
      BY <2>1, <2>2, <1>2, <1>8, PlainSent
    <3> QED BY <3>1, <3>2, <1>2 DEF PrestageAt
  <2> QED BY <2>1, <2>3, <1>4 DEF StopFollows, Op
<1> QED BY <1>9, <1>10

LEMMA SleepSent ==
  ASSUME Typed, Send, NEW pump \in BOOLEAN, IsRest(SleepSteps(pump), steps),
         NEW left, left = Len(steps), SleepAt(left), NEW s, s = Head(steps)
  PROVE  /\ IsRest(SleepSteps(pump), steps)' /\ SleepAt(Len(steps))'
         /\ s \in {Op("powerDown"), Op("powerOff"), Op("deepSleep")}
         /\ s.op = "deepSleep" => steps' = <<>>
         /\ controller = "uc8253" => s # Op("powerDown")
         /\ controller = "ssd1677" => s # Op("powerOff")
<1> DEFINE plan == SleepSteps(pump)
           size == Len(plan)
<1>1. /\ left \in 1 .. size /\ s = plan[size - left + 1] /\ steps # <<>> /\ s \in Step
  BY NextOfPlan DEF Send
<1>2. /\ Len(steps') = left - 1 /\ IsRest(plan, steps') /\ chip' = Effect(s) /\ chip \in Chip
      /\ steps' \in Seq(Step)
      /\ upset' = (upset /\ ~Absolute(s)) /\ upset \in BOOLEAN /\ staged \in BOOLEAN
      /\ UNCHANGED <<controller, planner, prev, staged, job>>
  BY <1>1, Sends DEF Typed
<1>3. plan' = plan BY <1>2, PlansKept
<1>4. IsRest(SleepSteps(pump), steps)' BY <1>2, <1>3 DEF IsRest
<1>5. /\ size \in {1, 2} /\ plan[size] = Op("deepSleep")
      /\ size = 2 => plan[1] = IF controller = "ssd1677" THEN Op("powerDown") ELSE Op("powerOff")
  BY SleepPlan
<1>6. ~upset => job.settled /\ chip.shown = SleepImage BY DEF SleepAt
<1> HIDE DEF plan, size
<1>7. /\ s \in {Op("powerDown"), Op("powerOff"), Op("deepSleep")}
      /\ left = 1 <=> s = Op("deepSleep")
      /\ controller = "uc8253" => s # Op("powerDown")
      /\ controller = "ssd1677" => s # Op("powerOff")
  BY <1>1, <1>5 DEF Op
<1>8. upset' = upset BY <1>7, <1>2, QuietSteps DEF Absolute, Commands
<1>9. chip'.shown = chip.shown /\ (s = Op("deepSleep") => chip'.asleep)
  BY <1>7, <1>2, PlainSent, ChipTypes
<1>10. SleepAt(Len(steps))' BY <1>2, <1>6, <1>7, <1>8, <1>9, <1>1 DEF SleepAt
<1>11. s.op = "deepSleep" => steps' = <<>> BY <1>7, <1>2 DEF Op
<1> QED BY <1>4, <1>7, <1>10, <1>11
-----------------------------------------------------------------------------
(* What the next command of a flush may be.                                *)

\* A refresh with so many commands to come.
Drives(s, left) ==
  /\ job.mode = "fast" => left = 1
  /\ ~chip.asleep /\ ~planner.on => PumpOn(s)
  /\ ~upset /\ ModeOf(s) = "fast" => chip.old = chip.shown /\ ~chip.hot
  /\ job.mode # "fast" /\ ~Shown(left) /\ ~chip.asleep => ModeOf(s) # "fast"
Proper(s, left) ==
  /\ controller = "ssd1677" => s.op \in {"write", "heat", "activate", "loadTemp"}
  /\ controller = "uc8253" => s.op \in {"write", "stop", "bank", "powerOn", "refresh"}
  /\ IsRefresh(s) => Drives(s, left)
  /\ ~IsRefresh(s) => (Shown(left) <=> Shown(left - 1))

LEMMA FlushNext ==
  ASSUME Typed, JobFits, NeverHot, Flushing, steps # <<>>, NEW pump \in BOOLEAN,
         NEW plan, plan = FlushSteps(job.image, job.mode, staged, pump), IsRest(plan, steps),
         NEW left, left = Len(steps), FlushAt(left, pump), NEW s, s = Head(steps)
  PROVE  /\ Proper(s, left)
         /\ controller = "uc8253" /\ s.op = "write" /\ s.plane = "old" =>
              left > 1 /\ plan[Len(plan) - (left - 1) + 1] = Op("stop")
<1>1. left \in 1 .. Len(plan) /\ s = plan[Len(plan) - left + 1] /\ s \in Step
  BY NextOfPlan
<1>2. (pump => planner.on) /\ FlushTold(left, pump) /\ FlushPicture(left) BY DEF FlushAt
<1>3. /\ job.image \in Image /\ job.mode \in Mode /\ staged \in BOOLEAN /\ chip \in Chip
      /\ upset \in BOOLEAN
  BY FlushTypes DEF Typed
<1>4. controller = "uc8253" =>
        plan = UcFlush(job.image, Promoted(job.mode, pump), staged, pump)
  BY DEF FlushSteps
<1>5. controller = "ssd1677" => plan = SsdFlush(job.image, job.mode, staged)
  BY DEF FlushSteps
<1>6. CASE controller = "uc8253" /\ job.mode = "full"
  <2>1. plan = <<Bank("full"), Write("old", White), Op("stop"), Write("new", job.image),
                 Op("powerOn"), Op("refresh"), Write("old", job.image), Op("stop"), Bank("fast"),
                 Write("new", job.image), Op("refresh"), Write("old", job.image), Op("stop")>>
    BY <1>3, <1>4, <1>6 DEF Promoted, Mode, UcFlush
  <2>2. Len(plan) = 13 /\ left \in 1 .. 13 BY <2>1, <1>1
  <2>3. UcFullTold(left) /\ FlushPicture(left)
    BY <1>2, <1>3, <1>6 DEF FlushTold, Promoted, Mode
  <2>4. CASE left = 13
    <3>1. s = Bank("full") BY <2>1, <2>2, <2>4, <1>1
    <3>2. ~IsRefresh(s) BY <3>1, QuietSteps DEF Commands
    <3>3. Proper(s, left) BY <3>1, <3>2, <2>4, <1>6 DEF Proper, Shown, Op, Write, Bank
    <3>4. s.op # "write" \/ s.plane = "new" BY <3>1 DEF Op, Write, Bank
    <3> QED BY <3>3, <3>4
  <2>5. CASE left = 12
    <3>1. s = Write("old", White) /\ plan[Len(plan) - (left - 1) + 1] = Op("stop")
      BY <2>1, <2>2, <2>5, <1>1
    <3>2. ~IsRefresh(s) BY <3>1, QuietSteps DEF Commands
    <3>3. Proper(s, left) BY <3>1, <3>2, <2>5, <1>6 DEF Proper, Shown, Op, Write, Bank
    <3> QED BY <3>1, <3>3, <2>5
  <2>6. CASE left = 11
    <3>1. s = Op("stop") BY <2>1, <2>2, <2>6, <1>1
    <3>2. ~IsRefresh(s) BY <3>1, QuietSteps DEF Commands
    <3>3. Proper(s, left) BY <3>1, <3>2, <2>6, <1>6 DEF Proper, Shown, Op, Write, Bank
    <3>4. s.op # "write" \/ s.plane = "new" BY <3>1 DEF Op, Write, Bank
    <3> QED BY <3>3, <3>4
  <2>7. CASE left = 10
    <3>1. s = Write("new", job.image) BY <2>1, <2>2, <2>7, <1>1
    <3>2. ~IsRefresh(s) BY <3>1, QuietSteps DEF Commands
    <3>3. Proper(s, left) BY <3>1, <3>2, <2>7, <1>6 DEF Proper, Shown, Op, Write, Bank
    <3>4. s.op # "write" \/ s.plane = "new" BY <3>1 DEF Op, Write, Bank
    <3> QED BY <3>3, <3>4
  <2>8. CASE left = 9
    <3>1. s = Op("powerOn") BY <2>1, <2>2, <2>8, <1>1
    <3>2. ~IsRefresh(s) BY <3>1, QuietSteps DEF Commands
    <3>3. Proper(s, left) BY <3>1, <3>2, <2>8, <1>6 DEF Proper, Shown, Op, Write, Bank
    <3>4. s.op # "write" \/ s.plane = "new" BY <3>1 DEF Op, Write, Bank
    <3> QED BY <3>3, <3>4
  <2>9. CASE left = 8
    <3>1. s = Op("refresh") BY <2>1, <2>2, <2>9, <1>1
    <3>2. IsRefresh(s) BY <3>1, QuietSteps
    <3>3. Drives(s, left)
      <4>1. ModeOf(s) = chip.bank /\ (PumpOn(s) <=> chip.power)
        BY <3>1, <1>3, ChipTypes DEF ModeOf, PumpOn, Op
      <4>2. TRUE OBVIOUS
      <4> QED BY <4>1, <4>2, <2>3, <2>9, <1>2, <1>6 DEF Drives, Shown, UcFullTold
    <3>4. s.op = "refresh" BY <3>1 DEF Op, Activate
    <3>5. Proper(s, left) BY <3>2, <3>3, <3>4, <1>6 DEF Proper
    <3> QED BY <3>4, <3>5
  <2>10. CASE left = 7
    <3>1. s = Write("old", job.image) /\ plan[Len(plan) - (left - 1) + 1] = Op("stop")
      BY <2>1, <2>2, <2>10, <1>1
    <3>2. ~IsRefresh(s) BY <3>1, QuietSteps DEF Commands
    <3>3. Proper(s, left) BY <3>1, <3>2, <2>10, <1>6 DEF Proper, Shown, Op, Write, Bank
    <3> QED BY <3>1, <3>3, <2>10
  <2>11. CASE left = 6
    <3>1. s = Op("stop") BY <2>1, <2>2, <2>11, <1>1
    <3>2. ~IsRefresh(s) BY <3>1, QuietSteps DEF Commands
    <3>3. Proper(s, left) BY <3>1, <3>2, <2>11, <1>6 DEF Proper, Shown, Op, Write, Bank
    <3>4. s.op # "write" \/ s.plane = "new" BY <3>1 DEF Op, Write, Bank
    <3> QED BY <3>3, <3>4
  <2>12. CASE left = 5
    <3>1. s = Bank("fast") BY <2>1, <2>2, <2>12, <1>1
    <3>2. ~IsRefresh(s) BY <3>1, QuietSteps DEF Commands
    <3>3. Proper(s, left) BY <3>1, <3>2, <2>12, <1>6 DEF Proper, Shown, Op, Write, Bank
    <3>4. s.op # "write" \/ s.plane = "new" BY <3>1 DEF Op, Write, Bank
    <3> QED BY <3>3, <3>4
  <2>13. CASE left = 4
    <3>1. s = Write("new", job.image) BY <2>1, <2>2, <2>13, <1>1
    <3>2. ~IsRefresh(s) BY <3>1, QuietSteps DEF Commands
    <3>3. Proper(s, left) BY <3>1, <3>2, <2>13, <1>6 DEF Proper, Shown, Op, Write, Bank
    <3>4. s.op # "write" \/ s.plane = "new" BY <3>1 DEF Op, Write, Bank
    <3> QED BY <3>3, <3>4
  <2>14. CASE left = 3
    <3>1. s = Op("refresh") BY <2>1, <2>2, <2>14, <1>1
    <3>2. IsRefresh(s) BY <3>1, QuietSteps
    <3>3. Drives(s, left)
      <4>1. ModeOf(s) = chip.bank /\ (PumpOn(s) <=> chip.power)
        BY <3>1, <1>3, ChipTypes DEF ModeOf, PumpOn, Op
      <4>2. ~upset => ~chip.hot /\ chip.old = chip.shown
        BY <2>3, <2>14, <1>6, <1>3 DEF NeverHot, UcFullTold
      <4> QED BY <4>1, <4>2, <2>3, <2>14, <1>2, <1>6 DEF Drives, Shown, UcFullTold
    <3>4. s.op = "refresh" BY <3>1 DEF Op, Activate
    <3>5. Proper(s, left) BY <3>2, <3>3, <3>4, <1>6 DEF Proper
    <3> QED BY <3>4, <3>5
  <2>15. CASE left = 2
    <3>1. s = Write("old", job.image) /\ plan[Len(plan) - (left - 1) + 1] = Op("stop")
      BY <2>1, <2>2, <2>15, <1>1
    <3>2. ~IsRefresh(s) BY <3>1, QuietSteps DEF Commands
    <3>3. Proper(s, left) BY <3>1, <3>2, <2>15, <1>6 DEF Proper, Shown, Op, Write, Bank
    <3> QED BY <3>1, <3>3, <2>15
  <2>16. CASE left = 1
    <3>1. s = Op("stop") BY <2>1, <2>2, <2>16, <1>1
    <3>2. ~IsRefresh(s) BY <3>1, QuietSteps DEF Commands
    <3>3. Proper(s, left) BY <3>1, <3>2, <2>16, <1>6 DEF Proper, Shown, Op, Write, Bank
    <3>4. s.op # "write" \/ s.plane = "new" BY <3>1 DEF Op, Write, Bank
    <3> QED BY <3>3, <3>4
  <2>17. \/ left = 1 \/ left = 2 \/ left = 3 \/ left = 4 \/ left = 5
         \/ left = 6 \/ left = 7 \/ left = 8 \/ left = 9 \/ left = 10
         \/ left = 11 \/ left = 12 \/ left = 13
    BY ONLY <2>2
  <2> QED BY <2>17, <2>4, <2>5, <2>6, <2>7, <2>8, <2>9, <2>10, <2>11, <2>12, <2>13, <2>14, <2>15,
       <2>16, Zenon
<1>7. CASE controller = "uc8253" /\ job.mode = "fast" /\ pump /\ staged
  <2>1. plan = <<Bank("fast"), Write("new", job.image), Op("refresh")>>
    BY <1>3, <1>4, <1>7 DEF Promoted, Mode, UcFlush
  <2>2. Len(plan) = 3 /\ left \in 1 .. 3 BY <2>1, <1>1
  <2>3. UcFastTold(left) /\ FlushPicture(left)
    BY <1>2, <1>3, <1>7 DEF FlushTold, Promoted, Mode
  <2>4. CASE left = 3
    <3>1. s = Bank("fast") BY <2>1, <2>2, <2>4, <1>1
    <3>2. ~IsRefresh(s) BY <3>1, QuietSteps DEF Commands
    <3>3. Proper(s, left) BY <3>1, <3>2, <2>4, <1>7 DEF Proper, Shown, Op, Write, Bank
    <3>4. s.op # "write" \/ s.plane = "new" BY <3>1 DEF Op, Write, Bank
    <3> QED BY <3>3, <3>4
  <2>5. CASE left = 2
    <3>1. s = Write("new", job.image) BY <2>1, <2>2, <2>5, <1>1
    <3>2. ~IsRefresh(s) BY <3>1, QuietSteps DEF Commands
    <3>3. Proper(s, left) BY <3>1, <3>2, <2>5, <1>7 DEF Proper, Shown, Op, Write, Bank
    <3>4. s.op # "write" \/ s.plane = "new" BY <3>1 DEF Op, Write, Bank
    <3> QED BY <3>3, <3>4
  <2>6. CASE left = 1
    <3>1. s = Op("refresh") BY <2>1, <2>2, <2>6, <1>1
    <3>2. IsRefresh(s) BY <3>1, QuietSteps
    <3>3. Drives(s, left)
      <4>1. ModeOf(s) = chip.bank /\ (PumpOn(s) <=> chip.power)
        BY <3>1, <1>3, ChipTypes DEF ModeOf, PumpOn, Op
      <4>2. ~upset => /\ planner.on /\ ~chip.asleep /\ ~chip.hot /\ chip.old = chip.shown
        BY <2>3, <2>6, <1>7, <1>3 DEF FlushPicture, Before, JobFits, Flushing, Shown, UcFastTold
      <4> QED BY <4>1, <4>2, <2>3, <2>6, <1>2, <1>7 DEF Drives, Shown, UcFastTold
    <3>4. s.op = "refresh" BY <3>1 DEF Op, Activate
    <3>5. Proper(s, left) BY <3>2, <3>3, <3>4, <1>7 DEF Proper
    <3> QED BY <3>4, <3>5
  <2>7. left = 1 \/ left = 2 \/ left = 3
    BY ONLY <2>2
  <2> QED BY <2>7, <2>4, <2>5, <2>6, Zenon
<1>8. CASE controller = "uc8253" /\ job.mode = "fast" /\ pump /\ ~staged
  <2>1. plan = <<Bank("fast"), Write("old", prev), Op("stop"), Write("new", job.image),
                 Op("refresh")>>
    BY <1>3, <1>4, <1>8 DEF Promoted, Mode, UcFlush
  <2>2. Len(plan) = 5 /\ left \in 1 .. 5 BY <2>1, <1>1
  <2>3. UcFastTold(left) /\ FlushPicture(left)
    BY <1>2, <1>3, <1>8 DEF FlushTold, Promoted, Mode
  <2>4. CASE left = 5
    <3>1. s = Bank("fast") BY <2>1, <2>2, <2>4, <1>1
    <3>2. ~IsRefresh(s) BY <3>1, QuietSteps DEF Commands
    <3>3. Proper(s, left) BY <3>1, <3>2, <2>4, <1>8 DEF Proper, Shown, Op, Write, Bank
    <3>4. s.op # "write" \/ s.plane = "new" BY <3>1 DEF Op, Write, Bank
    <3> QED BY <3>3, <3>4
  <2>5. CASE left = 4
    <3>1. s = Write("old", prev) /\ plan[Len(plan) - (left - 1) + 1] = Op("stop")
      BY <2>1, <2>2, <2>5, <1>1
    <3>2. ~IsRefresh(s) BY <3>1, QuietSteps DEF Commands
    <3>3. Proper(s, left) BY <3>1, <3>2, <2>5, <1>8 DEF Proper, Shown, Op, Write, Bank
    <3> QED BY <3>1, <3>3, <2>5
  <2>6. CASE left = 3
    <3>1. s = Op("stop") BY <2>1, <2>2, <2>6, <1>1
    <3>2. ~IsRefresh(s) BY <3>1, QuietSteps DEF Commands
    <3>3. Proper(s, left) BY <3>1, <3>2, <2>6, <1>8 DEF Proper, Shown, Op, Write, Bank
    <3>4. s.op # "write" \/ s.plane = "new" BY <3>1 DEF Op, Write, Bank
    <3> QED BY <3>3, <3>4
  <2>7. CASE left = 2
    <3>1. s = Write("new", job.image) BY <2>1, <2>2, <2>7, <1>1
    <3>2. ~IsRefresh(s) BY <3>1, QuietSteps DEF Commands
    <3>3. Proper(s, left) BY <3>1, <3>2, <2>7, <1>8 DEF Proper, Shown, Op, Write, Bank
    <3>4. s.op # "write" \/ s.plane = "new" BY <3>1 DEF Op, Write, Bank
    <3> QED BY <3>3, <3>4
  <2>8. CASE left = 1
    <3>1. s = Op("refresh") BY <2>1, <2>2, <2>8, <1>1
    <3>2. IsRefresh(s) BY <3>1, QuietSteps
    <3>3. Drives(s, left)
      <4>1. ModeOf(s) = chip.bank /\ (PumpOn(s) <=> chip.power)
        BY <3>1, <1>3, ChipTypes DEF ModeOf, PumpOn, Op
      <4>2. ~upset => /\ planner.on /\ ~chip.asleep /\ ~chip.hot /\ chip.old = chip.shown
        BY <2>3, <2>8, <1>8, <1>3 DEF FlushPicture, Before, JobFits, Flushing, Shown, UcFastTold
      <4> QED BY <4>1, <4>2, <2>3, <2>8, <1>2, <1>8 DEF Drives, Shown, UcFastTold
    <3>4. s.op = "refresh" BY <3>1 DEF Op, Activate
    <3>5. Proper(s, left) BY <3>2, <3>3, <3>4, <1>8 DEF Proper
    <3> QED BY <3>4, <3>5
  <2>9. left = 1 \/ left = 2 \/ left = 3 \/ left = 4 \/ left = 5
    BY ONLY <2>2
  <2> QED BY <2>9, <2>4, <2>5, <2>6, <2>7, <2>8, Zenon
<1>9. CASE controller = "uc8253" /\ job.mode = "clean" /\ pump
  <2>1. plan = <<Bank("clean"), Write("new", job.image), Op("refresh")>>
    BY <1>3, <1>4, <1>9 DEF Promoted, Mode, UcFlush
  <2>2. Len(plan) = 3 /\ left \in 1 .. 3 BY <2>1, <1>1
  <2>3. UcCleanTold(left, pump) /\ FlushPicture(left)
    BY <1>2, <1>3, <1>9 DEF FlushTold, Promoted, Mode
  <2>4. CASE left = 3
    <3>1. s = Bank("clean") BY <2>1, <2>2, <2>4, <1>1
    <3>2. ~IsRefresh(s) BY <3>1, QuietSteps DEF Commands
    <3>3. Proper(s, left) BY <3>1, <3>2, <2>4, <1>9 DEF Proper, Shown, Op, Write, Bank
    <3>4. s.op # "write" \/ s.plane = "new" BY <3>1 DEF Op, Write, Bank
    <3> QED BY <3>3, <3>4
  <2>5. CASE left = 2
    <3>1. s = Write("new", job.image) BY <2>1, <2>2, <2>5, <1>1
    <3>2. ~IsRefresh(s) BY <3>1, QuietSteps DEF Commands
    <3>3. Proper(s, left) BY <3>1, <3>2, <2>5, <1>9 DEF Proper, Shown, Op, Write, Bank
    <3>4. s.op # "write" \/ s.plane = "new" BY <3>1 DEF Op, Write, Bank
    <3> QED BY <3>3, <3>4
  <2>6. CASE left = 1
    <3>1. s = Op("refresh") BY <2>1, <2>2, <2>6, <1>1
    <3>2. IsRefresh(s) BY <3>1, QuietSteps
    <3>3. Drives(s, left)
      <4>1. ModeOf(s) = chip.bank /\ (PumpOn(s) <=> chip.power)
        BY <3>1, <1>3, ChipTypes DEF ModeOf, PumpOn, Op
      <4>2. (~upset => ~chip.asleep) /\ (~planner.on => chip.power \/ chip.asleep)
        BY <2>3, <2>6, <1>9, <1>2, <1>3, ChipTypes
          DEF FlushPicture, Before, JobFits, Flushing, Shown, UcCleanTold
      <4> QED BY <4>1, <4>2, <2>3, <2>6, <1>2, <1>9 DEF Drives, Shown, UcCleanTold
    <3>4. s.op = "refresh" BY <3>1 DEF Op, Activate
    <3>5. Proper(s, left) BY <3>2, <3>3, <3>4, <1>9 DEF Proper
    <3> QED BY <3>4, <3>5
  <2>7. left = 1 \/ left = 2 \/ left = 3
    BY ONLY <2>2
  <2> QED BY <2>7, <2>4, <2>5, <2>6, Zenon
<1>10. CASE controller = "uc8253" /\ job.mode # "full" /\ ~pump
  <2>1. plan = <<Bank("clean"), Write("new", job.image), Op("powerOn"), Op("refresh")>>
    BY <1>3, <1>4, <1>10 DEF Promoted, Mode, UcFlush
  <2>2. Len(plan) = 4 /\ left \in 1 .. 4 BY <2>1, <1>1
  <2>3. UcCleanTold(left, pump) /\ FlushPicture(left)
    BY <1>2, <1>3, <1>10 DEF FlushTold, Promoted, Mode
  <2>4. CASE left = 4
    <3>1. s = Bank("clean") BY <2>1, <2>2, <2>4, <1>1
    <3>2. ~IsRefresh(s) BY <3>1, QuietSteps DEF Commands
    <3>3. Proper(s, left) BY <3>1, <3>2, <2>4, <1>10 DEF Proper, Shown, Op, Write, Bank
    <3>4. s.op # "write" \/ s.plane = "new" BY <3>1 DEF Op, Write, Bank
    <3> QED BY <3>3, <3>4
  <2>5. CASE left = 3
    <3>1. s = Write("new", job.image) BY <2>1, <2>2, <2>5, <1>1
    <3>2. ~IsRefresh(s) BY <3>1, QuietSteps DEF Commands
    <3>3. Proper(s, left) BY <3>1, <3>2, <2>5, <1>10 DEF Proper, Shown, Op, Write, Bank
    <3>4. s.op # "write" \/ s.plane = "new" BY <3>1 DEF Op, Write, Bank
    <3> QED BY <3>3, <3>4
  <2>6. CASE left = 2
    <3>1. s = Op("powerOn") BY <2>1, <2>2, <2>6, <1>1
    <3>2. ~IsRefresh(s) BY <3>1, QuietSteps DEF Commands
    <3>3. Proper(s, left) BY <3>1, <3>2, <2>6, <1>10 DEF Proper, Shown, Op, Write, Bank
    <3>4. s.op # "write" \/ s.plane = "new" BY <3>1 DEF Op, Write, Bank
    <3> QED BY <3>3, <3>4
  <2>7. CASE left = 1
    <3>1. s = Op("refresh") BY <2>1, <2>2, <2>7, <1>1
    <3>2. IsRefresh(s) BY <3>1, QuietSteps
    <3>3. Drives(s, left)
      <4>1. ModeOf(s) = chip.bank /\ (PumpOn(s) <=> chip.power)
        BY <3>1, <1>3, ChipTypes DEF ModeOf, PumpOn, Op
      <4>2. (~upset => ~chip.asleep) /\ (~planner.on => chip.power \/ chip.asleep)
        BY <2>3, <2>7, <1>10, <1>2, <1>3, ChipTypes
          DEF FlushPicture, Before, JobFits, Flushing, Shown, UcCleanTold
      <4> QED BY <4>1, <4>2, <2>3, <2>7, <1>2, <1>10 DEF Drives, Shown, UcCleanTold
    <3>4. s.op = "refresh" BY <3>1 DEF Op, Activate
    <3>5. Proper(s, left) BY <3>2, <3>3, <3>4, <1>10 DEF Proper
    <3> QED BY <3>4, <3>5
  <2>8. left = 1 \/ left = 2 \/ left = 3 \/ left = 4
    BY ONLY <2>2
  <2> QED BY <2>8, <2>4, <2>5, <2>6, <2>7, Zenon
<1>11. CASE controller = "ssd1677" /\ job.mode = "full"
  <2>1. plan = <<Write("new", job.image), Write("old", job.image), Activate("full", ~planner.on)>>
    BY <1>5, <1>11 DEF SsdFlush
  <2>2. Len(plan) = 3 /\ left \in 1 .. 3 BY <2>1, <1>1
  <2>3. SsdTold(left) /\ FlushPicture(left)
    BY <1>2, <1>3, <1>11 DEF FlushTold, Promoted, Mode
  <2>4. CASE left = 3
    <3>1. s = Write("new", job.image) BY <2>1, <2>2, <2>4, <1>1
    <3>2. ~IsRefresh(s) BY <3>1, QuietSteps DEF Commands
    <3>3. Proper(s, left) BY <3>1, <3>2, <2>4, <1>11 DEF Proper, Shown, Op, Write, Bank
    <3> QED BY <3>3, <1>11
  <2>5. CASE left = 2
    <3>1. s = Write("old", job.image) BY <2>1, <2>2, <2>5, <1>1
    <3>2. ~IsRefresh(s) BY <3>1, QuietSteps DEF Commands
    <3>3. Proper(s, left) BY <3>1, <3>2, <2>5, <1>11 DEF Proper, Shown, Op, Write, Bank
    <3> QED BY <3>3, <1>11
  <2>6. CASE left = 1
    <3>1. s = Activate("full", ~planner.on) BY <2>1, <2>2, <2>6, <1>1
    <3>2. IsRefresh(s) BY <3>1, QuietSteps
    <3>3. Drives(s, left)
      <4>3. /\ s.op = "activate" /\ s.mode = "full"
            /\ s.enable = ~planner.on
        BY <3>1 DEF Activate
      <4>1. ModeOf(s) = "full" /\ (~planner.on => PumpOn(s)) BY <4>3 DEF ModeOf, PumpOn
      <4>2. TRUE OBVIOUS
      <4> QED BY <4>1, <4>2, <2>3, <2>6, <1>2, <1>11 DEF Drives, Shown, SsdTold
    <3>4. s.op = "activate" BY <3>1 DEF Op, Activate
    <3>5. Proper(s, left) BY <3>2, <3>3, <3>4, <1>11 DEF Proper
    <3> QED BY <3>4, <3>5
  <2>7. left = 1 \/ left = 2 \/ left = 3
    BY ONLY <2>2
  <2> QED BY <2>7, <2>4, <2>5, <2>6, Zenon
<1>12. CASE controller = "ssd1677" /\ job.mode = "clean"
  <2>1. plan = <<Write("new", job.image), Write("old", job.image), Op("heat"),
                 Activate("clean", ~planner.on), Op("loadTemp")>>
    BY <1>5, <1>12 DEF SsdFlush
  <2>2. Len(plan) = 5 /\ left \in 1 .. 5 BY <2>1, <1>1
  <2>3. SsdTold(left) /\ FlushPicture(left)
    BY <1>2, <1>3, <1>12 DEF FlushTold, Promoted, Mode
  <2>4. CASE left = 5
    <3>1. s = Write("new", job.image) BY <2>1, <2>2, <2>4, <1>1
    <3>2. ~IsRefresh(s) BY <3>1, QuietSteps DEF Commands
    <3>3. Proper(s, left) BY <3>1, <3>2, <2>4, <1>12 DEF Proper, Shown, Op, Write, Bank
    <3> QED BY <3>3, <1>12
  <2>5. CASE left = 4
    <3>1. s = Write("old", job.image) BY <2>1, <2>2, <2>5, <1>1
    <3>2. ~IsRefresh(s) BY <3>1, QuietSteps DEF Commands
    <3>3. Proper(s, left) BY <3>1, <3>2, <2>5, <1>12 DEF Proper, Shown, Op, Write, Bank
    <3> QED BY <3>3, <1>12
  <2>6. CASE left = 3
    <3>1. s = Op("heat") BY <2>1, <2>2, <2>6, <1>1
    <3>2. ~IsRefresh(s) BY <3>1, QuietSteps DEF Commands
    <3>3. Proper(s, left) BY <3>1, <3>2, <2>6, <1>12 DEF Proper, Shown, Op, Write, Bank
    <3> QED BY <3>3, <1>12
  <2>7. CASE left = 2
    <3>1. s = Activate("clean", ~planner.on) BY <2>1, <2>2, <2>7, <1>1
    <3>2. IsRefresh(s) BY <3>1, QuietSteps
    <3>3. Drives(s, left)
      <4>3. /\ s.op = "activate" /\ s.mode = "clean"
            /\ s.enable = ~planner.on
        BY <3>1 DEF Activate
      <4>1. ModeOf(s) = "clean" /\ (~planner.on => PumpOn(s)) BY <4>3 DEF ModeOf, PumpOn
      <4>2. TRUE OBVIOUS
      <4> QED BY <4>1, <4>2, <2>3, <2>7, <1>2, <1>12 DEF Drives, Shown, SsdTold
    <3>4. s.op = "activate" BY <3>1 DEF Op, Activate
    <3>5. Proper(s, left) BY <3>2, <3>3, <3>4, <1>12 DEF Proper
    <3> QED BY <3>4, <3>5
  <2>8. CASE left = 1
    <3>1. s = Op("loadTemp") BY <2>1, <2>2, <2>8, <1>1
    <3>2. ~IsRefresh(s) BY <3>1, QuietSteps DEF Commands
    <3>3. Proper(s, left) BY <3>1, <3>2, <2>8, <1>12 DEF Proper, Shown, Op, Write, Bank
    <3> QED BY <3>3, <1>12
  <2>9. left = 1 \/ left = 2 \/ left = 3 \/ left = 4 \/ left = 5
    BY ONLY <2>2
  <2> QED BY <2>9, <2>4, <2>5, <2>6, <2>7, <2>8, Zenon
<1>13. CASE controller = "ssd1677" /\ job.mode = "fast" /\ staged
  <2>1. plan = <<Write("new", job.image), Activate("fast", ~planner.on)>>
    BY <1>5, <1>13 DEF SsdFlush
  <2>2. Len(plan) = 2 /\ left \in 1 .. 2 BY <2>1, <1>1
  <2>3. SsdTold(left) /\ FlushPicture(left)
    BY <1>2, <1>3, <1>13 DEF FlushTold, Promoted, Mode
  <2>4. CASE left = 2
    <3>1. s = Write("new", job.image) BY <2>1, <2>2, <2>4, <1>1
    <3>2. ~IsRefresh(s) BY <3>1, QuietSteps DEF Commands
    <3>3. Proper(s, left) BY <3>1, <3>2, <2>4, <1>13 DEF Proper, Shown, Op, Write, Bank
    <3> QED BY <3>3, <1>13
  <2>5. CASE left = 1
    <3>1. s = Activate("fast", ~planner.on) BY <2>1, <2>2, <2>5, <1>1
    <3>2. IsRefresh(s) BY <3>1, QuietSteps
    <3>3. Drives(s, left)
      <4>3. /\ s.op = "activate" /\ s.mode = "fast"
            /\ s.enable = ~planner.on
        BY <3>1 DEF Activate
      <4>1. ModeOf(s) = "fast" /\ (~planner.on => PumpOn(s)) BY <4>3 DEF ModeOf, PumpOn
      <4>2. ~upset => /\ planner.on /\ ~chip.asleep /\ ~chip.hot /\ chip.old = chip.shown
        BY <2>3, <2>5, <1>13, <1>3 DEF FlushPicture, Before, JobFits, Flushing, Shown, SsdTold
      <4> QED BY <4>1, <4>2, <2>3, <2>5, <1>2, <1>13 DEF Drives, Shown, SsdTold
    <3>4. s.op = "activate" BY <3>1 DEF Op, Activate
    <3>5. Proper(s, left) BY <3>2, <3>3, <3>4, <1>13 DEF Proper
    <3> QED BY <3>4, <3>5
  <2>6. left = 1 \/ left = 2
    BY ONLY <2>2
  <2> QED BY <2>6, <2>4, <2>5, Zenon
<1>14. CASE controller = "ssd1677" /\ job.mode = "fast" /\ ~staged
  <2>1. plan = <<Write("new", job.image), Write("old", prev), Activate("fast", ~planner.on)>>
    BY <1>5, <1>14 DEF SsdFlush
  <2>2. Len(plan) = 3 /\ left \in 1 .. 3 BY <2>1, <1>1
  <2>3. SsdTold(left) /\ FlushPicture(left)
    BY <1>2, <1>3, <1>14 DEF FlushTold, Promoted, Mode
  <2>4. CASE left = 3
    <3>1. s = Write("new", job.image) BY <2>1, <2>2, <2>4, <1>1
    <3>2. ~IsRefresh(s) BY <3>1, QuietSteps DEF Commands
    <3>3. Proper(s, left) BY <3>1, <3>2, <2>4, <1>14 DEF Proper, Shown, Op, Write, Bank
    <3> QED BY <3>3, <1>14
  <2>5. CASE left = 2
    <3>1. s = Write("old", prev) BY <2>1, <2>2, <2>5, <1>1
    <3>2. ~IsRefresh(s) BY <3>1, QuietSteps DEF Commands
    <3>3. Proper(s, left) BY <3>1, <3>2, <2>5, <1>14 DEF Proper, Shown, Op, Write, Bank
    <3> QED BY <3>3, <1>14
  <2>6. CASE left = 1
    <3>1. s = Activate("fast", ~planner.on) BY <2>1, <2>2, <2>6, <1>1
    <3>2. IsRefresh(s) BY <3>1, QuietSteps
    <3>3. Drives(s, left)
      <4>3. /\ s.op = "activate" /\ s.mode = "fast"
            /\ s.enable = ~planner.on
        BY <3>1 DEF Activate
      <4>1. ModeOf(s) = "fast" /\ (~planner.on => PumpOn(s)) BY <4>3 DEF ModeOf, PumpOn
      <4>2. ~upset => /\ planner.on /\ ~chip.asleep /\ ~chip.hot /\ chip.old = chip.shown
        BY <2>3, <2>6, <1>14, <1>3 DEF FlushPicture, Before, JobFits, Flushing, Shown, SsdTold
      <4> QED BY <4>1, <4>2, <2>3, <2>6, <1>2, <1>14 DEF Drives, Shown, SsdTold
    <3>4. s.op = "activate" BY <3>1 DEF Op, Activate
    <3>5. Proper(s, left) BY <3>2, <3>3, <3>4, <1>14 DEF Proper
    <3> QED BY <3>4, <3>5
  <2>7. left = 1 \/ left = 2 \/ left = 3
    BY ONLY <2>2
  <2> QED BY <2>7, <2>4, <2>5, <2>6, Zenon
<1> QED BY <1>3, <1>6, <1>7, <1>8, <1>9, <1>10, <1>11, <1>12, <1>13, <1>14, ControllersAssumption
  DEF Mode, Typed
-----------------------------------------------------------------------------
(* A command succeeds.                                                     *)

LEMMA StepForms ==
  ASSUME NEW s \in Step
  PROVE  /\ s.op \notin {"write", "bank", "activate"} => s.op \in Commands /\ s = Op(s.op)
         /\ s.op = "write" => s = Write(s.plane, s.image) /\ s.plane \in {"old", "new"}
         /\ s.op = "bank" => s = Bank(s.mode)
         /\ s.op \in Commands
BY DEF Step, Op, Write, Bank, Commands

\* What any command may do to the controller, and what it may not.
LEMMA ChipSent ==
  ASSUME chip \in Chip, NEW s \in Step, chip' = Effect(s)
  PROVE  /\ s.op \notin {"reset", "deepSleep"} => chip'.asleep = chip.asleep
         /\ s.op \notin {"reset", "powerOff", "powerDown"} /\ chip.power => chip'.power
         /\ s.op \notin {"powerOn", "activate"} /\ chip'.power => chip.power
         /\ s.op # "reset" /\ chip.ready => chip'.ready
         /\ s.op = "setup" /\ ~chip.asleep => chip'.ready
         /\ chip'.stop => \/ chip.stop
                          \/ s.op = "write" /\ s.plane = "old" /\ controller = "uc8253" /\ ~chip.asleep
         /\ s.op = "stop" /\ ~chip.asleep => ~chip'.stop
         /\ chip'.hot => chip.hot \/ s.op = "heat"
         /\ s.op = "powerOff" /\ ~chip.asleep => ~chip'.power
         /\ s.op = "reset" => ~chip'.power /\ ~chip'.asleep /\ ~chip'.stop
<1>1. CASE s.op = "reset"
  <2>1. s = Op("reset") BY <1>1, StepForms
  <2> QED BY <2>1, <1>1, Reset
<1>2. CASE s.op = "setup"
  <2>1. s = Op("setup") BY <1>2, StepForms
  <2>2. CASE chip.asleep
    <3>1. chip' = chip BY <1>2, <2>2, Unheard
    <3> QED BY <3>1, <1>2, <2>2
  <2>3. CASE ~chip.asleep
    <3>1. chip' = [chip EXCEPT !.ready = TRUE,
                     !.old = IF controller = "ssd1677" THEN White ELSE @,
                     !.new = IF controller = "ssd1677" THEN White ELSE @]
      BY <2>1, <2>3, Heard
    <3> QED BY <3>1, <1>2, <2>3 DEF Chip
  <2> QED BY <2>2, <2>3
<1>3. CASE s.op = "write"
  <2>1. s = Write(s.plane, s.image) /\ s.plane \in {"old", "new"} BY <1>3, StepForms
  <2> QED BY <2>1, <1>3, WriteSent, ChipTypes
<1>4. CASE s.op = "bank"
  <2>1. s = Bank(s.mode) BY <1>4, StepForms
  <2> QED BY <2>1, <1>4, BankSent, ChipTypes
<1>5. CASE IsRefresh(s)
  <2>1. s.op \in {"activate", "refresh"} BY <1>5 DEF IsRefresh
  <2>2. chip.power => PumpOn(s) BY DEF PumpOn
  <2>3. PumpOn(s) /\ s.op # "activate" => chip.power BY DEF PumpOn
  <2> QED BY <2>1, <2>2, <2>3, <1>5, RefreshSent, ChipTypes
<1>6. CASE s.op \in {"stop", "heat", "loadTemp", "powerOn", "powerOff", "powerDown", "deepSleep"}
  <2>1. PICK op \in {"stop", "heat", "loadTemp", "powerOn", "powerOff", "powerDown", "deepSleep"} :
          s.op = op /\ s = Op(op)
    BY <1>6, StepForms
  <2> QED BY <2>1, PlainSent, ChipTypes
<1> QED BY <1>1, <1>2, <1>3, <1>4, <1>5, <1>6, StepForms DEF IsRefresh, Commands

LEMMA SendTyped ==
  ASSUME Typed, Send
  PROVE  Typed'
<1> DEFINE s == Head(steps)
<1>1. steps # <<>> /\ s \in Step /\ Tail(steps) \in Seq(Step) BY DEF Send, Typed
<1>2. /\ chip' = Effect(s) /\ upset' = (upset /\ ~Absolute(s)) /\ CountRefresh(s)
      /\ powered' = (CASE s.op = "powerOn" -> TRUE [] s.op = "powerOff" -> FALSE [] OTHER -> powered)
      /\ since' = (IF s.op = "reset" THEN {} ELSE since)
      /\ steps' = Tail(steps)
      /\ UNCHANGED <<controller, planner, prev, staged, job, faults>>
  BY DEF Send, belief
<1> HIDE DEF s
<1>3. chip' \in Chip BY <1>1, <1>2, EffectTypes DEF Typed
<1>4. streak' \in Nat BY <1>2 DEF CountRefresh, Typed
<1>5. powered' \in BOOLEAN BY <1>2 DEF Typed
<1>6. since' \in SUBSET {"init", "flush", "sleep"} BY <1>2 DEF Typed
<1>7. upset' \in BOOLEAN BY <1>2
<1> QED BY <1>1, <1>2, <1>3, <1>4, <1>5, <1>6, <1>7 DEF Typed

LEMMA SendPlaced ==
  ASSUME IInv, Send, NEW s, s = Head(steps)
  PROVE  /\ Placed' /\ job.kind # "idle"
         /\ controller = "uc8253" => StopFollows(s)
         /\ Starting => /\ s.op \in {"reset", "setup", "write", "stop"}
                        /\ s.op = "reset" => Untouched({"setup"})'
                        /\ s.op # "reset" => ~chip.asleep /\ ~chip.power
         /\ Flushing => Proper(s, Len(steps))
         /\ job.kind = "prestage" => s.op \in {"write", "stop"}
         /\ job.kind = "sleepPanel" =>
              /\ s \in {Op("powerDown"), Op("powerOff"), Op("deepSleep")}
              /\ s.op = "deepSleep" => steps' = <<>>
              /\ controller = "uc8253" => s # Op("powerDown")
<1> DEFINE left == Len(steps)
<1>1. /\ Typed /\ JobFits /\ NeverHot /\ Placed /\ steps # <<>> /\ UNCHANGED job
      /\ steps' = Tail(steps)
  BY DEF IInv, Send
<1>2. job.kind # "idle" BY <1>1 DEF JobFits
<1>3. CASE Starting
  <2>1. IsRest(InitSteps, steps) /\ InitAt(left) BY <1>1, <1>3 DEF Placed
  <2>2. /\ IsRest(InitSteps, steps)' /\ InitAt(Len(steps))'
        /\ s.op \in {"reset", "setup", "write", "stop"}
        /\ s.op = "reset" => Untouched({"setup"})'
        /\ s.op # "reset" => ~chip.asleep /\ ~chip.power
        /\ controller = "uc8253" => StopFollows(s)
    BY <1>1, <2>1, InitSent
  <2>3. Placed' BY <2>2, <1>1, <1>3 DEF Placed, Starting, Flushing, Framing
  <2> QED BY <2>2, <2>3, <1>2, <1>3 DEF Starting, Flushing, Framing
<1>4. CASE Flushing
  <2>1. PICK pump \in BOOLEAN : /\ IsRest(FlushSteps(job.image, job.mode, staged, pump), steps)
                                /\ FlushAt(left, pump)
    BY <1>1, <1>4 DEF Placed
  <2> DEFINE plan == FlushSteps(job.image, job.mode, staged, pump)
  <2>2. /\ IsRest(FlushSteps(job.image, job.mode, staged, pump), steps)'
        /\ FlushAt(Len(steps), pump)'
    BY <1>1, <1>4, <2>1, FlushSent
  <2>3. /\ Proper(s, left)
        /\ controller = "uc8253" /\ s.op = "write" /\ s.plane = "old" =>
             left > 1 /\ plan[Len(plan) - (left - 1) + 1] = Op("stop")
    BY <1>1, <1>4, <2>1, FlushNext
  <2>4. controller = "uc8253" => StopFollows(s)
    <3>1. /\ IsRest(plan, Tail(steps)) /\ Len(Tail(steps)) = left - 1 /\ left \in Nat
          /\ Tail(steps) \in Seq(Step)
      BY <1>1, <2>1, NextOfPlan DEF Typed
    <3> HIDE DEF plan, left
    <3>2. left > 1 => /\ Tail(steps) # <<>>
                      /\ Head(Tail(steps)) = plan[Len(plan) - (left - 1) + 1]
      <4>1. left > 1 => Tail(steps) # <<>>
        <5>1. Len(<<>>) = 0 OBVIOUS
        <5>2. Tail(steps) = <<>> => Len(Tail(steps)) = 0 BY <5>1, Zenon
        <5> QED BY ONLY <3>1, <5>2
      <4>2. Tail(steps) # <<>> => Head(Tail(steps)) = plan[Len(plan) - Len(Tail(steps)) + 1]
        BY <3>1, NextOfPlan
      <4> QED BY <4>1, <4>2, <3>1
    <3> QED BY <2>3, <3>2, <1>1 DEF StopFollows, Op
  <2>5. Placed' BY <2>2, <1>1, <1>4 DEF Placed, Starting, Flushing, Framing
  <2> QED BY <2>3, <2>4, <2>5, <1>2, <1>4 DEF Starting, Flushing, Framing
<1>5. CASE job.kind = "prestage"
  <2>1. IsRest(PrestageSteps(job.image), steps) /\ PrestageAt(left) BY <1>1, <1>5 DEF Placed
  <2>2. /\ IsRest(PrestageSteps(job.image), steps)' /\ PrestageAt(Len(steps))'
        /\ s.op \in {"write", "stop"}
        /\ controller = "uc8253" => StopFollows(s)
    BY <1>1, <1>5, <2>1, PrestageSent
  <2>3. Placed' BY <2>2, <1>1, <1>5 DEF Placed, Starting, Flushing, Framing
  <2> QED BY <2>2, <2>3, <1>2, <1>5 DEF Starting, Flushing, Framing
<1>6. CASE job.kind = "sleepPanel"
  <2>1. PICK pump \in BOOLEAN : IsRest(SleepSteps(pump), steps) BY <1>1, <1>6 DEF Placed
  <2>2. SleepAt(left) BY <1>1, <1>6 DEF Placed
  <2>3. /\ IsRest(SleepSteps(pump), steps)' /\ SleepAt(Len(steps))'
        /\ s \in {Op("powerDown"), Op("powerOff"), Op("deepSleep")}
        /\ s.op = "deepSleep" => steps' = <<>>
        /\ controller = "uc8253" => s # Op("powerDown")
    BY <1>1, <1>6, <2>1, <2>2, SleepSent
  <2>4. Placed' BY <2>3, <1>1, <1>6 DEF Placed, Starting, Flushing, Framing
  <2>5. controller = "uc8253" => StopFollows(s) BY <2>3 DEF StopFollows, Op
  <2> QED BY <2>3, <2>4, <2>5, <1>2, <1>6 DEF Starting, Flushing, Framing
<1>7. job.kind \in Kind BY <1>1 DEF Typed, JobRecord
<1> QED BY <1>2, <1>3, <1>4, <1>5, <1>6, <1>7 DEF Kind, Starting, Flushing, Framing

LEMMA SendFacts ==
  ASSUME Typed, Send, NEW s, s = Head(steps)
  PROVE  /\ steps # <<>> /\ s \in Step /\ chip \in Chip /\ chip' = Effect(s)
         /\ chip.asleep => ~(IsBusy(s) /\ controller = "uc8253")
         /\ CountRefresh(s) /\ since' = (IF s.op = "reset" THEN {} ELSE since)
         /\ powered' = (CASE s.op = "powerOn" -> TRUE [] s.op = "powerOff" -> FALSE [] OTHER -> powered)
         /\ Len(steps') = Len(steps) - 1 /\ steps' \in Seq(Step) /\ Len(steps) \in Nat
         /\ UNCHANGED <<controller, planner, prev, staged, job, faults>>
         /\ controller \in {"ssd1677", "uc8253"}
BY ControllersAssumption DEF Typed, Send, belief

LEMMA SendPowerKept ==
  ASSUME IInv, Send
  PROVE  PowerKept'
<1> DEFINE s == Head(steps)
<1>1. Typed /\ PowerKept /\ JobFits BY DEF IInv
<1>2. /\ s \in Step /\ chip \in Chip /\ chip' = Effect(s) /\ controller \in {"ssd1677", "uc8253"}
      /\ since' = (IF s.op = "reset" THEN {} ELSE since) /\ UNCHANGED <<planner, job>>
  BY <1>1, SendFacts
<1>3. /\ Flushing => Proper(s, Len(steps))
      /\ job.kind = "prestage" => s.op \in {"write", "stop"}
  BY SendPlaced
<1> HIDE DEF s
<1>4. CASE Flushing \/ job.kind = "prestage"
  <2>1. s.op \notin {"reset", "deepSleep", "powerOff", "powerDown"} BY <1>2, <1>3, <1>4 DEF Proper
  <2>2. chip'.asleep = chip.asleep /\ (chip.power => chip'.power) BY <2>1, <1>2, ChipSent
  <2> QED BY <2>1, <2>2, <1>1, <1>2 DEF PowerKept, Framing
<1>5. CASE ~Flushing /\ job.kind # "prestage"
  <2>1. Starting \/ job.kind = "sleepPanel"
    BY <1>1, <1>5, SendPlaced DEF Typed, JobRecord, Kind, Flushing, Framing, Starting
  <2> QED BY <2>1, <1>1, <1>2, <1>5 DEF PowerKept, Flushing, Framing, JobFits
<1> QED BY <1>4, <1>5

LEMMA SendNeverHot ==
  ASSUME IInv, Send
  PROVE  NeverHot'
<1> DEFINE s == Head(steps)
<1>1. Typed /\ NeverHot BY DEF IInv
<1>2. s \in Step /\ chip \in Chip /\ chip' = Effect(s) /\ UNCHANGED controller BY <1>1, SendFacts
<1>3. controller = "uc8253" => s.op # "heat"
  BY <1>1, SendPlaced DEF Proper, Typed, JobRecord, Kind, Flushing, Framing, Starting, Op
<1> HIDE DEF s
<1> QED BY <1>1, <1>2, <1>3, ChipSent DEF NeverHot

\* The next command of each kind of job.
LEMMA HeadKinds ==
  ASSUME Typed, JobFits, NeverHot, Placed, steps # <<>>, NEW s, s = Head(steps)
  PROVE  /\ Starting => s.op \in {"reset", "setup", "write", "stop"}
         /\ Flushing => Proper(s, Len(steps))
         /\ job.kind = "prestage" => s.op \in {"write", "stop"}
         /\ job.kind = "sleepPanel" => s.op \in {"powerDown", "powerOff", "deepSleep"}
         /\ Starting \/ Flushing \/ job.kind \in {"prestage", "sleepPanel"}
<1> DEFINE left == Len(steps)
<1>1. controller \in {"ssd1677", "uc8253"} BY ControllersAssumption DEF Typed
<1>2. ASSUME Starting PROVE s.op \in {"reset", "setup", "write", "stop"}
  <2>1. IsRest(InitSteps, steps) BY <1>2 DEF Placed
  <2>2. PICK k \in 1 .. Len(InitSteps) : s = InitSteps[k]
    <3>1. /\ left \in 1 .. Len(InitSteps) /\ s = InitSteps[Len(InitSteps) - left + 1]
          /\ Len(InitSteps) \in Nat
      BY <2>1, NextOfPlan DEF IsRest
    <3> HIDE DEF left
    <3> QED BY <3>1
  <2>3. CASE controller = "ssd1677"
    <3>1. Len(InitSteps) = 2 BY <2>3, InitPlan
    <3>2. k \in {1, 2} BY ONLY <3>1, k \in 1 .. Len(InitSteps)
    <3> QED BY <2>2, <3>2, InitPlan DEF Op
  <2>4. CASE controller # "ssd1677"
    <3>1. Len(InitSteps) = 6 BY <2>4, InitPlan
    <3>2. k \in {1, 2, 3, 4, 5, 6} BY ONLY <3>1, k \in 1 .. Len(InitSteps)
    <3> QED BY <2>2, <2>4, <3>2, InitPlan DEF Op, Write
  <2> QED BY <2>3, <2>4
<1>3. ASSUME Flushing PROVE Proper(s, left)
  <2>1. PICK pump \in BOOLEAN : /\ IsRest(FlushSteps(job.image, job.mode, staged, pump), steps)
                                /\ FlushAt(left, pump)
    BY <1>3 DEF Placed
  <2> QED BY <1>3, <2>1, FlushNext
<1>4. ASSUME job.kind = "prestage" PROVE s.op \in {"write", "stop"}
  <2>1. IsRest(PrestageSteps(job.image), steps) /\ job.image \in Image
    BY <1>4 DEF Placed, JobFits, Typed
  <2>2. /\ left \in 1 .. Len(PrestageSteps(job.image))
        /\ s = PrestageSteps(job.image)[Len(PrestageSteps(job.image)) - left + 1]
    BY <2>1, NextOfPlan
  <2> HIDE DEF left
  <2>3. s = Write("old", job.image) \/ s = Op("stop") BY <2>1, <2>2, PrestagePlan
  <2> QED BY <2>3 DEF Write, Op
<1>5. ASSUME job.kind = "sleepPanel" PROVE s.op \in {"powerDown", "powerOff", "deepSleep"}
  <2>1. PICK pump \in BOOLEAN : IsRest(SleepSteps(pump), steps) BY <1>5 DEF Placed
  <2>2. left \in 1 .. Len(SleepSteps(pump)) /\ s = SleepSteps(pump)[Len(SleepSteps(pump)) - left + 1]
    BY <2>1, NextOfPlan
  <2> HIDE DEF left
  <2>3. s \in {Op("powerDown"), Op("powerOff"), Op("deepSleep")} BY <2>2, SleepPlan
  <2> QED BY <2>3 DEF Op
<1>6. Starting \/ Flushing \/ job.kind \in {"prestage", "sleepPanel"}
  BY DEF Typed, JobFits, JobRecord, Kind, Flushing, Framing, Starting
<1> QED BY <1>2, <1>3, <1>4, <1>5, <1>6

\* Only a sleep sends the deep sleep.
OnlySleeps ==
  Typed /\ JobFits /\ NeverHot /\ Placed /\ Untouched({"deepSleep"}) => job.kind = "sleepPanel"

LEMMA DeepSleepIsSleep == OnlySleeps
<1> SUFFICES ASSUME Typed, JobFits, NeverHot, Placed, Untouched({"deepSleep"})
             PROVE  job.kind = "sleepPanel"
  BY DEF OnlySleeps
<1>1. steps # <<>> /\ Head(steps).op = "deepSleep" BY DEF Untouched
<1>2. controller \in {"ssd1677", "uc8253"} BY ControllersAssumption DEF Typed
<1> QED BY <1>1, <1>2, HeadKinds DEF Proper

LEMMA SendOrderly ==
  ASSUME IInv, Send, Typed', JobFits', NeverHot'
  PROVE  Orderly'
<1> DEFINE s == Head(steps)
<1>1. Typed /\ Orderly /\ NeverHot BY DEF IInv
<1>2. /\ steps # <<>> /\ s \in Step /\ chip \in Chip /\ chip' = Effect(s)
      /\ controller \in {"ssd1677", "uc8253"}
      /\ chip.asleep => ~(IsBusy(s) /\ controller = "uc8253")
      /\ since' = (IF s.op = "reset" THEN {} ELSE since) /\ UNCHANGED <<controller, planner, job>>
      /\ powered' = (CASE s.op = "powerOn" -> TRUE [] s.op = "powerOff" -> FALSE [] OTHER -> powered)
  BY <1>1, SendFacts
<1>3. /\ job.kind # "idle" /\ Placed'
      /\ controller = "uc8253" => StopFollows(s)
      /\ Starting => /\ s.op \in {"reset", "setup", "write", "stop"}
                     /\ s.op = "reset" => Untouched({"setup"})'
                     /\ s.op # "reset" => ~chip.asleep
      /\ Flushing => Proper(s, Len(steps))
      /\ job.kind = "prestage" => s.op \in {"write", "stop"}
      /\ job.kind = "sleepPanel" =>
           /\ s \in {Op("powerDown"), Op("powerOff"), Op("deepSleep")}
           /\ s.op = "deepSleep" => steps' = <<>>
           /\ controller = "uc8253" => s # Op("powerDown")
  BY SendPlaced
<1>4. \/ Starting \/ Flushing \/ job.kind \in {"prestage", "sleepPanel"}
  BY <1>1, <1>3 DEF Typed, JobRecord, Kind, Flushing, Framing, Starting
<1>5. \A ops : Untouched(ops) => s.op \in ops BY DEF Untouched
<1> HIDE DEF s
<1>6. SUFFICES ASSUME since' = {} PROVE Orderly' BY DEF Orderly
<1>7. CASE s.op = "reset"
  <2>1. Starting /\ Untouched({"setup"})'
    BY <1>2, <1>3, <1>4, <1>7 DEF Proper, Op
  <2>2. ~chip'.power /\ ~chip'.stop BY <1>2, <1>7, ChipSent
  <2> QED BY <2>1, <2>2, <1>2 DEF Orderly, Untouched, Starting
<1>8. CASE s.op # "reset"
  <2>1. since = {} BY <1>2, <1>6, <1>8
  <2>2. /\ ~chip.ready => Starting /\ s.op = "setup"
        /\ chip.stop => s.op = "stop" /\ ~chip.asleep
        /\ controller = "uc8253" /\ chip.power => powered
    BY <2>1, <1>1, <1>5, <1>8 DEF Orderly
  <2>3. chip'.ready
    BY <2>2, <1>2, <1>3, <1>8, ChipSent
  <2>4. chip'.stop => Untouched({"stop"})' /\ ~chip'.asleep
    <3>1. chip'.stop => s.op = "write" /\ s.plane = "old" /\ controller = "uc8253" /\ ~chip.asleep
      BY <2>2, <1>2, ChipSent
    <3>2. chip'.stop => ~chip'.asleep BY <3>1, <1>2, ChipSent
    <3> QED BY <3>1, <3>2, <1>3 DEF StopFollows, Untouched
  <2>5. s.op = "powerOff" /\ controller = "uc8253" => ~chip'.power
    <3>1. s.op = "powerOff" => IsBusy(s) BY DEF IsBusy
    <3> QED BY <3>1, <1>2, ChipSent
  <2>6. controller = "uc8253" => s.op # "activate" /\ s.op # "powerDown"
    BY <1>3, <1>4 DEF Proper, Op
  <2>7. controller = "uc8253" /\ chip'.power => powered'
    BY <2>2, <2>5, <2>6, <1>2, <1>8, ChipSent
  <2>8. controller = "uc8253" /\ Untouched({"deepSleep"})' => ~chip'.power
    <3>1. SUFFICES ASSUME controller = "uc8253", Untouched({"deepSleep"})' PROVE ~chip'.power
      OBVIOUS
    <3>2. OnlySleeps' BY DeepSleepIsSleep, PTL
    <3>3. job.kind = "sleepPanel" BY <3>1, <3>2, <1>2, <1>3 DEF OnlySleeps
    <3>4. steps' # <<>> BY <3>1 DEF Untouched
    <3>5. s.op = "powerOff" BY <3>1, <3>3, <3>4, <1>3 DEF Op
    <3> QED BY <3>1, <3>5, <2>5
  <2> QED BY <2>3, <2>4, <2>7, <2>8, <1>2 DEF Orderly
<1> QED BY <1>7, <1>8

LEMMA SendCounted ==
  ASSUME IInv, Send
  PROVE  Counted'
<1> DEFINE s == Head(steps)
           left == Len(steps)
<1>1. Typed /\ Counted /\ PowerKept /\ JobFits BY DEF IInv
<1>2. /\ steps # <<>> /\ CountRefresh(s) /\ Len(steps') = left - 1 /\ left \in Nat /\ s \in Step
      /\ steps' \in Seq(Step)
      /\ since' = (IF s.op = "reset" THEN {} ELSE since)
      /\ UNCHANGED <<controller, planner, job, faults>>
      /\ controller \in {"ssd1677", "uc8253"}
  BY <1>1, SendFacts
<1>3. /\ job.kind # "idle"
      /\ Starting => s.op \in {"reset", "setup", "write", "stop"}
      /\ Flushing => Proper(s, left)
      /\ job.kind = "prestage" => s.op \in {"write", "stop"}
      /\ job.kind = "sleepPanel" => s \in {Op("powerDown"), Op("powerOff"), Op("deepSleep")}
  BY SendPlaced
<1>4. \/ Starting \/ Flushing \/ job.kind \in {"prestage", "sleepPanel"}
  BY <1>1, <1>3 DEF Typed, JobRecord, Kind, Flushing, Framing, Starting
<1>5. /\ streak \in Nat /\ faults \in Nat /\ planner.fasts \in Nat
  BY <1>1, IntervalAssumption DEF Typed
<1>6. left = 1 => steps' = <<>> BY <1>2
<1> HIDE DEF s, left
<1>7. IsRefresh(s) => Flushing BY <1>3, <1>4 DEF IsRefresh, Op
<1>8. ~Starting => s.op # "reset" BY <1>2, <1>3, <1>4 DEF Proper, Op
<1>9. SUFFICES ASSUME "sleep" \notin since'
               PROVE  /\ planner.on /\ planner.fasts < Interval =>
                           streak' <= planner.fasts + faults + Uncounted'
                      /\ Framing /\ job.mode # "fast" /\ Shown(left - 1) => streak' = 0
  BY <1>2 DEF Counted, Framing, Shown
<1>10. ASSUME planner.on, planner.fasts < Interval
       PROVE  streak' <= planner.fasts + faults + Uncounted'
  <2>1. ~Starting /\ "sleep" \notin since BY <1>1, <1>2, <1>8, <1>9, <1>10 DEF JobFits
  <2>2. streak <= planner.fasts + faults
    BY <2>1, <1>1, <1>2, <1>5, <1>10 DEF Counted, Uncounted
  <2>3. Uncounted' \in {0, 1} BY DEF Uncounted
  <2>4. CASE ~IsRefresh(s) \/ job.mode # "fast"
    <3>1. streak' \in {0, streak} BY <2>4, <1>2, <1>5 DEF CountRefresh, Absolute
    <3> QED BY <3>1, <2>2, <2>3, <1>5
  <2>5. CASE IsRefresh(s) /\ job.mode = "fast"
    <3>1. left = 1 BY <2>5, <1>3, <1>7 DEF Proper, Drives
    <3>2. Framing BY <2>5, <1>1, <1>7 DEF Flushing, JobFits
    <3>3. Uncounted' = 1 BY <3>1, <3>2, <2>5, <1>2, <1>6 DEF Uncounted, Framing
    <3>4. streak' \in {0, streak, streak + 1} BY <1>2, <1>5 DEF CountRefresh
    <3> QED BY <3>3, <3>4, <2>2, <1>5
  <2> QED BY <2>4, <2>5
<1>11. ASSUME Framing, job.mode # "fast", Shown(left - 1)
       PROVE  streak' = 0
  <2>1. Flushing /\ ~Starting BY <1>11 DEF Flushing, Framing, Starting
  <2>2. Proper(s, left) /\ "sleep" \notin since BY <2>1, <1>2, <1>3, <1>8, <1>9
  <2>3. CASE Shown(left)
    <3>1. streak = 0 BY <2>2, <2>3, <1>1, <1>11 DEF Counted, left
    <3> QED BY <3>1, <1>2, <1>11 DEF CountRefresh
  <2>4. CASE ~Shown(left)
    <3>1. IsRefresh(s) /\ Drives(s, left) BY <2>2, <2>4, <1>11 DEF Proper
    <3>2. ~chip.asleep /\ (planner.on => chip.power) BY <2>2, <1>1, <1>11 DEF PowerKept, Framing
    <3>3. PumpOn(s) /\ ModeOf(s) # "fast"
      <4>1. planner.on => PumpOn(s) BY <3>2 DEF PumpOn
      <4> QED BY <4>1, <3>1, <3>2, <2>4, <1>11 DEF Drives
    <3> QED BY <3>1, <3>2, <3>3, <1>2 DEF CountRefresh, Absolute
  <2> QED BY <2>3, <2>4
<1> QED BY <1>10, <1>11

LEMMA SendIInv ==
  ASSUME IInv, Send
  PROVE  IInv'
<1>1. Typed /\ PlannerFits /\ JobFits /\ job.kind # "idle" BY SendPlaced DEF IInv
<1>2. steps # <<>> /\ UNCHANGED <<controller, planner, prev, staged, job>> BY <1>1, SendFacts
<1>3. Typed' BY <1>1, SendTyped
<1>4. PlannerFits' BY <1>1, <1>2 DEF PlannerFits
<1>5. JobFits' BY <1>1, <1>2 DEF JobFits, Starting, Framing
<1>6. AtRest' BY <1>1, <1>2 DEF AtRest
<1>7. Placed' BY SendPlaced
<1>8. PowerKept' /\ NeverHot' /\ Counted' BY SendPowerKept, SendNeverHot, SendCounted
<1>9. Orderly' BY <1>3, <1>5, <1>8, SendOrderly
<1> QED BY <1>3, <1>4, <1>5, <1>6, <1>7, <1>8, <1>9 DEF IInv
-----------------------------------------------------------------------------
(* A command fails.                                                        *)

LEMMA RemainsFacts ==
  ASSUME chip \in Chip, NEW s \in Step, NEW rest \in Remains(s)
  PROVE  /\ rest \in Chip
         /\ rest.asleep \in {chip.asleep, Effect(s).asleep}
         /\ rest.power \in {chip.power, Effect(s).power}
         /\ rest.hot \in {chip.hot, Effect(s).hot}
<1>1. Effect(s) \in Chip /\ Ghost \in Image BY EffectTypes DEF Image
<1>2. CASE rest \in {chip, Effect(s)} BY <1>1, <1>2
<1>3. CASE s.op = "write" /\ rest = [Effect(s) EXCEPT ![s.plane] = Ghost]
  <2>1. s.plane \in {"old", "new"} BY <1>3, StepForms
  <2>2. rest = [Effect(s) EXCEPT !.old = Ghost] \/ rest = [Effect(s) EXCEPT !.new = Ghost]
    BY <2>1, <1>3
  <2> QED BY <2>2, <1>1 DEF Chip
<1>4. CASE rest = [Effect(s) EXCEPT !.shown = Ghost] BY <1>1, <1>4 DEF Chip
<1> QED BY <1>2, <1>3, <1>4 DEF Remains

LEMMA EffectKeeps ==
  ASSUME chip \in Chip, NEW s \in Step
  PROVE  /\ s.op \notin {"reset", "deepSleep", "powerOff", "powerDown"} /\ ~chip.asleep /\ chip.power =>
              ~Effect(s).asleep /\ Effect(s).power
         /\ Effect(s).hot => chip.hot \/ s.op = "heat"
<1>1. CASE chip.asleep /\ s.op # "reset" BY <1>1, Unheard
<1>2. CASE s.op = "reset"
  <2>1. s = Op("reset") BY <1>2, StepForms
  <2> QED BY <2>1, <1>2, Reset
<1>3. CASE ~chip.asleep /\ s.op = "setup"
  <2>1. s = Op("setup") BY <1>3, StepForms
  <2>2. Effect(s) = [chip EXCEPT !.ready = TRUE,
                      !.old = IF controller = "ssd1677" THEN White ELSE @,
                      !.new = IF controller = "ssd1677" THEN White ELSE @]
    BY <2>1, <1>3, Heard
  <2> QED BY <2>2, <1>3 DEF Chip
<1>4. CASE ~chip.asleep /\ s.op \in {"write", "bank"}
  <2>1. /\ Effect(Write("new", s.image)) = [chip EXCEPT !.new = s.image]
        /\ Effect(Write("old", s.image)) = [chip EXCEPT !.old = s.image, !.stop = controller = "uc8253"]
        /\ Effect(Bank(s.mode)) = [chip EXCEPT !.bank = s.mode]
    BY <1>4, Heard
  <2>2. s \in {Write("new", s.image), Write("old", s.image), Bank(s.mode)} BY <1>4, StepForms
  <2>3. CASE s = Write("new", s.image)
    <3>1. Effect(s) = [chip EXCEPT !.new = s.image] BY <2>1, <2>3
    <3> QED BY <3>1, <1>4 DEF Chip
  <2>4. CASE s = Write("old", s.image)
    <3>1. Effect(s) = [chip EXCEPT !.old = s.image, !.stop = controller = "uc8253"] BY <2>1, <2>4
    <3> QED BY <3>1, <1>4 DEF Chip
  <2>5. CASE s = Bank(s.mode)
    <3>1. Effect(s) = [chip EXCEPT !.bank = s.mode] BY <2>1, <2>5
    <3> QED BY <3>1, <1>4 DEF Chip
  <2> QED BY <2>2, <2>3, <2>4, <2>5
<1>5. CASE ~chip.asleep /\ IsRefresh(s)
  <2>1. Effect(s) = [chip EXCEPT !.power = PumpOn(s), !.hot = @ /\ ModeOf(s) # "full",
                       !.shown = IF PumpOn(s) THEN Drive(ModeOf(s)) ELSE @]
    BY <1>5, Refreshed
  <2>2. chip.power => PumpOn(s) BY DEF PumpOn
  <2> QED BY <2>1, <2>2, <1>5 DEF Chip
<1>6. CASE ~chip.asleep /\ s.op \notin {"reset", "write", "bank", "setup", "activate", "refresh"}
  <2>1. s = Op(s.op) /\ s.op \in {"stop", "heat", "loadTemp", "powerOn", "powerOff", "powerDown", "deepSleep"}
    BY <1>6, StepForms DEF Commands
  <2>2. /\ s.op = "stop" => Effect(s) = [chip EXCEPT !.stop = FALSE]
        /\ s.op = "heat" => Effect(s) = [chip EXCEPT !.hot = TRUE]
        /\ s.op = "loadTemp" => Effect(s) = [chip EXCEPT !.hot = FALSE]
        /\ s.op = "powerOn" => Effect(s) = [chip EXCEPT !.power = TRUE]
        /\ s.op \in {"powerOff", "powerDown"} => Effect(s) = [chip EXCEPT !.power = FALSE]
        /\ s.op = "deepSleep" => Effect(s) = [chip EXCEPT !.asleep = TRUE]
    BY <2>1, <1>6, Heard
  <2> QED BY <2>1, <2>2, <1>6 DEF Chip
<1> QED BY <1>1, <1>2, <1>3, <1>4, <1>5, <1>6 DEF IsRefresh

LEMMA FailFacts ==
  ASSUME Typed, Fail, NEW s, s = Head(steps)
  PROVE  /\ steps # <<>> /\ s \in Step /\ chip \in Chip /\ chip' \in Remains(s)
         /\ \/ faults' = faults + 1
            \/ faults' = faults /\ chip.asleep
         /\ faults' \in 0 .. MaxFaults /\ faults \in Nat
         /\ CountRefresh(s) /\ FailJob /\ upset' = TRUE
         /\ since' = since \union {FaultOf(job.kind)}
         /\ UNCHANGED <<controller, powered>>
         /\ controller \in {"ssd1677", "uc8253"}
<1>1. /\ steps # <<>> /\ s \in Step /\ chip \in Chip /\ faults \in 0 .. MaxFaults
      /\ MaxFaults \in Nat /\ controller \in {"ssd1677", "uc8253"}
  BY IntervalAssumption, ControllersAssumption DEF Typed, Fail
<1>2. /\ faults < MaxFaults \/ (chip.asleep /\ IsBusy(s))
      /\ faults' = IF chip.asleep /\ IsBusy(s) THEN faults ELSE faults + 1
      /\ chip' \in Remains(s) /\ CountRefresh(s)
  BY DEF Fail
<1>3. /\ FailJob /\ upset' = TRUE /\ since' = since \union {FaultOf(job.kind)}
      /\ UNCHANGED <<controller, powered>>
  BY DEF Fail
<1> QED BY <1>1, <1>2, <1>3

\* What becomes of the job, by its kind.
LEMMA FailJobFacts ==
  ASSUME IInv, Fail
  PROVE  /\ planner' = planner /\ staged' \in BOOLEAN /\ job.kind # "idle"
         /\ job.kind = "boot" => /\ UNCHANGED <<prev, staged, job>> /\ steps' = InitSteps
         /\ job.kind \in {"wake", "render", "prestage", "plate"} =>
              prev' = prev /\ job' = Idle /\ steps' = <<>>
         /\ job.kind = "sleepFrame" =>
              /\ prev' = prev /\ staged' = FALSE /\ steps' = SleepSteps(powered)
              /\ job' = [job EXCEPT !.kind = "sleepPanel", !.settled = FALSE]
         /\ job.kind = "sleepPanel" => prev' = prev /\ job' = Idle /\ steps' = <<>>
<1>1. Typed /\ JobFits /\ steps # <<>> /\ FailJob BY DEF IInv, Fail
<1>2. job.kind \in Kind \ {"idle"} /\ staged \in BOOLEAN BY <1>1 DEF Typed, JobRecord, JobFits
<1>3. CASE job.kind = "boot" BY <1>1, <1>2, <1>3 DEF FailJob, belief
<1>4. CASE job.kind \in {"wake", "render", "prestage"} BY <1>1, <1>2, <1>4 DEF FailJob
<1>5. CASE job.kind \in {"plate", "sleepPanel"} BY <1>1, <1>2, <1>5 DEF FailJob, belief
<1>6. CASE job.kind = "sleepFrame"
  <2>1. PowerDownPanel(FALSE) BY <1>1, <1>6 DEF FailJob
  <2> QED BY <2>1, <1>6 DEF PowerDownPanel
<1> QED BY <1>2, <1>3, <1>4, <1>5, <1>6 DEF Kind

LEMMA IdleFacts ==
  /\ Idle \in JobRecord /\ Idle.kind = "idle" /\ Idle.mode = "full"
BY DEF Idle, Job, JobRecord, Kind, Mode

LEMMA InitStepsFacts ==
  ASSUME Typed
  PROVE  /\ InitSteps \in Seq(Step) /\ InitSteps # <<>> /\ Head(InitSteps) = Op("reset")
         /\ IsRest(InitSteps, InitSteps)
<1>1. InitSteps \in Seq(Step) /\ InitSteps[1] = Op("reset") /\ Len(InitSteps) > 0 BY InitPlan
<1> QED BY <1>1, WholePlan

LEMMA SleepStepsFacts ==
  ASSUME Typed, NEW pump \in BOOLEAN
  PROVE  /\ SleepSteps(pump) \in Seq(Step) /\ SleepSteps(pump) # <<>>
         /\ Len(SleepSteps(pump)) > 0
         /\ controller = "uc8253" /\ Head(SleepSteps(pump)).op = "deepSleep" => ~pump
         /\ IsRest(SleepSteps(pump), SleepSteps(pump))
<1>1. /\ SleepSteps(pump) \in Seq(Step) /\ Len(SleepSteps(pump)) > 0
      /\ controller = "uc8253" /\ pump => SleepSteps(pump)[1] = Op("powerOff")
  BY SleepPlan
<1>2. Head(SleepSteps(pump)) = SleepSteps(pump)[1] /\ SleepSteps(pump) # <<>> BY <1>1
<1>3. IsRest(SleepSteps(pump), SleepSteps(pump)) BY <1>1, WholePlan
<1> QED BY <1>1, <1>2, <1>3 DEF Op

LEMMA FailIInv ==
  ASSUME IInv, Fail
  PROVE  IInv'
<1> DEFINE s == Head(steps)
<1>1. Typed /\ PlannerFits /\ JobFits /\ PowerKept /\ NeverHot /\ Counted /\ Placed
  BY DEF IInv
<1>2. /\ steps # <<>> /\ s \in Step /\ chip \in Chip /\ chip' \in Remains(s)
      /\ \/ faults' = faults + 1
         \/ faults' = faults /\ chip.asleep
      /\ faults' \in 0 .. MaxFaults /\ faults \in Nat
      /\ CountRefresh(s) /\ upset' = TRUE
      /\ since' = since \union {FaultOf(job.kind)}
      /\ UNCHANGED <<controller, powered>>
      /\ controller \in {"ssd1677", "uc8253"}
  BY <1>1, FailFacts
<1>3. /\ planner' = planner /\ staged' \in BOOLEAN /\ job.kind # "idle"
      /\ job.kind = "boot" => /\ UNCHANGED <<prev, staged, job>> /\ steps' = InitSteps
      /\ job.kind \in {"wake", "render", "prestage", "plate"} =>
           prev' = prev /\ job' = Idle /\ steps' = <<>>
      /\ job.kind = "sleepFrame" =>
           /\ prev' = prev /\ staged' = FALSE /\ steps' = SleepSteps(powered)
           /\ job' = [job EXCEPT !.kind = "sleepPanel", !.settled = FALSE]
      /\ job.kind = "sleepPanel" => prev' = prev /\ job' = Idle /\ steps' = <<>>
  BY FailJobFacts
<1>4. /\ Flushing => Proper(s, Len(steps))
      /\ job.kind = "prestage" => s.op \in {"write", "stop"}
      /\ Starting \/ job.kind = "sleepPanel" => ~IsRefresh(s)
      /\ controller = "uc8253" => s.op # "heat"
  <2>1. /\ Starting => s.op \in {"reset", "setup", "write", "stop"}
        /\ Flushing => Proper(s, Len(steps))
        /\ job.kind = "prestage" => s.op \in {"write", "stop"}
        /\ job.kind = "sleepPanel" => s.op \in {"powerDown", "powerOff", "deepSleep"}
        /\ Starting \/ Flushing \/ job.kind \in {"prestage", "sleepPanel"}
    BY <1>1, <1>2, HeadKinds
  <2> HIDE DEF s
  <2> QED BY <2>1 DEF Proper, IsRefresh
<1>5. job \in JobRecord /\ job.kind \in Kind \ {"idle"} BY <1>1, <1>3 DEF Typed, JobRecord
<1> HIDE DEF s
<1>6. Typed'
  <2>1. chip' \in Chip BY <1>2, RemainsFacts
  <2>2. job' \in JobRecord /\ prev' \in Image /\ steps' \in Seq(Step)
    <3>1. powered \in BOOLEAN /\ prev \in Image BY <1>1 DEF Typed
    <3>2. <<>> \in Seq(Step) OBVIOUS
    <3>3. CASE job.kind = "sleepFrame"
      <4>1. job' \in JobRecord BY <3>3, <1>3, <1>5 DEF JobRecord, Kind
      <4> QED BY <3>1, <3>3, <4>1, <1>1, <1>3, SleepStepsFacts
    <3> QED BY <3>1, <3>2, <3>3, <1>1, <1>3, <1>5, IdleFacts, InitStepsFacts DEF Kind
  <2>3. since' \in SUBSET {"init", "flush", "sleep"} BY <1>1, <1>2 DEF Typed, FaultOf
  <2>4. streak' \in Nat BY <1>1, <1>2 DEF CountRefresh, Typed
  <2> QED BY <2>1, <2>2, <2>3, <2>4, <1>1, <1>2, <1>3 DEF Typed
<1>7. job'.kind = CASE job.kind = "boot" -> "boot" [] job.kind = "sleepFrame" -> "sleepPanel"
                    [] OTHER -> "idle"
  BY <1>3, <1>5, IdleFacts DEF JobRecord, Kind
<1>8. PlannerFits' BY <1>1, <1>3 DEF PlannerFits
<1>9. JobFits'
  BY <1>1, <1>3, <1>5, <1>7 DEF JobFits, Starting, Framing, Kind
<1>10. Placed'
  <2>1. CASE job.kind = "boot"
    <3>1. IsRest(InitSteps, steps)'
      <4>1. InitSteps' = InitSteps BY <1>2 DEF InitSteps
      <4> QED BY <4>1, <2>1, <1>1, <1>3, InitStepsFacts DEF IsRest
    <3>2. InitAt(Len(steps))'
      <4>1. InitSteps' = InitSteps BY <1>2 DEF InitSteps
      <4>2. Len(steps)' = Len(InitSteps)' /\ Len(steps)' \in Nat
        BY <4>1, <2>1, <1>1, <1>3, InitStepsFacts
      <4> QED BY <4>2 DEF InitAt
    <3> QED BY <3>1, <3>2, <2>1, <1>7 DEF Placed, Starting, Flushing, Framing
  <2>2. CASE job.kind = "sleepFrame"
    <3>1. powered \in BOOLEAN BY <1>1 DEF Typed
    <3>2. SleepSteps(powered)' = SleepSteps(powered) BY <1>2 DEF SleepSteps
    <3>3. (\E pump \in BOOLEAN : IsRest(SleepSteps(pump), steps))'
      <4>1. IsRest(SleepSteps(powered), SleepSteps(powered)) BY <3>1, <1>1, SleepStepsFacts
      <4>2. IsRest(SleepSteps(powered), steps)' BY <4>1, <3>2, <2>2, <1>3 DEF IsRest
      <4>3. powered' = powered BY <1>2
      <4> QED BY <3>1, <4>2, <4>3
    <3>4. SleepAt(Len(steps))'
      <4>1. Len(steps') # 0 BY <3>1, <2>2, <1>1, <1>3, SleepStepsFacts
      <4> QED BY <4>1, <1>2 DEF SleepAt
    <3> QED BY <3>3, <3>4, <2>2, <1>7 DEF Placed, Starting, Flushing, Framing
  <2>3. CASE job.kind \notin {"boot", "sleepFrame"}
    BY <2>3, <1>7 DEF Placed, Starting, Flushing, Framing
  <2> QED BY <2>1, <2>2, <2>3
<1>11. AtRest' BY <1>2 DEF AtRest
<1>12. PowerKept'
  <2>1. SUFFICES ASSUME "sleep" \notin since', planner.on, job'.kind # "sleepPanel"
                 PROVE  ~chip'.asleep /\ chip'.power
    BY <1>3, <1>7 DEF PowerKept, Framing
  <2>2. job.kind \in {"render", "plate", "prestage"} /\ "sleep" \notin since
    BY <2>1, <1>1, <1>2, <1>5, <1>7 DEF FaultOf, Kind, JobFits, Starting
  <2>3. ~chip.asleep /\ chip.power BY <2>1, <2>2, <1>1 DEF PowerKept
  <2>4. s.op \notin {"reset", "deepSleep", "powerOff", "powerDown"}
    BY <2>2, <1>2, <1>4 DEF Flushing, Framing, Proper
  <2>5. ~Effect(s).asleep /\ Effect(s).power BY <2>3, <2>4, <1>2, EffectKeeps
  <2> QED BY <2>3, <2>5, <1>2, RemainsFacts
<1>13. Orderly' BY <1>2 DEF Orderly
<1>14. NeverHot'
  <2>1. controller = "uc8253" => ~Effect(s).hot BY <1>1, <1>2, <1>4, EffectKeeps DEF NeverHot
  <2> QED BY <2>1, <1>1, <1>2, RemainsFacts DEF NeverHot
<1>15. Counted'
  <2>1. ~Framing' BY <1>7 DEF Framing
  <2>2. SUFFICES ASSUME "sleep" \notin since', planner.on, planner.fasts < Interval
                 PROVE  streak' <= planner.fasts + faults'
    <3>1. Uncounted' = 0 BY <2>1 DEF Uncounted
    <3>2. planner.fasts \in Nat /\ faults' \in Nat BY <1>1, <1>2, IntervalAssumption DEF Typed
    <3> QED BY <2>1, <3>1, <3>2, <1>3 DEF Counted
  <2>3. streak \in Nat /\ planner.fasts \in Nat BY <1>1, IntervalAssumption DEF Typed
  <2>4. streak <= planner.fasts + faults
    <3>1. "sleep" \notin since /\ Uncounted = 0 BY <2>2, <1>2 DEF Uncounted
    <3> QED BY <3>1, <2>2, <2>3, <1>1, <1>2 DEF Counted
  <2>5. CASE chip.asleep
    <3>1. streak' = streak BY <2>5, <1>2 DEF CountRefresh, Absolute
    <3> QED BY <3>1, <2>3, <2>4, <1>2
  <2>6. CASE ~chip.asleep
    <3>1. streak' \in {0, streak, streak + 1} BY <2>3, <1>2 DEF CountRefresh
    <3>2. faults' = faults + 1 BY <2>6, <1>2
    <3> QED BY <3>1, <3>2, <2>3, <2>4, <1>2
  <2> QED BY <2>5, <2>6
<1> QED BY <1>6, <1>8, <1>9, <1>10, <1>11, <1>12, <1>13, <1>14, <1>15 DEF IInv
-----------------------------------------------------------------------------
(* A job that begins, its whole plan to come.                              *)

InitBegins == Typed /\ Starting /\ steps = InitSteps => Placed /\ Untouched({"reset"})

LEMMA BootPlaced == InitBegins
<1> SUFFICES ASSUME Typed, Starting, steps = InitSteps PROVE Placed /\ Untouched({"reset"})
  BY DEF InitBegins
<1>1. IsRest(InitSteps, steps) /\ Untouched({"reset"}) BY InitStepsFacts DEF Untouched, Op
<1>2. InitAt(Len(steps)) BY InitStepsFacts DEF InitAt
<1> QED BY <1>1, <1>2 DEF Placed, Starting, Flushing, Framing

LEMMA WholeFlush ==
  ASSUME Typed, job.image \in Image, job.mode \in Mode, NEW pump \in BOOLEAN,
         steps = FlushSteps(job.image, job.mode, staged, pump)
  PROVE  /\ steps \in Seq(Step) /\ steps # <<>> /\ Head(steps).op \in {"write", "bank"}
         /\ IsRest(steps, steps) /\ Len(steps) \in Nat
         /\ controller = "ssd1677" =>
              Len(steps) = IF job.mode = "clean" THEN 5 ELSE IF job.mode = "fast" /\ staged THEN 2 ELSE 3
         /\ controller = "uc8253" =>
              /\ Promoted(job.mode, pump) = "full" => Len(steps) = 13
              /\ Promoted(job.mode, pump) = "fast" => Len(steps) = IF staged THEN 3 ELSE 5
              /\ Promoted(job.mode, pump) = "clean" => Len(steps) = IF pump THEN 3 ELSE 4
<1>1. staged \in BOOLEAN /\ controller \in {"ssd1677", "uc8253"}
  BY ControllersAssumption DEF Typed
<1>2. SUFFICES /\ steps \in Seq(Step) /\ Len(steps) > 0 /\ steps[1].op \in {"write", "bank"}
               /\ controller = "ssd1677" =>
                    Len(steps) = IF job.mode = "clean" THEN 5 ELSE IF job.mode = "fast" /\ staged THEN 2 ELSE 3
               /\ controller = "uc8253" =>
                    /\ Promoted(job.mode, pump) = "full" => Len(steps) = 13
                    /\ Promoted(job.mode, pump) = "fast" => Len(steps) = IF staged THEN 3 ELSE 5
                    /\ Promoted(job.mode, pump) = "clean" => Len(steps) = IF pump THEN 3 ELSE 4
  <2>1. Len(steps) > 0 => steps # <<>> /\ (steps \in Seq(Step) => Head(steps) = steps[1] /\ Len(steps) \in Nat)
    OBVIOUS
  <2> QED BY <2>1, WholePlan
<1>3. CASE controller = "ssd1677"
  <2>1. steps = SsdFlush(job.image, job.mode, staged) BY <1>3 DEF FlushSteps
  <2>2. steps \in Seq(Step) /\ steps[1] = Write("new", job.image) BY <2>1, <1>3, SsdPlan
  <2>3. Len(steps) = IF job.mode = "clean" THEN 5 ELSE IF job.mode = "fast" /\ staged THEN 2 ELSE 3
    <3>1. CASE job.mode = "clean" BY <2>1, <1>3, <3>1, SsdPlan
    <3>2. CASE job.mode = "full" BY <2>1, <1>3, <3>2, SsdPlan
    <3>3. CASE job.mode = "fast"
      <4>1. steps = IF staged THEN <<Write("new", job.image), Activate(job.mode, ~planner.on)>>
                   ELSE <<Write("new", job.image), Write("old", prev), Activate(job.mode, ~planner.on)>>
        BY <2>1, <3>3, <1>1 DEF SsdFlush
      <4> QED BY <4>1, <3>3
    <3> QED BY <3>1, <3>2, <3>3 DEF Mode
  <2>4. Len(steps) > 0 BY <2>3
  <2> QED BY <2>2, <2>3, <2>4, <1>3 DEF Write
<1>4. CASE controller = "uc8253"
  <2>1. Promoted(job.mode, pump) \in Mode BY DEF Promoted, Mode
  <2> DEFINE shown == Promoted(job.mode, pump)
  <2>2. steps = UcFlush(job.image, shown, staged, pump) BY <1>4 DEF FlushSteps
  <2> HIDE DEF shown
  <2>3. shown \in Mode BY <2>1 DEF shown
  <2>4. steps \in Seq(Step) /\ shown \in {"full", "fast", "clean"}
    <3>1. UcFlush(job.image, shown, staged, pump) \in Seq(Step) BY <2>3, UcPlan, ZenonT(30)
    <3> QED BY <3>1, <2>2, <2>3 DEF Mode
  <2>5. CASE shown = "full"
    <3>1. steps[1] = Bank("full") /\ Len(steps) = 13 BY <2>2, <2>3, <2>5, UcPlan
    <3> QED BY <3>1, <2>4, <2>5, <1>4 DEF Bank, shown
  <2>6. CASE shown = "fast"
    <3>1. steps = IF staged THEN <<Bank("fast"), Write("new", job.image), Op("refresh")>>
                 ELSE <<Bank("fast"), Write("old", prev), Op("stop"), Write("new", job.image), Op("refresh")>>
      BY <2>2, <2>6, <1>1 DEF UcFlush
    <3>2. steps[1] = Bank("fast") /\ Len(steps) = IF staged THEN 3 ELSE 5 BY <3>1, <1>1
    <3> QED BY <3>2, <2>4, <2>6, <1>1, <1>4 DEF Bank, shown
  <2>7. CASE shown = "clean"
    <3>1. steps = IF pump THEN <<Bank("clean"), Write("new", job.image), Op("refresh")>>
                 ELSE <<Bank("clean"), Write("new", job.image), Op("powerOn"), Op("refresh")>>
      BY <2>2, <2>7 DEF UcFlush
    <3>2. steps[1] = Bank("clean") /\ Len(steps) = IF pump THEN 3 ELSE 4 BY <3>1
    <3> QED BY <3>2, <2>4, <2>7, <1>4 DEF Bank, shown
  <2> QED BY <2>4, <2>5, <2>6, <2>7
<1> QED BY <1>1, <1>3, <1>4

LEMMA FlushStepsType ==
  ASSUME Typed, NEW image \in Image, NEW mode \in Mode, NEW pump \in BOOLEAN
  PROVE  FlushSteps(image, mode, staged, pump) \in Seq(Step)
<1>1. Promoted(mode, pump) \in Mode BY DEF Promoted, Mode
<1>2. UcFlush(image, Promoted(mode, pump), staged, pump) \in Seq(Step) BY <1>1, UcPlan
<1>3. controller = "ssd1677" => SsdFlush(image, mode, staged) \in Seq(Step) BY SsdPlan
<1> QED BY <1>2, <1>3 DEF FlushSteps

LEMMA FlushAtStart ==
  ASSUME Flushing, ~upset => Before, NEW pump \in BOOLEAN, pump => planner.on,
         steps = FlushSteps(job.image, job.mode, staged, pump), IsRest(steps, steps),
         NEW left, left = Len(steps), ~Shown(left),
         \/ controller = "ssd1677" /\ SsdTold(left)
         \/ /\ controller = "uc8253"
            /\ \/ Promoted(job.mode, pump) = "full" /\ UcFullTold(left)
               \/ Promoted(job.mode, pump) = "fast" /\ UcFastTold(left)
               \/ Promoted(job.mode, pump) = "clean" /\ UcCleanTold(left, pump)
  PROVE  Placed
<1>1. FlushTold(left, pump) BY DEF FlushTold
<1>2. FlushAt(left, pump) BY <1>1 DEF FlushAt, FlushPicture
<1>3. \E p \in BOOLEAN : /\ IsRest(FlushSteps(job.image, job.mode, staged, p), steps)
                         /\ FlushAt(Len(steps), p)
  BY <1>2
<1> QED BY <1>3 DEF Placed, Starting, Flushing, Framing

FlushBegins ==
  /\ Typed /\ JobFits /\ Flushing /\ (~upset => Before)
  /\ \E pump \in BOOLEAN : /\ pump => planner.on
                           /\ steps = FlushSteps(job.image, job.mode, staged, pump)
  => /\ Placed /\ steps # <<>> /\ Head(steps).op \in {"write", "bank"}
     /\ ~Shown(Len(steps))

LEMMA FlushPlaced == FlushBegins
<1> SUFFICES ASSUME Typed, JobFits, Flushing, ~upset => Before, NEW pump \in BOOLEAN,
                    pump => planner.on, steps = FlushSteps(job.image, job.mode, staged, pump)
             PROVE  /\ Placed /\ steps # <<>> /\ Head(steps).op \in {"write", "bank"}
                    /\ ~Shown(Len(steps))
  BY DEF FlushBegins
<1> DEFINE left == Len(steps)
           shown == Promoted(job.mode, pump)
<1>1. job.image \in Image /\ job.mode \in Mode /\ controller \in {"ssd1677", "uc8253"} /\ staged \in BOOLEAN
  BY FlushTypes, ControllersAssumption DEF Typed
<1>2. /\ steps # <<>> /\ Head(steps).op \in {"write", "bank"} /\ IsRest(steps, steps)
      /\ left \in Nat
      /\ controller = "ssd1677" =>
           left = IF job.mode = "clean" THEN 5 ELSE IF job.mode = "fast" /\ staged THEN 2 ELSE 3
      /\ controller = "uc8253" =>
           /\ shown = "full" => left = 13
           /\ shown = "fast" => left = IF staged THEN 3 ELSE 5
           /\ shown = "clean" => left = IF pump THEN 3 ELSE 4
  BY <1>1, WholeFlush, Zenon
<1> HIDE DEF left
<1>3. shown = "full" <=> job.mode = "full" BY DEF Promoted
<1>4. shown \in {"full", "fast", "clean"} BY <1>1 DEF Promoted, Mode
<1>5. CASE controller = "ssd1677"
  <2>1. ~Shown(left) BY <1>1, <1>2, <1>5 DEF Shown, Mode
  <2>2. SsdTold(left) BY <2>1, <1>1, <1>2, <1>5 DEF SsdTold, Mode
  <2> QED BY <2>1, <2>2, <1>2, <1>5, FlushAtStart DEF left
<1>6. CASE controller = "uc8253"
  <2>1. ~Shown(left) BY <1>1, <1>2, <1>3, <1>4, <1>6 DEF Shown
  <2>2. CASE shown = "full"
    <3>1. UcFullTold(left) BY <2>2, <1>2, <1>6 DEF UcFullTold
    <3> QED BY <3>1, <2>1, <2>2, <1>2, <1>6, FlushAtStart DEF left
  <2>3. CASE shown = "fast"
    <3>1. UcFastTold(left) BY <2>3, <1>1, <1>2, <1>6 DEF UcFastTold
    <3> QED BY <3>1, <2>1, <2>3, <1>2, <1>6, FlushAtStart DEF left
  <2>4. CASE shown = "clean"
    <3>1. UcCleanTold(left, pump) BY <2>4, <1>2, <1>6 DEF UcCleanTold
    <3> QED BY <3>1, <2>1, <2>4, <1>2, <1>6, FlushAtStart DEF left
  <2> QED BY <2>2, <2>3, <2>4, <1>4
<1> QED BY <1>1, <1>5, <1>6

PrestageBegins ==
  /\ Typed /\ job.kind = "prestage" /\ job.image \in Image /\ steps = PrestageSteps(job.image)
  /\ ~upset => ~chip.asleep /\ chip.power /\ chip.shown = prev /\ ~chip.hot
  => Placed /\ steps # <<>> /\ Head(steps).op = "write"

LEMMA PrestagePlaced == PrestageBegins
<1> SUFFICES ASSUME Typed, job.kind = "prestage", job.image \in Image,
                    steps = PrestageSteps(job.image),
                    ~upset => ~chip.asleep /\ chip.power /\ chip.shown = prev /\ ~chip.hot
             PROVE  Placed /\ steps # <<>> /\ Head(steps).op = "write"
  BY DEF PrestageBegins
<1>1. steps \in Seq(Step) /\ steps[1] = Write("old", job.image) /\ Len(steps) \in {1, 2}
  BY PrestagePlan
<1>2. steps # <<>> /\ Head(steps).op = "write" BY <1>1 DEF Write
<1>3. IsRest(PrestageSteps(job.image), steps) BY <1>1, WholePlan
<1>4. PrestageAt(Len(steps)) BY <1>1 DEF PrestageAt
<1> QED BY <1>2, <1>3, <1>4 DEF Placed, Starting, Flushing, Framing

SleepBegins ==
  /\ Typed /\ job.kind = "sleepPanel" /\ steps = SleepSteps(powered)
  /\ ~upset => job.settled /\ chip.shown = SleepImage
  => /\ Placed /\ steps # <<>>
     /\ controller = "uc8253" /\ Head(steps).op = "deepSleep" => ~powered

LEMMA SleepPlaced == SleepBegins
<1> SUFFICES ASSUME Typed, job.kind = "sleepPanel", steps = SleepSteps(powered),
                    ~upset => job.settled /\ chip.shown = SleepImage
             PROVE  /\ Placed /\ steps # <<>>
                    /\ controller = "uc8253" /\ Head(steps).op = "deepSleep" => ~powered
  BY DEF SleepBegins
<1>1. powered \in BOOLEAN BY DEF Typed
<1>2. /\ steps # <<>> /\ Len(steps) > 0 /\ IsRest(SleepSteps(powered), steps)
      /\ controller = "uc8253" /\ Head(steps).op = "deepSleep" => ~powered
  BY <1>1, SleepStepsFacts
<1>3. SleepAt(Len(steps)) BY <1>2 DEF SleepAt
<1> QED BY <1>1, <1>2, <1>3 DEF Placed, Starting, Flushing, Framing

LEMMA NothingPlaced ==
  ASSUME job'.kind = "idle"
  PROVE  Placed'
BY DEF Placed, Starting, Flushing, Framing
-----------------------------------------------------------------------------
(* What the display task does between two plans.                           *)

LEMMA JobTypes ==
  ASSUME NEW kind \in Kind, NEW request \in Request \union {None},
         NEW image \in Image \union {None}, NEW mode \in Mode
  PROVE  /\ Job(kind, request, image, mode) \in JobRecord
         /\ Job(kind, request, image, mode).kind = kind
         /\ Job(kind, request, image, mode).request = request
         /\ Job(kind, request, image, mode).image = image
         /\ Job(kind, request, image, mode).mode = mode
BY DEF Job, JobRecord

LEMMA BootFacts ==
  /\ PlannerAtBoot \in [on : BOOLEAN, fasts : 0 .. Interval, last : Request \union {None},
                        slept : BOOLEAN]
  /\ ~PlannerAtBoot.on /\ PlannerAtBoot.last = None /\ ~PlannerAtBoot.slept
  /\ \A shown \in Image : ChipAtPowerUp(shown) \in Chip
<1>1. \A shown \in Image : ChipAtPowerUp(shown) \in Chip
  BY ImageTypes DEF ChipAtPowerUp, Chip, Mode
<1> QED BY <1>1, IntervalAssumption DEF PlannerAtBoot

LEMMA InitIInv ==
  ASSUME Init
  PROVE  IInv
<1>1. /\ controller \in Controllers /\ planner = PlannerAtBoot /\ prev = White /\ staged = FALSE
      /\ powered = FALSE /\ job = Job("boot", None, None, "full") /\ steps = InitSteps
      /\ chip = ChipAtPowerUp(Ghost) /\ faults = 0 /\ since = {} /\ upset = FALSE /\ streak = 0
  BY DEF Init
<1>2. "boot" \in Kind /\ "full" \in Mode BY DEF Kind, Mode
<1>3. job \in JobRecord /\ job.kind = "boot" BY <1>1, <1>2, JobTypes
<1>4. chip \in Chip /\ White \in Image BY <1>1, BootFacts, ImageTypes
<1>5. steps \in Seq(Step)
  <2>1. /\ Op("reset") \in Step /\ Op("setup") \in Step /\ Op("stop") \in Step
        /\ Write("old", White) \in Step /\ Write("new", White) \in Step
    BY StepTypes, ImageTypes DEF Commands
  <2> QED BY <2>1, <1>1 DEF InitSteps
<1>6. Typed
  <2>1. planner \in [on : BOOLEAN, fasts : 0 .. Interval, last : Request \union {None}, slept : BOOLEAN]
    BY <1>1, BootFacts
  <2>2. faults \in 0 .. MaxFaults /\ streak \in Nat BY <1>1, IntervalAssumption
  <2>3. since \in SUBSET {"init", "flush", "sleep"} BY <1>1
  <2> QED BY <2>1, <2>2, <2>3, <1>1, <1>3, <1>4, <1>5 DEF Typed
<1>7. PlannerFits BY <1>1, BootFacts, NoneAssumption DEF PlannerFits
<1>8. JobFits BY <1>1, <1>3, BootFacts DEF JobFits, Starting, Framing
<1>9. Placed /\ Untouched({"reset"}) BY <1>1, <1>3, <1>6, BootPlaced DEF InitBegins, Starting
<1>10. AtRest /\ PowerKept /\ Counted
  BY <1>1, <1>3, BootFacts DEF AtRest, PowerKept, Counted, Framing
<1>11. ~chip.ready /\ ~chip.stop /\ ~chip.power /\ ~chip.hot BY <1>1 DEF ChipAtPowerUp
<1>12. Untouched({"reset", "setup"}) /\ ~Untouched({"deepSleep"}) BY <1>9 DEF Untouched
<1>13. Orderly /\ NeverHot BY <1>3, <1>9, <1>11, <1>12 DEF Orderly, NeverHot, Starting
<1> QED BY <1>6, <1>7, <1>8, <1>9, <1>10, <1>13 DEF IInv

LEMMA ColdBootIInv ==
  ASSUME IInv, ColdBoot
  PROVE  IInv'
<1>1. Typed /\ NeverHot BY DEF IInv
<1>2. /\ planner' = PlannerAtBoot /\ prev' = White /\ staged' = FALSE
      /\ powered' = FALSE /\ job' = Job("boot", None, None, "full") /\ steps' = InitSteps
      /\ chip' \in {[chip EXCEPT !.ready = FALSE], ChipAtPowerUp(chip.shown), ChipAtPowerUp(Ghost)}
      /\ UNCHANGED <<controller, faults, since, upset, streak>>
  BY DEF ColdBoot, history
<1>3. "boot" \in Kind /\ "full" \in Mode BY DEF Kind, Mode
<1>4. job' \in JobRecord /\ job'.kind = "boot" BY <1>2, <1>3, JobTypes
<1>5. chip \in Chip /\ chip.shown \in Image /\ Ghost \in Image BY <1>1, ImageTypes DEF Typed, Chip
<1>6. chip' \in Chip /\ (chip'.hot => chip.hot)
  <2>1. CASE chip' = [chip EXCEPT !.ready = FALSE] BY <2>1, <1>5 DEF Chip
  <2>2. CASE chip' = ChipAtPowerUp(chip.shown) BY <2>2, <1>5, BootFacts DEF ChipAtPowerUp
  <2>3. CASE chip' = ChipAtPowerUp(Ghost) BY <2>3, <1>5, BootFacts DEF ChipAtPowerUp
  <2> QED BY <2>1, <2>2, <2>3, <1>2
<1>7. InitSteps' = InitSteps /\ InitSteps \in Seq(Step) BY <1>1, <1>2, InitStepsFacts DEF InitSteps
<1>8. Typed'
  BY <1>1, <1>2, <1>4, <1>6, <1>7, BootFacts, ImageTypes DEF Typed
<1>9. PlannerFits' BY <1>2, BootFacts, NoneAssumption DEF PlannerFits
<1>10. JobFits' BY <1>2, <1>4, BootFacts DEF JobFits, Starting, Framing
<1>11. Placed' /\ Untouched({"reset"})'
  <2>1. InitBegins' BY BootPlaced, PTL
  <2> QED BY <2>1, <1>2, <1>4, <1>7, <1>8 DEF InitBegins, Starting
<1>12. AtRest' /\ PowerKept' /\ Counted'
  BY <1>2, <1>4, BootFacts DEF AtRest, PowerKept, Counted, Framing
<1>13. Untouched({"reset", "setup"})' /\ ~Untouched({"deepSleep"})' BY <1>11 DEF Untouched
<1>14. Orderly' BY <1>4, <1>11, <1>13 DEF Orderly, Starting
<1>15. NeverHot' BY <1>1, <1>2, <1>6 DEF NeverHot
<1> QED BY <1>8, <1>9, <1>10, <1>11, <1>12, <1>14, <1>15 DEF IInv

\* With nothing to send the controller is at rest; what begins keeps it so.
LEMMA OrderlyKept ==
  ASSUME Orderly, steps = <<>>, UNCHANGED <<controller, chip>>, since' = {} => since = {},
         powered /\ chip.power => powered',
         controller = "uc8253" /\ steps' # <<>> /\ Head(steps').op = "deepSleep" => ~powered
  PROVE  Orderly'
<1>1. SUFFICES ASSUME since' = {} PROVE Orderly' BY DEF Orderly
<1>2. \A ops : ~Untouched(ops) BY DEF Untouched
<1>3. chip.ready /\ ~chip.stop /\ (controller = "uc8253" /\ chip.power => powered)
  BY <1>1, <1>2 DEF Orderly
<1>4. controller = "uc8253" /\ Untouched({"deepSleep"})' => ~powered BY DEF Untouched
<1> QED BY <1>3, <1>4 DEF Orderly

LEMMA FlushMoved ==
  ASSUME UNCHANGED <<controller, planner, prev>>, NEW pump \in BOOLEAN
  PROVE  FlushSteps(job.image, job.mode, staged, pump)' = FlushSteps(job'.image, job'.mode, staged', pump)
<1>1. SsdFlush(job.image, job.mode, staged)' = SsdFlush(job'.image, job'.mode, staged')
  BY DEF SsdFlush
<1>2. UcFlush(job.image, Promoted(job.mode, pump), staged, pump)'
        = UcFlush(job'.image, Promoted(job'.mode, pump), staged', pump)
  BY DEF UcFlush, Promoted
<1> QED BY <1>1, <1>2 DEF FlushSteps

\* A flush begins when the display task is idle.
LEMMA StartsFlush ==
  ASSUME IInv, job.kind = "idle", Typed', JobFits', Flushing', Framing' => planner.on,
         UNCHANGED <<controller, belief, powered, chip, faults, history>>,
         NEW pump \in BOOLEAN, pump => planner.on,
         steps' = FlushSteps(job'.image, job'.mode, staged, pump)
  PROVE  IInv'
<1>1. /\ Typed /\ PlannerFits /\ JobFits /\ AtRest /\ PowerKept /\ Orderly /\ NeverHot /\ Counted
      /\ UNCHANGED <<controller, planner, prev, staged, powered, chip, faults, since, upset, streak>>
  BY DEF IInv, belief, history
<1>2. steps = <<>> BY <1>1 DEF JobFits
<1>3. job'.kind \in {"render", "plate", "sleepFrame"} BY DEF Flushing, Framing
<1>4. (~upset => Before)'
  <2>1. SUFFICES ASSUME ~upset PROVE Before' BY <1>1
  <2>2. planner.on => /\ ~chip.asleep /\ chip.power /\ ~chip.hot /\ chip.shown = prev
                      /\ staged => chip.old = prev
    BY <2>1, <1>1 DEF AtRest
  <2>3. ~planner.on => \/ ~chip.asleep
                       \/ job'.kind = "sleepFrame" /\ chip.shown = SleepImage
    BY <2>1, <1>1, <1>3 DEF AtRest, Framing
  <2> QED BY <2>2, <2>3, <1>1 DEF Before
<1>5. /\ Placed' /\ steps' # <<>> /\ Head(steps').op \in {"write", "bank"}
      /\ ~Shown(Len(steps))'
  <2>1. FlushBegins' BY FlushPlaced, PTL
  <2>2. steps' = FlushSteps(job.image, job.mode, staged, pump)' /\ (pump => planner'.on)
    BY <1>1, FlushMoved
  <2>3. (\E p \in BOOLEAN : /\ p => planner.on
                            /\ steps = FlushSteps(job.image, job.mode, staged, p))'
    BY <2>2
  <2> QED BY <2>1, <2>3, <1>4 DEF FlushBegins
<1>6. PlannerFits' BY <1>1 DEF PlannerFits
<1>7. AtRest' BY <1>3 DEF AtRest
<1>8. PowerKept' BY <1>1, <1>3 DEF PowerKept, Framing
<1>9. Orderly' BY <1>1, <1>2, <1>5, OrderlyKept
<1>10. NeverHot' BY <1>1 DEF NeverHot
<1>11. Counted'
  <2>1. Uncounted = 0 /\ Uncounted' = 0 BY <1>5 DEF Uncounted, Framing
  <2> QED BY <2>1, <1>1, <1>5 DEF Counted
<1> QED BY <1>5, <1>6, <1>7, <1>8, <1>9, <1>10, <1>11 DEF IInv

LEMMA ModeForFacts ==
  ASSUME Typed, PlannerFits, NEW r \in Request, NEW policy
  PROVE  /\ ModeFor(r, policy) \in Mode
         /\ planner.last = None => ModeFor(r, policy) # "fast"
         /\ ModeFor(r, policy) = "fast" =>
              planner.on /\ (policy = "everyTen" => planner.fasts < Interval)
<1>1. planner.fasts \in 0 .. Interval /\ Interval \in Nat BY IntervalAssumption DEF Typed
<1> QED BY <1>1 DEF ModeFor, Mode, PlannerFits

LEMMA StartRenderIInv ==
  ASSUME IInv, NEW r \in Request, NEW policy \in Policies, StartRender(r, policy)
  PROVE  IInv'
<1>1. /\ Typed /\ PlannerFits /\ JobFits /\ AtRest /\ PowerKept /\ Orderly /\ NeverHot /\ Counted
      /\ job.kind = "idle"
      /\ UNCHANGED <<controller, belief, powered, chip, faults, history>>
      /\ UNCHANGED <<controller, planner, prev, staged, powered, chip, faults, since, upset, streak>>
  BY DEF IInv, StartRender, belief, history
<1>2. /\ ModeFor(r, policy) \in Mode /\ (planner.last = None => ModeFor(r, policy) # "fast")
      /\ ModeFor(r, policy) = "fast" => planner.on
  BY <1>1, ModeForFacts
<1>3. PageImage(r) \in Image /\ PageImage(r) \in ImageOf(r) BY ImageTypes DEF ImageOf
<1>4. steps = <<>> BY <1>1 DEF JobFits
<1>5. CASE ~planner.on /\ planner.last = None
  <2>1. job' = Job("wake", r, PageImage(r), ModeFor(r, policy)) /\ steps' = InitSteps
    BY <1>5 DEF StartRender
  <2>2. "wake" \in Kind BY DEF Kind
  <2>3. /\ job' \in JobRecord /\ job'.kind = "wake" /\ job'.request = r
        /\ job'.image = PageImage(r) /\ job'.mode = ModeFor(r, policy)
    BY <2>1, <2>2, <1>2, <1>3, JobTypes
  <2>4. InitSteps' = InitSteps /\ InitSteps \in Seq(Step)
    BY <1>1, InitStepsFacts DEF InitSteps
  <2>5. Typed' BY <2>1, <2>3, <2>4, <1>1 DEF Typed
  <2>6. JobFits' BY <2>3, <1>1, <1>2, <1>3, <1>5 DEF JobFits, Starting, Framing
  <2>7. Placed' /\ Untouched({"reset"})'
    <3>1. InitBegins' BY BootPlaced, PTL
    <3> QED BY <3>1, <2>1, <2>3, <2>4, <2>5 DEF InitBegins, Starting
  <2>8. PlannerFits' /\ AtRest' /\ PowerKept' /\ NeverHot' /\ Counted'
    BY <2>3, <1>1, <1>5 DEF PlannerFits, AtRest, PowerKept, NeverHot, Counted, Framing
  <2>9. Orderly'
    <3>1. steps' # <<>> /\ Head(steps').op = "reset" BY <2>7 DEF Untouched
    <3> QED BY <3>1, <1>1, <1>4, OrderlyKept
  <2> QED BY <2>5, <2>6, <2>7, <2>8, <2>9 DEF IInv
<1>6. CASE ~(~planner.on /\ planner.last = None)
  <2>1. planner.on BY <1>1, <1>6 DEF PlannerFits
  <2>2. /\ job' = Job("render", r, PageImage(r), ModeFor(r, policy))
        /\ steps' = FlushSteps(PageImage(r), ModeFor(r, policy), staged, powered)
    BY <1>6 DEF StartRender, Flush
  <2>3. "render" \in Kind BY DEF Kind
  <2>4. /\ job' \in JobRecord /\ job'.kind = "render" /\ job'.request = r
        /\ job'.image = PageImage(r) /\ job'.mode = ModeFor(r, policy)
    BY <2>2, <2>3, <1>2, <1>3, JobTypes
  <2>5. steps' \in Seq(Step) /\ powered \in BOOLEAN
    BY <2>2, <1>1, <1>2, <1>3, FlushStepsType DEF Typed
  <2>6. Typed' BY <2>4, <2>5, <1>1 DEF Typed
  <2>7. JobFits' BY <2>1, <2>4, <1>1, <1>2, <1>3 DEF JobFits, Starting, Framing
  <2>8. Flushing' /\ steps' = FlushSteps(job'.image, job'.mode, staged, powered)
    BY <2>2, <2>4 DEF Flushing, Framing
  <2> QED BY <2>1, <2>5, <2>6, <2>7, <2>8, <1>1, StartsFlush
<1> QED BY <1>5, <1>6

LEMMA StartPlateIInv ==
  ASSUME IInv, NEW view \in Views, NEW page \in Pages, NEW policy \in Policies,
         StartPlate(view, page, policy)
  PROVE  IInv'
<1> DEFINE r == [planner.last EXCEPT !.view = view, !.page = page]
<1>1. /\ Typed /\ PlannerFits /\ JobFits /\ planner.on /\ planner.last # None
      /\ job.kind = "idle"
      /\ UNCHANGED <<controller, belief, powered, chip, faults, history>>
      /\ UNCHANGED <<controller, planner, prev, staged, powered, chip, faults, since, upset, streak>>
      /\ job' = Job("plate", r, PlateImage(r), ModeFor(r, policy))
      /\ steps' = FlushSteps(PlateImage(r), ModeFor(r, policy), staged, powered)
  BY DEF IInv, StartPlate, Flush, belief, history
<1>2. r \in Request
  <2>1. planner.last \in Request BY <1>1 DEF Typed
  <2> QED BY <2>1 DEF Request
<1> HIDE DEF r
<1>3. ModeFor(r, policy) \in Mode BY <1>1, <1>2, ModeForFacts
<1>4. PlateImage(r) \in Image /\ PlateImage(r) \in ImageOf(r) BY <1>2, ImageTypes DEF ImageOf
<1>5. "plate" \in Kind BY DEF Kind
<1>6. /\ job' \in JobRecord /\ job'.kind = "plate" /\ job'.request = r
      /\ job'.image = PlateImage(r) /\ job'.mode = ModeFor(r, policy)
  BY <1>1, <1>2, <1>3, <1>4, <1>5, JobTypes
<1>7. steps' \in Seq(Step) /\ powered \in BOOLEAN
  BY <1>1, <1>3, <1>4, FlushStepsType DEF Typed
<1>8. Typed' BY <1>1, <1>6, <1>7 DEF Typed
<1>9. JobFits' BY <1>1, <1>2, <1>4, <1>6 DEF JobFits, Starting, Framing
<1>10. Flushing' /\ steps' = FlushSteps(job'.image, job'.mode, staged, powered)
  BY <1>1, <1>6 DEF Flushing, Framing
<1> QED BY <1>1, <1>7, <1>8, <1>9, <1>10, StartsFlush

LEMMA StartSleepIInv ==
  ASSUME IInv, StartSleep
  PROVE  IInv'
<1>1. /\ Typed /\ job.kind = "idle"
      /\ UNCHANGED <<controller, belief, powered, chip, faults, history>>
      /\ UNCHANGED <<controller, planner, prev, staged, powered, chip, faults, since, upset, streak>>
      /\ job' = Job("sleepFrame", None, SleepImage, "full")
      /\ steps' = FlushSteps(SleepImage, "full", staged, powered)
  BY DEF IInv, StartSleep, Flush, belief, history
<1>2. "sleepFrame" \in Kind /\ SleepImage \in Image /\ "full" \in Mode BY ImageTypes DEF Kind, Mode
<1>3. /\ job' \in JobRecord /\ job'.kind = "sleepFrame" /\ job'.image = SleepImage
      /\ job'.mode = "full"
  BY <1>1, <1>2, JobTypes
<1>4. steps' \in Seq(Step) BY <1>1, <1>2, FlushStepsType DEF Typed
<1>5. Typed' BY <1>1, <1>3, <1>4 DEF Typed
<1>6. JobFits' BY <1>3 DEF JobFits, Starting, Framing
<1>7. steps' = FlushSteps(job'.image, job'.mode, staged, FALSE)
  BY <1>1, <1>3 DEF FlushSteps, UcFlush, Promoted
<1>8. Flushing' /\ ~Framing' BY <1>3 DEF Flushing, Framing
<1> QED BY <1>1, <1>5, <1>6, <1>7, <1>8, StartsFlush
-----------------------------------------------------------------------------
(* What the display task does when a plan has been sent.                   *)

\* What a render or a plate leaves.
LEMMA FrameEnds ==
  ASSUME IInv, Flushing, steps = <<>>
  PROVE  /\ ~upset => /\ chip.shown = job.image
                      /\ Framing => ~chip.asleep /\ chip.power /\ ~chip.hot
         /\ "sleep" \notin since /\ Framing => ~chip.asleep /\ chip.power
         /\ "sleep" \notin since /\ Framing /\ job.mode # "fast" => streak = 0
         /\ "sleep" \notin since /\ Framing /\ job.mode = "fast" /\ planner.fasts < Interval =>
              streak <= planner.fasts + faults + 1
<1>1. /\ Typed /\ JobFits /\ Placed /\ PowerKept /\ Counted BY DEF IInv
<1>2. Len(steps) = 0 OBVIOUS
<1>3. PICK pump \in BOOLEAN : FlushAt(Len(steps), pump) BY <1>1 DEF Placed
<1>4. FlushAt(0, pump) BY <1>2, <1>3
<1>5. (pump => planner.on) /\ FlushTold(0, pump) /\ FlushPicture(0) BY <1>4 DEF FlushAt
<1>6. /\ job.mode \in Mode /\ chip \in Chip /\ controller \in {"ssd1677", "uc8253"}
  BY <1>1, FlushTypes, ControllersAssumption DEF Typed
<1>7. Shown(0) BY DEF Shown
<1>8. ASSUME ~upset PROVE /\ chip.shown = job.image
                          /\ Framing => ~chip.asleep /\ chip.power /\ ~chip.hot
  BY <1>5, <1>7, <1>8 DEF FlushPicture, After, Framing
<1>9. ASSUME "sleep" \notin since, Framing PROVE ~chip.asleep /\ chip.power
  <2>1. ~chip.asleep /\ (planner.on => chip.power) BY <1>1, <1>9 DEF PowerKept, Framing
  <2>2. SUFFICES ASSUME ~planner.on PROVE chip.power BY <2>1
  <2>3. job.mode # "fast" /\ ~pump BY <2>2, <1>1, <1>5, <1>9 DEF JobFits
  <2>4. CASE controller = "ssd1677" BY <2>1, <2>2, <2>4, <1>5, <1>7 DEF FlushTold, SsdTold
  <2>5. CASE controller = "uc8253" /\ job.mode = "full"
    BY <2>5, <1>5 DEF FlushTold, Promoted, UcFullTold
  <2>6. CASE controller = "uc8253" /\ job.mode = "clean"
    <3>1. UcCleanTold(0, pump) BY <2>6, <1>5 DEF FlushTold, Promoted
    <3> QED BY <2>3, <3>1 DEF UcCleanTold
  <2> QED BY <2>3, <2>4, <2>5, <2>6, <1>6 DEF Mode
<1>10. ASSUME "sleep" \notin since, Framing, job.mode # "fast" PROVE streak = 0
  BY <1>1, <1>2, <1>7, <1>10 DEF Counted
<1>11. ASSUME "sleep" \notin since, Framing, job.mode = "fast", planner.fasts < Interval
       PROVE  streak <= planner.fasts + faults + 1
  <2>1. planner.on /\ Uncounted = 1 BY <1>1, <1>11 DEF JobFits, Uncounted
  <2> QED BY <2>1, <1>1, <1>11 DEF Counted
<1> QED BY <1>8, <1>9, <1>10, <1>11

\* What the planner makes of it.
LEMMA RecordFacts ==
  ASSUME Typed, JobFits, Framing, RecordRender(job.request, job.mode)
  PROVE  /\ planner' \in [on : BOOLEAN, fasts : 0 .. Interval, last : Request \union {None},
                          slept : BOOLEAN]
         /\ planner'.on /\ planner'.last = job.request /\ job.request # None /\ ~planner'.slept
         /\ job.mode # "fast" => planner'.fasts = 0
         /\ job.mode = "fast" /\ planner'.fasts < Interval =>
              planner.fasts < Interval /\ planner'.fasts = planner.fasts + 1
<1>1. job.request \in Request /\ job.request # None BY NoneAssumption DEF JobFits
<1>2. planner.fasts \in 0 .. Interval /\ Interval \in Nat BY IntervalAssumption DEF Typed
<1>3. planner' = [on |-> TRUE, last |-> job.request, slept |-> FALSE,
                  fasts |-> IF job.mode # "fast" THEN 0
                            ELSE IF planner.fasts < Interval THEN planner.fasts + 1 ELSE Interval]
  BY DEF RecordRender
<1> QED BY <1>1, <1>2, <1>3

\* What holds when a render or a plate is recorded, whatever comes next.
LEMMA RecordKeeps ==
  ASSUME IInv, Framing, steps = <<>>, RecordRender(job.request, job.mode),
         job'.kind \in {"prestage", "idle"},
         UNCHANGED <<controller, chip, faults, since, streak>>
  PROVE  /\ PlannerFits' /\ PowerKept' /\ NeverHot' /\ Counted'
<1>1. Typed /\ JobFits /\ NeverHot /\ Flushing BY DEF IInv, Flushing
<1>2. /\ planner'.on /\ planner'.last = job.request /\ job.request # None /\ ~planner'.slept
      /\ job.mode # "fast" => planner'.fasts = 0
      /\ job.mode = "fast" /\ planner'.fasts < Interval =>
           planner.fasts < Interval /\ planner'.fasts = planner.fasts + 1
  BY <1>1, RecordFacts
<1>3. /\ "sleep" \notin since => ~chip.asleep /\ chip.power
      /\ "sleep" \notin since /\ job.mode # "fast" => streak = 0
      /\ "sleep" \notin since /\ job.mode = "fast" /\ planner.fasts < Interval =>
           streak <= planner.fasts + faults + 1
  BY <1>1, FrameEnds
<1>4. PlannerFits' BY <1>2 DEF PlannerFits
<1>5. PowerKept' BY <1>2, <1>3 DEF PowerKept, Framing
<1>6. NeverHot' BY <1>1 DEF NeverHot
<1>7. Counted'
  <2>1. faults \in Nat /\ planner.fasts \in Nat /\ streak \in Nat
    BY <1>1, IntervalAssumption DEF Typed
  <2>2. ~Framing' /\ Uncounted' = 0 BY DEF Framing, Uncounted
  <2>3. ASSUME "sleep" \notin since, planner'.fasts < Interval
        PROVE  streak <= planner'.fasts + faults
    <3>1. CASE job.mode = "fast" BY <3>1, <2>1, <2>3, <1>2, <1>3
    <3>2. CASE job.mode # "fast" BY <3>2, <2>1, <2>3, <1>2, <1>3
    <3> QED BY <3>1, <3>2
  <2>4. planner'.fasts \in Nat BY <1>1, RecordFacts
  <2> QED BY <2>1, <2>2, <2>3, <2>4 DEF Counted
<1> QED BY <1>4, <1>5, <1>6, <1>7

LEMMA EndInitIInv ==
  ASSUME IInv, EndInit
  PROVE  IInv'
<1>1. /\ Typed /\ PlannerFits /\ JobFits /\ Placed /\ PowerKept /\ Orderly /\ NeverHot /\ Counted
      /\ steps = <<>> /\ Starting /\ staged' = FALSE /\ powered' = FALSE
      /\ UNCHANGED <<controller, planner, prev, chip, faults, since, upset, streak>>
  BY DEF IInv, EndInit, history, Starting
<1>2. ~chip.asleep /\ ~chip.power
  <2>1. InitAt(Len(steps)) BY <1>1 DEF Placed
  <2>2. Len(steps) = 0 BY <1>1
  <2>3. Len(InitSteps) > 0 BY <1>1, InitPlan
  <2> QED BY <2>1, <2>2, <2>3 DEF InitAt
<1>3. ~planner.on /\ job \in JobRecord BY <1>1 DEF JobFits, Typed
<1>4. PlannerFits' /\ NeverHot' BY <1>1 DEF PlannerFits, NeverHot
<1>5. CASE job.kind = "boot"
  <2>1. job' = Idle /\ steps' = <<>> BY <1>1, <1>5 DEF EndInit
  <2>2. Typed' BY <2>1, <1>1, IdleFacts DEF Typed
  <2>3. JobFits' BY <2>1, IdleFacts DEF JobFits, Starting, Framing
  <2>4. Placed' BY <2>1, IdleFacts, NothingPlaced
  <2>5. AtRest' BY <1>1, <1>2, <1>3, <1>5 DEF AtRest, JobFits
  <2>6. PowerKept' /\ Counted' BY <2>1, <1>1, <1>3, IdleFacts DEF PowerKept, Counted, Framing
  <2>7. Orderly' BY <2>1, <1>1, <1>2, OrderlyKept
  <2> QED BY <2>2, <2>3, <2>4, <2>5, <2>6, <2>7, <1>4 DEF IInv
<1>6. CASE job.kind = "wake"
  <2>1. /\ job' = [job EXCEPT !.kind = "render"]
        /\ steps' = FlushSteps(job.image, job.mode, FALSE, FALSE)
    BY <1>6 DEF EndInit
  <2>2. /\ job' \in JobRecord /\ job'.kind = "render" /\ job'.request = job.request
        /\ job'.image = job.image /\ job'.mode = job.mode
    BY <2>1, <1>3 DEF JobRecord, Kind
  <2>3. JobFits' BY <2>2, <1>1, <1>3, <1>6 DEF JobFits, Starting, Framing
  <2>4. steps' = FlushSteps(job.image, job.mode, staged, FALSE)'
    BY <2>1, <2>2, <1>1, FlushMoved
  <2>5. steps' \in Seq(Step)
    <3>1. job.image \in Image /\ job.mode \in Mode
      BY <1>1, <1>3, <1>6, ImageTypes DEF JobFits, ImageOf, JobRecord
    <3>2. job.mode \in {"full", "clean"} BY <3>1, <1>1, <1>6 DEF JobFits, Mode
    <3>3. FlushSteps(job.image, job.mode, FALSE, FALSE) = FlushSteps(job.image, job.mode, staged, FALSE)
      BY <3>2 DEF FlushSteps, SsdFlush, UcFlush, Promoted
    <3> QED BY <3>1, <3>3, <2>1, <1>1, FlushStepsType
  <2>6. Typed' BY <2>2, <2>5, <1>1 DEF Typed
  <2>7. /\ Placed' /\ steps' # <<>> /\ Head(steps').op \in {"write", "bank"}
        /\ ~Shown(Len(steps))'
    <3>1. FlushBegins' BY FlushPlaced, PTL
    <3>2. (\E p \in BOOLEAN : /\ p => planner.on
                              /\ steps = FlushSteps(job.image, job.mode, staged, p))'
      BY <2>4
    <3>3. Before' BY <2>2, <1>1, <1>2, <1>3 DEF Before
    <3>4. Flushing' BY <2>2 DEF Flushing, Framing
    <3> QED BY <3>1, <3>2, <3>3, <3>4, <2>3, <2>6 DEF FlushBegins
  <2>8. AtRest' BY <2>2 DEF AtRest
  <2>9. PowerKept' BY <1>1, <1>2, <1>3 DEF PowerKept
  <2>10. Counted' BY <2>7, <1>1, <1>3 DEF Counted
  <2>11. Orderly' BY <2>7, <1>1, <1>2, OrderlyKept
  <2> QED BY <2>3, <2>6, <2>7, <2>8, <2>9, <2>10, <2>11, <1>4 DEF IInv
<1> QED BY <1>1, <1>5, <1>6 DEF Starting

LEMMA EndRenderIInv ==
  ASSUME IInv, EndRender
  PROVE  IInv'
<1>1. /\ Typed /\ JobFits /\ Orderly /\ steps = <<>> /\ job.kind = "render" /\ Framing /\ Flushing
      /\ RecordRender(job.request, job.mode) /\ prev' = job.image
      /\ job' = [job EXCEPT !.kind = "prestage"] /\ steps' = PrestageSteps(job.image)
      /\ UNCHANGED <<controller, staged, powered, chip, faults, since, upset, streak>>
  BY DEF IInv, EndRender, history, Framing, Flushing
<1>2. job.image \in Image /\ job \in JobRecord /\ job.image \in ImageOf(job.request)
  BY <1>1, FlushTypes DEF Typed, JobFits
<1>3. /\ job' \in JobRecord /\ job'.kind = "prestage" /\ job'.image = job.image
  BY <1>1, <1>2 DEF JobRecord, Kind
<1>4. /\ planner' \in [on : BOOLEAN, fasts : 0 .. Interval, last : Request \union {None},
                       slept : BOOLEAN]
      /\ planner'.on /\ planner'.last = job.request
  BY <1>1, RecordFacts
<1>5. PrestageSteps(job.image) \in Seq(Step) BY <1>2, PrestagePlan
<1>6. Typed' BY <1>1, <1>2, <1>3, <1>4, <1>5 DEF Typed
<1>7. JobFits' BY <1>1, <1>2, <1>3, <1>4 DEF JobFits, Starting, Framing
<1>8. /\ PlannerFits' /\ PowerKept' /\ NeverHot' /\ Counted'
  BY <1>1, <1>3, RecordKeeps
<1>9. Placed' /\ steps' # <<>> /\ Head(steps').op = "write"
  <2>1. PrestageBegins' BY PrestagePlaced, PTL
  <2>2. steps' = PrestageSteps(job.image)' BY <1>1, <1>3 DEF PrestageSteps
  <2>3. ~upset => ~chip.asleep /\ chip.power /\ chip.shown = job.image /\ ~chip.hot
    BY <1>1, FrameEnds
  <2> QED BY <2>1, <2>2, <2>3, <1>1, <1>2, <1>3, <1>6 DEF PrestageBegins
<1>10. AtRest' BY <1>3 DEF AtRest
<1>11. Orderly' BY <1>1, <1>9, OrderlyKept
<1> QED BY <1>6, <1>7, <1>8, <1>9, <1>10, <1>11 DEF IInv

LEMMA EndPlateIInv ==
  ASSUME IInv, EndPlate
  PROVE  IInv'
<1>1. /\ Typed /\ JobFits /\ Orderly /\ steps = <<>> /\ job.kind = "plate" /\ Framing /\ Flushing
      /\ RecordRender(job.request, job.mode) /\ prev' = job.image /\ staged' = FALSE
      /\ job' = Idle
      /\ UNCHANGED <<controller, powered, steps, chip, faults, since, upset, streak>>
  BY DEF IInv, EndPlate, history, Framing, Flushing
<1>2. job.image \in Image /\ job.image \in ImageOf(job.request)
  BY <1>1, FlushTypes DEF JobFits
<1>3. /\ planner' \in [on : BOOLEAN, fasts : 0 .. Interval, last : Request \union {None},
                       slept : BOOLEAN]
      /\ planner'.on /\ planner'.last = job.request /\ ~planner'.slept
  BY <1>1, RecordFacts
<1>4. Typed' BY <1>1, <1>2, <1>3, IdleFacts DEF Typed
<1>5. JobFits' BY <1>1, IdleFacts DEF JobFits, Starting, Framing
<1>6. /\ PlannerFits' /\ PowerKept' /\ NeverHot' /\ Counted'
  BY <1>1, IdleFacts, RecordKeeps
<1>7. Placed' BY <1>1, IdleFacts, NothingPlaced
<1>8. AtRest'
  <2>1. ~upset => ~chip.asleep /\ chip.power /\ chip.shown = job.image /\ ~chip.hot
    BY <1>1, FrameEnds
  <2> QED BY <2>1, <1>1, <1>2, <1>3 DEF AtRest
<1>9. Orderly' BY <1>1, OrderlyKept
<1> QED BY <1>4, <1>5, <1>6, <1>7, <1>8, <1>9 DEF IInv

LEMMA EndPrestageIInv ==
  ASSUME IInv, EndPrestage
  PROVE  IInv'
<1>1. /\ Typed /\ PlannerFits /\ JobFits /\ Placed /\ PowerKept /\ Orderly /\ NeverHot /\ Counted
      /\ steps = <<>> /\ job.kind = "prestage" /\ staged' = TRUE /\ job' = Idle
      /\ UNCHANGED <<controller, planner, prev, powered, steps, chip, faults, since, upset, streak>>
  BY DEF IInv, EndPrestage, history
<1>2. planner.on /\ prev = job.image /\ prev \in ImageOf(planner.last) /\ prev \in Image
  BY <1>1 DEF JobFits, Typed
<1>3. /\ ~chip.asleep => chip.old = prev
      /\ ~upset => ~chip.asleep /\ chip.power /\ chip.shown = prev /\ ~chip.hot
  <2>1. PrestageAt(Len(steps)) BY <1>1 DEF Placed
  <2>2. Len(steps) = 0 BY <1>1
  <2>3. Len(PrestageSteps(job.image)) > 0 BY <1>2, PrestagePlan
  <2> QED BY <2>1, <2>2, <2>3 DEF PrestageAt
<1>4. Typed' BY <1>1, IdleFacts DEF Typed
<1>5. PlannerFits' /\ NeverHot' BY <1>1 DEF PlannerFits, NeverHot
<1>6. JobFits' BY <1>1, IdleFacts DEF JobFits, Starting, Framing
<1>7. Placed' BY <1>1, IdleFacts, NothingPlaced
<1>8. AtRest' BY <1>1, <1>2, <1>3 DEF AtRest, PlannerFits
<1>9. PowerKept' BY <1>1, IdleFacts DEF PowerKept, Framing
<1>10. Counted'
  <2>1. Uncounted = 0 /\ Uncounted' = 0 /\ ~Framing' BY <1>1, IdleFacts DEF Uncounted, Framing
  <2> QED BY <2>1, <1>1 DEF Counted
<1>11. Orderly' BY <1>1, OrderlyKept
<1> QED BY <1>4, <1>5, <1>6, <1>7, <1>8, <1>9, <1>10, <1>11 DEF IInv

LEMMA EndSleepFrameIInv ==
  ASSUME IInv, EndSleepFrame
  PROVE  IInv'
<1>1. /\ Typed /\ PlannerFits /\ JobFits /\ PowerKept /\ Orderly /\ NeverHot /\ Counted
      /\ steps = <<>> /\ job.kind = "sleepFrame" /\ Flushing
      /\ prev' = SleepImage /\ staged' = FALSE /\ steps' = SleepSteps(powered)
      /\ job' = [job EXCEPT !.kind = "sleepPanel", !.settled = TRUE]
      /\ UNCHANGED <<controller, planner, powered, chip, faults, since, upset, streak>>
  BY DEF IInv, EndSleepFrame, PowerDownPanel, history, Flushing
<1>2. job \in JobRecord /\ powered \in BOOLEAN /\ job.image = SleepImage BY <1>1 DEF Typed, JobFits
<1>3. job' \in JobRecord /\ job'.kind = "sleepPanel" /\ job'.settled
  BY <1>1, <1>2 DEF JobRecord, Kind
<1>4. ~upset => chip.shown = SleepImage BY <1>1, <1>2, FrameEnds
<1>5. SleepSteps(powered) \in Seq(Step) BY <1>1, <1>2, SleepStepsFacts
<1>6. Typed' BY <1>1, <1>3, <1>5, ImageTypes DEF Typed
<1>7. /\ Placed' /\ steps' # <<>>
      /\ controller = "uc8253" /\ Head(steps').op = "deepSleep" => ~powered
  <2>1. SleepBegins' BY SleepPlaced, PTL
  <2>2. steps' = SleepSteps(powered)' BY <1>1 DEF SleepSteps
  <2> QED BY <2>1, <2>2, <1>1, <1>3, <1>4, <1>6 DEF SleepBegins
<1>8. PlannerFits' /\ NeverHot' BY <1>1 DEF PlannerFits, NeverHot
<1>9. JobFits' BY <1>3 DEF JobFits, Starting, Framing
<1>10. AtRest' /\ PowerKept' BY <1>3 DEF AtRest, PowerKept, Framing
<1>11. Counted'
  <2>1. Uncounted = 0 /\ Uncounted' = 0 /\ ~Framing' BY <1>1, <1>3 DEF Uncounted, Framing
  <2> QED BY <2>1, <1>1 DEF Counted
<1>12. Orderly' BY <1>1, <1>7, OrderlyKept
<1> QED BY <1>6, <1>7, <1>8, <1>9, <1>10, <1>11, <1>12 DEF IInv

LEMMA EndSleepPanelIInv ==
  ASSUME IInv, EndSleepPanel
  PROVE  IInv'
<1>1. /\ Typed /\ PlannerFits /\ JobFits /\ Placed /\ Orderly /\ NeverHot /\ Counted
      /\ steps = <<>> /\ job.kind = "sleepPanel" /\ job' = Idle
      /\ UNCHANGED <<controller, prev, staged, powered, steps, chip, faults, upset, streak>>
  BY DEF IInv, EndSleepPanel
<1>2. /\ ~upset => job.settled /\ chip.shown = SleepImage
      /\ chip.asleep
  <2>1. SleepAt(Len(steps)) BY <1>1 DEF Placed
  <2>2. Len(steps) = 0 BY <1>1
  <2> QED BY <2>1, <2>2 DEF SleepAt
<1>3. \/ /\ planner' = [on |-> FALSE, fasts |-> 0, last |-> None, slept |-> TRUE]
         /\ since' = since
      \/ ~job.settled /\ planner' = planner /\ since' = since \union {"sleep"}
  BY DEF EndSleepPanel, RecordSleep
<1>4. planner' \in [on : BOOLEAN, fasts : 0 .. Interval, last : Request \union {None}, slept : BOOLEAN]
  <2>1. CASE planner' = planner BY <2>1, <1>1 DEF Typed
  <2>2. CASE planner' = [on |-> FALSE, fasts |-> 0, last |-> None, slept |-> TRUE]
    BY <2>2, IntervalAssumption
  <2> QED BY <2>1, <2>2, <1>3
<1>5. since' \in SUBSET {"init", "flush", "sleep"} BY <1>1, <1>3 DEF Typed
<1>6. Typed' BY <1>1, <1>4, <1>5, IdleFacts DEF Typed
<1>7. PlannerFits' BY <1>1, <1>3 DEF PlannerFits
<1>8. JobFits' BY <1>1, IdleFacts DEF JobFits, Starting, Framing
<1>9. Placed' BY <1>1, IdleFacts, NothingPlaced
<1>10. AtRest' BY <1>1, <1>2, <1>3 DEF AtRest
<1>11. PowerKept' BY <1>1, <1>3, IdleFacts DEF PowerKept, Framing
<1>12. Orderly'
  <2>1. since' = {} => since = {} BY <1>3
  <2> QED BY <2>1, <1>1, OrderlyKept
<1>13. NeverHot' BY <1>1 DEF NeverHot
<1>14. Counted' BY <1>1, <1>3, IdleFacts DEF Counted, Framing
<1> QED BY <1>6, <1>7, <1>8, <1>9, <1>10, <1>11, <1>12, <1>13, <1>14 DEF IInv
-----------------------------------------------------------------------------
(* The theorems.                                                           *)

LEMMA StutterIInv ==
  ASSUME IInv, UNCHANGED vars
  PROVE  IInv'
<1>1. UNCHANGED <<controller, planner, prev, staged, powered, job, steps, chip, faults,
                  since, upset, streak>>
  BY DEF vars, belief, history
<1>2. Typed' /\ PlannerFits' /\ JobFits'
  BY <1>1 DEF IInv, Typed, PlannerFits, JobFits, Starting, Framing
<1>3. Starting' = Starting /\ Framing' = Framing /\ Flushing' = Flushing
  BY <1>1 DEF Starting, Framing, Flushing
<1>4. \A left : Shown(left)' = Shown(left) BY <1>1 DEF Shown
<1>5. AtRest' /\ PowerKept' /\ Orderly' /\ NeverHot' /\ Counted'
  BY <1>1, <1>3, <1>4
  DEF IInv, AtRest, PowerKept, Orderly, NeverHot, Counted, Uncounted, Untouched
<1>6. InitSteps' = InitSteps /\ PrestageSteps(job.image)' = PrestageSteps(job.image)
  BY <1>1 DEF InitSteps, PrestageSteps
<1>7. \A pump \in BOOLEAN :
        /\ FlushSteps(job.image, job.mode, staged, pump)'
             = FlushSteps(job.image, job.mode, staged, pump)
        /\ SleepSteps(pump)' = SleepSteps(pump)
  BY <1>1 DEF FlushSteps, SsdFlush, UcFlush, Promoted, SleepSteps
<1>8. ASSUME NEW left, NEW pump
      PROVE  FlushAt(left, pump)' <=> FlushAt(left, pump)
  <2>1. Shown(left)' <=> Shown(left) BY <1>4
  <2>2. SsdTold(left)' <=> SsdTold(left) BY <1>1, <2>1 DEF SsdTold
  <2>3. UcFullTold(left)' <=> UcFullTold(left) BY <1>1 DEF UcFullTold
  <2>4. UcFastTold(left)' <=> UcFastTold(left) BY <1>1 DEF UcFastTold
  <2>5. UcCleanTold(left, pump)' <=> UcCleanTold(left, pump) BY <1>1 DEF UcCleanTold
  <2>6. Promoted(job.mode, pump)' = Promoted(job.mode, pump) BY <1>1 DEF Promoted
  <2>7. FlushTold(left, pump)' <=> FlushTold(left, pump)
    <3>1. CASE controller = "ssd1677" BY <1>1, <2>2, <3>1 DEF FlushTold
    <3>2. CASE controller # "ssd1677"
      <4>1. Promoted(job.mode, pump) \in {"full", "fast", "clean"}
        BY DEF IInv, Typed, JobRecord, Mode, Promoted
      <4>2. CASE Promoted(job.mode, pump) = "full"
        BY <1>1, <2>3, <2>6, <3>2, <4>2 DEF FlushTold
      <4>3. CASE Promoted(job.mode, pump) = "fast"
        BY <1>1, <2>4, <2>6, <3>2, <4>3 DEF FlushTold
      <4>4. CASE Promoted(job.mode, pump) = "clean"
        BY <1>1, <2>5, <2>6, <3>2, <4>4 DEF FlushTold
      <4> QED BY <4>1, <4>2, <4>3, <4>4
    <3> QED BY <3>1, <3>2
  <2>8. Before' <=> Before BY <1>1 DEF Before
  <2>9. After(left)' <=> After(left) BY <1>1 DEF After
  <2>10. FlushPicture(left)' <=> FlushPicture(left)
    BY <1>1, <2>1, <2>8, <2>9 DEF FlushPicture
  <2> QED BY <1>1, <2>7, <2>10 DEF FlushAt
<1>9. \A left : /\ InitAt(left)' <=> InitAt(left)
                /\ PrestageAt(left)' <=> PrestageAt(left)
                /\ SleepAt(left)' <=> SleepAt(left)
  BY <1>1, <1>6 DEF InitAt, PrestageAt, SleepAt
<1>10. Placed'
  BY <1>1, <1>3, <1>6, <1>7, <1>8, <1>9 DEF IInv, Placed
<1> QED BY <1>2, <1>5, <1>10 DEF IInv

LEMMA NextIInv ==
  ASSUME IInv, [Next]_vars
  PROVE  IInv'
<1>1. CASE UNCHANGED vars BY <1>1, StutterIInv
<1>2. CASE Work
  <2>1. CASE Send BY <2>1, SendIInv
  <2>2. CASE Fail BY <2>2, FailIInv
  <2>3. CASE EndInit BY <2>3, EndInitIInv
  <2>4. CASE EndRender BY <2>4, EndRenderIInv
  <2>5. CASE EndPrestage BY <2>5, EndPrestageIInv
  <2>6. CASE EndPlate BY <2>6, EndPlateIInv
  <2>7. CASE EndSleepFrame BY <2>7, EndSleepFrameIInv
  <2>8. CASE EndSleepPanel BY <2>8, EndSleepPanelIInv
  <2> QED BY <1>2, <2>1, <2>2, <2>3, <2>4, <2>5, <2>6, <2>7, <2>8 DEF Work
<1>3. CASE ColdBoot BY <1>3, ColdBootIInv
<1>4. ASSUME NEW r \in Request, NEW policy \in Policies, StartRender(r, policy)
      PROVE  IInv'
  BY <1>4, StartRenderIInv
<1>5. ASSUME NEW view \in Views, NEW page \in Pages, NEW policy \in Policies,
             StartPlate(view, page, policy)
      PROVE  IInv'
  BY <1>5, StartPlateIInv
<1>6. CASE StartSleep BY <1>6, StartSleepIInv
<1> QED BY <1>1, <1>2, <1>3, <1>4, <1>5, <1>6 DEF Next

\* In every state the commands still to come are the rest of a plan, and those
\* sent have done to the controller what the plan needs, or it sleeps.
THEOREM Invariant == Spec => []IInv
<1>1. Init => IInv BY InitIInv
<1>2. IInv /\ [Next]_vars => IInv' BY NextIInv
<1> QED BY <1>1, <1>2, PTL DEF Spec

\* The planner's count keeps within the interval, whatever the interval, and
\* the planes and the panel hold pictures that were drawn.
THEOREM TypeCorrect == Spec => []TypeOK
<1>1. IInv => TypeOK
  <2> SUFFICES ASSUME IInv PROVE TypeOK OBVIOUS
  <2>1. Typed BY DEF IInv
  <2>2. job.kind \in Kind /\ job.mode \in Mode BY <2>1 DEF Typed, JobRecord
  <2>3. chip.shown \in Image /\ chip.old \in Image /\ chip.new \in Image
    BY <2>1 DEF Typed, Chip
  <2>4. \A i \in 1 .. Len(steps) : steps[i].op \in Commands
    <3>1. \A i \in 1 .. Len(steps) : steps[i] \in Step BY <2>1 DEF Typed
    <3> QED BY <3>1, StepForms
  <2> QED BY <2>1, <2>2, <2>3, <2>4 DEF TypeOK, Typed, Kind
<1> QED BY <1>1, Invariant, PTL

\* No job but a flush refreshes.
LEMMA FlushRefreshes ==
  ASSUME IInv, steps # <<>>, NEW s, s = Head(steps), IsRefresh(s)
  PROVE  Flushing /\ Drives(s, Len(steps))
<1>1. Typed /\ JobFits /\ NeverHot /\ Placed BY DEF IInv
<1>2. s.op \in {"activate", "refresh"} BY DEF IsRefresh
<1>3. Flushing BY <1>1, <1>2, HeadKinds
<1>4. Proper(s, Len(steps)) BY <1>1, <1>3, HeadKinds
<1> QED BY <1>3, <1>4 DEF Proper

\* The base of a fast refresh: when one is about to run on a panel no command
\* of which has failed since it was last driven as a whole, the old plane holds
\* what the panel shows and the clean waveform's temperature is gone.
THEOREM FastBaseHolds == Spec => []FastBase
<1>1. IInv => FastBase BY FlushRefreshes DEF FastBase, Drives
<1> QED BY <1>1, Invariant, PTL

\* Between two operations the display task is right about the panel: an awake
\* one shows prev_fb, a frame of the last request, and one it has put to sleep
\* shows the sleep screen.
THEOREM BeliefCorrect == Spec => []BeliefIsTrue
<1>1. IInv => BeliefIsTrue BY DEF IInv, AtRest, ImageOf, BeliefIsTrue
<1> QED BY <1>1, Invariant, PTL

\* The driver begins the initialization with the reset.
LEMMA BeginsWithReset ==
  ASSUME IInv, Starting, steps # <<>>, Head(steps).op # "reset"
  PROVE  ~chip.asleep
<1>1. Typed /\ IsRest(InitSteps, steps) /\ InitAt(Len(steps)) BY DEF IInv, Placed
<1>2. /\ Len(steps) \in 1 .. Len(InitSteps) /\ Len(InitSteps) \in Nat
      /\ Head(steps) = InitSteps[Len(InitSteps) - Len(steps) + 1]
  BY <1>1, NextOfPlan DEF IsRest
<1>3. InitSteps[1] = Op("reset") BY <1>1, InitPlan
<1>4. Len(steps) # Len(InitSteps) BY <1>2, <1>3 DEF Op
<1> QED BY <1>1, <1>2, <1>4 DEF InitAt

\* The commands either controller is sent are the ones its data sheet, as the
\* emulator's panels assert it, allows in the state it is in.
THEOREM ProtocolCorrect == Spec => []ProtocolKept
<1> DEFINE s == Head(steps)
           sleeping == "sleep" \in since \/ job.kind \in {"sleepFrame", "sleepPanel"}
<1>1. ASSUME IInv, steps # <<>>
      PROVE  /\ chip.asleep /\ s.op # "reset" => sleeping
             /\ ~chip.ready => s.op \in {"reset", "setup"} \/ since # {}
             /\ IsRefresh(s) /\ ~PumpOn(s) => sleeping
             /\ controller = "uc8253" /\ s.op = "deepSleep" /\ chip.power => since # {}
             /\ chip.stop => s.op \in {"stop", "reset"} \/ since # {}
  <2>1. Typed /\ JobFits /\ NeverHot /\ Placed /\ PowerKept /\ Orderly BY <1>1 DEF IInv
  <2>2. Starting \/ Flushing \/ job.kind \in {"prestage", "sleepPanel"}
    BY <1>1, <2>1, HeadKinds
  <2>3. ASSUME chip.asleep, s.op # "reset" PROVE sleeping
    <3>1. ~Starting BY <1>1, <2>3, BeginsWithReset
    <3> QED BY <3>1, <2>1, <2>2, <2>3 DEF PowerKept, Flushing
  <2>4. ASSUME IsRefresh(s), ~PumpOn(s) PROVE sleeping
    <3>1. Flushing /\ (~chip.asleep /\ ~planner.on => PumpOn(s))
      BY <1>1, <2>4, FlushRefreshes DEF Drives
    <3>2. ~chip.power BY <2>4 DEF PumpOn
    <3> QED BY <3>1, <3>2, <2>1, <2>4 DEF PowerKept, Flushing, Framing
  <2>5. since = {} => /\ ~chip.ready => s.op \in {"reset", "setup"}
                      /\ controller = "uc8253" /\ s.op = "deepSleep" => ~chip.power
                      /\ chip.stop => s.op \in {"stop", "reset"}
    BY <1>1, <2>1 DEF Orderly, Untouched
  <2> QED BY <2>3, <2>4, <2>5
<1>2. IInv => ProtocolKept BY <1>1 DEF ProtocolKept
<1> QED BY <1>2, Invariant, PTL

\* The interval bounds the fast refreshes in a row, for every interval: a
\* render under FullEveryTen that is to be fast finds fewer of them on the
\* panel, but for those that failed.
THEOREM GhostingIsBounded == Spec => GhostingBounded
<1>1. ASSUME IInv, NEW r \in Request, StartRender(r, "everyTen"), job'.mode = "fast",
             "sleep" \notin since
      PROVE  streak < Interval + faults
  <2>1. Typed /\ PlannerFits /\ Counted /\ job.kind = "idle" BY <1>1 DEF IInv, StartRender
  <2>2. job' = Job("wake", r, PageImage(r), ModeFor(r, "everyTen"))
          \/ job' = Job("render", r, PageImage(r), ModeFor(r, "everyTen"))
    BY <1>1 DEF StartRender, Flush
  <2>3. ModeFor(r, "everyTen") = "fast" BY <2>2, <1>1 DEF Job
  <2>4. planner.on /\ planner.fasts < Interval BY <2>1, <2>3, ModeForFacts
  <2>5. Uncounted = 0 BY <2>1 DEF Uncounted, Framing
  <2>6. streak <= planner.fasts + faults BY <1>1, <2>1, <2>4, <2>5 DEF Counted, Typed
  <2> QED BY <2>1, <2>4, <2>6, IntervalAssumption DEF Typed
<1>2. IInv => \A r \in Request :
                StartRender(r, "everyTen") /\ job'.mode = "fast" /\ "sleep" \notin since
                  => streak < Interval + faults
  BY <1>1
<1>3. IInv /\ [Next]_vars =>
        [\A r \in Request :
           StartRender(r, "everyTen") /\ job'.mode = "fast" /\ "sleep" \notin since
             => streak < Interval + faults]_vars
  BY <1>2
<1> QED BY <1>3, Invariant, PTL DEF Spec, GhostingBounded
=============================================================================
