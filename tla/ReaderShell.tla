----------------------------- MODULE ReaderShell -----------------------------
(***************************************************************************)
(* The reader's three cooperating tasks and their channels:                *)
(*   app      fw/src/tasks/app.rs with the reducer of app-core/src/lib.rs  *)
(*   display  fw/src/tasks/display.rs: panel, SD storage, reading progress *)
(*   power    fw/src/tasks/power.rs: idle timer and deep sleep             *)
(* Key presses arrive from an interrupt at any moment.  The tasks share    *)
(* one cooperative executor: a task that has begun keeps the processor     *)
(* until it waits (cpu), so an action below is one turn of a task's loop   *)
(* up to its next wait.                                                    *)
(*                                                                         *)
(* A book's chapters coincide with its pages, which number PageCount; the  *)
(* built-in guide has one page.  Type settings, the Wireless, Settings and *)
(* FirmwareUpdate screens and their commands are not part of this module.  *)
(***************************************************************************)
EXTENDS Integers, Sequences

CONSTANTS Books, FirstBook,  \* the books on the card, the first in the catalog
          Guide,             \* the built-in book
          None,
          PageCount,
          InputCap, EventCap, LibraryCap,
          Windows,           \* sets of books a library window may hold
          Users              \* patterns of use, see User

ASSUME BooksAssumption == FirstBook \in Books /\ Guide \notin Books /\ None \notin Books \union {Guide}
ASSUME PageCountAssumption == PageCount \in Nat /\ PageCount > 1
\* The firmware's channels hold 8 keys, 16 display events and 8 library events.
ASSUME CapsAssumption == InputCap \in Nat \ {0} /\ {EventCap, LibraryCap} \subseteq Nat \ {0, 1}
ASSUME WindowsAssumption == Windows \subseteq SUBSET Books

Page == 0 .. PageCount - 1

\* A pattern of use bounds a run: the keys pressed, when ("any" time, after the
\* first "paint", or by a "patient" reader, with every task at rest) and how
\* often; whether the idle timer may expire; which operations may fail; the
\* books listed, their places and the last book on the card at boot; and the
\* lengths of the three queues that shorter ones fill sooner.
User == [keys : SUBSET {"power", "next", "prev", "confirm", "back"},
         typing : {"any", "paint", "patient"}, prompts : Nat, idle : BOOLEAN,
         faults : SUBSET {"flush", "sleep", "store"},
         listed : SUBSET Books, places : SUBSET [Books -> Page],
         last : SUBSET (Books \union {None}),
         commands : Nat \ {0}, storage : Nat \ {0}, power : Nat \ {0}]
ASSUME UsersAssumption == Users \subseteq User

VARIABLES user,      \* the pattern of use, the same for a whole run
          cpu,       \* the task that holds the processor, "none" between turns
          inputs, displayQ, storageQ, displayE, libraryE, powerQ,  \* channels
          reader,    \* ReaderState: view, book, page and known page count
          app,       \* the app task's flags
          blocked,   \* the channel send the app task waits in, or None
          latest,    \* LATEST_READER_REQUEST_ID
          display,   \* what the display task waits for, and its command
          panel,     \* RefreshPlanner: screen on, last request drawn
          store,     \* ReaderStore: book of the loaded section, resident entries
          progress,  \* pending_progress, last_progress_write, state_restored
          card,      \* the durable records: STATE and each book's POS
          power,     \* the power task
          prompts,   \* number of key presses and idle timeouts
          turned,    \* history: the last position the app asked to store
          dropped    \* history: a Loaded event was pushed out of a full channel

channels == <<inputs, displayQ, storageQ, displayE, libraryE, powerQ>>
appVars  == <<reader, app, blocked, latest, turned>>
dispVars == <<display, panel, store, progress, card, dropped>>
vars == <<user, cpu, channels, appVars, dispVars, power, prompts>>

Frame == [view : {"home", "library", "reading", "chapters"},
          book : Books \union {Guide}, page : Page, pages : {1, PageCount}]
Position == [book : Books \union {Guide}, page : Page]
Command == [kind : {"catalog", "refresh", "open", "extend", "chapters", "jump", "progress"},
            req : Nat, book : Books \union {Guide, None}, page : Page]

ASSUME NoneAssumption == None \notin Command \union [on : {"storage"}, m : Command]

Sleep == [kind |-> "sleep", frame |-> None]
Event(kind, book, page, pages) == [kind |-> kind, book |-> book, page |-> page, pages |-> pages]
Signal(kind) == Event(kind, None, 0, 0)
StorageWork(kind) == [kind |-> kind, req |-> 0, book |-> None, page |-> 0]
PlaceOf(r) == [book |-> r.book, page |-> r.page]

-----------------------------------------------------------------------------
(* Channels: try_send drops when full; the "required" sends drop the oldest *)
(* instead; a send that must wait is an action of its own (Resume).         *)

\* Mutant: the queue never refuses.
SendAlways(queue, cap, m) == Append(queue, m)
TrySend(queue, cap, m) == IF Len(queue) < cap THEN Append(queue, m) ELSE queue
Required(queue, cap, m) ==
  IF Len(queue) < cap THEN Append(queue, m) ELSE Append(Tail(queue), m)

Elements(queue) == {queue[i] : i \in 1 .. Len(queue)}
LoadedEvents == {e \in Elements(displayE) \union Elements(libraryE) : e.kind = "loaded"}

\* send_required_display_event: an evicted library event moves to its own
\* channel, any other evicted event is lost.
RequiredDisplay(m) ==
  /\ displayE' = Required(displayE, EventCap, m)
  /\ libraryE' = IF Len(displayE) = EventCap /\ Head(displayE).kind = "loaded"
                 THEN Required(libraryE, LibraryCap, Head(displayE)) ELSE libraryE

\* send_loaded_library_event, then the Restored event of a resume.
SendLoaded(loaded, resume) ==
  LET direct == Len(displayE) < EventCap
      after  == IF direct THEN libraryE ELSE Required(libraryE, LibraryCap, loaded)
  IN  /\ displayE' = IF direct THEN Append(displayE, loaded) ELSE displayE
      /\ libraryE' = IF resume = None THEN after ELSE Required(after, LibraryCap, resume)

Free(task) == power # "off" /\ cpu \in {"none", task}
Keep(task, ready) == cpu' = IF ready THEN task ELSE "none"
AppKeeps == Keep("app", blocked' = None /\ (inputs' # <<>> \/ displayE' # <<>> \/ libraryE' # <<>>))
DisplayKeeps == Keep("display", display'.phase = "idle" /\ (displayQ' # <<>> \/ storageQ' # <<>>))
-----------------------------------------------------------------------------
(* What a reset leaves in RAM. *)

ReaderAtBoot == [view |-> "home", book |-> Guide, page |-> 0, pages |-> 1]
AppAtBoot ==
  [rendering |-> FALSE, \* a render is in flight
   again     |-> FALSE, \* render_pending
   pending   |-> None,  \* pending_storage
   opening   |-> None,  \* opening_book
   suppress  |-> FALSE, \* suppress_input_until_open_settled
   block     |-> FALSE, \* block_confirm_until is set
   boot      |-> TRUE,  \* boot_render_pending
   listed    |-> FALSE, \* library_count > 0
   orphaned  |-> FALSE] \* history: a sleep forgot a book whose open is held
DisplayAtBoot == [phase |-> "init", cmd |-> None]
PanelAtBoot == [on |-> FALSE, last |-> None]
StoreAtBoot == [loaded |-> None, active |-> None, window |-> {}]
ProgressAtBoot == [pending |-> None, written |-> FALSE, restored |-> FALSE]

Init ==
  /\ user \in Users
  /\ cpu = "none"
  /\ inputs = <<>> /\ displayQ = <<>> /\ storageQ = <<StorageWork("catalog")>>
  /\ displayE = <<>> /\ libraryE = <<>> /\ powerQ = <<>>
  /\ reader = ReaderAtBoot /\ app = AppAtBoot /\ blocked = None /\ latest = 0
  /\ display = DisplayAtBoot /\ panel = PanelAtBoot /\ store = StoreAtBoot
  /\ progress = ProgressAtBoot
  /\ \E at \in user.places, b \in user.last :
       /\ card = [pos |-> at,
                  state |-> IF b = None THEN None ELSE [book |-> b, page |-> at[b]]]
  /\ power = "awake"
  /\ prompts = 0
  /\ turned = None /\ dropped = FALSE

\* The power button wakes the chip from deep sleep: a reset.
Wake ==
  /\ power = "off"
  /\ prompts < user.prompts
  /\ cpu' = "none"
  /\ inputs' = <<>> /\ displayQ' = <<>> /\ storageQ' = <<StorageWork("catalog")>>
  /\ displayE' = <<>> /\ libraryE' = <<>> /\ powerQ' = <<>>
  /\ reader' = ReaderAtBoot /\ app' = AppAtBoot /\ blocked' = None /\ latest' = 0
  /\ display' = DisplayAtBoot /\ panel' = PanelAtBoot /\ store' = StoreAtBoot
  /\ progress' = ProgressAtBoot
  /\ power' = "awake"
  /\ turned' = None /\ dropped' = FALSE
  /\ UNCHANGED <<card, prompts>>

Drained ==
  /\ display.phase = "idle" /\ blocked = None /\ app.pending = None
  /\ inputs = <<>> /\ displayQ = <<>> /\ storageQ = <<>> /\ displayE = <<>> /\ libraryE = <<>>
AtRest == Drained /\ power = "awake" /\ powerQ = <<>> /\ cpu = "none"

\* input.rs emit: the oldest event makes room for the newest.
Press(key) ==
  /\ power # "off"
  /\ prompts < user.prompts
  /\ user.typing # "any" => ~app.boot
  /\ user.typing = "patient" => AtRest
  /\ prompts' = prompts + 1
  /\ inputs' = Required(inputs, InputCap, key)
  /\ UNCHANGED <<cpu, displayQ, storageQ, displayE, libraryE, powerQ, appVars,
                 dispVars, power>>
-----------------------------------------------------------------------------
(* The reducer: apply_input and apply_library_event. *)

Turned(page) == [reader EXCEPT !.page = page]
Show(view) == [reader EXCEPT !.view = view]

HomeKey(key) ==
  CASE key = "confirm" /\ reader.book \in Books -> {Show("reading")}
    [] key = "confirm" /\ reader.book = Guide   -> {Show(IF app.listed THEN "library" ELSE "reading")}
    [] key = "next" -> {Show("library")}
    [] OTHER        -> {reader}

LibraryKey(key) ==
  CASE key = "confirm" /\ app.listed ->
         {[view |-> "reading", book |-> b, page |-> 0, pages |-> 1] : b \in user.listed}
    [] key = "back" -> {Show("home")}
    [] OTHER        -> {reader}

ReadingKey(key) ==
  CASE key = "next" /\ reader.book \in Books ->
         {Turned(IF reader.page + 1 < reader.pages THEN reader.page + 1 ELSE reader.pages - 1)}
    [] key = "prev" /\ reader.page > 0 -> {Turned(reader.page - 1)}
    [] key = "confirm" -> {Show("chapters")}
    [] key = "back"    -> {Show("home")}
    [] OTHER           -> {reader}

ChaptersKey(key) ==
  CASE key = "confirm" -> {[Show("reading") EXCEPT !.page = p] : p \in 0 .. reader.pages - 1}
    [] key = "back"    -> {Show("reading")}
    [] OTHER           -> {reader}

AfterKey(key) == CASE reader.view = "home"     -> HomeKey(key)
                   [] reader.view = "library"  -> LibraryKey(key)
                   [] reader.view = "reading"  -> ReadingKey(key)
                   [] reader.view = "chapters" -> ChaptersKey(key)

AfterEvent(e) ==
  CASE e.kind = "loaded" /\ e.book = reader.book ->
         [reader EXCEPT !.pages = e.pages, !.page = IF @ < e.pages THEN @ ELSE e.pages - 1]
    [] e.kind = "restored" ->
         [reader EXCEPT !.book = e.book, !.page = e.page,
                        !.pages = IF e.pages > 0 THEN e.pages ELSE @]
    [] e.kind = "scanned" /\ reader.book = Guide /\ reader.view \notin {"reading", "chapters"} ->
         [reader EXCEPT !.book = FirstBook, !.page = 0]
    [] OTHER -> reader

\* Mutant: an unchanged book is taken for a loaded one.
KindForChangedBook(next) ==
  IF next.book = Guide THEN "none"
  ELSE IF next.view = "chapters" /\ reader.view # "chapters" THEN "chapters"
  ELSE IF next.view # "reading" THEN "none"
  ELSE IF reader.book # next.book THEN "open"
  ELSE IF reader.view = "chapters" THEN IF next.page # reader.page THEN "jump" ELSE "extend"
  ELSE IF reader.page # next.page THEN "extend" ELSE "none"
\* storage_command_for_transition, for the views of this module.
KindFor(next) ==
  IF next.book = Guide THEN "none"
  ELSE IF next.view = "chapters" /\ reader.view # "chapters" THEN "chapters"
  ELSE IF next.view # "reading" THEN "none"
  ELSE IF reader.book # next.book \/ reader.view \notin {"reading", "chapters"} THEN "open"
  ELSE IF reader.view = "chapters" THEN IF next.page # reader.page THEN "jump" ELSE "extend"
  ELSE IF reader.page # next.page THEN "extend" ELSE "none"

\* Mutant: the command carries the id of the request before it.
CommandStale(next) ==
  IF KindFor(next) = "none" THEN None
  ELSE [kind |-> KindFor(next), req |-> latest, book |-> next.book, page |-> next.page]
CommandFor(next) ==
  IF KindFor(next) = "none" THEN None
  ELSE [kind |-> KindFor(next), req |-> latest + 1, book |-> next.book, page |-> next.page]
-----------------------------------------------------------------------------
(* The app task.  Its select takes keys before display events before library *)
(* events.  Paint(a, kind) ends a turn that wants a render with flags a.     *)

AppTurn == Free("app") /\ blocked = None

SendRender(a, kind) ==
  LET m == [kind |-> kind, frame |-> reader']
  IN  IF Len(displayQ) < user.commands
      THEN /\ displayQ' = Append(displayQ, m)
           /\ app' = [a EXCEPT !.rendering = TRUE, !.again = FALSE]
           /\ blocked' = None
      ELSE /\ blocked' = [on |-> "display", m |-> m]
           /\ app' = a
           /\ UNCHANGED displayQ

NoPaint(a) == app' = a /\ blocked' = None /\ UNCHANGED displayQ

\* Mutants: paint at once; forget that a paint is due.
PaintAtOnce(a, kind) == SendRender(a, kind)
PaintForgotten(a, kind) == IF a.rendering THEN NoPaint(a) ELSE SendRender(a, kind)
Paint(a, kind) ==
  IF a.rendering THEN NoPaint([a EXCEPT !.again = TRUE]) ELSE SendRender(a, kind)

\* first_render_kind takes the boot flag only when the render is sent at once.
PaintEvent(a) ==
  IF a.rendering THEN NoPaint([a EXCEPT !.again = TRUE])
  ELSE SendRender([a EXCEPT !.boot = FALSE], IF a.boot THEN "boot" ELSE "page")

PowerKey ==
  /\ AppTurn
  /\ inputs # <<>> /\ Head(inputs) = "power"
  /\ inputs' = Tail(inputs)
  /\ IF Len(powerQ) < user.power
     THEN powerQ' = Append(powerQ, "sleepNow") /\ UNCHANGED blocked
     ELSE blocked' = [on |-> "power", m |-> "sleepNow"] /\ UNCHANGED powerQ
  /\ UNCHANGED <<displayQ, storageQ, displayE, libraryE, reader, app, latest, turned,
                 dispVars, power, prompts>>
  /\ AppKeeps

\* The 700 ms after an open in which Confirm is not taken have passed or not.
Blocks == IF reader.view = "reading" /\ app.block THEN BOOLEAN ELSE {app.block}
Ignored(key, block) ==
  \/ reader.view = "reading" /\ block /\ key = "confirm"
  \/ app.opening # None
  \/ app.suppress

IgnoreKey(key, block) ==
  /\ Ignored(key, block)
  /\ app' = [app EXCEPT !.block = block]
  /\ UNCHANGED <<displayQ, storageQ, powerQ, reader, blocked, latest, turned>>

TakeKey(key, block) ==
  /\ ~Ignored(key, block)
  /\ reader' \in AfterKey(key)
  /\ powerQ' = TrySend(powerQ, user.power, "activity")
  /\ LET cmd    == CommandFor(reader')
         sent   == cmd # None /\ Len(storageQ) < user.storage
         queue  == IF sent THEN Append(storageQ, cmd) ELSE storageQ
         held   == IF cmd # None /\ ~sent THEN cmd ELSE app.pending
         open   == cmd # None /\ cmd.kind = "open"
         moved  == PlaceOf(reader') # PlaceOf(reader)
         record == [kind |-> "progress", req |-> 0, book |-> reader'.book, page |-> reader'.page]
         lost   == moved /\ Len(queue) = user.storage
         a      == [app EXCEPT !.block = block,
                               !.pending = IF lost /\ held = None THEN record ELSE held,
                               !.opening = IF open THEN cmd.book ELSE @,
                               !.suppress = @ \/ open]
     IN  /\ latest' = IF cmd = None THEN latest ELSE latest + 1
         /\ storageQ' = IF moved THEN TrySend(queue, user.storage, record) ELSE queue
         /\ turned' = IF moved THEN PlaceOf(reader') ELSE turned
         /\ IF sent /\ cmd.kind = "chapters" THEN NoPaint([a EXCEPT !.again = FALSE])
                                             ELSE Paint(a, "page")

AppKey ==
  /\ AppTurn
  /\ inputs # <<>> /\ Head(inputs) # "power"
  /\ inputs' = Tail(inputs)
  /\ \E block \in Blocks : IgnoreKey(Head(inputs), block) \/ TakeKey(Head(inputs), block)
  /\ UNCHANGED <<displayE, libraryE, dispVars, power, prompts>>
  /\ AppKeeps

\* The end of a Settled turn, after the held command is gone.
AfterSettled(a) ==
  IF a.again THEN SendRender(a, "page")
  ELSE IF a.suppress /\ a.opening = None
       THEN NoPaint([a EXCEPT !.suppress = FALSE, !.block = TRUE])
       ELSE NoPaint(a)

Settled ==
  LET cmd  == app.pending
      open == cmd # None /\ cmd.kind = "open"
      a    == [app EXCEPT !.rendering = FALSE, !.pending = None,
                          !.opening = IF open THEN cmd.book ELSE @,
                          !.suppress = @ \/ open]
  IN  /\ Head(displayE).kind = "settled"
      /\ UNCHANGED <<reader, libraryE>>
      /\ IF cmd # None /\ Len(storageQ) = user.storage
         THEN /\ blocked' = [on |-> "storage", m |-> cmd]
              /\ app' = a
              /\ UNCHANGED <<displayQ, storageQ>>
         ELSE /\ storageQ' = IF cmd = None THEN storageQ ELSE Append(storageQ, cmd)
              /\ AfterSettled(a)

\* Mutant: the failed render still counts as in flight.
DisplayFailedRendering ==
  /\ Head(displayE).kind = "failed"
  /\ NoPaint([app EXCEPT !.again = FALSE])
  /\ UNCHANGED <<reader, libraryE, storageQ>>

DisplayFailed ==
  /\ Head(displayE).kind = "failed"
  /\ NoPaint([app EXCEPT !.rendering = FALSE, !.again = FALSE])
  /\ UNCHANGED <<reader, libraryE, storageQ>>

\* The book that is opening is forgotten, but not an open still held back.
DisplayAsleep ==
  /\ Head(displayE).kind = "asleep"
  /\ NoPaint([app EXCEPT !.rendering = FALSE, !.again = FALSE, !.opening = None,
                         !.suppress = FALSE, !.block = FALSE,
                         !.orphaned = @ \/ (app.pending # None /\ app.pending.kind = "open")])
  /\ UNCHANGED <<reader, libraryE, storageQ>>

\* Mutant: the loaded book does not repaint its view.
AffectsViewUnloaded(e) ==
  IF app.boot THEN e.kind \in {"restored", "scanned"}
  ELSE e.kind = "restored" \/ (e.kind = "scanned" /\ reader.view = "library" /\ ~app.listed)

\* library_event_allows_first_render while the boot paint is due, otherwise
\* library_event_affects_view.
AffectsView(e) ==
  IF app.boot THEN e.kind \in {"restored", "scanned"}
  ELSE \/ e.kind = "loaded" /\ e.book = reader.book
       \/ e.kind = "restored"
       \/ e.kind = "scanned" /\ reader.view = "library" /\ ~app.listed

LibraryEvent(e) ==
  LET a == [app EXCEPT !.opening = IF e.kind = "loaded" /\ e.book = @ THEN None ELSE @,
                       !.listed = @ \/ e.kind = "scanned"]
  IN  /\ reader' = AfterEvent(e)
      /\ IF AffectsView(e) THEN PaintEvent(a) ELSE NoPaint(a)
      /\ UNCHANGED storageQ

AppDisplayEvent ==
  /\ AppTurn
  /\ inputs = <<>> /\ displayE # <<>>
  /\ displayE' = Tail(displayE)
  /\ \/ Settled
     \/ DisplayFailed
     \/ DisplayAsleep
     \/ Head(displayE).kind = "loaded" /\ LibraryEvent(Head(displayE)) /\ UNCHANGED libraryE
  /\ UNCHANGED <<inputs, powerQ, latest, turned, dispVars, power, prompts>>
  /\ AppKeeps

AppLibraryEvent ==
  /\ AppTurn
  /\ inputs = <<>> /\ displayE = <<>> /\ libraryE # <<>>
  /\ libraryE' = Tail(libraryE)
  /\ LibraryEvent(Head(libraryE))
  /\ UNCHANGED <<inputs, displayE, powerQ, latest, turned, dispVars, power, prompts>>
  /\ AppKeeps

\* The channel the app waits for has room: the turn goes on behind the send.
Resume ==
  /\ Free("app") /\ blocked # None
  /\ UNCHANGED reader
  /\ \/ /\ blocked.on = "power" /\ Len(powerQ) < user.power
        /\ powerQ' = Append(powerQ, blocked.m)
        /\ NoPaint(app)
        /\ UNCHANGED storageQ
     \/ /\ blocked.on = "storage" /\ Len(storageQ) < user.storage
        /\ storageQ' = Append(storageQ, blocked.m)
        /\ AfterSettled(app)
        /\ UNCHANGED powerQ
     \/ /\ blocked.on = "display" /\ Len(displayQ) < user.commands
        /\ displayQ' = Append(displayQ, blocked.m)
        /\ app' = [app EXCEPT !.rendering = TRUE, !.again = FALSE]
        /\ blocked' = None
        /\ UNCHANGED <<powerQ, storageQ>>
  /\ UNCHANGED <<inputs, displayE, libraryE, latest, turned, dispVars, power, prompts>>
  /\ AppKeeps
-----------------------------------------------------------------------------
(* The display task: its select takes display commands before storage ones. *)

DisplayTurn == Free("display") /\ display.phase = "idle"
Waiting(phase, cmd) == display' = [phase |-> phase, cmd |-> cmd]
Idle == Waiting("idle", None)

DisplayReady ==
  /\ Free("display") /\ display.phase = "init"
  /\ Idle
  /\ UNCHANGED <<channels, appVars, panel, store, progress, card, power, prompts>>
  /\ DisplayKeeps

\* Reading a frame's catalog entries, then layout; the flush waits.
WithEntries(frame) ==
  CASE frame.view = "library" -> {[store EXCEPT !.window = w] : w \in Windows}
    [] /\ frame.view # "library" /\ frame.book \in Books
       /\ panel.last = None \/ <<panel.last.view, panel.last.book>> # <<frame.view, frame.book>>
       -> {[store EXCEPT !.active = frame.book]}
    [] OTHER -> {store}

StartRender ==
  /\ DisplayTurn
  /\ displayQ # <<>> /\ Head(displayQ) # Sleep
  /\ displayQ' = Tail(displayQ)
  /\ Waiting("render", Head(displayQ))
  /\ store' \in WithEntries(Head(displayQ).frame)
  /\ UNCHANGED <<inputs, storageQ, displayE, libraryE, powerQ, appVars, panel, progress,
                 card, power, prompts>>
  /\ DisplayKeeps

FinishRender ==
  /\ Free("display") /\ display.phase = "render"
  /\ LET frame == display.cmd.frame
     IN  \/ /\ panel' = [on |-> TRUE, last |-> frame]
            /\ RequiredDisplay(Signal("settled"))
            /\ powerQ' = TrySend(powerQ, user.power, "displaySettled")
         \/ /\ "flush" \in user.faults
            /\ RequiredDisplay(Signal("failed"))
            /\ powerQ' = TrySend(powerQ, user.power, "displayFailed")
            /\ UNCHANGED panel
  /\ Idle
  /\ UNCHANGED <<inputs, displayQ, storageQ, appVars, store, progress, card, power, prompts>>
  /\ DisplayKeeps

\* store_app_state writes STATE, and POS when the book's entry is resident; it
\* reports success only if both landed.
Resident(book) == book = store.active \/ book \in store.window

StoreIn(c, p) ==
  [state |-> p,
   pos   |-> IF p.book \in Books /\ Resident(p.book)
             THEN [c.pos EXCEPT ![p.book] = p.page] ELSE c.pos]
FailedStores(c, p) ==
  IF "store" \in user.faults
  THEN {c, [c EXCEPT !.state = p], [c EXCEPT !.pos = StoreIn(c, p).pos]} ELSE {}

\* flush_pending_progress.
FlushOk ==
  IF progress.pending = None THEN UNCHANGED <<card, progress>>
  ELSE /\ card' = StoreIn(card, progress.pending)
       /\ progress' = [progress EXCEPT !.pending = None, !.written = TRUE]
FlushFails ==
  /\ progress.pending # None
  /\ card' \in FailedStores(card, progress.pending)
  /\ UNCHANGED progress

StartSleep ==
  /\ DisplayTurn
  /\ displayQ # <<>> /\ Head(displayQ) = Sleep
  /\ displayQ' = Tail(displayQ)
  /\ \/ FlushOk /\ Waiting("sleep", None)
     \/ FlushFails /\ UNCHANGED display
  /\ UNCHANGED <<inputs, storageQ, displayE, libraryE, powerQ, appVars, panel, store,
                 power, prompts>>
  /\ DisplayKeeps

\* Mutant: the power task is not told.
SleepFailsQuietly ==
  /\ "sleep" \in user.faults
  /\ RequiredDisplay(Signal("failed"))
  /\ UNCHANGED <<panel, powerQ>>
SleepFails ==
  /\ "sleep" \in user.faults
  /\ RequiredDisplay(Signal("failed"))
  /\ powerQ' = TrySend(powerQ, user.power, "displayFailed")
  /\ UNCHANGED panel

FinishSleep ==
  /\ Free("display") /\ display.phase = "sleep"
  /\ \/ /\ panel' = [on |-> FALSE, last |-> None]
        /\ RequiredDisplay(Signal("asleep"))
        /\ powerQ' = TrySend(powerQ, user.power, "displayAsleep")
     \/ SleepFails
  /\ Idle
  /\ UNCHANGED <<inputs, displayQ, storageQ, appVars, store, progress, card, power, prompts>>
  /\ DisplayKeeps
-----------------------------------------------------------------------------
(* handle_storage_command, one disjunct per kind of command. *)

RestoredEvent(book, page) ==
  IF panel.last = None THEN None ELSE Event("restored", book, page, panel.last.pages)
LoadedEvent(book) == Event("loaded", book, 0, PageCount)

OpenOrExtend(cmd) ==
  /\ cmd.kind \in {"open", "extend"} /\ cmd.req = latest
  /\ LET resumed == cmd.kind = "open" /\ cmd.page = 0 /\ card.pos[cmd.book] > 0
     IN  SendLoaded(LoadedEvent(cmd.book),
                    IF resumed THEN RestoredEvent(cmd.book, card.pos[cmd.book]) ELSE None)
  /\ store' = [store EXCEPT !.loaded = cmd.book, !.active = cmd.book]
  /\ UNCHANGED <<progress, card>>

\* The chapter list overwrites the section in the text buffer.
LoadChapters(cmd) ==
  /\ cmd.kind = "chapters" /\ cmd.req = latest
  /\ SendLoaded(LoadedEvent(cmd.book), None)
  /\ store' = [store EXCEPT !.loaded = None, !.active = cmd.book]
  /\ UNCHANGED <<progress, card>>

JumpChapter(cmd) ==
  /\ cmd.kind = "jump" /\ cmd.req = latest
  /\ SendLoaded(LoadedEvent(cmd.book), RestoredEvent(cmd.book, cmd.page))
  /\ store' = [store EXCEPT !.loaded = cmd.book, !.active = cmd.book]
  /\ UNCHANGED <<progress, card>>

SkipStale(cmd) ==
  /\ cmd.kind \in {"open", "extend", "chapters", "jump"} /\ cmd.req # latest
  /\ UNCHANGED <<displayE, libraryE, store, progress, card>>

\* restore_saved_state once per boot, then the Scanned event.  The saved page
\* count is missing when the book's cache is.
LoadCatalog(cmd) ==
  /\ cmd.kind \in {"catalog", "refresh"}
  /\ LET restore == ~progress.restored /\ card.state # None /\ card.state.book \in Books
         p       == card.state
     IN  /\ \E pages \in IF restore THEN {0, PageCount} ELSE {0} :
              libraryE' = TrySend(IF restore
                                  THEN Required(libraryE, LibraryCap,
                                                Event("restored", p.book, p.page, pages))
                                  ELSE libraryE,
                                  LibraryCap, Signal("scanned"))
         /\ store' = IF restore THEN [store EXCEPT !.active = p.book] ELSE store
  /\ progress' = [progress EXCEPT !.restored = TRUE]
  /\ UNCHANGED <<displayE, card>>

\* Mutant: the record held first stays held.
HoldFirst(p) == progress' = [progress EXCEPT !.pending = IF @ = None THEN p ELSE @]
HoldBack(p) == progress' = [progress EXCEPT !.pending = p]

\* The held record of another book lands first; then this one is written, or
\* held back when it is not due and its context is the same.
StoreProgress(cmd) ==
  /\ cmd.kind = "progress"
  /\ LET p     == PlaceOf(cmd)
         held  == progress.pending
         other == held # None /\ held.book # p.book
         base  == IF other THEN StoreIn(card, held) ELSE card
     IN  \/ /\ other /\ card' \in FailedStores(card, held)
            /\ UNCHANGED progress
         \/ /\ card' = StoreIn(base, p)
            /\ progress' = [progress EXCEPT !.pending = None, !.written = TRUE]
         \/ /\ card' \in FailedStores(base, p)
            /\ progress' = [progress EXCEPT !.pending = p, !.written = @ \/ other]
         \/ /\ progress.written /\ ~other
            /\ HoldBack(p)
            /\ UNCHANGED card
  /\ UNCHANGED <<displayE, libraryE, store>>

HandleStorage(cmd) ==
  /\ \/ OpenOrExtend(cmd)
     \/ LoadChapters(cmd)
     \/ JumpChapter(cmd)
     \/ SkipStale(cmd)
     \/ LoadCatalog(cmd)
     \/ StoreProgress(cmd)
  /\ Idle

\* A page outside the loaded section: the loading plate is flushed first.
PlateFor(cmd) ==
  [view |-> "reading", book |-> cmd.book, page |-> cmd.page, pages |-> panel.last.pages]
MayPlate(cmd) == cmd.kind \in {"open", "extend"} /\ panel.on /\ panel.last # None

TakeStorage ==
  /\ DisplayTurn
  /\ displayQ = <<>> /\ storageQ # <<>>
  /\ LET cmd == Head(storageQ)
     IN  \/ /\ MayPlate(cmd)
            /\ Waiting("plate", cmd)
            /\ storageQ' = Tail(storageQ)
            /\ UNCHANGED <<displayE, libraryE, store, progress, card>>
         \/ /\ MayPlate(cmd) => store.loaded = cmd.book
            /\ storageQ' = Tail(storageQ)
            /\ HandleStorage(cmd)
         \/ /\ cmd.kind = "catalog"
            /\ storageQ' = TrySend(Tail(storageQ), user.storage, StorageWork("refresh"))
            /\ Idle
            /\ UNCHANGED <<displayE, libraryE, store, progress, card>>
  /\ UNCHANGED <<inputs, displayQ, powerQ, appVars, panel, power, prompts>>
  /\ DisplayKeeps

FinishPlate ==
  /\ Free("display") /\ display.phase = "plate"
  /\ \/ panel' = [panel EXCEPT !.last = PlateFor(display.cmd)]
     \/ "flush" \in user.faults /\ UNCHANGED panel
  /\ HandleStorage(display.cmd)
  /\ UNCHANGED <<inputs, displayQ, storageQ, powerQ, appVars, power, prompts>>
  /\ DisplayKeeps
-----------------------------------------------------------------------------
(* The power task. *)

PowerKeeps == Keep("power", power' \in {"awake", "handshake"} /\ powerQ' # <<>>)

EnterSleep ==
  IF Len(displayQ) < user.commands
  THEN displayQ' = Append(displayQ, Sleep) /\ power' = "handshake"
  ELSE power' = "asking" /\ UNCHANGED displayQ

PowerAwake ==
  /\ Free("power") /\ power = "awake"
  /\ powerQ # <<>>
  /\ powerQ' = Tail(powerQ)
  /\ IF Head(powerQ) = "sleepNow" THEN EnterSleep ELSE UNCHANGED <<displayQ, power>>
  /\ UNCHANGED <<inputs, storageQ, displayE, libraryE, appVars, dispVars, prompts>>
  /\ PowerKeeps

IdleExpires ==
  /\ user.idle
  /\ Free("power") /\ power = "awake" /\ powerQ = <<>>
  /\ prompts < user.prompts
  /\ prompts' = prompts + 1
  /\ EnterSleep
  /\ UNCHANGED <<inputs, storageQ, displayE, libraryE, powerQ, appVars, dispVars>>
  /\ PowerKeeps

\* The Sleep command finds room at last.
Ask ==
  /\ Free("power") /\ power = "asking" /\ Len(displayQ) < user.commands
  /\ EnterSleep
  /\ UNCHANGED <<inputs, storageQ, displayE, libraryE, powerQ, appVars, dispVars, prompts>>
  /\ PowerKeeps

Handshake ==
  /\ Free("power") /\ power = "handshake"
  /\ powerQ # <<>>
  /\ powerQ' = Tail(powerQ)
  /\ power' = CASE Head(powerQ) = "displayAsleep" -> "off"
                [] Head(powerQ) \in {"displayFailed", "activity"} -> "awake"
                [] OTHER -> "handshake"
  /\ UNCHANGED <<inputs, displayQ, storageQ, displayE, libraryE, appVars, dispVars, prompts>>
  /\ PowerKeeps
-----------------------------------------------------------------------------
App == (PowerKey \/ AppKey \/ AppDisplayEvent \/ AppLibraryEvent \/ Resume) /\ UNCHANGED user
Display == /\ \/ DisplayReady \/ StartRender \/ FinishRender \/ StartSleep \/ FinishSleep
              \/ TakeStorage \/ FinishPlate
           /\ dropped' = (dropped \/ ~(LoadedEvents \subseteq LoadedEvents'))
           /\ UNCHANGED user
Power == (PowerAwake \/ Ask \/ Handshake) /\ UNCHANGED user
Prompt == (IdleExpires \/ Wake \/ \E key \in user.keys : Press(key)) /\ UNCHANGED user

Next == App \/ Display \/ Power \/ Prompt

\* The executor's run queue reaches every ready task, the panel and the card
\* answer within their timeouts; keys, idle time and waking owe nothing.
Fairness == SF_vars(App) /\ SF_vars(Display) /\ SF_vars(Power)

Spec == Init /\ [][Next]_vars /\ Fairness
-----------------------------------------------------------------------------
Busy == {"init", "idle", "render", "sleep", "plate"}

\* Types: every channel keeps within its capacity and every page within its book.
TypeOK ==
  /\ user \in Users
  /\ cpu \in {"none", "app", "display", "power"}
  /\ Len(inputs) <= InputCap /\ Len(displayQ) <= user.commands /\ Len(storageQ) <= user.storage
  /\ Len(displayE) <= EventCap /\ Len(libraryE) <= LibraryCap /\ Len(powerQ) <= user.power
  /\ reader \in Frame
  /\ app.pending \in Command \union {None}
  /\ app.opening \in Books \union {None}
  /\ latest \in 0 .. user.prompts
  /\ display.phase \in Busy
  /\ panel.last \in Frame \union {None}
  /\ store.loaded \in Books \union {None}
  /\ progress.pending \in Position \union {None}
  /\ card \in [state : Position \union {None}, pos : [Books -> Page]]
  /\ power \in {"awake", "asking", "handshake", "off"}

Unfinished == Elements(storageQ) \union {display.cmd, app.pending}
                \union (IF blocked # None /\ blocked.on = "storage" THEN {blocked.m} ELSE {})

\* While a render counts as in flight, the display has the command or its answer
\* is on the way back, through failed flushes, aborted sleeps and full queues.
RenderAnswered ==
  app.rendering =>
    \/ \E m \in Elements(displayQ) : m # Sleep
    \/ display.phase = "render"
    \/ \E e \in Elements(displayE) : e.kind \in {"settled", "failed", "asleep"}

\* Nobody puts the device to sleep: no power key is pressed, no idle time ends.
StaysAwake == "power" \notin user.keys /\ ~user.idle

\* Input is dropped while a book opens, so the opening must be able to end: its
\* request is still the latest one and on its way to the display, or its Loaded
\* event is on its way to the app. When sleeps come in between there are two
\* exceptions: an open that was held back over a sleep is sent when later requests
\* have made it stale (app.rs:207, 226) and skipped without an answer, and display
\* events that pile up while the app waits to hand over a power key can push the
\* Loaded event out of its channel (app.rs:88, display.rs:972).
OpeningAnswered ==
  app.opening # None /\ (StaysAwake \/ ~(app.orphaned \/ dropped)) =>
    \/ \E cmd \in Unfinished \ {None} :
         cmd.kind = "open" /\ cmd.book = app.opening /\ cmd.req = latest
    \/ \E e \in LoadedEvents : e.book = app.opening

\* The app waits for no answer that nobody owes it: display.rs and app.rs drop
\* and evict events and commands, and no such loss may be the awaited one.
AnswersOwed == RenderAnswered /\ OpeningAnswered

\* ARCHITECTURE.md: the app keeps at most one display render in flight, while
\* nobody puts the device to sleep.
OneRenderInFlight ==
  StaysAwake => \A i, j \in 1 .. Len(displayQ) :
    displayQ[i] # Sleep => /\ display.phase # "render"
                           /\ displayQ[j] # Sleep => i = j

\* power.rs: once the power is cut, the panel has settled on its sleep image and
\* the last position the app asked to store is on the card.
SleepIsSafe ==
  power = "off" => /\ display.phase = "idle" /\ ~panel.on
                   /\ turned # None => card.state = turned

\* With every channel drained, the page being read is the book's durable place
\* or the one held for the next write.
Place(b) == IF progress.pending # None /\ progress.pending.book = b
            THEN progress.pending.page ELSE card.pos[b]
PlaceKept ==
  Drained /\ reader.view = "reading" /\ reader.book \in Books
    => Place(reader.book) = reader.page

\* A patient reader's last position is on the card or held for the next write; it
\* was given up only if a held place of another book failed to land and is still
\* held. Excepted is a card that fails on a device put to sleep: the older place
\* may then land after the newer was given up.
Patient == user.typing = "patient"
TurnedKept ==
  Patient /\ (StaysAwake \/ "store" \notin user.faults) /\ Drained /\ turned # None =>
    IF progress.pending = None THEN card.state = turned
    ELSE progress.pending = turned \/ progress.pending.book # turned.book

\* At rest on a page of a book, a patient reader of a device that stays awake has
\* that book's section loaded, and the panel shows the page the reader is at if
\* none of its flushes fails.
ReadingLoaded ==
  Patient /\ StaysAwake /\ Drained /\ reader.view = "reading" /\ reader.book \in Books
    => /\ store.loaded = reader.book
       /\ "flush" \notin user.faults => panel.last = reader

\* A book that was asked for is loaded in the end, or the reader has left it.
OpenCompletes ==
  \A b \in Books :
    (StaysAwake /\ reader.view = "reading" /\ reader.book = b)
      ~> (store.loaded = b \/ reader.view # "reading" \/ reader.book # b)

\* Input is not locked out for good by the opening of a book, once the first
\* paint is done.
InputUnlocks ==
  (StaysAwake /\ user.typing # "any" /\ (app.opening # None \/ app.suppress))
    ~> (app.opening = None /\ ~app.suppress)

\* The opening of a book comes to its end on both sides.
OpeningIsOver == OpenCompletes /\ InputUnlocks

\* The same for keys pressed at any time, before the first paint too.
InputAlwaysUnlocks ==
  (app.opening # None \/ app.suppress) ~> (app.opening = None /\ ~app.suppress)

\* The panel catches up with the latest state the reader reached.
LatestShown == StaysAwake => []<>(panel.last = reader)

\* Every sleep the power task asks for ends, in deep sleep or awake again, however
\* the panel fails and whichever keys come in between; only a held place that
\* cannot be written may keep it waiting, since a sleep given up for that sends
\* no answer.
HandshakeAnswered ==
  power = "handshake"
    ~> (power # "handshake" \/ ("store" \in user.faults /\ progress.pending # None))
=============================================================================
