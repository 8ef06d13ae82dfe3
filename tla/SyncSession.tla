------------------------------ MODULE SyncSession ------------------------------
(***************************************************************************)
(* The wireless session: the Wi-Fi task of fw/src/tasks/wifi.rs, the app   *)
(* task's Wireless screen (app.rs and the reducer of app-core), and the    *)
(* storage side of the display task, which lends the reader's scratch      *)
(* memory to the radio and keeps the network credentials on the card.      *)
(* A granted loan is one-way: the session ends in a software reset.        *)
(*                                                                         *)
(* An action is one turn of a task, from the wait that ends to the next.   *)
(* The reader is one book that is opened and paged through: its commands   *)
(* share a queue and a held place with the forget (the chapter list, the   *)
(* settings and a display that fails are in ReaderShell; their commands    *)
(* take the same way as these).  A book upload is no more than something   *)
(* Exit must stop first (UploadSession); a credentials write is atomic     *)
(* (DurableRecord).                                                        *)
(***************************************************************************)
EXTENDS Integers, Sequences, FiniteSets

CONSTANTS Networks,  \* networks whose credentials may be saved
          None,
          SyncCap, EventCap, StorageCap,         \* lengths of the channels
          MaxKeys, MaxSaves, MaxFaults, MaxCuts  \* bounds of a run

ASSUME CapsAssumption == {SyncCap, EventCap, StorageCap} \subseteq Nat \ {0}
ASSUME BoundsAssumption == {MaxKeys, MaxSaves, MaxFaults, MaxCuts} \subseteq Nat

VARIABLES card,      \* network of the credentials record, or None
          session,   \* SyncSession of the display task
          scratch,   \* who holds the EPUB scratch
          storageQ, commands, events,  \* STORAGE_COMMANDS, SYNC_COMMANDS, SYNC_EVENTS
          loan,      \* SYNC_LOANS: <<>>, or the credentials that ship with the memory
          results,   \* WIFI_STORAGE_RESULTS
          loaded,    \* Loaded events that await the app task
          screen,    \* of ReaderState: view, sync_status, wifi_ssid
          app,       \* the app task's flags
          wifi,      \* where the Wi-Fi task waits, and the credentials submitted
          spent      \* keys pressed, credentials submitted, faults, power cuts

channels == <<storageQ, commands, events, loan, results, loaded>>
ram == <<session, scratch, channels, screen, app, wifi>>
vars == <<card, ram, spent>>

Network == Networks \union {None}
Status == {"notConfigured", "idle", "forgetPending", "starting", "connecting",
           "connected", "portalUp", "serving", "saved", "error"}
Kinds == {"probe", "refresh", "open", "extend", "progress", "loan", "store", "forget"}
StorageWork == [kind : Kinds, net : Network, req : Nat]  \* request_id, 0 where there is none
Work(kind, net) == [kind |-> kind, net |-> net, req |-> 0]
Request(kind, id) == [kind |-> kind, net |-> None, req |-> id]
SyncEvent == [kind : Status \union {"networkSaved"}, net : Network]
Phases == {"off", "asking", "waiting", "scanning", "portal", "storing",
           "joining", "error", "serving", "stopping", "failed"}
Loans == {<<>>} \union {<<net>> : net \in Network}
Waits == [phase : Phases, net : Network]
Screens == [view : {"home", "wireless", "reading"}, status : Status, ssid : Network]
AppKinds == {"open", "extend", "progress", "forget"}
HeldWork == {work \in StorageWork : work.kind \in AppKinds}
Flags == [opening : BOOLEAN, locked : BOOLEAN, held : HeldWork \union {None},
          sending : HeldWork \union {None}, rendering : BOOLEAN, again : BOOLEAN,
          latest : Nat, lost : BOOLEAN]
Counts == [keys : 0 .. MaxKeys, saves : 0 .. MaxSaves, faults : 0 .. MaxFaults, cuts : 0 .. MaxCuts]

\* Mutant: a channel never refuses.
SendAlways(queue, cap, m) == Append(queue, m)
TrySend(queue, cap, m) == IF Len(queue) < cap THEN Append(queue, m) ELSE queue
Event(kind, net) == [kind |-> kind, net |-> net]
Send(kind, net) == TrySend(events, EventCap, Event(kind, net))
Holds(queue, kind) == \E i \in 1 .. Len(queue) : queue[i].kind = kind
Room == Len(storageQ) < StorageCap

ASSUME NoneAssumption ==
  None \notin Networks \union StorageWork \union {"start", "exit", "open", "extend", "forget"}

Fault == spent.faults < MaxFaults /\ spent' = [spent EXCEPT !.faults = @ + 1]
-----------------------------------------------------------------------------
(* A reset: RAM starts over, the card keeps what it has. *)

ScreenAtBoot == [view |-> "home", status |-> "notConfigured", ssid |-> None]
AppAtBoot == [opening |-> FALSE, \* opening_book
              locked  |-> FALSE, \* suppress_input_until_open_settled
              held    |-> None,  \* pending_storage
              sending |-> None,  \* the storage send the task waits in
              rendering |-> FALSE, again |-> FALSE, \* rendering, render_pending
              latest  |-> 0,     \* LATEST_READER_REQUEST_ID
              lost    |-> FALSE] \* history: a forget found no place, or lost it
Probe == Work("probe", None)

Init ==
  /\ card \in Network
  /\ session = "idle" /\ scratch = {"reader"}
  /\ storageQ = <<Probe>> /\ commands = <<>> /\ events = <<>>
  /\ loan = <<>> /\ results = <<>> /\ loaded = 0
  /\ screen = ScreenAtBoot /\ app = AppAtBoot
  /\ wifi = [phase |-> "off", net |-> None]
  /\ spent = [keys |-> 0, saves |-> 0, faults |-> 0, cuts |-> 0]

Reset ==
  /\ session' = "idle" /\ scratch' = {"reader"}
  /\ storageQ' = <<Probe>> /\ commands' = <<>> /\ events' = <<>>
  /\ loan' = <<>> /\ results' = <<>> /\ loaded' = 0
  /\ screen' = ScreenAtBoot /\ app' = AppAtBoot
  /\ wifi' = [phase |-> "off", net |-> None]
  /\ UNCHANGED card

\* Deep sleep and the wake that follows, or a battery that runs out.
PowerCut ==
  /\ spent.cuts < MaxCuts
  /\ spent' = [spent EXCEPT !.cuts = @ + 1]
  /\ Reset
-----------------------------------------------------------------------------
(* The reducer: apply_input on the Home, Wireless and Reading views, and    *)
(* apply_sync_event.                                                        *)

Entry == IF screen.ssid = None THEN "notConfigured" ELSE "idle"
Home == [screen EXCEPT !.view = "home", !.status = Entry]
Says(status) == [screen EXCEPT !.status = status]

WirelessKey(key) ==
  CASE key = "confirm" /\ screen.status \in {"notConfigured", "idle", "error"} -> Says("starting")
    [] key = "confirm" /\ screen.status = "forgetPending" ->
         [screen EXCEPT !.status = "notConfigured", !.ssid = None]
    [] key = "confirm" /\ screen.status \in {"saved", "serving"} -> Home
    [] key = "back" -> IF screen.status = "forgetPending" THEN Says("idle") ELSE Home
    [] key = "prev" /\ screen.status = "idle" -> Says("forgetPending")
    [] OTHER -> screen

AfterKey(key) ==
  CASE screen.view = "wireless" -> WirelessKey(key)
    [] screen.view = "home" /\ key = "prev" -> [screen EXCEPT !.view = "wireless", !.status = Entry]
    [] screen.view = "home" /\ key = "confirm" -> [screen EXCEPT !.view = "reading"]
    [] screen.view = "reading" /\ key = "back" -> [screen EXCEPT !.view = "home"]
    [] OTHER -> screen

AfterEvent(e) ==
  CASE e.kind = "networkSaved" ->
         [screen EXCEPT !.ssid = e.net,
                        !.status = IF @ = "notConfigured" THEN "idle" ELSE @]
    [] e.kind = "saved" -> [screen EXCEPT !.ssid = e.net, !.status = "saved"]
    [] OTHER -> Says(e.kind)

\* Mutant: a session that only starts has not touched the radio yet.
SyncCommandSpared(next) ==
  IF screen.status # "starting" /\ next.status = "starting" THEN "start"
  ELSE IF /\ screen.view = "wireless" /\ next.view # "wireless"
          /\ screen.status \notin {"notConfigured", "idle", "forgetPending", "starting"}
       THEN "exit" ELSE None
\* sync_command_for_transition
SyncCommandFor(next) ==
  IF screen.status # "starting" /\ next.status = "starting" THEN "start"
  ELSE IF /\ screen.view = "wireless" /\ next.view # "wireless"
          /\ screen.status \notin {"notConfigured", "idle", "forgetPending"}
       THEN "exit" ELSE None

\* Mutant: deletes the record when the forget is armed.
StorageArmed(next, moved) ==
  CASE screen.view # "reading" /\ next.view = "reading" -> "open"
    [] moved -> "extend"
    [] screen.status # "forgetPending" /\ next.status = "forgetPending" -> "forget"
    [] OTHER -> None
\* storage_command_for_transition and forget_command_for_transition
StorageCommandFor(next, moved) ==
  CASE screen.view # "reading" /\ next.view = "reading" -> "open"
    [] moved -> "extend"
    [] /\ screen.status = "forgetPending" /\ next.status = "notConfigured"
       /\ next.view = "wireless" -> "forget"
    [] OTHER -> None
-----------------------------------------------------------------------------
(* The app task. *)

AppTurn == app.sending = None
Paint(a) == IF a.rendering THEN [a EXCEPT !.again = TRUE] ELSE [a EXCEPT !.rendering = TRUE]

\* Without room a command is held back for the next Settled: a reader command
\* in the place of whatever is held, another one only if nothing is.
Offer(place, work) ==
  [queue |-> TrySend(place.queue, StorageCap, work),
   held  |-> IF /\ Len(place.queue) >= StorageCap
                /\ work.kind \in {"open", "extend"} \/ place.held = None
             THEN work ELSE place.held]

\* What a key has the app task send, or hold back, of the storage commands: a
\* page turned goes with the position to be saved.
Offered(kind) ==
  LET place == [queue |-> storageQ, held |-> app.held]
  IN CASE kind = None     -> place
       [] kind = "forget" -> Offer(place, Work("forget", None))
       [] kind = "open"   -> Offer(place, Request("open", app.latest + 1))
       [] OTHER           -> Offer(Offer(place, Request("extend", app.latest + 1)),
                                   Work("progress", None))

IsForget(work) == work # None /\ work.kind = "forget"

\* A key pressed while a book opens is ignored. A page key moves, or the book
\* ends there.
Key(key, moved) ==
  /\ AppTurn /\ ~app.opening /\ ~app.locked
  /\ moved => screen.view = "reading" /\ key = "prev"
  /\ spent.keys < MaxKeys
  /\ spent' = [spent EXCEPT !.keys = @ + 1]
  /\ screen' = AfterKey(key)
  /\ LET kind  == StorageCommandFor(screen', moved)
         after == Offered(kind)
         sync  == SyncCommandFor(screen')
         meant == kind = "forget" \/ Holds(storageQ, "forget") \/ IsForget(app.held)
     IN  /\ storageQ' = after.queue
         /\ app' = Paint([app EXCEPT !.held = after.held,
                                     !.opening = kind = "open", !.locked = kind = "open",
                                     !.latest = IF kind \in {"open", "extend"} THEN @ + 1 ELSE @,
                                     !.lost = @ \/ /\ meant
                                                   /\ ~Holds(after.queue, "forget")
                                                   /\ ~IsForget(after.held)])
         /\ commands' = IF sync = None THEN commands ELSE TrySend(commands, SyncCap, sync)
  /\ UNCHANGED <<card, session, scratch, events, loan, results, loaded, wifi>>

\* The rest of a Settled: the repaint put off, or the keys of an opened book.
AfterSettled(a) ==
  IF a.again THEN [a EXCEPT !.rendering = TRUE, !.again = FALSE]
  ELSE [a EXCEPT !.locked = @ /\ a.opening]

\* The Settled event of a render: the held command goes out first, and the
\* task waits for room in the storage queue. An open that goes out now locks
\* the keys again.
Settled ==
  /\ AppTurn /\ app.rendering
  /\ LET open == app.held # None /\ app.held.kind = "open"
         settled == [app EXCEPT !.rendering = FALSE, !.held = None,
                                !.opening = @ \/ open, !.locked = @ \/ open]
     IN  IF app.held # None /\ ~Room
         THEN app' = [settled EXCEPT !.sending = app.held] /\ UNCHANGED storageQ
         ELSE /\ app' = AfterSettled(settled)
              /\ storageQ' = IF app.held = None THEN storageQ ELSE Append(storageQ, app.held)
  /\ UNCHANGED <<card, session, scratch, commands, events, loan, results, loaded, screen, wifi, spent>>

SendHeld ==
  /\ app.sending # None /\ Room
  /\ storageQ' = Append(storageQ, app.sending)
  /\ app' = AfterSettled([app EXCEPT !.sending = None])
  /\ UNCHANGED <<card, session, scratch, commands, events, loan, results, loaded, screen, wifi, spent>>

\* Any answer for the book on the screen ends its opening.
TakeLoaded ==
  /\ AppTurn /\ loaded > 0
  /\ loaded' = loaded - 1
  /\ app' = Paint([app EXCEPT !.opening = FALSE])
  /\ UNCHANGED <<card, session, scratch, storageQ, commands, events, loan, results, screen, wifi, spent>>

TakeSyncEvent ==
  /\ AppTurn /\ loaded = 0 /\ events # <<>>
  /\ events' = Tail(events)
  /\ screen' = AfterEvent(Head(events))
  /\ app' = IF screen.view = "wireless" THEN Paint(app) ELSE app
  /\ UNCHANGED <<card, session, scratch, storageQ, commands, loan, results, loaded, wifi, spent>>
-----------------------------------------------------------------------------
(* The display task's storage commands: handle_storage_command. *)

\* Mutant: a session still opens books.
AdmitsBooks(work) == session = "idle" \/ work.kind \in {"store", "progress", "open"}
Admits(work) == session = "idle" \/ work.kind \in {"store", "progress"}

Handle(kind) ==
  /\ storageQ # <<>> /\ Head(storageQ).kind = kind /\ Admits(Head(storageQ))

Refuse ==
  /\ storageQ # <<>> /\ ~Admits(Head(storageQ))
  /\ storageQ' = Tail(storageQ)
  /\ UNCHANGED <<card, session, scratch, commands, events, loan, results, loaded,
                 screen, app, wifi, spent>>

\* The boot's read of the credentials; a read that fails finds none. Without a
\* catalog snapshot on the card a scan is asked for.
ProbeNetwork ==
  /\ Handle("probe")
  /\ storageQ' \in {Tail(storageQ), TrySend(Tail(storageQ), StorageCap, Work("refresh", None))}
  /\ \/ events' = (IF card = None THEN events ELSE Send("networkSaved", card)) /\ UNCHANGED spent
     \/ Fault /\ UNCHANGED events
  /\ UNCHANGED <<card, session, scratch, commands, loan, results, loaded, screen, app, wifi>>

\* The newest request is served: ensure_epub_scratch hands the reader the
\* scratch, whoever had it. An older one is skipped.
ServePage ==
  /\ Handle("open") \/ Handle("extend")
  /\ storageQ' = Tail(storageQ)
  /\ IF Head(storageQ).req = app.latest
     THEN scratch' = scratch \union {"reader"} /\ loaded' = loaded + 1
     ELSE UNCHANGED <<scratch, loaded>>
  /\ UNCHANGED <<card, session, commands, events, loan, results, screen, app, wifi, spent>>

\* StoreProgress and RefreshCatalog: here they only take their turn.
OtherWork ==
  /\ Handle("progress") \/ Handle("refresh")
  /\ storageQ' = Tail(storageQ)
  /\ UNCHANGED <<card, session, scratch, commands, events, loan, results, loaded,
                 screen, app, wifi, spent>>

LendMemory(net) ==
  /\ session' = "loaned"
  /\ scratch' = (scratch \ {"reader"}) \union {"channel"}
  /\ loan' = IF loan = <<>> THEN <<net>> ELSE loan
\* A failed flush of the reading position refuses the loan without an answer.
LoanSyncMemory ==
  /\ Handle("loan") /\ storageQ' = Tail(storageQ)
  /\ \/ LendMemory(card) /\ UNCHANGED spent
     \/ Fault /\ (LendMemory(None) \/ UNCHANGED <<session, scratch, loan>>)
  /\ UNCHANGED <<card, commands, events, results, loaded, screen, app, wifi>>

\* Mutant: the answer is the write's, whether the record can be read or not.
StoreUnread ==
  /\ card' \in {card, Head(storageQ).net}
  /\ results' = <<TRUE>>
  /\ UNCHANGED spent
\* The portal is told TRUE only when the record reads back as written.
StoreCredentials ==
  \/ card' = Head(storageQ).net /\ results' = <<TRUE>> /\ UNCHANGED spent
  \/ Fault /\ card' \in {card, Head(storageQ).net} /\ results' = <<FALSE>>
StoreWifiCredentials ==
  /\ Handle("store") /\ storageQ' = Tail(storageQ)
  /\ StoreCredentials
  /\ UNCHANGED <<session, scratch, commands, events, loan, loaded, screen, app, wifi>>

\* A delete that fails can leave any generation of the record behind.
ForgetWifiCredentials ==
  /\ Handle("forget") /\ storageQ' = Tail(storageQ)
  /\ \/ card' = None /\ UNCHANGED spent
     \/ Fault /\ card' \in Network
  /\ UNCHANGED <<session, scratch, commands, events, loan, results, loaded, screen, app, wifi>>
-----------------------------------------------------------------------------
(* The Wi-Fi task. *)

WaitIn(phase) == wifi' = [wifi EXCEPT !.phase = phase]

\* A send that finds no room waits.
AskLoan ==
  IF Room THEN storageQ' = Append(storageQ, Work("loan", None)) /\ WaitIn("waiting")
          ELSE UNCHANGED storageQ /\ WaitIn("asking")

Begin ==
  /\ wifi.phase = "off" /\ commands # <<>>
  /\ commands' = Tail(commands)
  /\ IF Head(commands) = "start" THEN AskLoan ELSE UNCHANGED <<storageQ, wifi>>
  /\ UNCHANGED <<card, session, scratch, events, loan, results, loaded, screen, app, spent>>

AskAgain ==
  /\ wifi.phase = "asking" /\ Room
  /\ AskLoan
  /\ UNCHANGED <<card, session, scratch, commands, events, loan, results, loaded, screen, app, spent>>

\* Without credentials the session is the onboarding portal, and the task
\* scans for networks first.  A radio that does not start parks the task.
TakeLoan ==
  /\ wifi.phase = "waiting" /\ loan # <<>>
  /\ loan' = <<>>
  /\ scratch' = (scratch \ {"channel"}) \union {"radio"}
  /\ \/ Fault /\ WaitIn("failed") /\ events' = Send("error", None)
     \/ /\ IF Head(loan) = None THEN WaitIn("scanning") /\ UNCHANGED events
           ELSE WaitIn("joining") /\ events' = Send("connecting", None)
        /\ UNCHANGED spent
  /\ UNCHANGED <<card, session, storageQ, commands, results, loaded, screen, app>>

RaisePortal ==
  /\ wifi.phase = "scanning"
  /\ \/ Fault /\ WaitIn("failed") /\ events' = Send("error", None)
     \/ WaitIn("portal") /\ events' = Send("portalUp", None) /\ UNCHANGED spent
  /\ UNCHANGED <<card, session, scratch, storageQ, commands, loan, results, loaded, screen, app>>

\* Mutant: a join that fails is not reported.
AttemptSilent ==
  \/ WaitIn("serving") /\ events' = TrySend(Send("connected", None), EventCap, Event("serving", None))
  \/ WaitIn("error") /\ UNCHANGED events
\* The join and the DHCP lease, each within its timeout.
Attempt ==
  \/ WaitIn("serving") /\ events' = TrySend(Send("connected", None), EventCap, Event("serving", None))
  \/ WaitIn("error") /\ events' = Send("error", None)
AttemptEnds ==
  /\ wifi.phase = "joining"
  /\ Attempt
  /\ UNCHANGED <<card, session, scratch, storageQ, commands, loan, results, loaded, screen, app, spent>>

\* The portal takes one form at a time; the browser's next one waits.
SubmitCredentials(net) ==
  /\ wifi.phase = "portal" /\ Room
  /\ spent.saves < MaxSaves
  /\ spent' = [spent EXCEPT !.saves = @ + 1]
  /\ storageQ' = Append(storageQ, Work("store", net))
  /\ wifi' = [phase |-> "storing", net |-> net]
  /\ UNCHANGED <<card, session, scratch, commands, events, loan, results, loaded, screen, app>>

TakeResult ==
  /\ wifi.phase = "storing" /\ results # <<>>
  /\ results' = <<>>
  /\ events' = IF Head(results) THEN Send("saved", wifi.net) ELSE events
  /\ WaitIn("portal")
  /\ UNCHANGED <<card, session, scratch, storageQ, commands, loan, loaded, screen, app, spent>>

\* The phases in which SYNC_COMMANDS is read once the radio has the memory.
Reading == {"portal", "storing", "failed", "error", "serving"}

\* Mutant: a parked task reads no more commands.
ExitFromServing == wifi.phase \in {"portal", "storing", "error", "serving"} /\ Reset
\* park_until_exit, exit_after_uploads and the retry loop end in reset_now,
\* the book server only after an open upload has been stopped.
ExitSession ==
  \/ wifi.phase \in Reading /\ Reset
  \/ /\ wifi.phase = "serving"
     /\ WaitIn("stopping")
     /\ commands' = Tail(commands)
     /\ UNCHANGED <<card, session, scratch, storageQ, events, loan, results, loaded, screen, app>>
Exit ==
  /\ commands # <<>> /\ Head(commands) = "exit"
  /\ ExitSession
  /\ UNCHANGED spent

UploadStopped == wifi.phase = "stopping" /\ Reset /\ UNCHANGED spent

\* Start retries a join that failed and means nothing anywhere else.
StartAgain ==
  /\ wifi.phase \in Reading /\ commands # <<>> /\ Head(commands) = "start"
  /\ commands' = Tail(commands)
  /\ IF wifi.phase = "error" THEN WaitIn("joining") /\ events' = Send("connecting", None)
                             ELSE UNCHANGED <<wifi, events>>
  /\ UNCHANGED <<card, session, scratch, storageQ, loan, results, loaded, screen, app, spent>>
-----------------------------------------------------------------------------
AppNext == (\E key \in {"confirm", "back", "prev"}, moved \in BOOLEAN : Key(key, moved)) \/ Settled \/ SendHeld
           \/ TakeLoaded \/ TakeSyncEvent
Store == Refuse \/ ProbeNetwork \/ ServePage \/ OtherWork \/ LoanSyncMemory \/ StoreWifiCredentials
         \/ ForgetWifiCredentials
Wifi == Begin \/ AskAgain \/ TakeLoan \/ RaisePortal \/ AttemptEnds \/ TakeResult
        \/ Exit \/ UploadStopped \/ StartAgain
Submit == \E net \in Networks : SubmitCredentials(net)
Next == AppNext \/ Store \/ Wifi \/ Submit \/ PowerCut

\* The executor polls every task whose wait is over, and every wait of the
\* Wi-Fi task but for commands, the loan, the scan and the browser has a timeout;
\* the scan is the radio's own, which ends with a list or an error.
Fairness ==
  /\ WF_vars(Settled) /\ WF_vars(SendHeld) /\ WF_vars(TakeLoaded) /\ WF_vars(TakeSyncEvent)
  /\ WF_vars(Store)
  /\ WF_vars(Begin \/ AskAgain) /\ WF_vars(TakeLoan) /\ WF_vars(RaisePortal)
  /\ WF_vars(AttemptEnds) /\ WF_vars(TakeResult)
  /\ WF_vars(Exit) /\ WF_vars(StartAgain) /\ WF_vars(UploadStopped)
Spec == Init /\ [][Next]_vars /\ Fairness
-----------------------------------------------------------------------------
(* Properties *)

\* Every variable has its type, and no channel holds more than it can.
TypeOK ==
  /\ card \in Network
  /\ session \in {"idle", "loaned"}
  /\ scratch \subseteq {"reader", "channel", "radio"}
  /\ storageQ \in Seq(StorageWork) /\ Len(storageQ) <= StorageCap
  /\ commands \in Seq({"start", "exit"}) /\ Len(commands) <= SyncCap
  /\ events \in Seq(SyncEvent) /\ Len(events) <= EventCap
  /\ loan \in Loans
  /\ results \in {<<>>, <<TRUE>>, <<FALSE>>}
  /\ loaded \in Nat
  /\ screen \in Screens /\ app \in Flags /\ wifi \in Waits /\ spent \in Counts

\* The scratch memory has one owner at a time: no storage command the reader
\* still sends may touch it once it is radio heap (sync_mem.rs: nothing here
\* may be touched by reader code after the loan).
ScratchHasOneOwner == Cardinality(scratch) = 1

\* A session the user has left is on its way to the reset: once the Wi-Fi task
\* works on a session, either the Wireless screen shows or an Exit is coming.
\* The app judges this from the status of the last event alone.
SessionIsWatched ==
  wifi.phase \in {"off", "stopping"} \/ screen.view = "wireless"
    \/ \E i \in 1 .. Len(commands) : commands[i] = "exit"

\* The network the saved screen names is on the card: the last CredentialsSaved
\* reported or shown names the stored record, unless a card fault followed.
LastSaved(net) ==
  \/ \E i \in 1 .. Len(events) :
       /\ events[i].kind = "saved" /\ events[i].net = net
       /\ \A j \in 1 .. Len(events) : events[j].kind = "saved" => j <= i
  \/ ~Holds(events, "saved") /\ screen.ssid = net
SavedIsStored ==
  Holds(events, "saved") \/ screen.status = "saved" =>
    /\ card # None
    /\ spent.faults = 0 /\ wifi.phase # "storing" => LastSaved(card)

\* Before a session the Wireless screen offers the network the card holds, once
\* the boot's probe has been heard and no forget is under way, unless a forget
\* was lost.  (A forget pressed once a session has been asked for may be lost as
\* well: the session refuses it.)
ForgetUnderWay == Holds(storageQ, "forget") \/ IsForget(app.held) \/ IsForget(app.sending)
BeforeSession ==
  /\ wifi.phase = "off" /\ spent.faults = 0 /\ ~ForgetUnderWay
  /\ ~Holds(storageQ, "probe") /\ ~Holds(events, "networkSaved")
ScreenKnowsNetwork == BeforeSession /\ ~app.lost => screen.ssid = card

\* The storage side refused the loan and the Wi-Fi task waits for it.
Stranded == wifi.phase = "waiting" /\ loan = <<>> /\ ~Holds(storageQ, "loan")

\* An Exit ends the session: the device resets, whatever the Wi-Fi task does
\* when the Exit is sent, unless the loan was refused.
ExitResets == Len(SelectSeq(commands, LAMBDA c : c = "exit")) > 0 ~> (wifi.phase = "off" \/ Stranded)

\* A session in which Confirm is dead lands on a screen that takes keys, unless
\* the loan was refused or the radio could not be started.
InFlight == screen.status \in {"starting", "connecting", "connected"}
SessionLands == InFlight ~> (~InFlight \/ Stranded \/ wifi.phase = "failed")

\* A book opened while a session begins or ends never locks the keys for good:
\* a session refuses the command without an answer, and the reset must free them.
KeysLocked == app.opening \/ app.locked
OpeningEnds == KeysLocked ~> ~KeysLocked

\* Whatever becomes of a session, the keys come back.
KeysReturn == SessionLands /\ OpeningEnds
=============================================================================
