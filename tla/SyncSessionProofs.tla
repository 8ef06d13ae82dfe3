-------------------------- MODULE SyncSessionProofs --------------------------
(***************************************************************************)
(* Theorems about SyncSession, for any networks, channel lengths and       *)
(* numbers of keys, forms, faults and power cuts: every variable keeps its *)
(* type, no channel overflows, the memory lent to the radio has one owner, *)
(* a session the user has left is on its way to its end, and the screen    *)
(* names the network the card holds.                                       *)
(***************************************************************************)
EXTENDS SyncSession, FiniteSetTheorems, TLAPS

\* The display task's session is idle exactly while the reader has the scratch,
\* and the scratch is on its way exactly while SYNC_LOANS holds a loan.
OwnerKnown ==
  /\ scratch \in {{"reader"}, {"channel"}, {"radio"}}
  /\ session = "idle" <=> scratch = {"reader"}
  /\ loan # <<>> <=> scratch = {"channel"}

IInv == TypeOK /\ OwnerKnown
-----------------------------------------------------------------------------
(* Channels. *)

\* A channel that is sent to with try_send keeps to its messages and its length.
LEMMA TrySendFits ==
  ASSUME NEW M, NEW queue \in Seq(M), NEW m \in M, NEW cap \in Nat, Len(queue) <= cap
  PROVE  TrySend(queue, cap, m) \in Seq(M) /\ Len(TrySend(queue, cap, m)) <= cap
  BY DEF TrySend

LEMMA SendFits ==
  ASSUME TypeOK, NEW kind \in Status \union {"networkSaved"}, NEW net \in Network
  PROVE  Send(kind, net) \in Seq(SyncEvent) /\ Len(Send(kind, net)) <= EventCap
<1>1. EventCap \in Nat /\ events \in Seq(SyncEvent) /\ Len(events) <= EventCap
  BY CapsAssumption DEF TypeOK
<1>2. Event(kind, net) \in SyncEvent
  BY DEF Event, SyncEvent
<1> QED BY <1>1, <1>2, TrySendFits DEF Send

\* A queue grows at the end and shrinks at the head.
LEMMA Appended ==
  ASSUME NEW M, NEW queue \in Seq(M), NEW m \in M, NEW longer, longer = Append(queue, m)
  PROVE  /\ Len(longer) = Len(queue) + 1 /\ longer # <<>>
         /\ longer[Len(queue) + 1] = m
         /\ \A i \in 1 .. Len(queue) : i \in 1 .. Len(longer) /\ longer[i] = queue[i]
         /\ \A i \in 1 .. Len(longer) : i \in 1 .. Len(queue) \/ i = Len(queue) + 1
  OBVIOUS

LEMMA Removed ==
  ASSUME NEW M, NEW queue \in Seq(M), queue # <<>>, NEW rest, rest = Tail(queue)
  PROVE  /\ Len(rest) = Len(queue) - 1 /\ rest \in Seq(M)
         /\ Head(queue) = queue[1] /\ 1 \in 1 .. Len(queue) /\ Head(queue) \in M
         /\ \A i \in 1 .. Len(rest) : i + 1 \in 1 .. Len(queue) /\ rest[i] = queue[i + 1] /\ i + 1 # 1
         /\ \A i \in 2 .. Len(queue) : i - 1 \in 1 .. Len(rest) /\ rest[i - 1] = queue[i]
  OBVIOUS

\* A storage queue that has grown by works of some kinds.
Longer(queue, next, kinds) ==
  /\ \A i \in 1 .. Len(queue) : i \in 1 .. Len(next) /\ next[i] = queue[i]
  /\ \A i \in 1 .. Len(next) : i \in 1 .. Len(queue) \/ next[i].kind \in kinds

LEMMA LongerByOne ==
  ASSUME NEW queue \in Seq(StorageWork), NEW kinds, NEW work \in StorageWork, work.kind \in kinds
  PROVE  Longer(queue, Append(queue, work), kinds) /\ Longer(queue, queue, kinds)
<1>1. PICK next : next = Append(queue, work) OBVIOUS
<1> QED BY <1>1, Appended DEF Longer

LEMMA LongerTwice ==
  ASSUME NEW queue \in Seq(StorageWork), NEW next \in Seq(StorageWork), NEW last \in Seq(StorageWork),
         NEW kinds, Longer(queue, next, kinds), Longer(next, last, kinds)
  PROVE  Longer(queue, last, kinds)
  BY DEF Longer

\* A command of the app task is sent, held back or dropped.
LEMMA OfferFits ==
  ASSUME NEW place, place.queue \in Seq(StorageWork), Len(place.queue) <= StorageCap,
         place.held \in HeldWork \union {None}, NEW work \in HeldWork, NEW kinds, work.kind \in kinds
  PROVE  /\ Offer(place, work).queue \in Seq(StorageWork) /\ Len(Offer(place, work).queue) <= StorageCap
         /\ Longer(place.queue, Offer(place, work).queue, kinds)
         /\ Offer(place, work).held \in {place.held, work}
<1>1. work \in StorageWork /\ StorageCap \in Nat BY CapsAssumption DEF HeldWork
<1>2. Offer(place, work).queue \in {place.queue, Append(place.queue, work)}
      /\ Offer(place, work).queue = TrySend(place.queue, StorageCap, work)
      /\ Offer(place, work).held \in {place.held, work}
  BY DEF Offer, TrySend
<1>3. Longer(place.queue, Offer(place, work).queue, kinds) BY <1>1, <1>2, LongerByOne
<1> QED BY <1>1, <1>2, <1>3, TrySendFits

LEMMA OfferedFits ==
  ASSUME TypeOK, NEW kind \in {None, "open", "extend", "forget"},
         NEW kinds, kind = "forget" => "forget" \in kinds, AppKinds \ {"forget"} \subseteq kinds
  PROVE  /\ Offered(kind).queue \in Seq(StorageWork) /\ Len(Offered(kind).queue) <= StorageCap
         /\ Longer(storageQ, Offered(kind).queue, kinds)
         /\ Offered(kind).held \in HeldWork \union {None}
         /\ kind # "forget" /\ IsForget(Offered(kind).held) => IsForget(app.held)
<1> DEFINE place == [queue |-> storageQ, held |-> app.held]
<1>1. /\ storageQ \in Seq(StorageWork) /\ Len(storageQ) <= StorageCap /\ app \in Flags
      /\ None \notin {"open", "extend", "forget"}
  BY NoneAssumption DEF TypeOK
<1>2. place.queue = storageQ /\ place.held = app.held /\ app.held \in HeldWork \union {None} /\ app.latest + 1 \in Nat
  BY <1>1 DEF Flags
<1>3. /\ Work("forget", None) \in HeldWork /\ Work("forget", None).kind = "forget"
      /\ Work("progress", None) \in HeldWork /\ Work("progress", None).kind = "progress"
  BY DEF Work, HeldWork, StorageWork, Kinds, AppKinds, Network
<1>4. \A id \in Nat :
        /\ Request("open", id) \in HeldWork /\ Request("open", id).kind = "open"
        /\ Request("extend", id) \in HeldWork /\ Request("extend", id).kind = "extend"
  BY DEF Request, HeldWork, StorageWork, Kinds, AppKinds, Network
<1>5. {"open", "extend", "progress"} \subseteq kinds BY DEF AppKinds
<1>6. \A work : work.kind # "forget" => ~IsForget(work) BY DEF IsForget
<1> HIDE DEF place
<1>7. CASE kind = None
  <2>1. Offered(kind) = place BY <1>1, <1>7 DEF Offered, place
  <2>2. Longer(storageQ, storageQ, kinds) BY DEF Longer
  <2> QED BY <1>1, <1>2, <2>1, <2>2
<1>8. CASE kind = "forget"
  <2>1. Offered(kind) = Offer(place, Work("forget", None)) BY <1>1, <1>8 DEF Offered, place
  <2> QED BY <1>1, <1>2, <1>3, <1>8, <2>1, OfferFits
<1>9. CASE kind = "open"
  <2>1. Offered(kind) = Offer(place, Request("open", app.latest + 1)) BY <1>1, <1>9 DEF Offered, place
  <2> QED BY <1>1, <1>2, <1>4, <1>5, <1>6, <2>1, OfferFits
<1>10. CASE kind = "extend"
  <2> DEFINE turned == Offer(place, Request("extend", app.latest + 1))
  <2>1. Offered(kind) = Offer(turned, Work("progress", None)) BY <1>1, <1>10 DEF Offered, place
  <2>2. /\ turned.queue \in Seq(StorageWork) /\ Len(turned.queue) <= StorageCap
        /\ Longer(storageQ, turned.queue, kinds)
        /\ turned.held \in {app.held, Request("extend", app.latest + 1)}
    BY <1>1, <1>2, <1>4, <1>5, OfferFits
  <2>3. turned.held \in HeldWork \union {None} /\ (IsForget(turned.held) => IsForget(app.held))
    BY <1>2, <1>4, <1>6, <2>2
  <2> HIDE DEF turned
  <2>4. /\ Offered(kind).queue \in Seq(StorageWork) /\ Len(Offered(kind).queue) <= StorageCap
        /\ Longer(turned.queue, Offered(kind).queue, kinds)
        /\ Offered(kind).held \in {turned.held, Work("progress", None)}
    BY <1>3, <1>5, <2>1, <2>2, <2>3, OfferFits
  <2>5. Longer(storageQ, Offered(kind).queue, kinds) BY <1>1, <2>2, <2>4, LongerTwice
  <2> QED BY <1>3, <1>6, <2>3, <2>4, <2>5
<1> QED BY <1>7, <1>8, <1>9, <1>10

\* What is taken from a channel is one of its messages, what stays is the rest.
LEMMA ReceiveFits ==
  ASSUME NEW M, NEW queue \in Seq(M), queue # <<>>, NEW cap \in Nat, Len(queue) <= cap
  PROVE  Head(queue) \in M /\ Tail(queue) \in Seq(M) /\ Len(Tail(queue)) <= cap
  OBVIOUS

\* A send that waited for room fits.
LEMMA RoomFits ==
  ASSUME TypeOK, Room, NEW work \in StorageWork
  PROVE  Append(storageQ, work) \in Seq(StorageWork) /\ Len(Append(storageQ, work)) <= StorageCap
  BY CapsAssumption DEF TypeOK, Room
-----------------------------------------------------------------------------
(* The types. *)

\* What a reset leaves in RAM.
LEMMA BootTyped ==
  /\ <<Probe>> \in Seq(StorageWork) /\ Len(<<Probe>>) <= StorageCap
  /\ \A S : <<>> \in Seq(S)
  /\ Len(<<>>) <= SyncCap /\ Len(<<>>) <= EventCap
  /\ ScreenAtBoot \in Screens /\ AppAtBoot \in Flags
  /\ [phase |-> "off", net |-> None] \in Waits
<1>1. Probe \in StorageWork BY DEF Probe, Work, StorageWork, Kinds, Network
<1>2. StorageCap \in Nat \ {0} /\ SyncCap \in Nat /\ EventCap \in Nat BY CapsAssumption
<1>3. None \in Network BY DEF Network
<1>4. ScreenAtBoot \in Screens BY <1>3 DEF ScreenAtBoot, Screens, Status
<1>5. AppAtBoot \in Flags BY DEF AppAtBoot, Flags
<1>6. [phase |-> "off", net |-> None] \in Waits BY <1>3 DEF Waits, Phases
<1> QED BY <1>1, <1>2, <1>4, <1>5, <1>6

LEMMA InitTyped == Init => TypeOK
<1> SUFFICES ASSUME Init PROVE TypeOK OBVIOUS
<1>1. spent \in Counts BY BoundsAssumption DEF Init, Counts
<1>2. loan \in Loans /\ scratch \subseteq {"reader", "channel", "radio"}
  BY DEF Init, Loans
<1>3. storageQ \in Seq(StorageWork) /\ Len(storageQ) <= StorageCap
  BY BootTyped DEF Init
<1>4. /\ commands \in Seq({"start", "exit"}) /\ Len(commands) <= SyncCap
      /\ events \in Seq(SyncEvent) /\ Len(events) <= EventCap
  BY BootTyped DEF Init
<1>5. screen \in Screens /\ app \in Flags /\ wifi \in Waits
  BY BootTyped DEF Init
<1> QED BY <1>1, <1>2, <1>3, <1>4, <1>5 DEF Init, TypeOK

LEMMA ResetTyped == ASSUME TypeOK, Reset, spent' \in Counts PROVE TypeOK'
  BY BootTyped DEF Reset, TypeOK, Loans

\* The bounded counters.
LEMMA KeyCounted ==
  ASSUME TypeOK, spent.keys < MaxKeys PROVE [spent EXCEPT !.keys = @ + 1] \in Counts
<1>1. spent \in Counts /\ spent.keys \in 0 .. MaxKeys /\ MaxKeys \in Nat
  BY BoundsAssumption DEF TypeOK, Counts
<1>2. spent.keys + 1 \in 0 .. MaxKeys BY <1>1
<1> QED BY <1>1, <1>2 DEF Counts

LEMMA SaveCounted ==
  ASSUME TypeOK, spent.saves < MaxSaves PROVE [spent EXCEPT !.saves = @ + 1] \in Counts
<1>1. spent \in Counts /\ spent.saves \in 0 .. MaxSaves /\ MaxSaves \in Nat
  BY BoundsAssumption DEF TypeOK, Counts
<1>2. spent.saves + 1 \in 0 .. MaxSaves BY <1>1
<1> QED BY <1>1, <1>2 DEF Counts

LEMMA FaultCounted == ASSUME TypeOK, Fault PROVE spent' \in Counts
<1>1. spent \in Counts /\ spent.faults \in 0 .. MaxFaults /\ MaxFaults \in Nat
  BY BoundsAssumption DEF TypeOK, Counts
<1>2. spent.faults + 1 \in 0 .. MaxFaults BY <1>1 DEF Fault
<1> QED BY <1>1, <1>2 DEF Counts, Fault

LEMMA CutCounted ==
  ASSUME TypeOK, spent.cuts < MaxCuts PROVE [spent EXCEPT !.cuts = @ + 1] \in Counts
<1>1. spent \in Counts /\ spent.cuts \in 0 .. MaxCuts /\ MaxCuts \in Nat
  BY BoundsAssumption DEF TypeOK, Counts
<1>2. spent.cuts + 1 \in 0 .. MaxCuts BY <1>1
<1> QED BY <1>1, <1>2 DEF Counts

\* The screens that keys and events lead to.
LEMMA AfterKeyTyped ==
  ASSUME TypeOK, NEW key \in {"confirm", "back", "prev"}
  PROVE  AfterKey(key) \in Screens
<1>1. screen \in Screens
  BY DEF TypeOK, Screens
<1>2. Entry \in Status BY DEF Entry, Status
<1>3. WirelessKey(key) \in Screens
  BY <1>1, <1>2 DEF WirelessKey, Home, Says, Status, Network, Screens
<1> QED BY <1>1, <1>2, <1>3 DEF AfterKey, Screens

LEMMA KeyAsks ==
  ASSUME NEW next, NEW moved \in BOOLEAN
  PROVE  StorageCommandFor(next, moved) \in {None, "open", "extend", "forget"}
  BY DEF StorageCommandFor

\* What a key does to the storage queue and to what is held back.
LEMMA KeyWork ==
  ASSUME TypeOK, NEW key \in {"confirm", "back", "prev"}, NEW moved \in BOOLEAN, Key(key, moved)
  PROVE  /\ storageQ' \in Seq(StorageWork) /\ Len(storageQ') <= StorageCap
         /\ Longer(storageQ, storageQ', AppKinds)
         /\ app' \in Flags /\ app'.sending = None
         /\ app.lost => app'.lost
         /\ StorageCommandFor(screen', moved) # "forget" =>
              Longer(storageQ, storageQ', AppKinds \ {"forget"}) /\ (IsForget(app'.held) => IsForget(app.held))
         /\ StorageCommandFor(screen', moved) = "forget" \/ Holds(storageQ, "forget") \/ IsForget(app.held) =>
              Holds(storageQ', "forget") \/ IsForget(app'.held) \/ app'.lost
<1> DEFINE kind == StorageCommandFor(screen', moved)
<1>1. kind \in {None, "open", "extend", "forget"} BY KeyAsks
<1> HIDE DEF kind
<1> DEFINE queue == Offered(kind).queue
           held == Offered(kind).held
           locks == kind = "open"
           latest == IF kind \in {"open", "extend"} THEN app.latest + 1 ELSE app.latest
           meant == kind = "forget" \/ Holds(storageQ, "forget") \/ IsForget(app.held)
           lost == app.lost \/ (meant /\ ~Holds(queue, "forget") /\ ~IsForget(held))
           keyed == [app EXCEPT !.held = held, !.opening = locks, !.locked = locks,
                                !.latest = latest, !.lost = lost]
<1>2. storageQ' = queue /\ app' = Paint(keyed) BY DEF Key, kind
<1>3. app.sending = None /\ app \in Flags BY DEF Key, AppTurn, TypeOK
<1>4. /\ queue \in Seq(StorageWork) /\ Len(queue) <= StorageCap
      /\ Longer(storageQ, queue, AppKinds) /\ held \in HeldWork \union {None}
      /\ kind # "forget" => /\ Longer(storageQ, queue, AppKinds \ {"forget"})
                            /\ IsForget(held) => IsForget(app.held)
  <2>1. "forget" \in AppKinds BY DEF AppKinds
  <2> QED BY <1>1, <2>1, OfferedFits
<1>5. latest \in Nat /\ locks \in BOOLEAN /\ lost \in BOOLEAN BY <1>3 DEF Flags
<1>6. (app.lost => lost) /\ (meant => Holds(queue, "forget") \/ IsForget(held) \/ lost) OBVIOUS
<1> HIDE DEF queue, held, locks, latest, lost, meant
<1>7. keyed \in Flags /\ keyed.sending = None /\ keyed.held = held /\ keyed.lost = lost
  BY <1>3, <1>4, <1>5 DEF Flags
<1> HIDE DEF keyed
<1>8. app' \in Flags /\ app'.sending = None /\ app'.held = held /\ app'.lost = lost
  BY <1>2, <1>7 DEF Paint, Flags
<1> QED BY <1>2, <1>4, <1>6, <1>8 DEF kind, meant

LEMMA KeyTyped ==
  ASSUME TypeOK, NEW key \in {"confirm", "back", "prev"}, NEW moved \in BOOLEAN, Key(key, moved)
  PROVE  TypeOK'
<1>1. screen' \in Screens
  BY AfterKeyTyped DEF Key
<1> DEFINE sync == SyncCommandFor(screen')
<1>2. storageQ' \in Seq(StorageWork) /\ Len(storageQ') <= StorageCap /\ app' \in Flags
  BY KeyWork
<1>3. sync \in {None, "start", "exit"} BY DEF SyncCommandFor
<1>4. commands' = IF sync = None THEN commands ELSE TrySend(commands, SyncCap, sync)
  BY DEF Key
<1> HIDE DEF sync
<1>5. commands' \in Seq({"start", "exit"}) /\ Len(commands') <= SyncCap
  <2>1. SyncCap \in Nat /\ commands \in Seq({"start", "exit"}) /\ Len(commands) <= SyncCap
    BY CapsAssumption DEF TypeOK
  <2>2. CASE sync = None BY <1>4, <2>1, <2>2
  <2>3. CASE sync # None
    <3>1. sync \in {"start", "exit"} BY <1>3, <2>3
    <3> QED BY <1>4, <2>1, <2>3, <3>1, TrySendFits
  <2> QED BY <2>2, <2>3
<1>6. spent' \in Counts
  BY KeyCounted DEF Key
<1>7. UNCHANGED <<card, session, scratch, events, loan, results, loaded, wifi>> BY DEF Key
<1> QED BY <1>1, <1>2, <1>5, <1>6, <1>7 DEF TypeOK

\* What the Settled events do to the storage queue and to what is held back.
LEMMA SettledWork ==
  ASSUME TypeOK, Settled \/ SendHeld
  PROVE  /\ storageQ' \in Seq(StorageWork) /\ Len(storageQ') <= StorageCap
         /\ app' \in Flags /\ app'.lost = app.lost
         /\ \/ storageQ' = storageQ /\ app'.held = app.held /\ app'.sending = app.sending
            \/ storageQ' = storageQ /\ app'.held = None /\ app'.sending = app.held /\ app.sending = None
            \/ \E work \in HeldWork :
                 /\ storageQ' = Append(storageQ, work) /\ work \in {app.held, app.sending}
                 /\ \/ work = app.held /\ app'.held = None /\ app'.sending = None /\ app.sending = None
                    \/ work = app.sending /\ app'.held = app.held /\ app'.sending = None
<1>1. /\ storageQ \in Seq(StorageWork) /\ Len(storageQ) <= StorageCap /\ app \in Flags
      /\ app.held \in HeldWork \union {None} /\ app.sending \in HeldWork \union {None}
  BY DEF TypeOK, Flags
<1>2. ASSUME NEW a \in Flags
      PROVE  /\ AfterSettled(a) \in Flags /\ AfterSettled(a).held = a.held
             /\ AfterSettled(a).sending = a.sending /\ AfterSettled(a).lost = a.lost
  BY <1>2 DEF AfterSettled, Flags
<1>3. ASSUME NEW work \in HeldWork, Room
      PROVE  Append(storageQ, work) \in Seq(StorageWork) /\ Len(Append(storageQ, work)) <= StorageCap
  <2>1. work \in StorageWork BY <1>3 DEF HeldWork
  <2> QED BY <1>3, <2>1, RoomFits
<1>4. CASE Settled
  <2> DEFINE open == app.held # None /\ app.held.kind = "open"
             opening == app.opening \/ open
             locked == app.locked \/ open
             settled == [app EXCEPT !.rendering = FALSE, !.held = None, !.opening = opening, !.locked = locked]
             waits == [settled EXCEPT !.sending = app.held]
  <2>1. app.sending = None BY <1>4 DEF Settled, AppTurn
  <2>2. \/ app' = waits /\ storageQ' = storageQ
        \/ app' = AfterSettled(settled) /\ app.held = None /\ storageQ' = storageQ
        \/ app' = AfterSettled(settled) /\ app.held # None /\ Room /\ storageQ' = Append(storageQ, app.held)
    BY <1>4 DEF Settled
  <2>3. opening \in BOOLEAN /\ locked \in BOOLEAN BY <1>1 DEF Flags
  <2> HIDE DEF opening, locked
  <2>4. settled \in Flags /\ settled.held = None /\ settled.sending = None /\ settled.lost = app.lost
    BY <1>1, <2>1, <2>3 DEF Flags
  <2> HIDE DEF settled
  <2>5. waits \in Flags /\ waits.held = None /\ waits.sending = app.held /\ waits.lost = app.lost
    BY <1>1, <2>4 DEF Flags
  <2> HIDE DEF waits
  <2>6. /\ AfterSettled(settled) \in Flags /\ AfterSettled(settled).held = None
        /\ AfterSettled(settled).sending = None /\ AfterSettled(settled).lost = app.lost
    BY <1>2, <2>4
  <2> QED BY <1>1, <1>3, <2>1, <2>2, <2>5, <2>6
<1>5. CASE SendHeld
  <2> DEFINE sent == [app EXCEPT !.sending = None]
  <2>1. /\ app.sending \in HeldWork /\ Room /\ storageQ' = Append(storageQ, app.sending)
        /\ app' = AfterSettled(sent)
    BY <1>1, <1>5 DEF SendHeld
  <2>2. sent \in Flags /\ sent.held = app.held /\ sent.sending = None /\ sent.lost = app.lost
    BY <1>1 DEF Flags
  <2> HIDE DEF sent
  <2>3. /\ app' \in Flags /\ app'.held = app.held /\ app'.sending = None /\ app'.lost = app.lost
    BY <1>2, <2>1, <2>2
  <2> QED BY <1>3, <2>1, <2>3
<1> QED BY <1>4, <1>5

\* The app task sends commands of its own kinds only.
LEMMA AppWork ==
  ASSUME TypeOK, AppNext PROVE Longer(storageQ, storageQ', AppKinds) /\ storageQ' \in Seq(StorageWork)
<1>1. storageQ \in Seq(StorageWork) BY DEF TypeOK
<1>2. Longer(storageQ, storageQ, AppKinds) BY DEF Longer
<1>3. CASE \E key \in {"confirm", "back", "prev"}, moved \in BOOLEAN : Key(key, moved) BY <1>3, KeyWork
<1>4. CASE Settled \/ SendHeld
  <2>1. \A work \in HeldWork : Longer(storageQ, Append(storageQ, work), AppKinds)
    BY <1>1, LongerByOne DEF HeldWork
  <2> QED BY <1>2, <1>4, <2>1, SettledWork
<1>5. CASE TakeLoaded \/ TakeSyncEvent BY <1>1, <1>2, <1>5 DEF TakeLoaded, TakeSyncEvent
<1> QED BY <1>3, <1>4, <1>5 DEF AppNext

LEMMA AppTyped == ASSUME TypeOK, AppNext PROVE TypeOK'
<1>1. CASE \E key \in {"confirm", "back", "prev"}, moved \in BOOLEAN : Key(key, moved) BY <1>1, KeyTyped
<1>2. CASE Settled \/ SendHeld
  <2>1. UNCHANGED <<card, session, scratch, commands, events, loan, results, loaded, screen, wifi, spent>>
    BY <1>2 DEF Settled, SendHeld
  <2> QED BY <1>2, <2>1, SettledWork DEF TypeOK
<1>3. CASE TakeLoaded
  <2>1. app' \in Flags BY <1>3 DEF TakeLoaded, Paint, TypeOK, Flags
  <2>2. loaded' \in Nat BY <1>3 DEF TakeLoaded, TypeOK
  <2> QED BY <1>3, <2>1, <2>2 DEF TakeLoaded, TypeOK
<1>4. CASE TakeSyncEvent
  <2>1. Head(events) \in SyncEvent /\ events' \in Seq(SyncEvent) /\ Len(events') <= EventCap
    BY <1>4, ReceiveFits, CapsAssumption DEF TakeSyncEvent, TypeOK
  <2>2. screen' \in Screens
    BY <1>4, <2>1 DEF TakeSyncEvent, AfterEvent, Says, SyncEvent, TypeOK, Status, Screens
  <2> QED BY <1>4, <2>1, <2>2 DEF TakeSyncEvent, Paint, TypeOK, Flags
<1> QED BY <1>1, <1>2, <1>3, <1>4 DEF AppNext
-----------------------------------------------------------------------------

\* A storage command is taken from the head; the boot's probe may ask for a scan.
LEMMA StoreWork ==
  ASSUME TypeOK, Store
  PROVE  /\ storageQ # <<>> /\ Head(storageQ) \in StorageWork
         /\ storageQ' \in Seq(StorageWork) /\ Len(storageQ') <= StorageCap
         /\ Head(storageQ) = storageQ[1] /\ 1 \in 1 .. Len(storageQ)
         /\ \A i \in 1 .. Len(storageQ') :
              \/ i + 1 \in 1 .. Len(storageQ) /\ i + 1 # 1 /\ storageQ'[i] = storageQ[i + 1]
              \/ storageQ'[i].kind = "refresh"
         /\ \A i \in 2 .. Len(storageQ) : i - 1 \in 1 .. Len(storageQ') /\ storageQ'[i - 1] = storageQ[i]
<1> DEFINE rest == Tail(storageQ)
           scan == Work("refresh", None)
<1>1. storageQ # <<>> /\ (storageQ' = rest \/ storageQ' = TrySend(rest, StorageCap, scan))
  BY DEF Store, Refuse, ProbeNetwork, ServePage, OtherWork, LoanSyncMemory, StoreWifiCredentials,
         ForgetWifiCredentials, Handle
<1>2. storageQ \in Seq(StorageWork) /\ Len(storageQ) <= StorageCap /\ StorageCap \in Nat
  BY CapsAssumption DEF TypeOK
<1>3. scan \in StorageWork /\ scan.kind = "refresh" BY DEF Work, StorageWork, Kinds, Network
<1>4. /\ Head(storageQ) = storageQ[1] /\ 1 \in 1 .. Len(storageQ) /\ Head(storageQ) \in StorageWork
      /\ rest \in Seq(StorageWork) /\ Len(rest) <= StorageCap
      /\ \A i \in 1 .. Len(rest) : i + 1 \in 1 .. Len(storageQ) /\ rest[i] = storageQ[i + 1] /\ i + 1 # 1
      /\ \A i \in 2 .. Len(storageQ) : i - 1 \in 1 .. Len(rest) /\ rest[i - 1] = storageQ[i]
  BY <1>1, <1>2, Removed
<1> HIDE DEF rest, scan
<1>5. storageQ' \in Seq(StorageWork) /\ Len(storageQ') <= StorageCap
  BY <1>1, <1>2, <1>3, <1>4, TrySendFits
<1>6. Longer(rest, storageQ', {"refresh"})
  <2>1. storageQ' = rest \/ storageQ' = Append(rest, scan) BY <1>1 DEF TrySend
  <2> QED BY <1>3, <1>4, <2>1, LongerByOne
<1>7. \A i \in 1 .. Len(storageQ') :
        \/ i + 1 \in 1 .. Len(storageQ) /\ i + 1 # 1 /\ storageQ'[i] = storageQ[i + 1]
        \/ storageQ'[i].kind = "refresh"
  <2> SUFFICES ASSUME NEW i \in 1 .. Len(storageQ'), storageQ'[i].kind # "refresh"
               PROVE  i + 1 \in 1 .. Len(storageQ) /\ i + 1 # 1 /\ storageQ'[i] = storageQ[i + 1]
    OBVIOUS
  <2>1. i \in 1 .. Len(rest) BY <1>6 DEF Longer
  <2>2. storageQ'[i] = rest[i] BY <1>6, <2>1 DEF Longer
  <2> QED BY <1>4, <2>1, <2>2
<1>8. \A i \in 2 .. Len(storageQ) : i - 1 \in 1 .. Len(storageQ') /\ storageQ'[i - 1] = storageQ[i]
  <2> SUFFICES ASSUME NEW i \in 2 .. Len(storageQ)
               PROVE  i - 1 \in 1 .. Len(storageQ') /\ storageQ'[i - 1] = storageQ[i]
    OBVIOUS
  <2>1. i - 1 \in 1 .. Len(rest) /\ rest[i - 1] = storageQ[i] BY <1>4
  <2> QED BY <1>6, <2>1 DEF Longer
<1> QED BY <1>1, <1>4, <1>5, <1>7, <1>8

LEMMA StoreTyped == ASSUME TypeOK, Store PROVE TypeOK'
<1>1. /\ storageQ' \in Seq(StorageWork) /\ Len(storageQ') <= StorageCap
      /\ Head(storageQ).net \in Network
  BY StoreWork DEF StorageWork
<1>2. None \in Network BY DEF Network
<1>3. spent \in Counts BY DEF TypeOK, Counts
<1>4. CASE Refuse \/ OtherWork BY <1>1, <1>4 DEF Refuse, OtherWork, TypeOK
<1>5. CASE ProbeNetwork
  <2>1. spent' \in Counts BY <1>3, <1>5, FaultCounted DEF ProbeNetwork
  <2>2. Send("networkSaved", card) \in Seq(SyncEvent) /\ Len(Send("networkSaved", card)) <= EventCap
    BY SendFits DEF TypeOK
  <2>3. events' \in Seq(SyncEvent) /\ Len(events') <= EventCap
    BY <1>5, <2>2 DEF ProbeNetwork, TypeOK
  <2> QED BY <1>1, <1>5, <2>1, <2>3 DEF ProbeNetwork, TypeOK
<1>6. CASE ServePage
  <2>1. \/ scratch' = scratch \union {"reader"} /\ loaded' = loaded + 1
        \/ UNCHANGED <<scratch, loaded>>
    BY <1>6, Zenon DEF ServePage
  <2>2. scratch' \subseteq {"reader", "channel", "radio"} BY <2>1 DEF TypeOK
  <2>3. loaded' \in Nat BY <2>1 DEF TypeOK
  <2> QED BY <1>1, <1>6, <2>2, <2>3 DEF ServePage, TypeOK
<1>7. CASE LoanSyncMemory
  <2>1. spent' \in Counts BY <1>3, <1>7, FaultCounted DEF LoanSyncMemory
  <2>2. /\ session' \in {"idle", "loaned"}
        /\ scratch' \subseteq {"reader", "channel", "radio"}
        /\ loan' \in Loans
    BY <1>2, <1>7 DEF LoanSyncMemory, LendMemory, TypeOK, Loans
  <2> QED BY <1>1, <1>7, <2>1, <2>2 DEF LoanSyncMemory, TypeOK
<1>8. CASE StoreWifiCredentials
  <2>1. spent' \in Counts BY <1>3, <1>8, FaultCounted DEF StoreWifiCredentials, StoreCredentials
  <2>2. card' \in Network /\ results' \in {<<>>, <<TRUE>>, <<FALSE>>}
    BY <1>1, <1>8 DEF StoreWifiCredentials, StoreCredentials, TypeOK
  <2> QED BY <1>1, <1>8, <2>1, <2>2 DEF StoreWifiCredentials, TypeOK
<1>9. CASE ForgetWifiCredentials
  <2>1. spent' \in Counts BY <1>3, <1>9, FaultCounted DEF ForgetWifiCredentials
  <2> QED BY <1>1, <1>2, <1>9, <2>1 DEF ForgetWifiCredentials, TypeOK
<1> QED BY <1>4, <1>5, <1>6, <1>7, <1>8, <1>9 DEF Store

\* The loan is asked for in a storage queue with room.
LEMMA AskLoanTyped ==
  ASSUME TypeOK, AskLoan
  PROVE  /\ storageQ' \in Seq(StorageWork) /\ Len(storageQ') <= StorageCap
         /\ wifi' \in Waits
<1>1. Work("loan", None) \in StorageWork BY DEF Work, StorageWork, Kinds, Network
<1>2. storageQ' \in Seq(StorageWork) /\ Len(storageQ') <= StorageCap
  BY <1>1, RoomFits DEF AskLoan, TypeOK
<1>3. wifi' \in Waits BY DEF AskLoan, WaitIn, TypeOK, Waits, Phases
<1> QED BY <1>2, <1>3

LEMMA WifiTyped == ASSUME TypeOK, Wifi PROVE TypeOK'
<1>1. spent \in Counts /\ wifi \in Waits /\ None \in Network BY DEF TypeOK, Counts, Network
<1>2. ASSUME NEW kind \in Status, NEW net \in Network
      PROVE  Send(kind, net) \in Seq(SyncEvent) /\ Len(Send(kind, net)) <= EventCap
  BY SendFits
<1>3. ASSUME commands # <<>> PROVE Tail(commands) \in Seq({"start", "exit"}) /\ Len(Tail(commands)) <= SyncCap
  BY <1>3, ReceiveFits, CapsAssumption DEF TypeOK
<1>4. CASE Begin
  <2>1. storageQ' \in Seq(StorageWork) /\ Len(storageQ') <= StorageCap /\ wifi' \in Waits
    BY <1>1, <1>4, AskLoanTyped DEF Begin, TypeOK
  <2> QED BY <1>3, <1>4, <2>1 DEF Begin, TypeOK
<1>5. CASE AskAgain BY <1>5, AskLoanTyped DEF AskAgain, TypeOK
<1>6. CASE TakeLoan
  <2>1. spent' \in Counts BY <1>1, <1>6, FaultCounted DEF TakeLoan
  <2>2. events' \in Seq(SyncEvent) /\ Len(events') <= EventCap
    BY <1>1, <1>2, <1>6 DEF TakeLoan, TypeOK, Loans, Status
  <2>3. wifi' \in Waits BY <1>1, <1>6 DEF TakeLoan, WaitIn, Waits, Phases
  <2> QED BY <1>6, <2>1, <2>2, <2>3 DEF TakeLoan, TypeOK, Loans
<1>7. CASE RaisePortal
  <2>1. spent' \in Counts BY <1>1, <1>7, FaultCounted DEF RaisePortal
  <2>2. events' \in Seq(SyncEvent) /\ Len(events') <= EventCap
    BY <1>1, <1>2, <1>7 DEF RaisePortal, Status
  <2>3. wifi' \in Waits BY <1>1, <1>7 DEF RaisePortal, WaitIn, Waits, Phases
  <2> QED BY <1>7, <2>1, <2>2, <2>3 DEF RaisePortal, TypeOK
<1>8. CASE AttemptEnds
  <2>1. events' \in Seq(SyncEvent) /\ Len(events') <= EventCap
    <3>1. Event("serving", None) \in SyncEvent BY <1>1 DEF Event, SyncEvent, Status
    <3>2. Send("connected", None) \in Seq(SyncEvent) /\ Len(Send("connected", None)) <= EventCap
          /\ Send("error", None) \in Seq(SyncEvent) /\ Len(Send("error", None)) <= EventCap
      BY <1>1, <1>2 DEF Status
    <3> QED BY <1>8, <3>1, <3>2, TrySendFits, CapsAssumption DEF AttemptEnds, Attempt
  <2>2. wifi' \in Waits BY <1>1, <1>8 DEF AttemptEnds, Attempt, WaitIn, Waits, Phases
  <2> QED BY <1>8, <2>1, <2>2 DEF AttemptEnds, TypeOK
<1>9. CASE TakeResult
  <2>1. wifi.net \in Network BY <1>1 DEF Waits
  <2>2. events' \in Seq(SyncEvent) /\ Len(events') <= EventCap
    BY <1>2, <1>9, <2>1 DEF TakeResult, TypeOK, Status
  <2>3. wifi' \in Waits BY <1>1, <1>9 DEF TakeResult, WaitIn, Waits, Phases
  <2> QED BY <1>9, <2>2, <2>3 DEF TakeResult, TypeOK
<1>10. CASE Exit
  <2>1. CASE Reset BY <1>1, <1>10, <2>1, ResetTyped DEF Exit
  <2>2. CASE ~Reset
    <3>1. wifi' \in Waits BY <1>1, <1>10, <2>2 DEF Exit, ExitSession, WaitIn, Waits, Phases
    <3> QED BY <1>3, <1>10, <2>2, <3>1 DEF Exit, ExitSession, TypeOK
  <2> QED BY <2>1, <2>2
<1>11. CASE UploadStopped BY <1>1, <1>11, ResetTyped DEF UploadStopped
<1>12. CASE StartAgain
  <2>1. events' \in Seq(SyncEvent) /\ Len(events') <= EventCap
    BY <1>1, <1>2, <1>12 DEF StartAgain, TypeOK, Status
  <2>2. wifi' \in Waits BY <1>1, <1>12 DEF StartAgain, WaitIn, Waits, Phases
  <2> QED BY <1>3, <1>12, <2>1, <2>2 DEF StartAgain, TypeOK
<1> QED BY <1>4, <1>5, <1>6, <1>7, <1>8, <1>9, <1>10, <1>11, <1>12 DEF Wifi

LEMMA SubmitTyped == ASSUME TypeOK, NEW net \in Networks, SubmitCredentials(net) PROVE TypeOK'
<1>1. net \in Network BY DEF Network
<1>2. Work("store", net) \in StorageWork BY <1>1 DEF Work, StorageWork, Kinds
<1>3. storageQ' \in Seq(StorageWork) /\ Len(storageQ') <= StorageCap
  BY <1>2, RoomFits DEF SubmitCredentials
<1>4. spent' \in Counts BY SaveCounted DEF SubmitCredentials
<1>5. wifi' \in Waits BY <1>1 DEF SubmitCredentials, Waits, Phases
<1> QED BY <1>3, <1>4, <1>5 DEF SubmitCredentials, TypeOK

LEMMA StepTyped == TypeOK /\ [Next]_vars => TypeOK'
<1> SUFFICES ASSUME TypeOK, [Next]_vars PROVE TypeOK' OBVIOUS
<1>1. CASE PowerCut
  <2>1. Reset /\ spent' \in Counts BY <1>1, CutCounted DEF PowerCut
  <2> QED BY <2>1, ResetTyped
<1>2. CASE Submit BY <1>2, SubmitTyped DEF Submit
<1>3. CASE UNCHANGED vars BY <1>3 DEF vars, ram, channels, TypeOK
<1> QED BY <1>1, <1>2, <1>3, AppTyped, StoreTyped, WifiTyped DEF Next

\* Every variable keeps its type and no channel holds more than it can,
\* whichever cards, radios and flushes fail and whenever the power goes.
THEOREM TypeCorrect == Spec => []TypeOK
  BY InitTyped, StepTyped, PTL DEF Spec
-----------------------------------------------------------------------------
(* The owner of the scratch. *)

LEMMA StepOwned == OwnerKnown /\ TypeOK /\ [Next]_vars => OwnerKnown'
<1> SUFFICES ASSUME OwnerKnown, TypeOK, [Next]_vars PROVE OwnerKnown' OBVIOUS
<1>1. ASSUME Reset PROVE OwnerKnown' BY <1>1 DEF Reset, OwnerKnown
<1>2. ASSUME UNCHANGED <<session, scratch, loan>> PROVE OwnerKnown' BY <1>2 DEF OwnerKnown
<1>3. CASE AppNext
  BY <1>2, <1>3 DEF AppNext, Key, Settled, SendHeld, TakeLoaded, TakeSyncEvent
<1>4. CASE Store
  <2>1. CASE Refuse \/ ProbeNetwork \/ OtherWork \/ StoreWifiCredentials \/ ForgetWifiCredentials
    BY <1>2, <2>1 DEF Refuse, ProbeNetwork, OtherWork, StoreWifiCredentials, ForgetWifiCredentials
  \* A page is served only while the session is idle, so to the owner.
  <2>2. CASE ServePage
    <3>1. session = "idle" BY <2>2 DEF ServePage, Handle, Admits
    <3> QED BY <2>2, <3>1 DEF ServePage, OwnerKnown
  \* A loan is granted only while the session is idle, so from the reader.
  <2>3. CASE LoanSyncMemory
    <3>1. session = "idle" BY <2>3 DEF LoanSyncMemory, Handle, Admits
    <3>2. ASSUME NEW net, LendMemory(net) PROVE OwnerKnown'
      BY <3>1, <3>2 DEF LendMemory, OwnerKnown
    <3> QED BY <1>2, <2>3, <3>2 DEF LoanSyncMemory
  <2> QED BY <1>4, <2>1, <2>2, <2>3 DEF Store
<1>5. CASE Wifi
  <2>1. CASE TakeLoan
    <3>1. scratch = {"channel"} /\ session # "idle" BY <2>1 DEF TakeLoan, OwnerKnown
    <3> QED BY <2>1, <3>1 DEF TakeLoan, OwnerKnown
  <2>2. CASE Begin \/ AskAgain \/ RaisePortal \/ AttemptEnds \/ TakeResult \/ StartAgain
    BY <1>2, <2>2 DEF Begin, AskAgain, RaisePortal, AttemptEnds, TakeResult, StartAgain
  <2>3. CASE Exit \/ UploadStopped
    BY <1>1, <1>2, <2>3 DEF Exit, ExitSession, UploadStopped
  <2> QED BY <1>5, <2>1, <2>2, <2>3 DEF Wifi
<1>6. CASE Submit BY <1>2, <1>6 DEF Submit, SubmitCredentials
<1>7. CASE PowerCut BY <1>1, <1>7 DEF PowerCut
<1>8. CASE UNCHANGED vars BY <1>2, <1>8 DEF vars, ram, channels
<1> QED BY <1>3, <1>4, <1>5, <1>6, <1>7, <1>8 DEF Next

LEMMA OneOwner == OwnerKnown => ScratchHasOneOwner
<1>1. \A owner : Cardinality({owner}) = 1 BY FS_Singleton
<1> QED BY <1>1 DEF OwnerKnown, ScratchHasOneOwner

\* The scratch memory has one owner at a time, in every session and across
\* every reset: what the radio's heap was made of is not the reader's.
THEOREM MemoryLentOnce == Spec => []ScratchHasOneOwner
<1>1. Init => IInv BY InitTyped DEF Init, IInv, OwnerKnown
<1>2. IInv /\ [Next]_vars => IInv' BY StepTyped, StepOwned DEF IInv
<1>3. IInv => ScratchHasOneOwner BY OneOwner DEF IInv
<1> QED BY <1>1, <1>2, <1>3, PTL DEF Spec
-----------------------------------------------------------------------------
(* What the app task hears, and from whom.                                 *)

\* The events the code sends.
Reported == {"networkSaved", "connecting", "connected", "portalUp", "serving", "saved", "error"}
\* The Wi-Fi task has no memory yet; it has, and has not spoken; the display
\* task has granted the memory.
Waiting == wifi.phase \in {"off", "asking", "waiting"}
Silent == Waiting \/ wifi.phase = "scanning"

\* The boot's probe comes before everything else: in the storage queue, in the
\* events, and for the screen, which names no network until it is heard.
Unheard == screen.ssid = None /\ screen.status \in {"notConfigured", "starting"}
ProbeFirst ==
  \A i \in 1 .. Len(storageQ) : storageQ[i].kind = "probe" =>
    i = 1 /\ Waiting /\ session = "idle" /\ events = <<>> /\ Unheard
EventsInOrder ==
  \A i \in 1 .. Len(events) :
    /\ events[i].kind \in Reported
    /\ events[i].kind = "networkSaved" => i = 1 /\ events[i].net # None /\ Unheard
    /\ Silent => events[i].kind = "networkSaved"
StatusFollows ==
  /\ Silent => screen.status \in {"notConfigured", "idle", "forgetPending", "starting"}
  /\ screen.status \in {"idle", "forgetPending"} => screen.ssid # None
\* The radio works in memory that was lent, and a session that has been lent
\* memory ends in a reset.
MemoryFirst == Waiting \/ session = "loaned"

Heard == ProbeFirst /\ EventsInOrder /\ StatusFollows /\ MemoryFirst
-----------------------------------------------------------------------------
(* The commands of a session, for a channel that holds a start and an exit. *)

ExitComing == \E i \in 1 .. Len(commands) : commands[i] = "exit"
NoError == screen.status # "error" /\ \A i \in 1 .. Len(events) : events[i].kind # "error"

\* A session the user has not left: the Wireless screen shows it, and Confirm
\* sends one start for each error that has been shown.
Watched ==
  /\ screen.view = "wireless"
  /\ screen.status \in {"starting", "connecting", "connected", "portalUp", "serving", "saved", "error"}
  /\ Len(commands) <= 1
  /\ commands # <<>> \/ wifi.phase \notin {"error", "failed"} => NoError
  /\ commands # <<>> => wifi.phase \in {"error", "failed"}
  /\ \A i, j \in 1 .. Len(events) :
       events[i].kind = "error" => screen.status # "error" /\ (events[j].kind = "error" => j = i)

\* Before the session: it is asked for at most once before it is left.
Asked ==
  /\ commands # <<>> => commands[1] = "start"
  /\ ExitComing
     \/ (commands = <<>> /\ screen.status # "starting")
     \/ (commands = <<"start">> /\ screen.status = "starting" /\ screen.view = "wireless")

Commanded ==
  /\ wifi.phase = "off" => Asked
  /\ wifi.phase \in {"off", "stopping"} \/ ExitComing \/ Watched
-----------------------------------------------------------------------------
(* The answer the portal waits for. *)

SavedHeard == Holds(events, "saved") \/ screen.status = "saved"
OneStore ==
  /\ wifi.phase # "storing" => ~Holds(storageQ, "store") /\ results = <<>>
  /\ wifi.phase = "storing" => wifi.net # None
  /\ \A i, j \in 1 .. Len(storageQ) : storageQ[i].kind = "store" =>
       storageQ[i].net = wifi.net /\ results = <<>> /\ (storageQ[j].kind = "store" => j = i)
  /\ results = <<TRUE>> => card # None /\ (spent.faults = 0 => card = wifi.net)
  /\ results = <<FALSE>> => spent.faults # 0
\* No event of the portal is lost for want of room.
EventsCounted ==
  /\ wifi.phase = "portal" => Len(events) <= 2 + spent.saves
  /\ wifi.phase = "storing" => Len(events) <= 1 + spent.saves
SavedOnCard ==
  SavedHeard => session = "loaned" /\ card # None
                /\ (spent.faults = 0 /\ wifi.phase # "storing" => LastSaved(card))
Saves == OneStore /\ SavedOnCard
-----------------------------------------------------------------------------
(* Before a session. *)

\* Nothing of a session is asked of the display task.
NoSessionWork == \A i \in 1 .. Len(storageQ) : storageQ[i].kind \notin {"store", "loan"}

\* The screen names no network while the probe is unheard or a forget is under
\* way, and a forget is pressed on a screen that names one, so after the probe.
NetworkKnown ==
  /\ Holds(storageQ, "probe") \/ ForgetUnderWay \/ events # <<>> => screen.ssid = None
  /\ ForgetUnderWay => ~Holds(storageQ, "probe") /\ events = <<>>
  /\ spent.faults = 0 =>
       /\ \A i \in 1 .. Len(events) : events[i].net = card
       /\ screen.ssid = card \/ Holds(storageQ, "probe") \/ ForgetUnderWay \/ events # <<>> \/ app.lost

Known == wifi.phase = "off" => session = "idle" /\ NoSessionWork /\ NetworkKnown
-----------------------------------------------------------------------------
(* The storage queue grows at the end and shrinks at the head.             *)

\* The kinds a queue holds when it grows, and when the display task takes one.
LEMMA MoreKinds ==
  ASSUME NEW kinds, Longer(storageQ, storageQ', kinds)
  PROVE  /\ \A kind : Holds(storageQ, kind) => Holds(storageQ', kind)
         /\ \A kind : kind \notin kinds => (Holds(storageQ', kind) <=> Holds(storageQ, kind))
  BY DEF Longer, Holds

LEMMA LessKinds ==
  ASSUME TypeOK, Store
  PROVE  /\ \A kind : kind # "refresh" /\ Holds(storageQ', kind) => Holds(storageQ, kind)
         /\ \A kind : kind \notin {"refresh", Head(storageQ).kind} =>
              (Holds(storageQ', kind) <=> Holds(storageQ, kind))
<1>1. ASSUME NEW kind, kind # "refresh", Holds(storageQ', kind) PROVE Holds(storageQ, kind)
  <2>1. PICK i \in 1 .. Len(storageQ') : storageQ'[i].kind = kind BY <1>1 DEF Holds
  <2>2. i + 1 \in 1 .. Len(storageQ) /\ storageQ[i + 1].kind = kind BY <1>1, <2>1, StoreWork
  <2> QED BY <2>2 DEF Holds
<1>2. ASSUME NEW kind, kind # Head(storageQ).kind, Holds(storageQ, kind) PROVE Holds(storageQ', kind)
  <2>1. PICK i \in 1 .. Len(storageQ) : storageQ[i].kind = kind BY <1>2 DEF Holds
  <2>2. i \in 2 .. Len(storageQ) BY <1>2, <2>1, StoreWork DEF TypeOK
  <2>3. i - 1 \in 1 .. Len(storageQ') /\ storageQ'[i - 1].kind = kind BY <2>1, <2>2, StoreWork
  <2> QED BY <2>3 DEF Holds
<1> QED BY <1>1, <1>2

\* A key leaves a screen unheard that is, and asks for no other network.
LEMMA KeyScreen ==
  ASSUME TypeOK, NEW key \in {"confirm", "back", "prev"}, screen' = AfterKey(key)
  PROVE  /\ screen'.status \in {screen.status, "starting", "notConfigured", "idle", "forgetPending"}
         /\ screen'.ssid \in {screen.ssid, None}
         /\ Unheard => Unheard'
         /\ (screen.status \in {"idle", "forgetPending"} => screen.ssid # None)
            => (screen'.status \in {"idle", "forgetPending"} => screen'.ssid # None)
<1>1. screen \in Screens BY DEF TypeOK
<1> QED BY <1>1 DEF AfterKey, WirelessKey, Home, Says, Entry, Screens, Unheard
-----------------------------------------------------------------------------
LEMMA HeardApp == ASSUME TypeOK, TypeOK', OwnerKnown, Heard, AppNext PROVE Heard'
<1>1. /\ storageQ \in Seq(StorageWork) /\ events \in Seq(SyncEvent) /\ screen \in Screens /\ app \in Flags
  BY DEF TypeOK
\* Nothing but the boot probes.
<1>2. \A i \in 1 .. Len(storageQ') : storageQ'[i].kind = "probe" =>
        i \in 1 .. Len(storageQ) /\ storageQ'[i] = storageQ[i]
  BY AppWork DEF Longer, AppKinds
<1>3. ASSUME UNCHANGED <<session, wifi>>, events' = events, Unheard => Unheard'
      PROVE  ProbeFirst'
  BY <1>2, <1>3 DEF Heard, ProbeFirst, Waiting
<1>4. CASE \E key \in {"confirm", "back", "prev"}, moved \in BOOLEAN : Key(key, moved)
  <2>1. PICK key \in {"confirm", "back", "prev"}, moved \in BOOLEAN : Key(key, moved) BY <1>4
  <2>2. /\ screen'.status \in {screen.status, "starting", "notConfigured", "idle", "forgetPending"}
        /\ Unheard => Unheard'
        /\ screen'.status \in {"idle", "forgetPending"} => screen'.ssid # None
    BY <2>1, KeyScreen DEF Key, Heard, StatusFollows
  <2>3. UNCHANGED <<session, wifi, events>> BY <2>1 DEF Key
  <2>4. ProbeFirst' BY <1>3, <2>2, <2>3
  <2> QED BY <2>2, <2>3, <2>4 DEF Heard, EventsInOrder, StatusFollows, MemoryFirst, Silent, Waiting
<1>5. CASE Settled \/ SendHeld
  <2>1. UNCHANGED <<session, wifi, events, screen>> BY <1>5 DEF Settled, SendHeld
  <2>2. ProbeFirst' BY <1>3, <2>1 DEF Unheard
  <2> QED BY <2>1, <2>2 DEF Heard, EventsInOrder, StatusFollows, MemoryFirst, Silent, Waiting, Unheard
<1>6. CASE TakeLoaded
  BY <1>6 DEF TakeLoaded, Heard, ProbeFirst, EventsInOrder, StatusFollows, MemoryFirst, Silent, Waiting, Unheard
<1>7. CASE TakeSyncEvent
  <2>1. UNCHANGED <<session, wifi, storageQ>> /\ events # <<>> /\ events' = Tail(events)
        /\ screen' = AfterEvent(Head(events))
    BY <1>7 DEF TakeSyncEvent
  <2>2. Head(events) = events[1] /\ 1 \in 1 .. Len(events) /\ Head(events) \in SyncEvent
        /\ \A i \in 1 .. Len(events') : i + 1 \in 1 .. Len(events) /\ events'[i] = events[i + 1] /\ i + 1 # 1
    BY <1>1, <2>1, Removed
  <2>3. ProbeFirst' BY <2>1 DEF Heard, ProbeFirst
  <2>4. \A i \in 1 .. Len(events') : events'[i].kind \in Reported \ {"networkSaved"}
                                     /\ (Silent => events'[i].kind = "networkSaved")
    BY <2>2 DEF Heard, EventsInOrder
  <2>5. EventsInOrder' BY <2>1, <2>4 DEF EventsInOrder, Silent, Waiting
  <2>6. /\ Head(events).kind \in Reported
        /\ Head(events).kind = "networkSaved" => Head(events).net # None
        /\ Silent => Head(events).kind = "networkSaved"
    BY <2>2 DEF Heard, EventsInOrder
  <2>7. StatusFollows'
    BY <1>1, <2>1, <2>6 DEF Heard, StatusFollows, AfterEvent, Says, Screens, Reported, Silent, Waiting
  <2> QED BY <2>1, <2>3, <2>5, <2>7 DEF Heard, MemoryFirst, Waiting
<1> QED BY <1>4, <1>5, <1>6, <1>7 DEF AppNext

\* What a reset leaves is in order.
LEMMA BootHeard == ASSUME Reset PROVE Heard'
<1>1. /\ Len(<<Probe>>) = 1 /\ <<Probe>>[1] = Probe /\ Probe.kind = "probe" /\ Len(<<>>) = 0
  BY DEF Probe, Work
<1>2. /\ Waiting' /\ Unheard' /\ events' = <<>> /\ session' = "idle" /\ storageQ' = <<Probe>>
      /\ screen'.status = "notConfigured"
  BY DEF Reset, Waiting, Unheard, ScreenAtBoot
<1> QED BY <1>1, <1>2 DEF Heard, ProbeFirst, EventsInOrder, StatusFollows, MemoryFirst

\* The queue of a boot holds the probe alone.
LEMMA ProbeKnown ==
  /\ Len(<<Probe>>) = 1 /\ <<Probe>>[1] = Probe /\ Probe.kind = "probe" /\ Len(<<>>) = 0
  /\ \A i \in 1 .. Len(<<Probe>>) : i = 1
<1>1. Len(<<Probe>>) = 1 /\ <<Probe>>[1] = Probe /\ Probe.kind = "probe" /\ Len(<<>>) = 0
  BY DEF Probe, Work
<1> QED BY <1>1

\* A storage command that is taken leaves no probe in the queue.
LEMMA ProbeTaken == ASSUME TypeOK, ProbeFirst, Store PROVE ProbeFirst'
<1>1. \A i \in 1 .. Len(storageQ') : storageQ'[i].kind = "probe" =>
        i + 1 \in 1 .. Len(storageQ) /\ i + 1 # 1 /\ storageQ'[i] = storageQ[i + 1]
  BY StoreWork
<1> QED BY <1>1 DEF ProbeFirst

LEMMA HeardStore == ASSUME TypeOK, TypeOK', OwnerKnown, Heard, Store PROVE Heard'
<1>1. /\ storageQ \in Seq(StorageWork) /\ storageQ # <<>> /\ UNCHANGED <<screen, wifi>>
  BY DEF TypeOK, Store, Refuse, ProbeNetwork, ServePage, OtherWork, LoanSyncMemory, StoreWifiCredentials,
         ForgetWifiCredentials, Handle
<1>2. ProbeFirst' BY ProbeTaken DEF Heard
<1>3. CASE ProbeNetwork
  <2>1. /\ 1 \in 1 .. Len(storageQ) /\ storageQ[1].kind = "probe"
    BY <1>1, <1>3, Removed DEF ProbeNetwork, Handle
  <2>2. Waiting /\ session = "idle" /\ events = <<>> /\ Unheard
    BY <2>1 DEF Heard, ProbeFirst
  <2>3. events' = <<>> \/ (card # None /\ events' = <<Event("networkSaved", card)>>)
    <3>1. Len(events) = 0 /\ EventCap \in Nat \ {0} /\ Append(events, Event("networkSaved", card)) = <<Event("networkSaved", card)>>
      BY <2>2, CapsAssumption
    <3> QED BY <1>3, <2>2, <3>1 DEF ProbeNetwork, Send, TrySend
  <2>4. \A i \in 1 .. Len(events') : i = 1 /\ events'[i].kind = "networkSaved" /\ events'[i].net # None
    <3>1. CASE events' = <<>> BY <3>1
    <3>2. CASE card # None /\ events' = <<Event("networkSaved", card)>>
      <4>1. Len(events') = 1 /\ events'[1] = Event("networkSaved", card) BY <3>2
      <4> QED BY <3>2, <4>1 DEF Event
    <3> QED BY <2>3, <3>1, <3>2
  <2>5. session' = session BY <1>3 DEF ProbeNetwork
  <2> QED BY <1>1, <1>2, <2>2, <2>4, <2>5
          DEF Heard, EventsInOrder, StatusFollows, MemoryFirst, Silent, Waiting, Unheard, Reported
<1>4. CASE ~ProbeNetwork
  <2>1. events' = events /\ (session' = session \/ session' = "loaned")
    BY <1>4 DEF Store, Refuse, ServePage, OtherWork, LoanSyncMemory, LendMemory, StoreWifiCredentials, ForgetWifiCredentials
  <2> QED BY <1>1, <1>2, <2>1 DEF Heard, EventsInOrder, StatusFollows, MemoryFirst, Silent, Waiting, Unheard
<1> QED BY <1>3, <1>4

\* An event of the Wi-Fi task goes behind the others or is lost.
LEMMA Spoken ==
  ASSUME TypeOK, NEW kind \in Reported \ {"networkSaved"}, NEW net \in Network,
         NEW next, next = Send(kind, net)
  PROVE  /\ next = events \/ next = Append(events, Event(kind, net))
         /\ next \in Seq(SyncEvent)
         /\ \A i \in 1 .. Len(next) :
              (i \in 1 .. Len(events) /\ next[i] = events[i])
              \/ (i = Len(events) + 1 /\ next[i] = Event(kind, net))
<1>1. events \in Seq(SyncEvent) /\ Event(kind, net) \in SyncEvent
  BY DEF TypeOK, Event, SyncEvent, Status, Reported
<1>2. CASE next = events BY <1>1, <1>2
<1>3. CASE next = Append(events, Event(kind, net)) BY <1>1, <1>3, Appended
<1> QED BY <1>2, <1>3 DEF Send, TrySend

\* A session that the memory has been taken for speaks of itself only.
LEMMA SaidInOrder ==
  ASSUME TypeOK, Heard, NEW kind \in Reported \ {"networkSaved"}, NEW net \in Network,
         events' = Send(kind, net), UNCHANGED screen, ~Silent'
  PROVE  EventsInOrder'
<1>1. \A i \in 1 .. Len(events') :
        (i \in 1 .. Len(events) /\ events'[i] = events[i])
        \/ (i = Len(events) + 1 /\ events'[i].kind = kind)
  <2>1. \A i \in 1 .. Len(events') :
          (i \in 1 .. Len(events) /\ events'[i] = events[i])
          \/ (i = Len(events) + 1 /\ events'[i] = Event(kind, net))
    BY Spoken
  <2>2. Event(kind, net).kind = kind BY DEF Event
  <2> QED BY <2>1, <2>2
<1> QED BY <1>1 DEF Heard, EventsInOrder, Unheard

LEMMA HeardWifi == ASSUME TypeOK, TypeOK', OwnerKnown, Heard, Wifi PROVE Heard'
<1>1. /\ storageQ \in Seq(StorageWork) /\ events \in Seq(SyncEvent) /\ None \in Network
      /\ wifi \in Waits /\ wifi.net \in Network
  BY DEF TypeOK, Network, Waits
<1>2. CASE Reset BY <1>2, BootHeard
<1>3. CASE Begin \/ AskAgain
  <2>1. /\ Waiting /\ Waiting' /\ UNCHANGED <<session, events, screen>>
        /\ storageQ' = storageQ \/ storageQ' = Append(storageQ, Work("loan", None))
    BY <1>1, <1>3 DEF Begin, AskAgain, AskLoan, WaitIn, Waiting, Waits
  <2>2. \A i \in 1 .. Len(storageQ') : storageQ'[i].kind = "probe" =>
          i \in 1 .. Len(storageQ) /\ storageQ'[i] = storageQ[i]
    <3>1. Work("loan", None) \in StorageWork /\ Work("loan", None).kind = "loan"
      BY <1>1 DEF Work, StorageWork, Kinds
    <3> QED BY <1>1, <2>1, <3>1, Appended
  <2> QED BY <2>1, <2>2 DEF Heard, ProbeFirst, EventsInOrder, StatusFollows, MemoryFirst, Silent, Waiting, Unheard
\* From the loan on the memory is lent, so nothing is left of the boot's probe.
<1>4. ASSUME session = "loaned", UNCHANGED <<session, screen, storageQ>>,
             ~Silent \/ wifi'.phase \in {"scanning", "joining", "failed", "portal"},
             Silent' => Silent, EventsInOrder'
      PROVE  Heard'
  <2>1. ProbeFirst' BY <1>4 DEF Heard, ProbeFirst
  <2>2. StatusFollows' BY <1>4 DEF Heard, StatusFollows
  <2> QED BY <1>4, <2>1, <2>2 DEF Heard, MemoryFirst
<1>5. CASE TakeLoan
  <2>1. loan # <<>> /\ session = "loaned" /\ Silent BY <1>5 DEF TakeLoan, OwnerKnown, TypeOK, Silent, Waiting
  <2>2. UNCHANGED <<session, screen, storageQ>> BY <1>5 DEF TakeLoan
  <2>3. CASE wifi'.phase = "scanning" /\ UNCHANGED events
    BY <2>1, <2>2, <2>3, <1>4 DEF Heard, EventsInOrder, Silent, Waiting, Unheard
  <2>4. CASE wifi'.phase \in {"failed", "joining"} /\ events' \in {Send("error", None), Send("connecting", None)}
    <3>1. ~Silent' BY <2>4 DEF Silent, Waiting
    <3>2. EventsInOrder' BY <1>1, <2>2, <2>4, <3>1, SaidInOrder DEF Reported
    <3> QED BY <1>4, <2>1, <2>2, <2>4, <3>1, <3>2
  <2> QED BY <1>1, <1>5, <2>3, <2>4 DEF TakeLoan, WaitIn, Waits
<1>6. CASE RaisePortal
  <2>1. /\ wifi.phase = "scanning" /\ wifi'.phase \in {"failed", "portal"} /\ UNCHANGED <<session, screen, storageQ>>
        /\ events' \in {Send("error", None), Send("portalUp", None)}
    BY <1>1, <1>6 DEF RaisePortal, WaitIn, Waits
  <2>2. ~Silent' /\ session = "loaned" BY <2>1 DEF Silent, Waiting, Heard, MemoryFirst
  <2>3. EventsInOrder' BY <1>1, <2>1, <2>2, SaidInOrder DEF Reported
  <2> QED BY <1>4, <2>1, <2>2, <2>3
<1>7. CASE AttemptEnds
  <2>1. /\ wifi.phase = "joining" /\ wifi'.phase \in {"serving", "error"} /\ UNCHANGED <<session, screen, storageQ>>
        /\ events' = TrySend(Send("connected", None), EventCap, Event("serving", None)) \/ events' = Send("error", None)
    BY <1>1, <1>7 DEF AttemptEnds, Attempt, WaitIn, Waits
  <2>2. ~Silent /\ ~Silent' /\ session = "loaned" BY <2>1 DEF Silent, Waiting, Heard, MemoryFirst
  <2>3. EventsInOrder'
    <3>1. CASE events' = Send("error", None) BY <1>1, <2>1, <2>2, <3>1, SaidInOrder DEF Reported
    <3>2. CASE events' = TrySend(Send("connected", None), EventCap, Event("serving", None))
      <4> DEFINE first == Send("connected", None)
      <4>1. /\ first \in Seq(SyncEvent)
            /\ \A i \in 1 .. Len(first) : (i \in 1 .. Len(events) /\ first[i] = events[i])
                                          \/ (i = Len(events) + 1 /\ first[i] = Event("connected", None))
        BY <1>1, Spoken DEF Reported
      <4>2. events' = TrySend(first, EventCap, Event("serving", None)) BY <3>2
      <4> HIDE DEF first
      <4>3. Event("serving", None) \in SyncEvent BY <1>1 DEF Event, SyncEvent, Status
      <4>4. \A i \in 1 .. Len(events') : (i \in 1 .. Len(first) /\ events'[i] = first[i])
                                         \/ events'[i] = Event("serving", None)
        <5>1. CASE events' = first BY <4>1, <5>1
        <5>2. CASE events' = Append(first, Event("serving", None)) BY <4>1, <4>3, <5>2, Appended
        <5> QED BY <4>2, <5>1, <5>2 DEF TrySend
      <4>5. \A i \in 1 .. Len(events') : (i \in 1 .. Len(events) /\ events'[i] = events[i])
                                         \/ events'[i].kind \in {"connected", "serving"}
        BY <4>1, <4>4 DEF Event
      <4> QED BY <2>1, <2>2, <4>5 DEF Heard, EventsInOrder, Unheard, Reported
    <3> QED BY <2>1, <3>1, <3>2
  <2> QED BY <1>4, <2>1, <2>2, <2>3
<1>8. CASE TakeResult
  <2>1. /\ wifi.phase = "storing" /\ wifi'.phase = "portal" /\ UNCHANGED <<session, screen, storageQ>>
        /\ events' \in {events, Send("saved", wifi.net)}
    BY <1>1, <1>8 DEF TakeResult, WaitIn, Waits
  <2>2. ~Silent /\ ~Silent' /\ session = "loaned" BY <2>1 DEF Silent, Waiting, Heard, MemoryFirst
  <2>3. EventsInOrder'
    <3>1. CASE events' = events BY <2>1, <2>2, <3>1 DEF Heard, EventsInOrder, Unheard
    <3>2. CASE events' = Send("saved", wifi.net) BY <1>1, <2>1, <2>2, <3>2, SaidInOrder DEF Reported
    <3> QED BY <2>1, <3>1, <3>2
  <2> QED BY <1>4, <2>1, <2>2, <2>3
<1>9. CASE (Exit \/ UploadStopped \/ StartAgain) /\ ~Reset
  <2>1. /\ ~Silent /\ UNCHANGED <<session, screen, storageQ>>
        /\ \/ wifi'.phase \in {"stopping", wifi.phase} /\ UNCHANGED events
           \/ wifi'.phase = "joining" /\ events' = Send("connecting", None)
    BY <1>1, <1>9 DEF Exit, ExitSession, UploadStopped, StartAgain, Reading, WaitIn, Waits, Silent, Waiting
  <2>2. ~Silent' /\ session = "loaned" BY <2>1 DEF Silent, Waiting, Heard, MemoryFirst
  <2>3. EventsInOrder'
    <3>1. CASE events' = events BY <2>1, <2>2, <3>1 DEF Heard, EventsInOrder, Unheard
    <3>2. CASE events' = Send("connecting", None) BY <1>1, <2>1, <2>2, <3>2, SaidInOrder DEF Reported
    <3> QED BY <2>1, <3>1, <3>2
  <2> QED BY <1>4, <2>1, <2>2, <2>3
<1> QED BY <1>2, <1>3, <1>5, <1>6, <1>7, <1>8, <1>9 DEF Wifi

LEMMA HeardSubmit == ASSUME TypeOK, TypeOK', Heard, NEW net \in Networks, SubmitCredentials(net) PROVE Heard'
<1>1. /\ storageQ \in Seq(StorageWork) /\ Work("store", net) \in StorageWork /\ Work("store", net).kind = "store"
  BY DEF TypeOK, Work, StorageWork, Kinds, Network
<1>2. /\ wifi.phase = "portal" /\ wifi'.phase = "storing" /\ UNCHANGED <<session, screen, events>>
      /\ storageQ' = Append(storageQ, Work("store", net))
  BY DEF SubmitCredentials
<1>3. \A i \in 1 .. Len(storageQ') : storageQ'[i].kind = "probe" =>
        i \in 1 .. Len(storageQ) /\ storageQ'[i] = storageQ[i]
  BY <1>1, <1>2, Appended
<1> QED BY <1>2, <1>3 DEF Heard, ProbeFirst, EventsInOrder, StatusFollows, MemoryFirst, Silent, Waiting, Unheard

LEMMA HeardStep == IInv /\ Heard /\ [Next]_vars => Heard'
<1> SUFFICES ASSUME IInv, Heard, [Next]_vars PROVE Heard' OBVIOUS
<1>1. TypeOK /\ TypeOK' /\ OwnerKnown BY StepTyped DEF IInv
<1>2. CASE PowerCut BY <1>2, BootHeard DEF PowerCut
<1>3. CASE Submit BY <1>1, <1>3, HeardSubmit DEF Submit
<1>4. CASE UNCHANGED vars
  BY <1>4 DEF vars, ram, channels, Heard, ProbeFirst, EventsInOrder, StatusFollows, MemoryFirst, Silent, Waiting, Unheard
<1> QED BY <1>1, <1>2, <1>3, <1>4, HeardApp, HeardStore, HeardWifi DEF Next
-----------------------------------------------------------------------------
(* A session is watched.                                                   *)

\* What a key does to the session: it starts it from a screen that keeps
\* showing it, and leaves it with an exit.
LEMMA KeySession ==
  ASSUME TypeOK, NEW key \in {"confirm", "back", "prev"}, screen' = AfterKey(key)
  PROVE  /\ SyncCommandFor(screen') \in {None, "start", "exit"}
         /\ SyncCommandFor(screen') = "start" =>
              /\ screen'.view = "wireless" /\ screen'.status = "starting"
              /\ screen.status \in {"notConfigured", "idle", "error"}
         /\ SyncCommandFor(screen') = "exit" => screen.status \notin {"notConfigured", "idle", "forgetPending"}
         /\ screen'.status = "starting" /\ screen.status # "starting" => SyncCommandFor(screen') = "start"
         /\ screen.view = "wireless" /\ screen.status \notin {"notConfigured", "idle", "forgetPending"}
            => \/ screen' = screen
               \/ SyncCommandFor(screen') = "exit"
               \/ SyncCommandFor(screen') = "start" /\ screen.status = "error"
<1>1. screen \in Screens BY DEF TypeOK
<1>2. screen' \in Screens BY AfterKeyTyped
<1>3. Entry \in {"notConfigured", "idle"} BY DEF Entry
<1>4. screen'.status = "starting" /\ screen.status # "starting" =>
        screen'.view = "wireless" /\ screen.status \in {"notConfigured", "idle", "error"}
  BY <1>1, <1>2, <1>3 DEF AfterKey, WirelessKey, Home, Says, Screens
<1>5. screen.view = "wireless" /\ screen.status \notin {"notConfigured", "idle", "forgetPending"} =>
        \/ screen' = screen \/ screen'.view # "wireless"
        \/ screen'.status = "starting" /\ screen.status = "error"
  BY <1>1, <1>2, <1>3 DEF AfterKey, WirelessKey, Home, Says, Screens
<1>6. screen.status # "starting" /\ screen'.status = "starting" => SyncCommandFor(screen') = "start"
  BY DEF SyncCommandFor
<1>7. screen.view = "wireless" /\ screen'.view # "wireless"
      /\ screen.status \notin {"notConfigured", "idle", "forgetPending"} => SyncCommandFor(screen') = "exit"
  BY <1>4 DEF SyncCommandFor
<1>8. SyncCommandFor(screen') \in {None, "start", "exit"} /\ None \notin {"start", "exit"}
  BY NoneAssumption DEF SyncCommandFor
<1>9. /\ SyncCommandFor(screen') = "start" => screen.status # "starting" /\ screen'.status = "starting"
      /\ SyncCommandFor(screen') = "exit" => screen.status \notin {"notConfigured", "idle", "forgetPending"}
  BY <1>8 DEF SyncCommandFor
<1> QED BY <1>4, <1>5, <1>6, <1>7, <1>8, <1>9

\* The commands after a key.
LEMMA KeyCommands ==
  ASSUME TypeOK, NEW key \in {"confirm", "back", "prev"}, NEW moved \in BOOLEAN, Key(key, moved)
  PROVE  /\ SyncCommandFor(screen') = None => commands' = commands
         /\ SyncCommandFor(screen') # None /\ Len(commands) < SyncCap =>
              commands' = Append(commands, SyncCommandFor(screen'))
         /\ \A i \in 1 .. Len(commands) : i \in 1 .. Len(commands') /\ commands'[i] = commands[i]
         /\ commands = <<>> \/ commands'[1] = commands[1]
<1> DEFINE sync == SyncCommandFor(screen')
<1>1. commands \in Seq({"start", "exit"}) BY DEF TypeOK
<1>2. commands' = IF sync = None THEN commands ELSE TrySend(commands, SyncCap, sync)
  BY DEF Key
<1>3. sync \in {None, "start", "exit"} BY DEF SyncCommandFor
<1> HIDE DEF sync
<1>4. commands' = commands \/ (sync \in {"start", "exit"} /\ commands' = Append(commands, sync))
  BY <1>2, <1>3 DEF TrySend
<1>5. \A i \in 1 .. Len(commands) : i \in 1 .. Len(commands') /\ commands'[i] = commands[i]
  BY <1>1, <1>4, Appended
<1>6. commands = <<>> \/ 1 \in 1 .. Len(commands) BY <1>1
<1> QED BY <1>2, <1>5, <1>6 DEF TrySend, sync

\* An exit that is on its way stays there while the channel only grows.
LEMMA ExitStays ==
  ASSUME TypeOK, ExitComing,
         \A i \in 1 .. Len(commands) : i \in 1 .. Len(commands') /\ commands'[i] = commands[i]
  PROVE  ExitComing'
  BY DEF ExitComing

LEMMA ExitSent ==
  ASSUME TypeOK, NEW sync \in {"start", "exit"}, commands' = Append(commands, sync)
  PROVE  /\ sync = "exit" => ExitComing'
         /\ commands = <<>> => commands' = <<sync>> /\ Len(commands') = 1
<1>1. commands \in Seq({"start", "exit"}) BY DEF TypeOK
<1>2. Len(commands) + 1 \in 1 .. Len(commands') /\ commands'[Len(commands) + 1] = sync
  BY <1>1, Appended
<1>3. commands = <<>> => commands' = <<sync>>
  OBVIOUS
<1> QED BY <1>1, <1>2, <1>3 DEF ExitComing

LEMMA CommandedKey ==
  ASSUME SyncCap >= 2, TypeOK, Heard, Commanded, NEW key \in {"confirm", "back", "prev"}, NEW moved \in BOOLEAN, Key(key, moved)
  PROVE  Commanded'
<1> DEFINE sync == SyncCommandFor(screen')
<1>1. screen' = AfterKey(key) /\ UNCHANGED <<wifi, events>> BY DEF Key
<1>2. /\ commands \in Seq({"start", "exit"}) /\ SyncCap \in Nat
      /\ sync = None => commands' = commands
      /\ sync # None /\ Len(commands) < SyncCap => commands' = Append(commands, sync)
      /\ \A i \in 1 .. Len(commands) : i \in 1 .. Len(commands') /\ commands'[i] = commands[i]
      /\ commands = <<>> \/ commands'[1] = commands[1]
  BY KeyCommands, CapsAssumption DEF TypeOK
<1>3. /\ sync \in {None, "start", "exit"}
      /\ sync = "start" => /\ screen'.view = "wireless" /\ screen'.status = "starting"
                           /\ screen.status \in {"notConfigured", "idle", "error"}
      /\ sync = "exit" => screen.status \notin {"notConfigured", "idle", "forgetPending"}
      /\ screen'.status = "starting" /\ screen.status # "starting" => sync = "start"
      /\ screen.view = "wireless" /\ screen.status \notin {"notConfigured", "idle", "forgetPending"}
         => \/ screen' = screen \/ sync = "exit"
            \/ sync = "start" /\ screen.status = "error"
  BY <1>1, KeySession
<1>8. None \notin {"start", "exit"} BY NoneAssumption
<1> HIDE DEF sync
<1>4. CASE ExitComing
  <2>1. ExitComing' BY <1>2, <1>4, ExitStays
  <2>2. commands # <<>> BY <1>2, <1>4 DEF ExitComing
  <2> QED BY <1>1, <1>2, <2>1, <2>2 DEF Commanded, Asked
<1>5. CASE ~ExitComing /\ wifi.phase = "off"
  <2>1. screen.status \in {"notConfigured", "idle", "forgetPending", "starting"}
    BY <1>5 DEF Heard, StatusFollows, Silent, Waiting
  <2>2. CASE commands = <<>> /\ screen.status # "starting"
    <3>1. CASE sync = "start"
      <4>1. commands' = Append(commands, "start") BY <1>2, <1>8, <2>2, <3>1
      <4>2. commands' = <<"start">> BY <2>2, <3>1, <4>1, ExitSent
      <4> QED BY <1>1, <1>3, <1>5, <3>1, <4>2 DEF Commanded, Asked
    <3>2. CASE sync # "start"
      <4>1. sync = None /\ commands' = <<>> /\ screen'.status # "starting" BY <1>2, <1>3, <2>1, <2>2, <3>2
      <4> QED BY <1>1, <1>5, <4>1 DEF Commanded, Asked
    <3> QED BY <3>1, <3>2
  <2>3. CASE commands = <<"start">> /\ screen.status = "starting" /\ screen.view = "wireless"
    <3>1. CASE sync = "exit"
      <4>1. commands' = Append(commands, "exit") BY <1>2, <1>8, <2>3, <3>1
      <4>2. ExitComing' BY <3>1, <4>1, ExitSent
      <4> QED BY <1>1, <1>2, <1>5, <2>3, <4>2 DEF Commanded, Asked
    <3>2. CASE sync # "exit"
      <4>1. screen' = screen /\ sync = None BY <1>3, <2>3, <3>2
      <4> QED BY <1>1, <1>2, <1>5, <2>3, <4>1 DEF Commanded, Asked
    <3> QED BY <3>1, <3>2
  <2> QED BY <1>5, <2>2, <2>3 DEF Commanded, Asked
<1>6. CASE wifi.phase = "stopping" BY <1>1, <1>6 DEF Commanded
<1>7. CASE ~ExitComing /\ wifi.phase \notin {"off", "stopping"}
  <2>1. Watched BY <1>7 DEF Commanded
  <2>2. CASE screen' = screen
    <3>1. sync = None BY <1>3, <2>1, <2>2 DEF Watched, sync, SyncCommandFor
    <3> QED BY <1>1, <1>2, <1>7, <2>1, <2>2, <3>1 DEF Commanded, Watched, NoError
  <2>3. CASE sync = "exit"
    <3>1. commands' = Append(commands, "exit") BY <1>2, <1>8, <2>1, <2>3 DEF Watched
    <3>2. ExitComing' BY <2>3, <3>1, ExitSent
    <3> QED BY <1>1, <1>7, <3>2 DEF Commanded
  <2>4. CASE sync = "start" /\ screen.status = "error"
    <3>1. commands = <<>> /\ wifi.phase \in {"error", "failed"} BY <2>1, <2>4 DEF Watched, NoError
    <3>2. commands' = Append(commands, "start") BY <1>2, <1>8, <2>4, <3>1
    <3>3. Len(commands') = 1 BY <3>1, <3>2, ExitSent
    <3>4. \A i \in 1 .. Len(events) : events[i].kind # "error" BY <2>1, <2>4 DEF Watched
    <3>5. Watched' BY <1>1, <1>3, <2>4, <3>1, <3>3, <3>4 DEF Watched, NoError
    <3> QED BY <1>1, <1>7, <3>5 DEF Commanded
  <2> QED BY <1>3, <2>1, <2>2, <2>3, <2>4 DEF Watched
<1> QED BY <1>4, <1>5, <1>6, <1>7

LEMMA CommandedEvent ==
  ASSUME TypeOK, Heard, Commanded, TakeSyncEvent PROVE Commanded'
<1>1. /\ UNCHANGED <<wifi, commands>> /\ events # <<>> /\ events' = Tail(events)
      /\ screen' = AfterEvent(Head(events)) /\ screen \in Screens /\ events \in Seq(SyncEvent)
  BY DEF TakeSyncEvent, TypeOK
<1>2. Head(events) = events[1] /\ 1 \in 1 .. Len(events) /\ Head(events) \in SyncEvent
      /\ \A i \in 1 .. Len(events') : i + 1 \in 1 .. Len(events) /\ events'[i] = events[i + 1] /\ i + 1 # 1
  BY <1>1, Removed
<1>3. /\ events[1].kind \in Reported
      /\ events[1].kind = "networkSaved" => Unheard
      /\ Silent => events[1].kind = "networkSaved"
  BY <1>2 DEF Heard, EventsInOrder
<1>4. /\ screen'.view = screen.view
      /\ events[1].kind = "networkSaved" =>
           screen'.status = IF screen.status = "notConfigured" THEN "idle" ELSE screen.status
      /\ events[1].kind # "networkSaved" => screen'.status = events[1].kind
  BY <1>1, <1>2 DEF AfterEvent, Says, Screens
<1>5. wifi.phase = "off" => Asked'
  BY <1>1, <1>3, <1>4 DEF Commanded, Asked, Silent, Waiting, ExitComing
<1>6. ASSUME Watched PROVE Watched'
  <2>1. /\ screen'.view = "wireless"
        /\ screen'.status \in {"starting", "connecting", "connected", "portalUp", "serving", "saved", "error"}
        /\ screen'.status = "error" => events[1].kind = "error"
    BY <1>3, <1>4, <1>6 DEF Watched, Reported, Unheard
  <2>2. ASSUME NEW i \in 1 .. Len(events'), events'[i].kind = "error" PROVE events[1].kind # "error"
    BY <1>2, <1>6, <2>2 DEF Watched
  <2>3. ASSUME NEW i \in 1 .. Len(events'), NEW j \in 1 .. Len(events'),
               events'[i].kind = "error", events'[j].kind = "error"
        PROVE  i = j
    <3>1. i + 1 = j + 1 BY <1>2, <1>6, <2>3 DEF Watched
    <3> QED BY <3>1
  <2>4. NoError => NoError' BY <1>2, <2>1 DEF NoError
  <2> QED BY <1>1, <1>6, <2>1, <2>2, <2>3, <2>4 DEF Watched
<1> QED BY <1>1, <1>5, <1>6 DEF Commanded, ExitComing

\* A start or an exit that is read is taken from the head.
LEMMA CommandTaken ==
  ASSUME TypeOK, commands # <<>>, commands' = Tail(commands)
  PROVE  /\ Head(commands) = commands[1] /\ commands[1] \in {"start", "exit"}
         /\ ExitComing /\ commands[1] # "exit" => ExitComing'
         /\ Len(commands') = Len(commands) - 1
<1>1. commands \in Seq({"start", "exit"}) BY DEF TypeOK
<1>2. \A i \in 2 .. Len(commands) : i - 1 \in 1 .. Len(commands') /\ commands'[i - 1] = commands[i]
  BY <1>1, Removed
<1>3. ASSUME ExitComing, commands[1] # "exit" PROVE ExitComing'
  <2>1. PICK i \in 1 .. Len(commands) : commands[i] = "exit" BY <1>3 DEF ExitComing
  <2>2. i \in 2 .. Len(commands) BY <1>1, <1>3, <2>1
  <2> QED BY <1>2, <2>1, <2>2 DEF ExitComing
<1> QED BY <1>1, <1>3, Removed

\* A session that starts out is watched when nobody has left it.
LEMMA CommandedBegin == ASSUME TypeOK, Heard, Commanded, Begin PROVE Commanded'
<1>1. /\ wifi.phase = "off" /\ commands # <<>> /\ commands' = Tail(commands)
      /\ UNCHANGED <<events, screen>>
  BY DEF Begin
<1>2. commands[1] = "start" /\ Head(commands) = "start" /\ commands \in Seq({"start", "exit"})
  BY <1>1, CommandTaken DEF Commanded, Asked, TypeOK
<1>3. wifi'.phase \in {"asking", "waiting"}
  BY <1>2 DEF Begin, AskLoan, WaitIn, TypeOK, Waits
<1>4. CASE ExitComing
  <2>1. ExitComing' BY <1>1, <1>2, <1>4, CommandTaken
  <2> QED BY <1>3, <2>1 DEF Commanded
<1>5. CASE ~ExitComing
  <2>1. commands = <<"start">> /\ screen.status = "starting" /\ screen.view = "wireless"
    BY <1>1, <1>5 DEF Commanded, Asked
  <2>2. commands' = <<>> BY <1>1, <2>1
  <2>3. \A i \in 1 .. Len(events) : events[i].kind = "networkSaved"
    BY <1>1 DEF Heard, EventsInOrder, Silent, Waiting
  <2>4. Len(commands') <= 1 BY <2>2
  <2>5. Watched' BY <1>1, <2>1, <2>2, <2>3, <2>4 DEF Watched, NoError
  <2> QED BY <1>3, <2>5 DEF Commanded
<1> QED BY <1>4, <1>5

LEMMA CommandedBoot == ASSUME Reset PROVE Commanded'
<1>1. wifi'.phase = "off" /\ commands' = <<>> /\ screen'.status = "notConfigured"
  BY DEF Reset, ScreenAtBoot
<1> QED BY <1>1 DEF Commanded, Asked

\* The other turns of the Wi-Fi task: what it says in a session that is watched.
LEMMA SaidWatched ==
  ASSUME TypeOK, Watched, NoError, UNCHANGED screen, commands' = <<>>,
         NEW kind \in Reported \ {"networkSaved"}, NEW net \in Network, events' = Send(kind, net),
         kind = "error" => wifi'.phase \in {"error", "failed"}
  PROVE  Watched' /\ (kind # "error" => NoError')
<1>1. \A i \in 1 .. Len(events') :
        (i \in 1 .. Len(events) /\ events'[i] = events[i])
        \/ (i = Len(events) + 1 /\ events'[i].kind = kind)
  <2>1. \A i \in 1 .. Len(events') :
          (i \in 1 .. Len(events) /\ events'[i] = events[i])
          \/ (i = Len(events) + 1 /\ events'[i] = Event(kind, net))
    BY Spoken
  <2>2. Event(kind, net).kind = kind BY DEF Event
  <2> QED BY <2>1, <2>2
<1>2. \A i \in 1 .. Len(events') : events'[i].kind = "error" => i = Len(events) + 1 /\ kind = "error"
  BY <1>1 DEF NoError
<1>3. screen.status # "error" BY DEF NoError
<1>4. Len(commands') <= 1 OBVIOUS
<1>5. kind # "error" => NoError' BY <1>2, <1>3 DEF NoError
<1> QED BY <1>2, <1>3, <1>4, <1>5 DEF Watched

LEMMA CommandedWifi == ASSUME TypeOK, Heard, Commanded, Wifi PROVE Commanded'
<1>1. None \in Network /\ wifi \in Waits /\ wifi.net \in Network /\ commands \in Seq({"start", "exit"})
  BY DEF TypeOK, Network, Waits
<1>2. CASE Reset BY <1>2, CommandedBoot
<1>3. CASE Begin BY <1>3, CommandedBegin
<1>4. CASE AskAgain
  <2>1. wifi.phase = "asking" /\ wifi'.phase \in {"asking", "waiting"} /\ UNCHANGED <<commands, events, screen>>
    BY <1>1, <1>4 DEF AskAgain, AskLoan, WaitIn, Waits
  <2> QED BY <2>1 DEF Commanded, Watched, NoError, ExitComing
\* A turn that reads no command and speaks.
<1>5. ASSUME wifi.phase \in {"waiting", "scanning", "joining", "storing"},
             wifi'.phase \notin {"off", "stopping"}, UNCHANGED <<screen, commands>>,
             \/ events' = events
             \/ events' = Send("error", None) /\ wifi'.phase \in {"error", "failed"}
             \/ \E kind \in Reported \ {"networkSaved", "error"}, net \in Network : events' = Send(kind, net)
      PROVE  Commanded'
  <2>1. CASE ExitComing BY <1>5, <2>1 DEF Commanded, ExitComing
  <2>2. CASE ~ExitComing
    <3>1. Watched /\ commands = <<>> /\ NoError BY <1>5, <2>2 DEF Commanded, Watched
    <3>2. CASE events' = events
      <4>1. Watched' BY <1>5, <3>1, <3>2 DEF Watched, NoError
      <4> QED BY <1>5, <4>1 DEF Commanded
    <3>3. CASE events' = Send("error", None) /\ wifi'.phase \in {"error", "failed"}
      <4>1. Watched' BY <1>1, <1>5, <3>1, <3>3, SaidWatched DEF Reported
      <4> QED BY <1>5, <4>1 DEF Commanded
    <3>4. CASE \E kind \in Reported \ {"networkSaved", "error"}, net \in Network : events' = Send(kind, net)
      <4>1. PICK kind \in Reported \ {"networkSaved", "error"}, net \in Network : events' = Send(kind, net)
        BY <3>4
      <4>2. Watched' BY <1>5, <3>1, <4>1, SaidWatched
      <4> QED BY <1>5, <4>2 DEF Commanded
    <3> QED BY <1>5, <3>2, <3>3, <3>4
  <2> QED BY <2>1, <2>2
<1>6. CASE TakeLoan \/ RaisePortal \/ TakeResult
  BY <1>1, <1>5, <1>6 DEF TakeLoan, RaisePortal, TakeResult, WaitIn, Waits, Reported
<1>7. CASE AttemptEnds
  <2>1. wifi.phase = "joining" /\ UNCHANGED <<screen, commands>> BY <1>7 DEF AttemptEnds
  <2>2. CASE wifi'.phase = "error" /\ events' = Send("error", None)
    BY <1>1, <1>5, <2>1, <2>2
  <2>3. CASE wifi'.phase = "serving" /\ events' = TrySend(Send("connected", None), EventCap, Event("serving", None))
    <3>1. CASE ExitComing BY <2>1, <2>3, <3>1 DEF Commanded, ExitComing
    <3>2. CASE ~ExitComing
      <4>1. Watched /\ commands = <<>> /\ NoError BY <2>1, <3>2 DEF Commanded, Watched
      <4> DEFINE first == Send("connected", None)
      <4>2. /\ first \in Seq(SyncEvent)
            /\ \A i \in 1 .. Len(first) : (i \in 1 .. Len(events) /\ first[i] = events[i])
                                          \/ (i = Len(events) + 1 /\ first[i] = Event("connected", None))
        BY <1>1, Spoken DEF Reported
      <4>3. events' = TrySend(first, EventCap, Event("serving", None)) BY <2>3
      <4> HIDE DEF first
      <4>4. Event("serving", None) \in SyncEvent BY <1>1 DEF Event, SyncEvent, Status
      <4>5. \A i \in 1 .. Len(events') : (i \in 1 .. Len(first) /\ events'[i] = first[i])
                                         \/ events'[i] = Event("serving", None)
        <5>1. CASE events' = first BY <4>2, <5>1
        <5>2. CASE events' = Append(first, Event("serving", None)) BY <4>2, <4>4, <5>2, Appended
        <5> QED BY <4>3, <5>1, <5>2 DEF TrySend
      <4>6. \A i \in 1 .. Len(events') : events'[i].kind # "error"
        BY <4>1, <4>2, <4>5 DEF Event, NoError
      <4>7. Len(commands') <= 1 BY <2>1, <4>1
      <4>8. Watched' BY <2>1, <4>1, <4>6, <4>7 DEF Watched, NoError
      <4> QED BY <2>3, <4>8 DEF Commanded
    <3> QED BY <3>1, <3>2
  <2> QED BY <1>1, <1>7, <2>2, <2>3 DEF AttemptEnds, Attempt, WaitIn, Waits
<1>8. CASE (Exit \/ UploadStopped) /\ ~Reset
  <2>1. wifi'.phase = "stopping" BY <1>1, <1>8 DEF Exit, ExitSession, UploadStopped, WaitIn, Waits
  <2> QED BY <2>1 DEF Commanded
<1>9. CASE StartAgain
  <2>1. /\ wifi.phase \in Reading /\ commands # <<>> /\ Head(commands) = "start"
        /\ commands' = Tail(commands) /\ UNCHANGED screen
        /\ \/ UNCHANGED events /\ wifi'.phase = wifi.phase
           \/ events' = Send("connecting", None) /\ wifi'.phase = "joining"
    BY <1>1, <1>9 DEF StartAgain, WaitIn, Waits
  <2>2. wifi'.phase \notin {"off", "stopping"} BY <2>1 DEF Reading
  <2>3. CASE ExitComing
    <3>1. ExitComing' BY <2>1, <2>3, CommandTaken
    <3> QED BY <2>2, <3>1 DEF Commanded
  <2>4. CASE ~ExitComing
    <3>1. Watched /\ NoError /\ wifi.phase \in {"error", "failed"} BY <2>1, <2>4 DEF Commanded, Watched, Reading
    <3>2. commands' = <<>>
      <4>1. Len(commands') = 0 BY <1>1, <2>1, <3>1, CommandTaken DEF Watched
      <4> QED BY <1>1, <2>1, <4>1
    <3>3. CASE events' = Send("connecting", None) /\ wifi'.phase = "joining"
      <4>1. Watched' BY <1>1, <2>1, <3>1, <3>2, <3>3, SaidWatched DEF Reported
      <4> QED BY <2>2, <4>1 DEF Commanded
    <3>4. CASE UNCHANGED events /\ wifi'.phase = wifi.phase
      <4>1. Len(commands') <= 1 BY <3>2
      <4>2. Watched' BY <2>1, <3>1, <3>2, <3>4, <4>1 DEF Watched, NoError
      <4> QED BY <2>2, <4>2 DEF Commanded
    <3> QED BY <2>1, <3>3, <3>4
  <2> QED BY <2>3, <2>4
<1> QED BY <1>2, <1>3, <1>4, <1>6, <1>7, <1>8, <1>9 DEF Wifi

LEMMA CommandedStep ==
  ASSUME SyncCap >= 2 PROVE IInv /\ Heard /\ Commanded /\ [Next]_vars => Commanded'
<1> SUFFICES ASSUME IInv, Heard, Commanded, [Next]_vars PROVE Commanded' OBVIOUS
<1>1. TypeOK /\ Heard' BY HeardStep DEF IInv
<1>2. CASE \E key \in {"confirm", "back", "prev"}, moved \in BOOLEAN : Key(key, moved) BY <1>1, <1>2, CommandedKey
<1>3. CASE TakeSyncEvent BY <1>1, <1>3, CommandedEvent
<1>4. CASE Settled \/ SendHeld \/ TakeLoaded
  <2>1. UNCHANGED <<commands, events, screen, wifi>> BY <1>4 DEF Settled, SendHeld, TakeLoaded
  <2> QED BY <2>1 DEF Commanded, Asked, Watched, NoError, ExitComing
<1>5. CASE Store
  <2>1. UNCHANGED <<commands, screen, wifi>>
    BY <1>5 DEF Store, Refuse, ProbeNetwork, ServePage, OtherWork, LoanSyncMemory, StoreWifiCredentials, ForgetWifiCredentials
  <2>2. CASE events' = events BY <2>1, <2>2 DEF Commanded, Asked, Watched, NoError, ExitComing
  \* The answer to the probe is no error.
  <2>3. CASE events' # events
    <3>1. ProbeNetwork
      BY <1>5, <2>3 DEF Store, Refuse, ServePage, OtherWork, LoanSyncMemory, StoreWifiCredentials, ForgetWifiCredentials
    <3>2. storageQ # <<>> /\ Head(storageQ).kind = "probe" BY <3>1 DEF ProbeNetwork, Handle
    <3>3. 1 \in 1 .. Len(storageQ) /\ storageQ[1].kind = "probe" BY <1>1, <3>2, Removed DEF TypeOK
    <3>4. Waiting' /\ screen.status # "error" BY <2>1, <3>3 DEF Heard, ProbeFirst, Waiting, Unheard
    <3>5. \A i \in 1 .. Len(events') : events'[i].kind # "error"
      BY <1>1, <3>4 DEF Heard, EventsInOrder, Silent
    <3>6. Watched => Watched' BY <2>1, <3>4, <3>5 DEF Watched, NoError
    <3> QED BY <2>1, <3>6 DEF Commanded, Asked, ExitComing
  <2> QED BY <2>2, <2>3
<1>6. CASE Wifi BY <1>1, <1>6, CommandedWifi
<1>7. CASE Submit
  <2>1. wifi.phase = "portal" /\ wifi'.phase = "storing" /\ UNCHANGED <<commands, events, screen>>
    BY <1>7 DEF Submit, SubmitCredentials
  <2> QED BY <2>1 DEF Commanded, Watched, NoError, ExitComing
<1>8. CASE PowerCut BY <1>8, CommandedBoot DEF PowerCut
<1>9. CASE UNCHANGED vars
  BY <1>9 DEF vars, ram, channels, Commanded, Asked, Watched, NoError, ExitComing
<1> QED BY <1>2, <1>3, <1>4, <1>5, <1>6, <1>7, <1>8, <1>9 DEF Next, AppNext

LEMMA InitHeard == Init => IInv /\ Heard /\ Commanded
<1> SUFFICES ASSUME Init PROVE IInv /\ Heard /\ Commanded OBVIOUS
<1>1. IInv BY InitTyped DEF Init, IInv, OwnerKnown
<1>2. /\ Len(<<Probe>>) = 1 /\ <<Probe>>[1] = Probe /\ Probe.kind = "probe" /\ Len(<<>>) = 0
  BY DEF Probe, Work
<1>3. /\ Waiting /\ Unheard /\ events = <<>> /\ session = "idle" /\ storageQ = <<Probe>>
      /\ screen.status = "notConfigured"
  BY DEF Init, Waiting, Unheard, ScreenAtBoot
<1>4. Heard BY <1>2, <1>3 DEF Heard, ProbeFirst, EventsInOrder, StatusFollows, MemoryFirst
<1>5. Commanded BY DEF Commanded, Asked, Init, ScreenAtBoot
<1> QED BY <1>1, <1>4, <1>5

LEMMA StepOwns == IInv /\ [Next]_vars => IInv'
  BY StepTyped, StepOwned DEF IInv

\* The user never leaves a wireless session without ending it: while the Wi-Fi
\* task works on one, the Wireless screen shows or an Exit is on its way, in a
\* channel that has room for a start and the exit that follows it, as
\* SYNC_COMMANDS has.
THEOREM NoSessionLeft == ASSUME SyncCap >= 2 PROVE Spec => []SessionIsWatched
<1>1. Init => IInv /\ Heard /\ Commanded BY InitHeard
<1>2. IInv /\ Heard /\ Commanded /\ [Next]_vars => (IInv /\ Heard /\ Commanded)'
  BY StepOwns, HeardStep, CommandedStep
<1>3. Commanded => SessionIsWatched BY DEF Commanded, ExitComing, Watched, SessionIsWatched
<1> QED BY <1>1, <1>2, <1>3, PTL DEF Spec
-----------------------------------------------------------------------------
(* The network that was saved.                                             *)

LEMMA EventsCountedStep == IInv /\ Heard /\ EventsCounted /\ [Next]_vars => EventsCounted'
<1> SUFFICES ASSUME IInv, Heard, EventsCounted, [Next]_vars PROVE EventsCounted' OBVIOUS
<1>1. /\ TypeOK /\ wifi \in Waits /\ wifi.net \in Network /\ None \in Network
      /\ events \in Seq(SyncEvent) /\ spent.saves \in Nat
  <2>1. spent.saves \in 0 .. MaxSaves /\ MaxSaves \in Nat BY BoundsAssumption DEF IInv, TypeOK, Counts
  <2>2. spent.saves \in Nat BY <2>1
  <2> QED BY <2>2 DEF IInv, TypeOK, Waits, Network
\* Until the portal answers, the boot's probe is all there is to hear.
<1>2. Silent => Len(events) <= 1
  <2> SUFFICES ASSUME Silent, Len(events) > 1 PROVE FALSE BY <1>1
  <2>1. 2 \in 1 .. Len(events) BY <1>1
  <2> QED BY <2>1 DEF Heard, EventsInOrder
<1>3. ASSUME NEW kind \in Reported \ {"networkSaved"}, NEW net \in Network, events' = Send(kind, net)
      PROVE  Len(events') <= Len(events) + 1
  <2>1. Event(kind, net) \in SyncEvent BY <1>3 DEF Event, SyncEvent, Status, Reported
  <2> QED BY <1>1, <1>3, <2>1 DEF Send, TrySend
<1>4. CASE Reset BY <1>4 DEF Reset, EventsCounted
<1>5. CASE AppNext
  <2>1. wifi' = wifi /\ spent'.saves = spent.saves /\ events' \in {events, Tail(events)}
        /\ (events' # events => events # <<>>)
    BY <1>1, <1>5 DEF AppNext, Key, Settled, SendHeld, TakeLoaded, TakeSyncEvent, TypeOK, Counts
  <2>2. Len(events') <= Len(events) BY <1>1, <2>1
  <2> QED BY <1>1, <2>1, <2>2 DEF EventsCounted
<1>6. CASE Store
  <2>1. wifi' = wifi /\ spent'.saves = spent.saves
    BY <1>1, <1>6 DEF Store, Refuse, ProbeNetwork, ServePage, OtherWork, LoanSyncMemory, StoreWifiCredentials,
                      StoreCredentials, ForgetWifiCredentials, Fault, TypeOK, Counts
  <2>2. CASE events' = events BY <2>1, <2>2 DEF EventsCounted
  <2>3. CASE events' # events
    <3>1. ProbeNetwork
      BY <1>6, <2>3 DEF Store, Refuse, ServePage, OtherWork, LoanSyncMemory, StoreWifiCredentials, ForgetWifiCredentials
    <3>2. storageQ # <<>> /\ Head(storageQ).kind = "probe" BY <3>1 DEF ProbeNetwork, Handle
    <3>3. 1 \in 1 .. Len(storageQ) /\ storageQ[1].kind = "probe" BY <1>1, <3>2, Removed DEF TypeOK
    <3>4. Waiting BY <3>3 DEF Heard, ProbeFirst
    <3> QED BY <2>1, <3>4 DEF EventsCounted, Waiting
  <2> QED BY <2>2, <2>3
<1>7. CASE RaisePortal
  <2>1. /\ wifi.phase = "scanning" /\ wifi'.phase \in {"failed", "portal"}
        /\ events' \in {Send("error", None), Send("portalUp", None)}
        /\ spent'.saves = spent.saves
    BY <1>1, <1>7 DEF RaisePortal, WaitIn, Waits, Fault, TypeOK, Counts
  <2>2. Len(events') <= 2 BY <1>1, <1>2, <1>3, <2>1 DEF Silent, Reported
  <2> QED BY <1>1, <2>1, <2>2 DEF EventsCounted
<1>8. CASE TakeResult
  <2>1. /\ wifi.phase = "storing" /\ wifi'.phase = "portal" /\ spent' = spent
        /\ events' \in {events, Send("saved", wifi.net)}
    BY <1>1, <1>8 DEF TakeResult, WaitIn, Waits
  <2>2. Len(events') <= Len(events) + 1 BY <1>1, <1>3, <2>1 DEF Reported
  <2> QED BY <1>1, <2>1, <2>2 DEF EventsCounted
<1>9. CASE Submit
  <2>1. /\ wifi.phase = "portal" /\ wifi'.phase = "storing" /\ events' = events
        /\ spent'.saves = spent.saves + 1
    BY <1>1, <1>9 DEF Submit, SubmitCredentials, TypeOK, Counts
  <2> QED BY <1>1, <2>1 DEF EventsCounted
<1>10. CASE (Begin \/ AskAgain \/ TakeLoan \/ AttemptEnds \/ Exit \/ UploadStopped \/ StartAgain) /\ ~Reset
  <2>1. /\ spent'.saves = spent.saves
        /\ \/ wifi'.phase \notin {"portal", "storing"}
           \/ wifi' = wifi /\ events' = events
    BY <1>1, <1>10 DEF Begin, AskAgain, AskLoan, TakeLoan, AttemptEnds, Attempt, Exit, ExitSession, UploadStopped,
                       StartAgain, WaitIn, Waits, Fault, TypeOK, Counts
  <2> QED BY <2>1 DEF EventsCounted
<1>11. CASE UNCHANGED vars BY <1>11 DEF vars, ram, channels, EventsCounted
<1> QED BY <1>4, <1>5, <1>6, <1>7, <1>8, <1>9, <1>10, <1>11 DEF Next, Wifi, PowerCut

\* A store is asked for and answered one at a time.
LEMMA OneStoreStep == IInv /\ Heard /\ OneStore /\ [Next]_vars => OneStore'
<1> SUFFICES ASSUME IInv, Heard, OneStore, [Next]_vars PROVE OneStore' OBVIOUS
<1>1. /\ TypeOK /\ TypeOK' /\ wifi \in Waits /\ storageQ \in Seq(StorageWork) /\ app \in Flags
      /\ None \in Network /\ spent \in Counts /\ spent.faults \in Nat
  <2>1. spent.faults \in 0 .. MaxFaults /\ MaxFaults \in Nat BY BoundsAssumption DEF IInv, TypeOK, Counts
  <2>2. spent.faults \in Nat BY <2>1
  <2> QED BY <2>2, StepTyped DEF IInv, TypeOK, Network
<1>2. CASE Reset
  <2>1. /\ Len(<<Probe>>) = 1 /\ <<Probe>>[1] = Probe /\ Probe.kind = "probe"
    BY DEF Probe, Work
  <2>2. storageQ' = <<Probe>> /\ results' = <<>> /\ wifi'.phase = "off" BY <1>2 DEF Reset
  <2> QED BY <2>1, <2>2 DEF OneStore, Holds
\* Only the portal adds a store.
<1>3. ASSUME Longer(storageQ, storageQ', AppKinds \union {"loan"})
      PROVE  /\ \A i \in 1 .. Len(storageQ') : storageQ'[i].kind = "store" =>
                  i \in 1 .. Len(storageQ) /\ storageQ'[i] = storageQ[i]
             /\ ~Holds(storageQ, "store") => ~Holds(storageQ', "store")
  <2>1. "store" \notin AppKinds \union {"loan"} BY DEF AppKinds
  <2> QED BY <1>3, <2>1, MoreKinds DEF Longer
<1>4. CASE AppNext
  <2>1. UNCHANGED <<wifi, results, card>> /\ spent'.faults = spent.faults
    BY <1>1, <1>4 DEF AppNext, Key, Settled, SendHeld, TakeLoaded, TakeSyncEvent, Counts
  <2>2. Longer(storageQ, storageQ', AppKinds \union {"loan"}) BY <1>1, <1>4, AppWork DEF Longer
  <2>3. /\ \A i \in 1 .. Len(storageQ') : storageQ'[i].kind = "store" =>
             i \in 1 .. Len(storageQ) /\ storageQ'[i] = storageQ[i]
        /\ ~Holds(storageQ, "store") => ~Holds(storageQ', "store")
    BY <1>3, <2>2
  <2> QED BY <2>1, <2>3 DEF OneStore
<1>5. CASE Store
  <2>1. wifi' = wifi
    BY <1>5 DEF Store, Refuse, ProbeNetwork, ServePage, OtherWork, LoanSyncMemory, StoreWifiCredentials,
                ForgetWifiCredentials
  <2>2. /\ Head(storageQ) = storageQ[1] /\ 1 \in 1 .. Len(storageQ)
        /\ \A i \in 1 .. Len(storageQ') : storageQ'[i].kind = "store" =>
             i + 1 \in 1 .. Len(storageQ) /\ i + 1 # 1 /\ storageQ'[i] = storageQ[i + 1]
    BY <1>1, <1>5, StoreWork
  <2>3. ~Holds(storageQ, "store") => ~Holds(storageQ', "store") BY <1>1, <1>5, LessKinds
  <2>4. spent'.faults = 0 => spent.faults = 0 /\ ~Fault
    <3>1. spent' = spent \/ Fault
      BY <1>5 DEF Store, Refuse, ProbeNetwork, ServePage, OtherWork, LoanSyncMemory, StoreWifiCredentials,
                  StoreCredentials, ForgetWifiCredentials
    <3>2. Fault => spent'.faults = spent.faults + 1 BY <1>1 DEF Fault, Counts
    <3>3. spent.faults + 1 # 0 BY <1>1
    <3> QED BY <3>1, <3>2, <3>3
  <2>5. CASE StoreWifiCredentials
    <3>1. storageQ[1].kind = "store" /\ storageQ[1].net = wifi.net /\ wifi.phase = "storing" /\ wifi.net # None
      BY <2>2, <2>5 DEF StoreWifiCredentials, Handle, OneStore, Holds
    <3>2. \A i \in 1 .. Len(storageQ') : storageQ'[i].kind # "store"
      BY <2>2, <3>1 DEF OneStore
    <3>3. results' = <<TRUE>> => card' = wifi.net
      BY <2>2, <2>5, <3>1 DEF StoreWifiCredentials, StoreCredentials
    <3>4. results' = <<FALSE>> => spent'.faults # 0
      BY <2>4, <2>5 DEF StoreWifiCredentials, StoreCredentials
    <3> QED BY <2>1, <2>3, <3>1, <3>2, <3>3, <3>4 DEF OneStore
  <2>6. CASE ~StoreWifiCredentials
    <3>1. results' = results
      BY <1>5, <2>6 DEF Store, Refuse, ProbeNetwork, ServePage, OtherWork, LoanSyncMemory, ForgetWifiCredentials
    \* What the card keeps may only be forgotten outside a session.
    <3>2. results = <<TRUE>> => card' = card
      <4>1. CASE ForgetWifiCredentials
        <5>1. session = "idle" BY <4>1 DEF ForgetWifiCredentials, Handle, Admits
        <5>2. wifi.phase # "storing" BY <5>1 DEF Heard, MemoryFirst, Waiting
        <5> QED BY <5>2 DEF OneStore
      <4>2. CASE ~ForgetWifiCredentials
        BY <1>5, <2>6, <4>2 DEF Store, Refuse, ProbeNetwork, ServePage, OtherWork, LoanSyncMemory
      <4> QED BY <4>1, <4>2
    <3>3. \A i, j \in 1 .. Len(storageQ') : storageQ'[i].kind = "store" =>
            storageQ'[i].net = wifi.net /\ results = <<>> /\ (storageQ'[j].kind = "store" => j = i)
      <4> SUFFICES ASSUME NEW i \in 1 .. Len(storageQ'), NEW j \in 1 .. Len(storageQ'), storageQ'[i].kind = "store"
                   PROVE  storageQ'[i].net = wifi.net /\ results = <<>> /\ (storageQ'[j].kind = "store" => j = i)
        OBVIOUS
      <4>1. i + 1 \in 1 .. Len(storageQ) /\ storageQ'[i] = storageQ[i + 1] BY <2>2
      <4>2. storageQ[i + 1].net = wifi.net /\ results = <<>> BY <4>1 DEF OneStore
      <4>3. ASSUME storageQ'[j].kind = "store" PROVE j = i
        <5>1. j + 1 \in 1 .. Len(storageQ) /\ storageQ'[j] = storageQ[j + 1] BY <2>2, <4>3
        <5>2. j + 1 = i + 1 BY <4>1, <4>3, <5>1 DEF OneStore
        <5> QED BY <5>2
      <4> QED BY <4>1, <4>2, <4>3
    <3>4. results = <<FALSE>> => spent'.faults # 0 BY <2>4 DEF OneStore
    <3> QED BY <2>1, <2>3, <2>4, <3>1, <3>2, <3>3, <3>4 DEF OneStore
  <2> QED BY <2>5, <2>6
<1>6. CASE Begin \/ AskAgain
  <2>1. /\ UNCHANGED <<results, card, spent>> /\ wifi'.net = wifi.net
        /\ wifi.phase # "storing" /\ wifi'.phase # "storing"
        /\ storageQ' = storageQ \/ storageQ' = Append(storageQ, Work("loan", None))
    BY <1>1, <1>6 DEF Begin, AskAgain, AskLoan, WaitIn, Waits
  <2>2. Longer(storageQ, storageQ', AppKinds \union {"loan"})
    <3>1. Work("loan", None) \in StorageWork /\ Work("loan", None).kind \in AppKinds \union {"loan"}
      BY <1>1 DEF Work, StorageWork, Kinds
    <3> QED BY <1>1, <2>1, <3>1, LongerByOne
  <2>3. /\ \A i \in 1 .. Len(storageQ') : storageQ'[i].kind = "store" =>
             i \in 1 .. Len(storageQ) /\ storageQ'[i] = storageQ[i]
        /\ ~Holds(storageQ, "store") => ~Holds(storageQ', "store")
    BY <1>3, <2>2
  <2> QED BY <2>1, <2>3 DEF OneStore
<1>7. CASE TakeResult
  <2>1. /\ wifi.phase = "storing" /\ wifi'.phase = "portal" /\ wifi'.net = wifi.net
        /\ results # <<>> /\ results' = <<>> /\ UNCHANGED <<storageQ, card, spent>>
    BY <1>1, <1>7 DEF TakeResult, WaitIn, Waits
  <2>2. ~Holds(storageQ, "store") BY <2>1 DEF OneStore, Holds
  <2>3. ~Holds(storageQ', "store") /\ storageQ' = storageQ BY <2>1, <2>2
  <2> QED BY <2>1, <2>3 DEF OneStore
<1>8. CASE Submit
  <2>1. PICK net \in Networks : SubmitCredentials(net) BY <1>8 DEF Submit
  <2>2. /\ wifi.phase = "portal" /\ wifi'.phase = "storing" /\ wifi'.net = net /\ net # None
        /\ UNCHANGED <<results, card>> /\ spent'.faults = spent.faults
        /\ storageQ' = Append(storageQ, Work("store", net))
    BY <1>1, <2>1, NoneAssumption DEF SubmitCredentials, Counts
  <2>3. ~Holds(storageQ, "store") /\ results = <<>> BY <2>2 DEF OneStore
  <2>4. Work("store", net) \in StorageWork /\ Work("store", net).net = net BY DEF Work, StorageWork, Kinds, Network
  <2>5. \A i \in 1 .. Len(storageQ') : storageQ'[i].kind = "store" =>
          i = Len(storageQ) + 1 /\ storageQ'[i] = Work("store", net)
    BY <1>1, <2>2, <2>3, <2>4, Appended DEF Holds
  <2> QED BY <2>2, <2>3, <2>4, <2>5 DEF OneStore
<1>9. CASE (TakeLoan \/ RaisePortal \/ AttemptEnds \/ Exit \/ UploadStopped \/ StartAgain) /\ ~Reset
  <2>1. /\ UNCHANGED <<results, card, storageQ>> /\ wifi'.net = wifi.net
        /\ wifi'.phase = wifi.phase \/ (wifi.phase # "storing" /\ wifi'.phase # "storing")
        /\ spent'.faults = 0 => spent.faults = 0
    BY <1>1, <1>9 DEF TakeLoan, RaisePortal, AttemptEnds, Attempt, Exit, ExitSession, UploadStopped, StartAgain,
                      Reading, WaitIn, Waits, Fault, Counts
  <2>2. Holds(storageQ', "store") = Holds(storageQ, "store") BY <2>1
  <2> QED BY <2>1, <2>2 DEF OneStore
<1>10. CASE UNCHANGED vars BY <1>10 DEF vars, ram, channels, OneStore, Holds
<1> QED BY <1>2, <1>4, <1>5, <1>6, <1>7, <1>8, <1>9, <1>10 DEF Next, Wifi, PowerCut

\* What was saved last stays what was saved last when anything else is said.
LEMMA LastStays ==
  ASSUME TypeOK, NEW net, LastSaved(net), screen'.ssid = screen.ssid,
         \A i \in 1 .. Len(events) : i \in 1 .. Len(events') /\ events'[i] = events[i],
         \A i \in 1 .. Len(events') : i \in 1 .. Len(events) \/ events'[i].kind # "saved"
  PROVE  LastSaved(net)' /\ (Holds(events', "saved") => Holds(events, "saved"))
<1>1. events \in Seq(SyncEvent) BY DEF TypeOK
<1>2. \A i \in 1 .. Len(events') : events'[i].kind = "saved" =>
        i \in 1 .. Len(events) /\ events[i].kind = "saved"
  OBVIOUS
<1>3. CASE ~Holds(events, "saved") /\ screen.ssid = net
  BY <1>2, <1>3 DEF LastSaved, Holds
<1>4. ASSUME NEW i \in 1 .. Len(events), events[i].kind = "saved", events[i].net = net,
             \A j \in 1 .. Len(events) : events[j].kind = "saved" => j <= i
      PROVE  LastSaved(net)'
  <2>1. i \in 1 .. Len(events') /\ events'[i] = events[i] BY <1>4
  <2> QED BY <1>2, <1>4, <2>1 DEF LastSaved
<1> QED BY <1>2, <1>3, <1>4 DEF LastSaved, Holds

\* What the screen takes from the head is the network it will name.
LEMMA LastTaken ==
  ASSUME TypeOK, NEW net, LastSaved(net), Holds(events, "saved"), events # <<>>,
         events' = Tail(events), screen' = AfterEvent(Head(events))
  PROVE  LastSaved(net)'
<1>1. /\ events \in Seq(SyncEvent) /\ screen \in Screens BY DEF TypeOK
<1>2. /\ Head(events) = events[1] /\ 1 \in 1 .. Len(events)
      /\ \A i \in 1 .. Len(events') : i + 1 \in 1 .. Len(events) /\ events'[i] = events[i + 1]
      /\ \A i \in 2 .. Len(events) : i - 1 \in 1 .. Len(events') /\ events'[i - 1] = events[i]
  BY <1>1, Removed
<1>3. PICK i \in 1 .. Len(events) :
        /\ events[i].kind = "saved" /\ events[i].net = net
        /\ \A j \in 1 .. Len(events) : events[j].kind = "saved" => j <= i
  BY DEF LastSaved
<1>4. CASE i = 1
  <2>1. screen'.ssid = net BY <1>1, <1>2, <1>3, <1>4 DEF AfterEvent, Screens
  <2>2. \A j \in 1 .. Len(events') : events'[j].kind # "saved"
    <3>1. \A j \in 1 .. Len(events') : events'[j].kind = "saved" => j + 1 <= 1 BY <1>2, <1>3, <1>4
    <3>2. \A j \in 1 .. Len(events') : ~(j + 1 <= 1) OBVIOUS
    <3> QED BY <3>1, <3>2
  <2> QED BY <2>1, <2>2 DEF LastSaved, Holds
<1>5. CASE i # 1
  <2>1. i \in 2 .. Len(events) BY <1>1, <1>3, <1>5
  <2>2. i - 1 \in 1 .. Len(events') /\ events'[i - 1] = events[i] BY <1>2, <2>1
  <2>3. \A j \in 1 .. Len(events') : events'[j].kind = "saved" => j <= i - 1
    <3>1. \A j \in 1 .. Len(events') : events'[j].kind = "saved" => j + 1 <= i BY <1>2, <1>3
    <3>2. \A j \in 1 .. Len(events') : j + 1 <= i => j <= i - 1 BY <1>3
    <3> QED BY <3>1, <3>2
  <2> QED BY <1>3, <2>2, <2>3 DEF LastSaved
<1> QED BY <1>4, <1>5

LEMMA SavedOnCardStep ==
  ASSUME EventCap >= MaxSaves + 2
  PROVE  IInv /\ Heard /\ EventsCounted /\ OneStore /\ SavedOnCard /\ [Next]_vars => SavedOnCard'
<1> SUFFICES ASSUME IInv, Heard, EventsCounted, OneStore, SavedOnCard, [Next]_vars PROVE SavedOnCard' OBVIOUS
<1>1. /\ TypeOK /\ TypeOK' /\ wifi \in Waits /\ wifi.net \in Network /\ storageQ \in Seq(StorageWork)
      /\ events \in Seq(SyncEvent) /\ screen \in Screens /\ None \in Network
      /\ spent \in Counts /\ spent.faults \in Nat /\ spent.saves \in Nat /\ spent.saves <= MaxSaves
  <2>1. /\ spent.faults \in 0 .. MaxFaults /\ MaxFaults \in Nat /\ spent.saves \in 0 .. MaxSaves /\ MaxSaves \in Nat
    BY BoundsAssumption DEF IInv, TypeOK, Counts
  <2>2. spent.faults \in Nat /\ spent.saves \in Nat /\ spent.saves <= MaxSaves BY <2>1
  <2> QED BY <2>2, StepTyped DEF IInv, TypeOK, Network, Waits
<1>2. CASE Reset
  <2>1. events' = <<>> /\ screen'.status = "notConfigured" BY <1>2 DEF Reset, ScreenAtBoot
  <2> QED BY <2>1 DEF SavedOnCard, SavedHeard, Holds
<1>3. CASE \E key \in {"confirm", "back", "prev"}, moved \in BOOLEAN : Key(key, moved)
  <2>1. PICK key \in {"confirm", "back", "prev"}, moved \in BOOLEAN : Key(key, moved) BY <1>3
  <2>2. /\ UNCHANGED <<events, wifi, card, session>> /\ screen' = AfterKey(key) /\ spent'.faults = spent.faults
    BY <1>1, <2>1 DEF Key, Counts
  <2>3. screen'.status = "saved" => screen.status = "saved" /\ screen'.ssid = screen.ssid
    BY <1>1, <2>2 DEF AfterKey, WirelessKey, Home, Says, Entry, Screens
  <2>4. SavedHeard' => SavedHeard BY <2>2, <2>3 DEF SavedHeard
  <2>5. SavedHeard' /\ LastSaved(card) => LastSaved(card)' BY <2>2, <2>3 DEF SavedHeard, LastSaved
  <2> QED BY <2>2, <2>4, <2>5 DEF SavedOnCard
<1>4. CASE Settled \/ SendHeld \/ TakeLoaded
  BY <1>4 DEF Settled, SendHeld, TakeLoaded, SavedOnCard, SavedHeard, LastSaved
<1>5. CASE TakeSyncEvent
  <2>1. /\ UNCHANGED <<wifi, card, session, spent>> /\ events # <<>> /\ events' = Tail(events)
        /\ screen' = AfterEvent(Head(events))
    BY <1>5 DEF TakeSyncEvent
  <2>2. Head(events) = events[1] /\ 1 \in 1 .. Len(events) /\ Head(events) \in SyncEvent
        /\ \A i \in 1 .. Len(events') : i + 1 \in 1 .. Len(events) /\ events'[i] = events[i + 1]
    BY <1>1, <2>1, Removed
  <2>3. SavedHeard' => Holds(events, "saved")
    <3>1. Holds(events', "saved") => Holds(events, "saved") BY <2>2 DEF Holds
    <3>2. screen'.status = "saved" => events[1].kind = "saved"
      BY <1>1, <2>1, <2>2 DEF AfterEvent, Says, Screens, Heard, EventsInOrder, Unheard
    <3> QED BY <2>2, <3>1, <3>2 DEF SavedHeard, Holds
  <2>4. ASSUME Holds(events, "saved"), LastSaved(card) PROVE LastSaved(card)'
    <3>1. PICK kept : kept = card OBVIOUS
    <3>2. LastSaved(kept) BY <2>4, <3>1
    <3>3. LastSaved(kept)' BY <1>1, <2>1, <2>4, <3>2, LastTaken
    <3>4. card' = kept BY <2>1, <3>1
    <3> QED BY <3>3, <3>4
  <2> QED BY <2>1, <2>3, <2>4 DEF SavedOnCard, SavedHeard
<1>6. CASE Store
  <2>1. /\ UNCHANGED <<wifi, screen>> /\ (session' = session \/ session' = "loaned")
    BY <1>6 DEF Store, Refuse, ProbeNetwork, ServePage, OtherWork, LoanSyncMemory, LendMemory, StoreWifiCredentials,
                ForgetWifiCredentials, Handle
  <2>2. spent'.faults = 0 => spent.faults = 0
    <3>1. spent' = spent \/ Fault
      BY <1>6 DEF Store, Refuse, ProbeNetwork, ServePage, OtherWork, LoanSyncMemory, StoreWifiCredentials,
                  StoreCredentials, ForgetWifiCredentials
    <3>2. Fault => spent'.faults = spent.faults + 1 BY <1>1 DEF Fault, Counts
    <3>3. spent.faults + 1 # 0 BY <1>1
    <3> QED BY <3>1, <3>2, <3>3
  <2>3. CASE ProbeNetwork
    <3>1. storageQ # <<>> /\ Head(storageQ).kind = "probe" BY <2>3 DEF ProbeNetwork, Handle
    <3>2. 1 \in 1 .. Len(storageQ) /\ storageQ[1].kind = "probe" BY <1>1, <3>1, Removed
    <3>3. Waiting' /\ screen'.status # "saved" BY <2>1, <3>2 DEF Heard, ProbeFirst, Unheard, Waiting
    <3>4. Heard' BY HeardStep
    <3>5. \A i \in 1 .. Len(events') : events'[i].kind # "saved"
      BY <3>3, <3>4 DEF Heard, EventsInOrder, Silent
    <3> QED BY <3>3, <3>5 DEF SavedOnCard, SavedHeard, Holds
  <2>4. CASE StoreWifiCredentials
    <3>1. /\ 1 \in 1 .. Len(storageQ) /\ storageQ[1].kind = "store" /\ Head(storageQ) = storageQ[1]
      BY <1>1, <2>4, Removed DEF StoreWifiCredentials, Handle
    <3>2. storageQ[1].net = wifi.net /\ wifi.phase = "storing" /\ wifi.net # None
      BY <3>1 DEF OneStore, Holds
    <3>3. card' \in {card, wifi.net} /\ events' = events /\ session' = session
      BY <2>4, <3>1, <3>2 DEF StoreWifiCredentials, StoreCredentials
    <3> QED BY <2>1, <3>2, <3>3 DEF SavedOnCard, SavedHeard
  <2>5. CASE ForgetWifiCredentials
    <3>1. session = "idle" /\ events' = events BY <2>5 DEF ForgetWifiCredentials, Handle, Admits
    <3> QED BY <2>1, <3>1 DEF SavedOnCard, SavedHeard
  <2>6. CASE Refuse \/ ServePage \/ OtherWork \/ LoanSyncMemory
    <3>1. UNCHANGED <<card, events>> BY <2>6 DEF Refuse, ServePage, OtherWork, LoanSyncMemory
    <3> QED BY <2>1, <2>2, <3>1 DEF SavedOnCard, SavedHeard, LastSaved
  <2> QED BY <1>6, <2>3, <2>4, <2>5, <2>6 DEF Store
\* The turns of the Wi-Fi task that say something else.
<1>7. ASSUME UNCHANGED <<card, session, screen>>, wifi.phase # "storing" \/ wifi'.phase = "storing",
             spent'.faults = 0 => spent.faults = 0,
             \A i \in 1 .. Len(events) : i \in 1 .. Len(events') /\ events'[i] = events[i],
             \A i \in 1 .. Len(events') : i \in 1 .. Len(events) \/ events'[i].kind # "saved"
      PROVE  SavedOnCard'
  <2>1. Holds(events', "saved") => Holds(events, "saved") BY <1>7 DEF Holds
  <2>2. \A net : LastSaved(net) => LastSaved(net)' BY <1>1, <1>7, LastStays
  <2>3. LastSaved(card) => LastSaved(card)'
    <3>1. PICK kept : kept = card OBVIOUS
    <3>2. LastSaved(kept) => LastSaved(kept)' BY <2>2
    <3>3. card' = kept BY <1>7, <3>1
    <3> QED BY <3>1, <3>2, <3>3
  <2>4. SavedHeard' => SavedHeard BY <1>7, <2>1 DEF SavedHeard
  <2> QED BY <1>7, <2>3, <2>4 DEF SavedOnCard
<1>8. ASSUME NEW kind \in Reported \ {"networkSaved", "saved"}, events' = Send(kind, None)
      PROVE  /\ \A i \in 1 .. Len(events) : i \in 1 .. Len(events') /\ events'[i] = events[i]
             /\ \A i \in 1 .. Len(events') : i \in 1 .. Len(events) \/ events'[i].kind # "saved"
  <2>1. /\ events' = events \/ events' = Append(events, Event(kind, None))
        /\ \A i \in 1 .. Len(events') : i \in 1 .. Len(events) \/ events'[i] = Event(kind, None)
    BY <1>1, <1>8, Spoken
  <2>2. Event(kind, None).kind # "saved" BY <1>8 DEF Event
  <2>3. \A i \in 1 .. Len(events) : i \in 1 .. Len(events') /\ events'[i] = events[i]
    BY <1>1, <2>1
  <2> QED BY <2>1, <2>2, <2>3
<1>9. CASE Begin \/ AskAgain
  <2>1. /\ UNCHANGED <<card, session, screen, events, spent>> /\ wifi.phase # "storing"
    BY <1>9 DEF Begin, AskAgain
  <2> QED BY <1>7, <2>1
<1>10. CASE TakeLoan \/ RaisePortal
  <2>1. /\ UNCHANGED <<card, session, screen>> /\ wifi.phase # "storing"
        /\ spent' = spent \/ Fault
        /\ events' = events \/ \E kind \in Reported \ {"networkSaved", "saved"} : events' = Send(kind, None)
    BY <1>10 DEF TakeLoan, RaisePortal, Reported
  <2>2. spent'.faults = 0 => spent.faults = 0
    <3>1. Fault => spent'.faults = spent.faults + 1 BY <1>1 DEF Fault, Counts
    <3>2. spent.faults + 1 # 0 BY <1>1
    <3> QED BY <2>1, <3>1, <3>2
  <2> QED BY <1>7, <1>8, <2>1, <2>2
<1>11. CASE AttemptEnds
  <2>1. /\ UNCHANGED <<card, session, screen, spent>> /\ wifi.phase # "storing"
        /\ events' = TrySend(Send("connected", None), EventCap, Event("serving", None)) \/ events' = Send("error", None)
    BY <1>11 DEF AttemptEnds, Attempt
  <2>2. CASE events' = Send("error", None) BY <1>7, <1>8, <2>1, <2>2 DEF Reported
  <2>3. CASE events' = TrySend(Send("connected", None), EventCap, Event("serving", None))
    <3> DEFINE first == Send("connected", None)
    <3>1. /\ first \in Seq(SyncEvent)
          /\ first = events \/ first = Append(events, Event("connected", None))
          /\ \A i \in 1 .. Len(first) : i \in 1 .. Len(events) \/ first[i] = Event("connected", None)
      BY <1>1, Spoken DEF Reported
    <3>2. events' = TrySend(first, EventCap, Event("serving", None)) BY <2>3
    <3> HIDE DEF first
    <3>3. Event("serving", None) \in SyncEvent BY <1>1 DEF Event, SyncEvent, Status
    <3>4. /\ \A i \in 1 .. Len(first) : i \in 1 .. Len(events') /\ events'[i] = first[i]
          /\ \A i \in 1 .. Len(events') : i \in 1 .. Len(first) \/ events'[i] = Event("serving", None)
      <4>1. CASE events' = first BY <4>1
      <4>2. CASE events' = Append(first, Event("serving", None)) BY <3>1, <3>3, <4>2, Appended
      <4> QED BY <3>2, <4>1, <4>2 DEF TrySend
    <3>5. \A i \in 1 .. Len(events) : i \in 1 .. Len(first) /\ first[i] = events[i]
      BY <1>1, <3>1
    <3>6. \A i \in 1 .. Len(events') : i \in 1 .. Len(events) \/ events'[i].kind # "saved"
      BY <3>1, <3>4 DEF Event
    <3> QED BY <1>7, <2>1, <3>4, <3>5, <3>6
  <2> QED BY <2>1, <2>2, <2>3
\* A network that was saved is reported: the channel has room for every form.
<1>12. CASE TakeResult
  <2>1. /\ wifi.phase = "storing" /\ results # <<>> /\ UNCHANGED <<card, session, screen, spent>>
        /\ results = <<FALSE>> => events' = events
        /\ results = <<TRUE>> => events' = Send("saved", wifi.net)
    <3>1. <<FALSE>>[1] = FALSE BY Zenon
    <3>2. <<TRUE>>[1] = TRUE BY Zenon
    <3>3. results = <<>> \/ Head(results) = results[1]
      <4>1. <<FALSE>> \in Seq(BOOLEAN) /\ <<TRUE>> \in Seq(BOOLEAN) OBVIOUS
      <4>2. results = <<>> \/ results \in Seq(BOOLEAN) BY <1>1, <4>1, Zenon DEF TypeOK
      <4> QED BY <4>2, Removed
    <3>4. (results = <<FALSE>> => ~Head(results)) /\ (results = <<TRUE>> => Head(results))
      <4>1. results # <<>> BY <1>12 DEF TakeResult
      <4> QED BY <3>1, <3>2, <3>3, <4>1, Zenon
    <3> QED BY <1>12, <3>4 DEF TakeResult
  <2>2. results = <<TRUE>> \/ results = <<FALSE>> BY <1>1, <2>1 DEF TypeOK
  <2>3. session = "loaned" BY <2>1 DEF Heard, MemoryFirst, Waiting
  <2>4. CASE results = <<FALSE>>
    <3>1. events' = events /\ spent.faults # 0 BY <2>1, <2>4 DEF OneStore
    <3> QED BY <2>1, <3>1 DEF SavedOnCard, SavedHeard
  <2>5. CASE results = <<TRUE>>
    <3> DEFINE last == Len(events) + 1
    <3>1. card # None /\ (spent.faults = 0 => card = wifi.net) BY <2>5 DEF OneStore
    <3>2. Len(events) < EventCap
      <4>1. Len(events) <= 1 + spent.saves /\ Len(events) \in Nat BY <1>1, <2>1 DEF EventsCounted
      <4>2. EventCap \in Nat /\ MaxSaves \in Nat BY CapsAssumption, BoundsAssumption
      <4> QED BY <1>1, <4>1, <4>2
    <3>3. events' = Append(events, Event("saved", wifi.net)) BY <2>1, <2>5, <3>2 DEF Send, TrySend
    <3>4. Event("saved", wifi.net) \in SyncEvent /\ Event("saved", wifi.net).kind = "saved"
          /\ Event("saved", wifi.net).net = wifi.net
      BY <1>1 DEF Event, SyncEvent, Status
    <3>5. last \in 1 .. Len(events') /\ Len(events') = last /\ events'[last] = Event("saved", wifi.net)
      BY <1>1, <3>3, <3>4
    <3>6. spent.faults = 0 => LastSaved(card)'
      <4>1. \A j \in 1 .. Len(events') : j <= last BY <3>5
      <4> QED BY <2>1, <3>1, <3>4, <3>5, <4>1 DEF LastSaved
    <3> QED BY <2>1, <2>3, <3>1, <3>6 DEF SavedOnCard
  <2> QED BY <2>2, <2>4, <2>5
<1>13. CASE (Exit \/ UploadStopped \/ StartAgain) /\ ~Reset
  <2>1. /\ UNCHANGED <<card, session, screen, spent>> /\ (wifi.phase # "storing" \/ wifi'.phase = "storing")
        /\ events' = events \/ events' = Send("connecting", None)
    BY <1>1, <1>13 DEF Exit, ExitSession, UploadStopped, StartAgain, WaitIn, Waits
  <2> QED BY <1>7, <1>8, <2>1 DEF Reported
<1>14. CASE Submit
  <2>1. UNCHANGED <<card, session, screen, events>> /\ wifi'.phase = "storing"
    BY <1>14 DEF Submit, SubmitCredentials
  <2> QED BY <2>1 DEF SavedOnCard, SavedHeard
<1>15. CASE UNCHANGED vars
  BY <1>15 DEF vars, ram, channels, SavedOnCard, SavedHeard, LastSaved
<1> QED BY <1>2, <1>3, <1>4, <1>5, <1>6, <1>9, <1>10, <1>11, <1>12, <1>13, <1>14, <1>15
        DEF Next, AppNext, Wifi, PowerCut

\* What the reader says was saved is on the card: the saved screen, and every
\* CredentialsSaved on its way to it, follow a record that was read back, and
\* unless the card failed the last one names the network the card holds.  The
\* channel must hold the events of every form sent while the app task is busy.
THEOREM SavedIsTrue == ASSUME EventCap >= MaxSaves + 2 PROVE Spec => []SavedIsStored
<1> DEFINE Inv == IInv /\ Heard /\ EventsCounted /\ OneStore /\ SavedOnCard
<1>1. Init => Inv
  <2> SUFFICES ASSUME Init PROVE Inv OBVIOUS
  <2>1. Len(<<Probe>>) = 1 /\ <<Probe>>[1] = Probe /\ Probe.kind = "probe" /\ Len(<<>>) = 0
    BY DEF Probe, Work
  <2>2. /\ storageQ = <<Probe>> /\ events = <<>> /\ wifi.phase = "off" /\ results = <<>>
        /\ screen.status = "notConfigured"
    BY DEF Init, ScreenAtBoot
  <2> QED BY <2>1, <2>2, InitHeard DEF EventsCounted, OneStore, SavedOnCard, SavedHeard, Holds
<1>2. Inv /\ [Next]_vars => Inv'
  BY StepOwns, HeardStep, EventsCountedStep, OneStoreStep, SavedOnCardStep
<1>3. Inv => SavedIsStored BY DEF SavedOnCard, SavedHeard, SavedIsStored
<1> QED BY <1>1, <1>2, <1>3, PTL DEF Spec
-----------------------------------------------------------------------------
(* What the screen knows before a session.                                 *)

\* A key that asks to forget has seen a network, and no other key hides one.
LEMMA KeyNetwork ==
  ASSUME TypeOK, StatusFollows, NEW key \in {"confirm", "back", "prev"}, NEW moved \in BOOLEAN,
         screen' = AfterKey(key), moved => screen.view = "reading" /\ key = "prev"
  PROVE  /\ StorageCommandFor(screen', moved) = "forget" => screen.ssid # None /\ screen'.ssid = None
         /\ StorageCommandFor(screen', moved) # "forget" => screen'.ssid = screen.ssid
<1>1. /\ screen \in Screens /\ None \notin {"open", "extend", "forget"}
  BY NoneAssumption DEF TypeOK
<1>2. Entry \in {"notConfigured", "idle"} BY DEF Entry
<1>3. CASE screen.view = "wireless" /\ screen.status = "forgetPending" /\ key = "confirm"
  <2>1. screen' = [screen EXCEPT !.status = "notConfigured", !.ssid = None]
    BY <1>3 DEF AfterKey, WirelessKey
  <2>2. screen'.ssid = None /\ screen'.view = "wireless" /\ screen'.status = "notConfigured" /\ ~moved
    BY <1>1, <1>3, <2>1 DEF Screens
  <2>3. StorageCommandFor(screen', moved) = "forget"
    BY <1>1, <1>3, <2>2 DEF StorageCommandFor
  <2> QED BY <1>3, <2>2, <2>3 DEF StatusFollows
<1>4. CASE ~(screen.view = "wireless" /\ screen.status = "forgetPending" /\ key = "confirm")
  <2>1. /\ screen'.ssid = screen.ssid
        /\ ~(screen.status = "forgetPending" /\ screen'.status = "notConfigured" /\ screen'.view = "wireless")
    BY <1>1, <1>2, <1>4 DEF AfterKey, WirelessKey, Home, Says, Screens, Entry, StatusFollows
  <2>2. StorageCommandFor(screen', moved) # "forget"
    BY <1>1, <2>1 DEF StorageCommandFor
  <2> QED BY <2>1, <2>2
<1> QED BY <1>3, <1>4

\* A key leaves nothing for a session in the queue.
LEMMA KnownApp == ASSUME TypeOK, AppNext, NoSessionWork PROVE NoSessionWork'
<1>1. Longer(storageQ, storageQ', AppKinds) BY AppWork
<1>2. {"store", "loan"} \cap AppKinds = {} BY DEF AppKinds
<1> QED BY <1>1, <1>2 DEF NoSessionWork, Longer

\* A forget that is pressed is under way or lost.
LEMMA KnownKey ==
  ASSUME TypeOK, Heard, NetworkKnown,
         NEW key \in {"confirm", "back", "prev"}, NEW moved \in BOOLEAN, Key(key, moved)
  PROVE  NetworkKnown'
<1> DEFINE kind == StorageCommandFor(screen', moved)
<1>1. /\ UNCHANGED <<card, events>> /\ app.sending = None /\ screen' = AfterKey(key)
      /\ moved => screen.view = "reading" /\ key = "prev"
      /\ spent'.faults = spent.faults
  BY DEF Key, AppTurn, TypeOK, Counts
<1>2. /\ kind = "forget" => screen.ssid # None /\ screen'.ssid = None
      /\ kind # "forget" => screen'.ssid = screen.ssid
  BY <1>1, KeyNetwork DEF Heard
<1>3. /\ Longer(storageQ, storageQ', AppKinds) /\ app'.sending = None /\ (app.lost => app'.lost)
      /\ kind # "forget" =>
           Longer(storageQ, storageQ', AppKinds \ {"forget"}) /\ (IsForget(app'.held) => IsForget(app.held))
      /\ kind = "forget" \/ Holds(storageQ, "forget") \/ IsForget(app.held) =>
           Holds(storageQ', "forget") \/ IsForget(app'.held) \/ app'.lost
  BY KeyWork
<1> HIDE DEF kind
<1>4. Holds(storageQ', "probe") <=> Holds(storageQ, "probe")
  <2>1. "probe" \notin AppKinds BY DEF AppKinds
  <2> QED BY <1>3, <2>1, MoreKinds
<1>5. /\ ForgetUnderWay <=> Holds(storageQ, "forget") \/ IsForget(app.held)
      /\ ForgetUnderWay' <=> Holds(storageQ', "forget") \/ IsForget(app'.held)
  BY <1>1, <1>3 DEF ForgetUnderWay, IsForget
<1>6. CASE kind = "forget"
  <2>1. screen.ssid # None /\ screen'.ssid = None BY <1>2, <1>6
  <2>2. ~Holds(storageQ, "probe") /\ events = <<>> BY <2>1 DEF NetworkKnown
  <2>3. ForgetUnderWay' \/ app'.lost BY <1>3, <1>5, <1>6
  <2> QED BY <1>1, <1>4, <2>1, <2>2, <2>3 DEF NetworkKnown
<1>7. CASE kind # "forget"
  <2>1. screen'.ssid = screen.ssid BY <1>2, <1>7
  <2>2. Holds(storageQ', "forget") <=> Holds(storageQ, "forget") BY <1>3, <1>7, MoreKinds
  <2>3. (ForgetUnderWay' => ForgetUnderWay) /\ (ForgetUnderWay => ForgetUnderWay' \/ app'.lost)
    BY <1>3, <1>5, <1>7, <2>2
  <2> QED BY <1>1, <1>3, <1>4, <2>1, <2>3 DEF NetworkKnown
<1> QED BY <1>6, <1>7

\* A forget that was held back goes out with the Settled event.
LEMMA KnownSend ==
  ASSUME TypeOK, NetworkKnown, Settled \/ SendHeld
  PROVE  NetworkKnown'
<1>1. UNCHANGED <<card, events, screen, spent>> BY DEF Settled, SendHeld
<1>2. /\ app'.lost = app.lost
      /\ \/ storageQ' = storageQ /\ app'.held = app.held /\ app'.sending = app.sending
         \/ storageQ' = storageQ /\ app'.held = None /\ app'.sending = app.held /\ app.sending = None
         \/ \E work \in HeldWork :
              /\ storageQ' = Append(storageQ, work) /\ work \in {app.held, app.sending}
              /\ \/ work = app.held /\ app'.held = None /\ app'.sending = None /\ app.sending = None
                 \/ work = app.sending /\ app'.held = app.held /\ app'.sending = None
  BY SettledWork
<1>3. ~IsForget(None) BY DEF IsForget
<1>4. CASE storageQ' = storageQ
           /\ \/ app'.held = app.held /\ app'.sending = app.sending
              \/ app'.held = None /\ app'.sending = app.held /\ app.sending = None
  <2>1. ForgetUnderWay' <=> ForgetUnderWay BY <1>3, <1>4 DEF ForgetUnderWay
  <2> QED BY <1>1, <1>2, <1>4, <2>1 DEF NetworkKnown
<1>5. ASSUME NEW work \in HeldWork, storageQ' = Append(storageQ, work),
             \/ work = app.held /\ app'.held = None /\ app'.sending = None /\ app.sending = None
             \/ work = app.sending /\ app'.held = app.held /\ app'.sending = None
      PROVE  NetworkKnown'
  <2>1. /\ storageQ \in Seq(StorageWork) /\ work \in StorageWork /\ work.kind \in AppKinds
        /\ None \notin StorageWork
    BY <1>5, NoneAssumption DEF HeldWork, TypeOK
  <2>2. Longer(storageQ, storageQ', {work.kind}) BY <1>5, <2>1, LongerByOne
  <2>3. /\ \A k : k # work.kind => (Holds(storageQ', k) <=> Holds(storageQ, k))
        /\ \A k : Holds(storageQ, k) => Holds(storageQ', k)
    BY <2>2, MoreKinds
  <2>4. Holds(storageQ', work.kind)
    <3>1. Len(storageQ) + 1 \in 1 .. Len(storageQ') /\ storageQ'[Len(storageQ) + 1] = work
      BY <1>5, <2>1, Appended
    <3> QED BY <3>1 DEF Holds
  <2>5. Holds(storageQ', "probe") <=> Holds(storageQ, "probe") BY <2>1, <2>3 DEF AppKinds
  <2>6. IsForget(work) <=> work.kind = "forget" BY <2>1 DEF IsForget
  <2>7. Holds(storageQ', "forget") <=> Holds(storageQ, "forget") \/ IsForget(work) BY <2>3, <2>4, <2>6
  <2>8. ForgetUnderWay' <=> ForgetUnderWay BY <1>3, <1>5, <2>7 DEF ForgetUnderWay
  <2> QED BY <1>1, <1>2, <2>5, <2>8 DEF NetworkKnown
<1> QED BY <1>2, <1>4, <1>5

LEMMA KnownStore ==
  ASSUME TypeOK, Heard, session = "idle", NoSessionWork, NetworkKnown, Store
  PROVE  session' = "idle" /\ NoSessionWork' /\ NetworkKnown'
<1>1. /\ UNCHANGED <<app, screen>> /\ spent \in Counts
  BY DEF Store, Refuse, ProbeNetwork, ServePage, OtherWork, LoanSyncMemory, StoreWifiCredentials,
         ForgetWifiCredentials, TypeOK
<1>2. /\ storageQ # <<>> /\ Head(storageQ) = storageQ[1] /\ 1 \in 1 .. Len(storageQ)
      /\ \A i \in 1 .. Len(storageQ') :
           \/ i + 1 \in 1 .. Len(storageQ) /\ i + 1 # 1 /\ storageQ'[i] = storageQ[i + 1]
           \/ storageQ'[i].kind = "refresh"
  BY StoreWork
<1>3. /\ \A kind : kind # "refresh" /\ Holds(storageQ', kind) => Holds(storageQ, kind)
      /\ \A kind : kind \notin {"refresh", Head(storageQ).kind} =>
           (Holds(storageQ', kind) <=> Holds(storageQ, kind))
  BY LessKinds
<1>4. Head(storageQ).kind \notin {"store", "loan"} BY <1>2 DEF NoSessionWork
<1>5. NoSessionWork' BY <1>2 DEF NoSessionWork
<1>6. spent' = spent \/ (Fault /\ spent'.faults # 0)
  <2>1. spent' = spent \/ Fault
    BY DEF Store, Refuse, ProbeNetwork, ServePage, OtherWork, LoanSyncMemory, StoreWifiCredentials,
           StoreCredentials, ForgetWifiCredentials
  <2>2. spent.faults \in 0 .. MaxFaults /\ MaxFaults \in Nat BY <1>1, BoundsAssumption DEF Counts
  <2>3. spent.faults + 1 # 0 BY <2>2
  <2> QED BY <1>1, <2>1, <2>3 DEF Fault, Counts
<1>7. ForgetUnderWay' => ForgetUnderWay BY <1>1, <1>3 DEF ForgetUnderWay
<1>8. CASE ProbeNetwork
  <2>1. /\ UNCHANGED <<card, session>> /\ Head(storageQ).kind = "probe"
        /\ spent' = spent => events' = IF card = None THEN events ELSE Send("networkSaved", card)
    <3>1. ~(Fault /\ spent' = spent)
      <4>1. spent.faults \in 0 .. MaxFaults /\ MaxFaults \in Nat BY <1>1, BoundsAssumption DEF Counts
      <4>2. spent.faults + 1 # spent.faults BY <4>1
      <4> QED BY <1>1, <4>2 DEF Fault, Counts
    <3> QED BY <1>8, <3>1 DEF ProbeNetwork, Handle
  <2>2. events = <<>> /\ Unheard BY <1>2, <2>1 DEF Heard, ProbeFirst
  <2>3. ~Holds(storageQ', "probe")
    <3>1. ProbeFirst' BY ProbeTaken DEF Heard
    <3>2. \A i \in 1 .. Len(storageQ') : storageQ'[i].kind # "probe"
      <4> SUFFICES ASSUME NEW i \in 1 .. Len(storageQ'), storageQ'[i].kind = "probe" PROVE FALSE OBVIOUS
      <4>1. i + 1 \in 1 .. Len(storageQ) /\ i + 1 # 1 /\ storageQ[i + 1].kind = "probe" BY <1>2
      <4> QED BY <4>1 DEF Heard, ProbeFirst
    <3> QED BY <3>2 DEF Holds
  <2>4. ~ForgetUnderWay'
    <3>1. Holds(storageQ, "probe") BY <1>2, <2>1 DEF Holds
    <3> QED BY <1>7, <3>1 DEF NetworkKnown
  <2>5. spent' = spent => card = None \/ (Len(events') = 1 /\ events'[1].net = card /\ events' # <<>>)
    <3>1. Len(events) = 0 /\ EventCap \in Nat \ {0} /\ Append(events, Event("networkSaved", card)) = <<Event("networkSaved", card)>>
      BY <2>2, CapsAssumption
    <3>2. Len(<<Event("networkSaved", card)>>) = 1 /\ <<Event("networkSaved", card)>>[1] = Event("networkSaved", card)
          /\ Event("networkSaved", card).net = card
      BY DEF Event
    <3>3. spent' = spent /\ card # None => events' = <<Event("networkSaved", card)>>
      BY <2>1, <3>1 DEF Send, TrySend
    <3> QED BY <3>2, <3>3
  <2>6. spent' = spent /\ card = None => events' = <<>> BY <2>1, <2>2
  <2>7. spent'.faults = 0 =>
          /\ \A i \in 1 .. Len(events') : events'[i].net = card
          /\ screen.ssid = card \/ events' # <<>>
    <3> SUFFICES ASSUME spent'.faults = 0 PROVE (\A i \in 1 .. Len(events') : events'[i].net = card)
                                                /\ (screen.ssid = card \/ events' # <<>>)
      OBVIOUS
    <3>1. spent' = spent BY <1>6
    <3>2. CASE card = None BY <2>2, <2>6, <3>1, <3>2 DEF Unheard
    <3>3. CASE card # None
      <4>1. Len(events') = 1 /\ events'[1].net = card /\ events' # <<>> BY <2>5, <3>1, <3>3
      <4>2. \A i \in 1 .. Len(events') : i = 1 BY <4>1
      <4> QED BY <4>1, <4>2
    <3> QED BY <3>2, <3>3
  <2>8. NetworkKnown' BY <1>1, <2>1, <2>2, <2>3, <2>4, <2>7 DEF NetworkKnown, Unheard
  <2> QED BY <1>5, <2>1, <2>8
<1>9. CASE ServePage \/ OtherWork
  <2>1. UNCHANGED <<card, session, events, spent>> /\ Head(storageQ).kind \notin {"probe", "forget"}
    BY <1>9 DEF ServePage, OtherWork, Handle
  <2>2. \A kind \in {"probe", "forget"} : Holds(storageQ', kind) <=> Holds(storageQ, kind) BY <1>3, <2>1
  <2>3. ForgetUnderWay' <=> ForgetUnderWay BY <1>1, <2>2 DEF ForgetUnderWay
  <2>4. NetworkKnown' BY <1>1, <2>1, <2>2, <2>3 DEF NetworkKnown
  <2> QED BY <1>5, <2>1, <2>4
<1>10. CASE ForgetWifiCredentials
  <2>1. /\ UNCHANGED <<session, events>> /\ Head(storageQ).kind = "forget"
        /\ spent'.faults = 0 => card' = None
    <3>1. /\ UNCHANGED <<session, events>> /\ Head(storageQ).kind = "forget"
          /\ (card' = None /\ spent' = spent) \/ Fault
      BY <1>10 DEF ForgetWifiCredentials, Handle
    <3>2. Fault => spent'.faults # 0
      <4>1. spent.faults \in 0 .. MaxFaults /\ MaxFaults \in Nat BY <1>1, BoundsAssumption DEF Counts
      <4>2. spent.faults + 1 # 0 BY <4>1
      <4> QED BY <1>1, <4>2 DEF Fault, Counts
    <3> QED BY <3>1, <3>2
  <2>2. ForgetUnderWay BY <1>2, <2>1 DEF ForgetUnderWay, Holds
  <2>3. screen.ssid = None /\ ~Holds(storageQ, "probe") /\ events = <<>> BY <2>2 DEF NetworkKnown
  <2>4. ~Holds(storageQ', "probe") BY <1>3, <2>3
  <2>5. Len(events') = 0 BY <2>1, <2>3
  <2>6. NetworkKnown' BY <1>1, <2>1, <2>3, <2>4, <2>5 DEF NetworkKnown
  <2> QED BY <1>5, <2>1, <2>6
<1> QED BY <1>4, <1>8, <1>9, <1>10 DEF Store, Refuse, Admits, LoanSyncMemory, StoreWifiCredentials, Handle

LEMMA KnownStep == IInv /\ Heard /\ Known /\ [Next]_vars => Known'
<1> SUFFICES ASSUME IInv, Heard, Known, [Next]_vars, wifi'.phase = "off"
             PROVE  session' = "idle" /\ NoSessionWork' /\ NetworkKnown'
  BY DEF Known
<1>1. TypeOK BY DEF IInv
<1>2. CASE Reset
  <2>1. /\ session' = "idle" /\ storageQ' = <<Probe>> /\ events' = <<>> /\ screen'.ssid = None
        /\ app'.held = None /\ app'.sending = None
    BY <1>2 DEF Reset, ScreenAtBoot, AppAtBoot
  <2> QED BY <2>1, ProbeKnown DEF NoSessionWork, NetworkKnown, ForgetUnderWay, IsForget, Holds
\* A session that is left behind is left by a reset alone.
<1>3. CASE ~Reset
  <2>1. \/ wifi.phase = "off" /\ (AppNext \/ Store)
        \/ wifi.phase = "off" /\ UNCHANGED <<card, session, app, storageQ, events, screen, spent>>
    <3>1. CASE AppNext \/ Store
      <4>1. wifi' = wifi
        BY <3>1 DEF AppNext, Key, Settled, SendHeld, TakeLoaded, TakeSyncEvent, Store, Refuse, ProbeNetwork,
                    ServePage, OtherWork, LoanSyncMemory, StoreWifiCredentials, ForgetWifiCredentials
      <4> QED BY <3>1, <4>1
    <3>2. CASE Begin
      BY <1>1, <3>2 DEF Begin, AskLoan, WaitIn, TypeOK, Waits
    <3>3. CASE AskAgain \/ TakeLoan \/ RaisePortal \/ AttemptEnds \/ TakeResult \/ StartAgain
      BY <1>1, <3>3 DEF AskAgain, AskLoan, TakeLoan, RaisePortal, AttemptEnds, Attempt, TakeResult, StartAgain,
                        Reading, WaitIn, TypeOK, Waits
    <3>4. CASE Exit \/ UploadStopped
      BY <1>1, <1>3, <3>4 DEF Exit, ExitSession, UploadStopped, WaitIn, TypeOK, Waits
    <3>5. CASE Submit BY <3>5 DEF Submit, SubmitCredentials
    <3>6. CASE UNCHANGED vars BY <3>6 DEF vars, ram, channels
    <3> QED BY <1>3, <3>1, <3>2, <3>3, <3>4, <3>5, <3>6 DEF Next, Wifi, PowerCut
  <2>2. wifi.phase = "off" /\ session = "idle" /\ NoSessionWork /\ NetworkKnown BY <2>1 DEF Known
  <2>3. CASE \E key \in {"confirm", "back", "prev"}, moved \in BOOLEAN : Key(key, moved)
    <3>1. session' = session BY <2>3 DEF Key
    <3>2. NoSessionWork' BY <1>1, <2>2, <2>3, KnownApp DEF AppNext
    <3> QED BY <1>1, <2>2, <2>3, <3>1, <3>2, KnownKey
  <2>4. CASE Settled \/ SendHeld
    <3>1. session' = session BY <2>4 DEF Settled, SendHeld
    <3>2. NoSessionWork' BY <1>1, <2>2, <2>4, KnownApp DEF AppNext
    <3> QED BY <1>1, <2>2, <2>4, <3>1, <3>2, KnownSend
  <2>5. CASE TakeLoaded
    <3>1. /\ UNCHANGED <<card, session, storageQ, events, screen, spent>>
          /\ app'.held = app.held /\ app'.sending = app.sending /\ app'.lost = app.lost
      BY <1>1, <2>5 DEF TakeLoaded, Paint, TypeOK, Flags
    <3> QED BY <2>2, <3>1 DEF NoSessionWork, NetworkKnown, ForgetUnderWay
  <2>6. CASE TakeSyncEvent
    <3>1. /\ UNCHANGED <<card, session, storageQ, spent>> /\ events # <<>> /\ events' = Tail(events)
          /\ screen' = AfterEvent(Head(events)) /\ events \in Seq(SyncEvent) /\ screen \in Screens
          /\ app'.held = app.held /\ app'.sending = app.sending
      BY <1>1, <2>6 DEF TakeSyncEvent, Paint, TypeOK, Flags
    <3>2. /\ Head(events) = events[1] /\ 1 \in 1 .. Len(events) /\ events' \in Seq(SyncEvent)
          /\ \A i \in 1 .. Len(events') : i + 1 \in 1 .. Len(events) /\ i + 1 # 1
      BY <3>1, Removed
    <3>3. \A i \in 1 .. Len(events) : i = 1 /\ events[i].kind = "networkSaved"
      BY <2>2 DEF Heard, EventsInOrder, Silent, Waiting
    <3>4. events' = <<>>
      <4>1. ~(1 \in 1 .. Len(events')) BY <3>2, <3>3
      <4> QED BY <3>2, <4>1
    <3>5. screen'.ssid = events[1].net BY <3>1, <3>2, <3>3 DEF AfterEvent, Screens
    <3>6. ~Holds(storageQ, "probe") /\ ~ForgetUnderWay
      BY <2>2, <3>1 DEF NetworkKnown, Heard, ProbeFirst, Holds
    <3>7. ~ForgetUnderWay' BY <3>1, <3>6 DEF ForgetUnderWay
    <3>8. Len(events') = 0 BY <3>4
    <3>9. NetworkKnown' BY <2>2, <3>1, <3>2, <3>4, <3>5, <3>6, <3>7, <3>8 DEF NetworkKnown
    <3> QED BY <2>2, <3>1, <3>9 DEF NoSessionWork
  <2>7. CASE Store BY <1>1, <2>2, <2>7, KnownStore
  <2>8. CASE UNCHANGED <<card, session, app, storageQ, events, screen, spent>>
    BY <2>2, <2>8 DEF NoSessionWork, NetworkKnown, ForgetUnderWay
  <2> QED BY <2>1, <2>3, <2>4, <2>5, <2>6, <2>7, <2>8 DEF AppNext
<1> QED BY <1>2, <1>3

\* Before a session the Wireless screen offers the network that is on the card,
\* once the boot's probe has been heard, while no forget is under way, and
\* unless one was lost or the card has failed.
THEOREM NetworkIsKnown == Spec => []ScreenKnowsNetwork
<1> DEFINE Inv == IInv /\ Heard /\ Known
<1>1. Init => Inv
  <2> SUFFICES ASSUME Init PROVE Known BY InitHeard
  <2>1. /\ session = "idle" /\ storageQ = <<Probe>> /\ events = <<>> /\ screen.ssid = None
        /\ app.held = None /\ app.sending = None
    BY DEF Init, ScreenAtBoot, AppAtBoot
  <2> QED BY <2>1, ProbeKnown DEF Known, NoSessionWork, NetworkKnown, ForgetUnderWay, IsForget, Holds
<1>2. Inv /\ [Next]_vars => Inv' BY StepOwns, HeardStep, KnownStep
<1>3. Inv => ScreenKnowsNetwork
  <2> SUFFICES ASSUME Inv, BeforeSession, ~app.lost PROVE screen.ssid = card
    BY DEF ScreenKnowsNetwork
  <2>1. events = <<>>
    <3>1. ~(1 \in 1 .. Len(events)) BY DEF Heard, EventsInOrder, Silent, Waiting, Holds, BeforeSession
    <3>2. events \in Seq(SyncEvent) BY DEF IInv, TypeOK
    <3> QED BY <3>1, <3>2
  <2> QED BY <2>1 DEF Known, NetworkKnown, BeforeSession
<1> QED BY <1>1, <1>2, <1>3, PTL DEF Spec
=============================================================================
