-------------------------- MODULE ReaderShellProofs --------------------------
(***************************************************************************)
(* Theorems about ReaderShell, for any books, pages, channel lengths and   *)
(* patterns of use: the types of everything on its way between the tasks,  *)
(* what a render in flight may count on, that every answer the app waits   *)
(* for is owed, and what a patient reader finds on the card and the panel. *)
(***************************************************************************)
EXTENDS ReaderShell, SequenceTheorems, TLAPS

-----------------------------------------------------------------------------
(* What travels on the channels. *)

Keys == {"power", "next", "prev", "confirm", "back"}
RenderCommand == [kind : {"boot", "page"}, frame : Frame]
DisplayCommand == RenderCommand \union {Sleep}

ReaderCommand == [kind : {"open", "extend", "chapters", "jump"}, req : Nat, book : Books, page : Page]
ProgressCommand == [kind : {"progress"}, req : {0}, book : Books \union {Guide}, page : Page]
CatalogCommand == [kind : {"catalog", "refresh"}, req : {0}, book : {None}, page : {0}]
AppCommand == ReaderCommand \union ProgressCommand
StorageCommand == AppCommand \union CatalogCommand

Answer == [kind : {"settled", "failed", "asleep"}, book : {None}, page : {0}, pages : {0}]
LoadedBook == [kind : {"loaded"}, book : Books, page : {0}, pages : {PageCount}]
RestoredPlace == [kind : {"restored"}, book : Books, page : Page, pages : {0, 1, PageCount}]
ScannedShelf == [kind : {"scanned"}, book : {None}, page : {0}, pages : {0}]
DisplayEvent == Answer \union LoadedBook
ReaderEvent == LoadedBook \union RestoredPlace \union ScannedShelf
PowerEvent == {"sleepNow", "activity", "displaySettled", "displayFailed", "displayAsleep"}

AppFlags ==
  [rendering : BOOLEAN, again : BOOLEAN, pending : AppCommand \union {None},
   opening : Books \union {None}, suppress : BOOLEAN, block : BOOLEAN, boot : BOOLEAN,
   listed : BOOLEAN, orphaned : BOOLEAN]
Blocked == [on : {"display"}, m : RenderCommand] \union [on : {"storage"}, m : AppCommand]
             \union [on : {"power"}, m : {"sleepNow"}] \union {None}
DisplayState ==
  [phase : {"init", "idle", "sleep"}, cmd : {None}] \union [phase : {"render"}, cmd : RenderCommand]
    \union [phase : {"plate"}, cmd : ReaderCommand]

TypedChannels ==
  /\ inputs \in Seq(Keys) /\ Len(inputs) <= InputCap
  /\ displayQ \in Seq(DisplayCommand) /\ Len(displayQ) <= user.commands
  /\ storageQ \in Seq(StorageCommand) /\ Len(storageQ) <= user.storage
  /\ displayE \in Seq(DisplayEvent) /\ Len(displayE) <= EventCap
  /\ libraryE \in Seq(ReaderEvent) /\ Len(libraryE) <= LibraryCap
  /\ powerQ \in Seq(PowerEvent) /\ Len(powerQ) <= user.power

\* Every request is a key press the app has taken.
TypedApp ==
  /\ reader \in Frame /\ app \in AppFlags /\ blocked \in Blocked
  /\ latest \in Nat /\ prompts \in Nat
  /\ latest + Len(inputs) <= prompts /\ prompts <= user.prompts

TypedDisplay ==
  /\ display \in DisplayState
  /\ display.phase = "plate" => panel.last # None /\ display.cmd.kind \in {"open", "extend"}
  /\ panel \in [on : BOOLEAN, last : Frame \union {None}]
  /\ store \in [loaded : Books \union {None}, active : Books \union {None}, window : SUBSET Books]
  /\ progress \in [pending : Position \union {None}, written : BOOLEAN, restored : BOOLEAN]
  /\ card \in [state : Position \union {None}, pos : [Books -> Page]]

TypedRest ==
  /\ user \in Users
  /\ cpu \in {"none", "app", "display", "power"}
  /\ power \in {"awake", "asking", "handshake", "off"}

Typed == TypedRest /\ TypedChannels /\ TypedApp /\ TypedDisplay
-----------------------------------------------------------------------------
(* Queues. *)

LEMMA EmptyQueue == \A S : <<>> \in Seq(S) /\ Len(<<>>) = 0 /\ Elements(<<>>) = {}
  BY DEF Elements

LEMMA AppendQueue ==
  ASSUME NEW S, NEW queue \in Seq(S), NEW m \in S
  PROVE  /\ Append(queue, m) \in Seq(S) /\ Len(Append(queue, m)) = Len(queue) + 1
         /\ Elements(Append(queue, m)) = Elements(queue) \union {m}
<1> DEFINE longer == Append(queue, m)
<1>1. /\ longer \in Seq(S) /\ Len(longer) = Len(queue) + 1 /\ Len(queue) \in Nat
      /\ \A i \in 1 .. Len(queue) : longer[i] = queue[i]
      /\ longer[Len(queue) + 1] = m
  OBVIOUS
<1> HIDE DEF longer
<1>2. Elements(longer) = Elements(queue) \union {m}
  BY <1>1 DEF Elements
<1> QED BY <1>1, <1>2 DEF longer

LEMMA TailQueue ==
  ASSUME NEW S, NEW queue \in Seq(S), queue # <<>>
  PROVE  /\ Head(queue) \in S /\ Tail(queue) \in Seq(S) /\ Len(Tail(queue)) = Len(queue) - 1
         /\ Len(queue) \in Nat \ {0}
         /\ Elements(queue) = {Head(queue)} \union Elements(Tail(queue))
<1> DEFINE rest == Tail(queue)
<1>1. /\ rest \in Seq(S) /\ Len(rest) = Len(queue) - 1 /\ Len(queue) \in Nat \ {0}
      /\ \A i \in 1 .. Len(queue) - 1 : rest[i] = queue[i + 1]
      /\ Head(queue) = queue[1] /\ Head(queue) \in S
  OBVIOUS
<1> HIDE DEF rest
<1>2. ASSUME NEW e \in Elements(queue) PROVE e = queue[1] \/ e \in Elements(rest)
  <2>1. PICK i \in 1 .. Len(queue) : e = queue[i]
    BY DEF Elements
  <2>2. CASE i = 1
    BY <2>1, <2>2
  <2>3. CASE i # 1
    <3>1. i - 1 \in 1 .. Len(rest) /\ rest[i - 1] = queue[i]
      BY <1>1, <2>3
    <3> QED BY <3>1, <2>1 DEF Elements
  <2> QED BY <2>2, <2>3
<1>3. ASSUME NEW e \in Elements(rest) PROVE e \in Elements(queue)
  <2>1. PICK i \in 1 .. Len(rest) : e = rest[i]
    BY DEF Elements
  <2>2. i + 1 \in 1 .. Len(queue) /\ queue[i + 1] = e
    BY <1>1, <2>1
  <2> QED BY <2>2 DEF Elements
<1>4. queue[1] \in Elements(queue)
  BY <1>1 DEF Elements
<1> QED BY <1>1, <1>2, <1>3, <1>4 DEF rest

\* A send that drops when the channel is full, and one that makes room.
LEMMA TrySendQueue ==
  ASSUME NEW S, NEW queue \in Seq(S), NEW m \in S, NEW cap \in Nat, Len(queue) <= cap
  PROVE  /\ TrySend(queue, cap, m) \in Seq(S) /\ Len(TrySend(queue, cap, m)) <= cap
         /\ Elements(queue) \subseteq Elements(TrySend(queue, cap, m))
         /\ Elements(TrySend(queue, cap, m)) \subseteq Elements(queue) \union {m}
<1>1. Len(queue) \in Nat
  OBVIOUS
<1> QED BY <1>1, AppendQueue DEF TrySend

LEMMA RequiredQueue ==
  ASSUME NEW S, NEW queue \in Seq(S), NEW m \in S, NEW cap \in Nat \ {0}, Len(queue) <= cap
  PROVE  /\ Required(queue, cap, m) \in Seq(S) /\ Len(Required(queue, cap, m)) <= cap
         /\ Len(Required(queue, cap, m)) <= Len(queue) + 1
         /\ m \in Elements(Required(queue, cap, m))
         /\ Elements(Required(queue, cap, m)) \subseteq Elements(queue) \union {m}
<1>1. CASE Len(queue) < cap
  BY <1>1, AppendQueue DEF Required
<1>2. CASE ~(Len(queue) < cap)
  <2>1. queue # <<>> /\ Len(queue) = cap
    BY <1>2
  <2> DEFINE rest == Tail(queue)
  <2>2. rest \in Seq(S) /\ Len(rest) = cap - 1 /\ Elements(rest) \subseteq Elements(queue)
    BY <2>1, TailQueue
  <2> HIDE DEF rest
  <2>3. /\ Append(rest, m) \in Seq(S) /\ Len(Append(rest, m)) = cap
        /\ Elements(Append(rest, m)) = Elements(rest) \union {m}
    BY <2>2, AppendQueue
  <2>4. Required(queue, cap, m) = Append(rest, m)
    BY <1>2 DEF Required, rest
  <2> QED BY <2>1, <2>2, <2>3, <2>4
<1> QED BY <1>1, <1>2
-----------------------------------------------------------------------------
(* Types: the pieces the actions are made of. *)

LEMMA UserTyped ==
  ASSUME Typed
  PROVE  /\ user.commands \in Nat \ {0} /\ user.storage \in Nat \ {0} /\ user.power \in Nat \ {0}
         /\ user.listed \subseteq Books /\ user.keys \subseteq Keys /\ user.prompts \in Nat
         /\ InputCap \in Nat \ {0} /\ EventCap \in Nat \ {0} /\ LibraryCap \in Nat \ {0}
  BY UsersAssumption, CapsAssumption DEF Typed, TypedRest, User, Keys

LEMMA PageTyped == /\ PageCount \in Nat \ {0, 1} /\ Page \subseteq Nat
                   /\ \A p : p \in Page <=> p \in Nat /\ p < PageCount
  BY PageCountAssumption DEF Page

LEMMA AfterKeyTyped ==
  ASSUME Typed, NEW key, NEW next \in AfterKey(key)
  PROVE  next \in Frame
<1>1. reader \in Frame /\ user.listed \subseteq Books
  BY UserTyped DEF Typed, TypedApp
<1>2. CASE reader.view = "home"
  BY <1>1, <1>2 DEF AfterKey, HomeKey, Show, Frame
<1>3. CASE reader.view = "library"
  BY <1>1, <1>3, PageTyped DEF AfterKey, LibraryKey, Show, Frame
<1>4. CASE reader.view = "reading"
  BY <1>1, <1>4, PageTyped DEF AfterKey, ReadingKey, Show, Turned, Frame
<1>5. CASE reader.view = "chapters"
  <2>1. AfterKey(key) = ChaptersKey(key)
    BY <1>5 DEF AfterKey
  <2>2. \A p \in 0 .. reader.pages - 1 : p \in Page
    BY <1>1, PageTyped DEF Frame
  <2>3. \/ next \in {[Show("reading") EXCEPT !.page = p] : p \in 0 .. reader.pages - 1}
        \/ next = Show("reading") \/ next = reader
    BY <2>1 DEF ChaptersKey
  <2>4. Show("reading") \in Frame
    BY <1>1 DEF Show, Frame
  <2>5. \A p \in Page : [Show("reading") EXCEPT !.page = p] \in Frame
    BY <2>4 DEF Frame
  <2> QED BY <1>1, <2>2, <2>3, <2>4, <2>5
<1> QED BY <1>1, <1>2, <1>3, <1>4, <1>5 DEF Frame

LEMMA AfterEventTyped ==
  ASSUME Typed, NEW e \in ReaderEvent
  PROVE  AfterEvent(e) \in Frame
<1>1. reader \in Frame /\ FirstBook \in Books
  BY BooksAssumption DEF Typed, TypedApp
<1>2. CASE e \in LoadedBook
  BY <1>1, <1>2, PageTyped DEF AfterEvent, Frame, LoadedBook
<1>3. CASE e \in RestoredPlace
  <2>1. AfterEvent(e) = [reader EXCEPT !.book = e.book, !.page = e.page,
                                       !.pages = IF e.pages > 0 THEN e.pages ELSE @]
    BY <1>3 DEF AfterEvent, RestoredPlace
  <2>2. e.book \in Books /\ e.page \in Page
        /\ (IF e.pages > 0 THEN e.pages ELSE reader.pages) \in {1, PageCount}
    BY <1>1, <1>3, PageTyped DEF Frame, RestoredPlace
  <2> QED BY <1>1, <2>1, <2>2 DEF Frame
<1>4. CASE e \in ScannedShelf
  <2>1. AfterEvent(e) = reader \/ AfterEvent(e) = [reader EXCEPT !.book = FirstBook, !.page = 0]
    BY <1>4 DEF AfterEvent, ScannedShelf
  <2>2. 0 \in Page
    BY PageTyped
  <2> QED BY <1>1, <2>1, <2>2 DEF Frame
<1> QED BY <1>2, <1>3, <1>4 DEF ReaderEvent

LEMMA CommandTyped ==
  ASSUME Typed, NEW next \in Frame
  PROVE  CommandFor(next) \in ReaderCommand \union {None}
<1>1. KindFor(next) \in {"none", "open", "extend", "chapters", "jump"}
  BY DEF KindFor
<1>2. KindFor(next) # "none" => next.book \in Books
  <2>1. next.book = Guide => KindFor(next) = "none"
    BY DEF KindFor
  <2> QED BY <2>1 DEF Frame
<1>3. latest \in Nat
  BY DEF Typed, TypedApp
<1> QED BY <1>1, <1>2, <1>3 DEF CommandFor, ReaderCommand, Frame

LEMMA SendRenderTyped ==
  ASSUME Typed, user' = user, NEW a \in AppFlags, NEW kind \in {"boot", "page"},
         reader' \in Frame, SendRender(a, kind)
  PROVE  /\ displayQ' \in Seq(DisplayCommand) /\ Len(displayQ') <= user'.commands
         /\ app' \in AppFlags /\ blocked' \in Blocked
<1> DEFINE m == [kind |-> kind, frame |-> reader']
<1>1. m \in RenderCommand
  BY DEF RenderCommand
<1>2. /\ displayQ \in Seq(DisplayCommand) /\ Len(displayQ) <= user.commands
      /\ user.commands \in Nat
  BY UserTyped DEF Typed, TypedChannels
<1>3. CASE Len(displayQ) < user.commands
  <2>1. displayQ' = Append(displayQ, m) /\ blocked' = None
        /\ app' = [a EXCEPT !.rendering = TRUE, !.again = FALSE]
    BY <1>3 DEF SendRender
  <2>2. app' \in AppFlags
    BY <2>1 DEF AppFlags
  <2> HIDE DEF m
  <2>3. displayQ' \in Seq(DisplayCommand) /\ Len(displayQ') = Len(displayQ) + 1
    BY <1>1, <1>2, <2>1, AppendQueue DEF DisplayCommand
  <2>4. Len(displayQ) \in Nat
    BY <1>2
  <2> QED BY <1>2, <1>3, <2>1, <2>2, <2>3, <2>4 DEF Blocked
<1>4. CASE ~(Len(displayQ) < user.commands)
  <2>1. blocked' = [on |-> "display", m |-> m] /\ app' = a /\ displayQ' = displayQ
    BY <1>4 DEF SendRender
  <2> QED BY <1>1, <1>2, <2>1 DEF Blocked
<1> QED BY <1>3, <1>4

LEMMA NoPaintTyped ==
  ASSUME Typed, user' = user, NEW a \in AppFlags, NoPaint(a)
  PROVE  /\ displayQ' \in Seq(DisplayCommand) /\ Len(displayQ') <= user'.commands
         /\ app' \in AppFlags /\ blocked' \in Blocked
  BY DEF NoPaint, Typed, TypedChannels, Blocked

LEMMA PaintTyped ==
  ASSUME Typed, user' = user, NEW a \in AppFlags, NEW kind \in {"boot", "page"},
         reader' \in Frame, Paint(a, kind) \/ PaintEvent(a) \/ AfterSettled(a)
  PROVE  /\ displayQ' \in Seq(DisplayCommand) /\ Len(displayQ') <= user'.commands
         /\ app' \in AppFlags /\ blocked' \in Blocked
<1>1. /\ [a EXCEPT !.again = TRUE] \in AppFlags /\ [a EXCEPT !.boot = FALSE] \in AppFlags
      /\ [a EXCEPT !.suppress = FALSE, !.block = TRUE] \in AppFlags
  BY DEF AppFlags
<1>2. CASE Paint(a, kind)
  BY <1>1, <1>2, SendRenderTyped, NoPaintTyped DEF Paint
<1>3. CASE PaintEvent(a)
  <2>1. (IF a.boot THEN "boot" ELSE "page") \in {"boot", "page"}
    OBVIOUS
  <2> QED BY <1>1, <1>3, <2>1, SendRenderTyped, NoPaintTyped DEF PaintEvent
<1>4. CASE AfterSettled(a)
  BY <1>1, <1>4, SendRenderTyped, NoPaintTyped DEF AfterSettled
<1> QED BY <1>2, <1>3, <1>4
-----------------------------------------------------------------------------
(* A render in flight.                                                     *)

\* The app waits for room in the display's or the storage channel only when no
\* render is in flight.
SendsAreFree == blocked # None /\ blocked.on # "power" => ~app.rendering

IsAnswer(e) == e.kind \in {"settled", "failed", "asleep"}

\* What a turn of the app that began with a render in flight, or not, does to
\* it: nothing, or it sends the next one, or it waits to send it. Only the
\* power key makes it wait for the power task.
Leaves(flight) ==
  /\ blocked' # None => \/ blocked'.on # "power" /\ ~app'.rendering
                        \/ blocked'.on = "power" /\ inputs # <<>> /\ Head(inputs) = "power"
  /\ \/ displayQ' = displayQ /\ app'.rendering = flight
     \/ /\ ~flight /\ app'.rendering
        /\ \E m \in RenderCommand : displayQ' = Append(displayQ, m)

LEMMA PaintLeaves ==
  ASSUME Typed, NEW a \in AppFlags, NEW kind \in {"boot", "page"}, reader' \in Frame,
         Paint(a, kind) \/ PaintEvent(a) \/ NoPaint(a) \/ (AfterSettled(a) /\ ~a.rendering)
  PROVE  Leaves(a.rendering)
<1>1. ASSUME NEW b \in AppFlags, NEW k \in {"boot", "page"}, SendRender(b, k), ~b.rendering
      PROVE  Leaves(FALSE)
  <2>1. CASE Len(displayQ) < user.commands
    <3>1. [kind |-> k, frame |-> reader'] \in RenderCommand
      BY DEF RenderCommand
    <3>2. app'.rendering /\ blocked' = None
      BY <1>1, <2>1 DEF SendRender, AppFlags
    <3> QED BY <1>1, <2>1, <3>1, <3>2 DEF SendRender, Leaves
  <2>2. CASE ~(Len(displayQ) < user.commands)
    BY <1>1, <2>2 DEF SendRender, Leaves, AppFlags
  <2> QED BY <2>1, <2>2
<1>2. ASSUME NEW b \in AppFlags, NoPaint(b) PROVE Leaves(b.rendering)
  BY <1>2 DEF NoPaint, Leaves, AppFlags
<1>3. /\ [a EXCEPT !.again = TRUE] \in AppFlags /\ [a EXCEPT !.again = TRUE].rendering = a.rendering
      /\ [a EXCEPT !.boot = FALSE] \in AppFlags /\ [a EXCEPT !.boot = FALSE].rendering = a.rendering
      /\ [a EXCEPT !.suppress = FALSE, !.block = TRUE] \in AppFlags
      /\ [a EXCEPT !.suppress = FALSE, !.block = TRUE].rendering = a.rendering
      /\ a.rendering \in BOOLEAN
  BY DEF AppFlags
<1>4. CASE Paint(a, kind)
  BY <1>1, <1>2, <1>3, <1>4 DEF Paint
<1>5. CASE PaintEvent(a)
  <2>1. (IF a.boot THEN "boot" ELSE "page") \in {"boot", "page"}
    OBVIOUS
  <2> QED BY <1>1, <1>2, <1>3, <1>5, <2>1 DEF PaintEvent
<1>6. CASE NoPaint(a)
  BY <1>2, <1>6
<1>7. CASE AfterSettled(a) /\ ~a.rendering
  BY <1>1, <1>2, <1>3, <1>7 DEF AfterSettled
<1> QED BY <1>4, <1>5, <1>6, <1>7
-----------------------------------------------------------------------------
(* Types: the actions of the app task. *)

LEMMA PowerKeyTyped == ASSUME Typed, PowerKey, user' = user PROVE Typed'
<1>1. /\ inputs' \in Seq(Keys) /\ Len(inputs') = Len(inputs) - 1 /\ Len(inputs) \in Nat
  BY TailQueue DEF Typed, TypedChannels, PowerKey
<1>2. /\ powerQ' \in Seq(PowerEvent) /\ Len(powerQ') <= user'.power /\ blocked' \in Blocked
  <2>1. CASE Len(powerQ) < user.power
    <3>1. powerQ' = Append(powerQ, "sleepNow") /\ blocked' = blocked
      BY <2>1 DEF PowerKey
    <3>2. powerQ' \in Seq(PowerEvent) /\ Len(powerQ') = Len(powerQ) + 1 /\ Len(powerQ) \in Nat
      BY <3>1, AppendQueue DEF Typed, TypedChannels, PowerEvent
    <3> QED BY <2>1, <3>1, <3>2, UserTyped DEF Typed, TypedApp
  <2>2. CASE ~(Len(powerQ) < user.power)
    BY <2>2 DEF PowerKey, Typed, TypedChannels, Blocked
  <2> QED BY <2>1, <2>2
<1>3. TypedApp'
  BY <1>1, <1>2 DEF PowerKey, Typed, TypedApp
<1>4. TypedChannels'
  BY <1>1, <1>2, UserTyped DEF PowerKey, Typed, TypedChannels
<1> QED BY <1>3, <1>4 DEF PowerKey, AppKeeps, Keep, Typed, TypedRest, TypedDisplay, dispVars

LEMMA IgnoreKeyTyped ==
  ASSUME Typed, NEW key, NEW block \in BOOLEAN, IgnoreKey(key, block), user' = user
  PROVE  /\ displayQ' = displayQ /\ storageQ' = storageQ /\ powerQ' = powerQ
         /\ reader' = reader /\ app' \in AppFlags /\ blocked' = blocked /\ latest' = latest
  BY DEF IgnoreKey, Typed, TypedApp, AppFlags

LEMMA TakeKeyTyped ==
  ASSUME Typed, NEW key, NEW block \in BOOLEAN, TakeKey(key, block), user' = user
  PROVE  /\ displayQ' \in Seq(DisplayCommand) /\ Len(displayQ') <= user'.commands
         /\ storageQ' \in Seq(StorageCommand) /\ Len(storageQ') <= user'.storage
         /\ powerQ' \in Seq(PowerEvent) /\ Len(powerQ') <= user'.power
         /\ reader' \in Frame /\ app' \in AppFlags /\ blocked' \in Blocked
         /\ latest' \in {latest, latest + 1}
         /\ Leaves(app.rendering)
<1> DEFINE cmd    == CommandFor(reader')
           sent   == cmd # None /\ Len(storageQ) < user.storage
           queue  == IF sent THEN Append(storageQ, cmd) ELSE storageQ
           held   == IF cmd # None /\ ~sent THEN cmd ELSE app.pending
           open   == cmd # None /\ cmd.kind = "open"
           moved  == PlaceOf(reader') # PlaceOf(reader)
           record == [kind |-> "progress", req |-> 0, book |-> reader'.book, page |-> reader'.page]
           lost   == moved /\ Len(queue) = user.storage
           a      == [app EXCEPT !.block = block,
                                 !.pending = IF lost /\ held = None THEN record ELSE held,
                                 !.opening = IF open THEN cmd.book ELSE @,
                                 !.suppress = @ \/ open]
<1>1. /\ reader' \in AfterKey(key)
      /\ powerQ' = TrySend(powerQ, user.power, "activity")
      /\ latest' = IF cmd = None THEN latest ELSE latest + 1
      /\ storageQ' = IF moved THEN TrySend(queue, user.storage, record) ELSE queue
      /\ NoPaint([a EXCEPT !.again = FALSE]) \/ Paint(a, "page")
  BY DEF TakeKey
<1>2. reader' \in Frame
  BY <1>1, AfterKeyTyped
<1>3. cmd \in ReaderCommand \union {None}
  BY <1>2, CommandTyped
<1>4. record \in ProgressCommand
  BY <1>2 DEF ProgressCommand, Frame
<1>5. app \in AppFlags /\ storageQ \in Seq(StorageCommand) /\ Len(storageQ) <= user.storage
      /\ powerQ \in Seq(PowerEvent) /\ Len(powerQ) <= user.power /\ Len(storageQ) \in Nat
      /\ user.storage \in Nat /\ user.power \in Nat
  BY UserTyped DEF Typed, TypedApp, TypedChannels
<1>6. /\ a \in AppFlags /\ [a EXCEPT !.again = FALSE] \in AppFlags
      /\ a.rendering = app.rendering /\ [a EXCEPT !.again = FALSE].rendering = app.rendering
  <2>1. held \in AppCommand \union {None}
    BY <1>3, <1>5 DEF AppFlags, AppCommand
  <2>2. (IF lost /\ held = None THEN record ELSE held) \in AppCommand \union {None}
    BY <1>4, <2>1 DEF AppCommand
  <2>3. (IF open THEN cmd.book ELSE app.opening) \in Books \union {None}
    BY <1>3, <1>5 DEF AppFlags, ReaderCommand
  <2>4. (app.suppress \/ open) \in BOOLEAN
    OBVIOUS
  <2>5. \A b, s \in BOOLEAN, p \in AppCommand \union {None}, o \in Books \union {None} :
          /\ [app EXCEPT !.block = b, !.pending = p, !.opening = o, !.suppress = s] \in AppFlags
          /\ [[app EXCEPT !.block = b, !.pending = p, !.opening = o, !.suppress = s]
                EXCEPT !.again = FALSE] \in AppFlags
    BY <1>5 DEF AppFlags
  <2> DEFINE newPending == IF lost /\ held = None THEN record ELSE held
             newOpening == IF open THEN cmd.book ELSE app.opening
             newSuppress == app.suppress \/ open
  <2>6. a = [app EXCEPT !.block = block, !.pending = newPending, !.opening = newOpening,
                        !.suppress = newSuppress]
    OBVIOUS
  <2> HIDE DEF newPending, newOpening, newSuppress, a
  <2>7. newSuppress \in BOOLEAN
    BY <2>4 DEF newSuppress
  <2>8. newPending \in AppCommand \union {None}
    BY <2>2 DEF newPending
  <2>9. newOpening \in Books \union {None}
    BY <2>3 DEF newOpening
  <2>10. a \in AppFlags /\ [a EXCEPT !.again = FALSE] \in AppFlags
    BY <2>5, <2>6, <2>7, <2>8, <2>9
  <2>11. a.rendering = app.rendering
    BY <1>5, <2>6 DEF AppFlags
  <2> QED BY <2>10, <2>11 DEF AppFlags
<1> HIDE DEF cmd, record, moved, lost, held, open, a
<1>7. queue \in Seq(StorageCommand) /\ Len(queue) <= user.storage
  <2>1. CASE sent
    <3>1. cmd \in StorageCommand /\ Len(storageQ) < user.storage /\ queue = Append(storageQ, cmd)
      BY <1>3, <2>1 DEF StorageCommand, AppCommand
    <3>2. queue \in Seq(StorageCommand) /\ Len(queue) = Len(storageQ) + 1
      BY <1>5, <3>1, AppendQueue
    <3> QED BY <1>5, <3>1, <3>2
  <2>2. CASE ~sent
    BY <1>5, <2>2
  <2> QED BY <2>1, <2>2
<1> HIDE DEF queue, sent
<1>8. storageQ' \in Seq(StorageCommand) /\ Len(storageQ') <= user'.storage
  <2>1. record \in StorageCommand
    BY <1>4 DEF StorageCommand, AppCommand
  <2>2. /\ TrySend(queue, user.storage, record) \in Seq(StorageCommand)
        /\ Len(TrySend(queue, user.storage, record)) <= user.storage
    BY <1>5, <1>7, <2>1, TrySendQueue
  <2> QED BY <1>1, <1>7, <2>2
<1>9. powerQ' \in Seq(PowerEvent) /\ Len(powerQ') <= user'.power
  <2>1. "activity" \in PowerEvent
    BY DEF PowerEvent
  <2> QED BY <1>1, <1>5, <2>1, TrySendQueue
<1>10. /\ displayQ' \in Seq(DisplayCommand) /\ Len(displayQ') <= user'.commands
       /\ app' \in AppFlags /\ blocked' \in Blocked
  BY <1>1, <1>2, <1>6, NoPaintTyped, PaintTyped
<1>11. Leaves(app.rendering)
  BY <1>1, <1>2, <1>6, PaintLeaves
<1> QED BY <1>1, <1>2, <1>8, <1>9, <1>10, <1>11

LEMMA AppKeyTyped == ASSUME Typed, AppKey, user' = user PROVE Typed'
<1>1. /\ inputs' \in Seq(Keys) /\ Len(inputs') = Len(inputs) - 1 /\ Len(inputs) \in Nat
  BY TailQueue DEF Typed, TypedChannels, AppKey
<1>2. PICK block \in Blocks : IgnoreKey(Head(inputs), block) \/ TakeKey(Head(inputs), block)
  BY DEF AppKey
<1>3. block \in BOOLEAN
  BY DEF Blocks, Typed, TypedApp, AppFlags
<1>4. /\ displayQ' \in Seq(DisplayCommand) /\ Len(displayQ') <= user'.commands
      /\ storageQ' \in Seq(StorageCommand) /\ Len(storageQ') <= user'.storage
      /\ powerQ' \in Seq(PowerEvent) /\ Len(powerQ') <= user'.power
      /\ reader' \in Frame /\ app' \in AppFlags /\ blocked' \in Blocked
      /\ latest' \in {latest, latest + 1}
  <2>1. CASE IgnoreKey(Head(inputs), block)
    BY <1>3, <2>1, IgnoreKeyTyped DEF Typed, TypedChannels, TypedApp
  <2>2. CASE TakeKey(Head(inputs), block)
    BY <1>3, <2>2, TakeKeyTyped
  <2> QED BY <1>2, <2>1, <2>2
<1>5. TypedApp'
  BY <1>1, <1>4 DEF AppKey, Typed, TypedApp
<1>6. TypedChannels'
  BY <1>1, <1>4, UserTyped DEF AppKey, Typed, TypedChannels
<1> QED BY <1>5, <1>6 DEF AppKey, AppKeeps, Keep, Typed, TypedRest, TypedDisplay, dispVars
\* What a turn that takes an event leaves of the app's own state.
AppTyped ==
  /\ displayQ \in Seq(DisplayCommand) /\ Len(displayQ) <= user.commands
  /\ storageQ \in Seq(StorageCommand) /\ Len(storageQ) <= user.storage
  /\ reader \in Frame /\ app \in AppFlags /\ blocked \in Blocked

LEMMA SettledTyped == ASSUME Typed, Settled, user' = user PROVE AppTyped' /\ Leaves(FALSE)
<1> DEFINE cmd  == app.pending
           open == cmd # None /\ cmd.kind = "open"
           a    == [app EXCEPT !.rendering = FALSE, !.pending = None,
                               !.opening = IF open THEN cmd.book ELSE @,
                               !.suppress = @ \/ open]
<1>1. /\ app \in AppFlags /\ reader \in Frame /\ cmd \in AppCommand \union {None}
      /\ storageQ \in Seq(StorageCommand) /\ Len(storageQ) <= user.storage /\ Len(storageQ) \in Nat
      /\ displayQ \in Seq(DisplayCommand) /\ Len(displayQ) <= user.commands /\ user.storage \in Nat
  BY UserTyped DEF Typed, TypedApp, TypedChannels, AppFlags
<1>2. a \in AppFlags /\ ~a.rendering
  <2> DEFINE newOpening == IF open THEN cmd.book ELSE app.opening
             newSuppress == app.suppress \/ open
  <2>1. newOpening \in Books \union {None}
    BY <1>1 DEF AppFlags, AppCommand, ReaderCommand, ProgressCommand
  <2>2. newSuppress \in BOOLEAN
    OBVIOUS
  <2>3. a = [app EXCEPT !.rendering = FALSE, !.pending = None, !.opening = newOpening,
                        !.suppress = newSuppress]
    OBVIOUS
  <2> HIDE DEF newOpening, newSuppress, a
  <2> QED BY <1>1, <2>1, <2>2, <2>3 DEF AppFlags
<1>3. reader' = reader
  BY DEF Settled
<1> HIDE DEF a, open
<1>4. CASE cmd # None /\ Len(storageQ) = user.storage
  <2>1. /\ blocked' = [on |-> "storage", m |-> cmd] /\ app' = a
        /\ displayQ' = displayQ /\ storageQ' = storageQ
    BY <1>4 DEF Settled, a, open
  <2> QED BY <1>1, <1>2, <1>3, <1>4, <2>1 DEF AppTyped, Blocked, Leaves
<1>5. CASE ~(cmd # None /\ Len(storageQ) = user.storage)
  <2>1. storageQ' = (IF cmd = None THEN storageQ ELSE Append(storageQ, cmd)) /\ AfterSettled(a)
    BY <1>5 DEF Settled, a, open
  <2>2. storageQ' \in Seq(StorageCommand) /\ Len(storageQ') <= user'.storage
    <3>1. CASE cmd = None
      BY <1>1, <2>1, <3>1
    <3>2. CASE cmd # None
      <4>1. cmd \in StorageCommand /\ Len(storageQ) < user.storage
        BY <1>1, <1>5, <3>2 DEF StorageCommand
      <4>2. storageQ' \in Seq(StorageCommand) /\ Len(storageQ') = Len(storageQ) + 1
        BY <1>1, <2>1, <3>2, <4>1, AppendQueue
      <4> QED BY <1>1, <4>1, <4>2
    <3> QED BY <3>1, <3>2
  <2>3. a.rendering = FALSE
    BY <1>2 DEF AppFlags
  <2>4. Leaves(FALSE)
    BY <1>1, <1>2, <1>3, <2>1, <2>3, PaintLeaves
  <2> QED BY <1>1, <1>2, <1>3, <2>1, <2>2, <2>4, PaintTyped DEF AppTyped
<1> QED BY <1>4, <1>5

LEMMA LibraryEventTyped ==
  ASSUME Typed, NEW e \in ReaderEvent, LibraryEvent(e), user' = user
  PROVE  AppTyped' /\ Leaves(app.rendering)
<1> DEFINE a == [app EXCEPT !.opening = IF e.kind = "loaded" /\ e.book = @ THEN None ELSE @,
                            !.listed = @ \/ e.kind = "scanned"]
<1>1. /\ reader' \in Frame /\ storageQ' = storageQ /\ (PaintEvent(a) \/ NoPaint(a))
  BY AfterEventTyped DEF LibraryEvent
<1>2. a \in AppFlags /\ a.rendering = app.rendering
  <2> DEFINE newOpening == IF e.kind = "loaded" /\ e.book = app.opening THEN None ELSE app.opening
             newListed == app.listed \/ e.kind = "scanned"
  <2>1. newOpening \in Books \union {None} /\ app \in AppFlags
    BY DEF AppFlags, Typed, TypedApp
  <2>2. newListed \in BOOLEAN
    OBVIOUS
  <2>3. a = [app EXCEPT !.opening = newOpening, !.listed = newListed]
    OBVIOUS
  <2> HIDE DEF newOpening, newListed, a
  <2> QED BY <2>1, <2>2, <2>3 DEF AppFlags
<1> HIDE DEF a
<1>3. Leaves(app.rendering)
  BY <1>1, <1>2, PaintLeaves
<1> QED BY <1>1, <1>2, <1>3, PaintTyped, NoPaintTyped DEF AppTyped, Typed, TypedChannels

LEMMA AppDisplayEventTyped == ASSUME Typed, AppDisplayEvent, user' = user PROVE Typed'
<1>1. /\ Head(displayE) \in DisplayEvent
      /\ displayE' \in Seq(DisplayEvent) /\ Len(displayE') <= EventCap
  BY TailQueue, UserTyped DEF Typed, TypedChannels, AppDisplayEvent
<1>2. AppTyped' /\ libraryE' = libraryE
  <2>1. CASE Settled
    BY <2>1, SettledTyped DEF Settled
  <2>2. CASE DisplayFailed \/ DisplayAsleep
    <3>1. /\ reader' = reader /\ libraryE' = libraryE /\ storageQ' = storageQ
          /\ \/ NoPaint([app EXCEPT !.rendering = FALSE, !.again = FALSE])
             \/ \E o \in BOOLEAN :
                  NoPaint([app EXCEPT !.rendering = FALSE, !.again = FALSE, !.opening = None,
                                      !.suppress = FALSE, !.block = FALSE, !.orphaned = o])
      <4>1. CASE DisplayFailed
        BY <4>1 DEF DisplayFailed
      <4>2. CASE DisplayAsleep
        <5> DEFINE o == app.orphaned \/ (app.pending # None /\ app.pending.kind = "open")
        <5>1. NoPaint([app EXCEPT !.rendering = FALSE, !.again = FALSE, !.opening = None,
                                  !.suppress = FALSE, !.block = FALSE, !.orphaned = o])
          BY <4>2 DEF DisplayAsleep
        <5>2. o \in BOOLEAN
          OBVIOUS
        <5> HIDE DEF o
        <5> QED BY <4>2, <5>1, <5>2 DEF DisplayAsleep
      <4> QED BY <2>2, <4>1, <4>2
    <3>2. app \in AppFlags
      BY DEF Typed, TypedApp
    <3>3. [app EXCEPT !.rendering = FALSE, !.again = FALSE] \in AppFlags
      BY <3>2 DEF AppFlags
    <3>4. \A o \in BOOLEAN :
            [app EXCEPT !.rendering = FALSE, !.again = FALSE, !.opening = None,
                        !.suppress = FALSE, !.block = FALSE, !.orphaned = o] \in AppFlags
      BY <3>2 DEF AppFlags
    <3> QED BY <3>1, <3>3, <3>4, NoPaintTyped DEF AppTyped, Typed, TypedChannels, TypedApp
  <2>3. CASE Head(displayE).kind = "loaded" /\ LibraryEvent(Head(displayE)) /\ UNCHANGED libraryE
    <3>1. Head(displayE) \in ReaderEvent
      BY <1>1, <2>3 DEF DisplayEvent, ReaderEvent, Answer
    <3> QED BY <2>3, <3>1, LibraryEventTyped
  <2> QED BY <2>1, <2>2, <2>3 DEF AppDisplayEvent
<1>3. TypedApp'
  BY <1>2 DEF AppTyped, AppDisplayEvent, Typed, TypedApp
<1>4. TypedChannels'
  BY <1>1, <1>2 DEF AppTyped, AppDisplayEvent, Typed, TypedChannels
<1> QED BY <1>3, <1>4 DEF AppDisplayEvent, AppKeeps, Keep, Typed, TypedRest, TypedDisplay, dispVars

LEMMA AppLibraryEventTyped == ASSUME Typed, AppLibraryEvent, user' = user PROVE Typed'
<1>1. /\ Head(libraryE) \in ReaderEvent
      /\ libraryE' \in Seq(ReaderEvent) /\ Len(libraryE') <= LibraryCap
  BY TailQueue, UserTyped DEF Typed, TypedChannels, AppLibraryEvent
<1>2. AppTyped'
  BY <1>1, LibraryEventTyped DEF AppLibraryEvent
<1>3. TypedApp'
  BY <1>2 DEF AppTyped, AppLibraryEvent, Typed, TypedApp
<1>4. TypedChannels'
  BY <1>1, <1>2 DEF AppTyped, AppLibraryEvent, Typed, TypedChannels
<1> QED BY <1>3, <1>4 DEF AppLibraryEvent, AppKeeps, Keep, Typed, TypedRest, TypedDisplay, dispVars

LEMMA ResumeTyped == ASSUME Typed, Resume, user' = user PROVE Typed'
<1>1. AppTyped' /\ powerQ' \in Seq(PowerEvent) /\ Len(powerQ') <= user'.power
  <2>1. CASE /\ blocked.on = "power" /\ Len(powerQ) < user.power
             /\ powerQ' = Append(powerQ, blocked.m)
             /\ NoPaint(app)
             /\ UNCHANGED storageQ
    <3>1. blocked.m \in PowerEvent
      BY <2>1 DEF Resume, Typed, TypedApp, Blocked, PowerEvent
    <3>2. powerQ' \in Seq(PowerEvent) /\ Len(powerQ') = Len(powerQ) + 1 /\ Len(powerQ) \in Nat
      BY <2>1, <3>1, AppendQueue DEF Typed, TypedChannels
    <3>3. app \in AppFlags
      BY DEF Typed, TypedApp
    <3>4. /\ displayQ' \in Seq(DisplayCommand) /\ Len(displayQ') <= user'.commands
          /\ app' \in AppFlags /\ blocked' \in Blocked
      BY <2>1, <3>3, NoPaintTyped
    <3> QED BY <2>1, <3>2, <3>4, UserTyped DEF Resume, AppTyped, Typed, TypedApp, TypedChannels
  <2>2. CASE /\ blocked.on = "storage" /\ Len(storageQ) < user.storage
             /\ storageQ' = Append(storageQ, blocked.m)
             /\ AfterSettled(app)
             /\ UNCHANGED powerQ
    <3>1. blocked.m \in StorageCommand
      BY <2>2 DEF Resume, Typed, TypedApp, Blocked, StorageCommand
    <3>2. storageQ' \in Seq(StorageCommand) /\ Len(storageQ') = Len(storageQ) + 1 /\ Len(storageQ) \in Nat
      BY <2>2, <3>1, AppendQueue DEF Typed, TypedChannels
    <3>3. app \in AppFlags /\ reader' \in Frame
      BY DEF Resume, Typed, TypedApp
    <3>4. /\ displayQ' \in Seq(DisplayCommand) /\ Len(displayQ') <= user'.commands
          /\ app' \in AppFlags /\ blocked' \in Blocked
      BY <2>2, <3>3, PaintTyped
    <3> QED BY <2>2, <3>2, <3>3, <3>4, UserTyped DEF AppTyped, Typed, TypedChannels
  <2>3. CASE /\ blocked.on = "display" /\ Len(displayQ) < user.commands
             /\ displayQ' = Append(displayQ, blocked.m)
             /\ app' = [app EXCEPT !.rendering = TRUE, !.again = FALSE]
             /\ blocked' = None
             /\ UNCHANGED <<powerQ, storageQ>>
    <3>1. blocked.m \in DisplayCommand
      BY <2>3 DEF Resume, Typed, TypedApp, Blocked, DisplayCommand
    <3>2. displayQ' \in Seq(DisplayCommand) /\ Len(displayQ') = Len(displayQ) + 1 /\ Len(displayQ) \in Nat
      BY <2>3, <3>1, AppendQueue DEF Typed, TypedChannels
    <3>3. app' \in AppFlags /\ blocked' \in Blocked
      BY <2>3 DEF Typed, TypedApp, AppFlags, Blocked
    <3> QED BY <2>3, <3>2, <3>3, UserTyped DEF Resume, AppTyped, Typed, TypedApp, TypedChannels
  <2> QED BY <2>1, <2>2, <2>3 DEF Resume
<1>2. TypedApp'
  BY <1>1 DEF AppTyped, Resume, Typed, TypedApp
<1>3. TypedChannels'
  BY <1>1 DEF AppTyped, Resume, Typed, TypedChannels
<1> QED BY <1>2, <1>3 DEF Resume, AppKeeps, Keep, Typed, TypedRest, TypedDisplay, dispVars
-----------------------------------------------------------------------------
(* Types: the actions of the display task. *)

EventsTyped ==
  /\ displayE \in Seq(DisplayEvent) /\ Len(displayE) <= EventCap
  /\ libraryE \in Seq(ReaderEvent) /\ Len(libraryE) <= LibraryCap

LEMMA AnswerTyped ==
  \A kind \in {"settled", "failed", "asleep"} : Signal(kind) \in Answer /\ Signal(kind) \in DisplayEvent
  BY DEF Signal, Event, Answer, DisplayEvent

LEMMA RequiredDisplayTyped ==
  ASSUME Typed, NEW m \in Answer, RequiredDisplay(m)
  PROVE  EventsTyped' /\ m \in Elements(displayE')
<1>1. /\ displayE \in Seq(DisplayEvent) /\ Len(displayE) <= EventCap /\ m \in DisplayEvent
      /\ libraryE \in Seq(ReaderEvent) /\ Len(libraryE) <= LibraryCap
      /\ EventCap \in Nat \ {0} /\ LibraryCap \in Nat \ {0}
  BY UserTyped DEF Typed, TypedChannels, DisplayEvent
<1>2. displayE' \in Seq(DisplayEvent) /\ Len(displayE') <= EventCap /\ m \in Elements(displayE')
  BY <1>1, RequiredQueue DEF RequiredDisplay
<1>3. libraryE' \in Seq(ReaderEvent) /\ Len(libraryE') <= LibraryCap
  <2>1. CASE Len(displayE) = EventCap /\ Head(displayE).kind = "loaded"
    <3>1. Head(displayE) \in DisplayEvent
      BY <1>1, <2>1, TailQueue
    <3>2. Head(displayE) \in ReaderEvent
      BY <3>1, <2>1 DEF DisplayEvent, ReaderEvent, Answer
    <3>3. libraryE' = Required(libraryE, LibraryCap, Head(displayE))
      BY <2>1 DEF RequiredDisplay
    <3> QED BY <1>1, <3>2, <3>3, RequiredQueue
  <2>2. CASE ~(Len(displayE) = EventCap /\ Head(displayE).kind = "loaded")
    BY <1>1, <2>2 DEF RequiredDisplay
  <2> QED BY <2>1, <2>2
<1> QED BY <1>2, <1>3 DEF EventsTyped

LEMMA SendLoadedTyped ==
  ASSUME Typed, NEW loaded \in LoadedBook, NEW resume \in RestoredPlace \union {None},
         SendLoaded(loaded, resume)
  PROVE  EventsTyped' /\ (displayE' = displayE \/ displayE' = Append(displayE, loaded))
<1> DEFINE direct == Len(displayE) < EventCap
           after  == IF direct THEN libraryE ELSE Required(libraryE, LibraryCap, loaded)
<1>1. /\ displayE \in Seq(DisplayEvent) /\ Len(displayE) <= EventCap /\ Len(displayE) \in Nat
      /\ libraryE \in Seq(ReaderEvent) /\ Len(libraryE) <= LibraryCap
      /\ loaded \in DisplayEvent /\ loaded \in ReaderEvent
      /\ EventCap \in Nat \ {0} /\ LibraryCap \in Nat \ {0}
  BY UserTyped DEF Typed, TypedChannels, DisplayEvent, ReaderEvent
<1>2. /\ displayE' = IF direct THEN Append(displayE, loaded) ELSE displayE
      /\ libraryE' = IF resume = None THEN after ELSE Required(after, LibraryCap, resume)
  BY DEF SendLoaded
<1>3. after \in Seq(ReaderEvent) /\ Len(after) <= LibraryCap
  BY <1>1, RequiredQueue
<1> HIDE DEF after
<1>4. libraryE' \in Seq(ReaderEvent) /\ Len(libraryE') <= LibraryCap
  <2>1. CASE resume = None
    BY <1>2, <1>3, <2>1
  <2>2. CASE resume # None
    <3>1. resume \in ReaderEvent
      BY <2>2 DEF ReaderEvent
    <3> QED BY <1>1, <1>2, <1>3, <2>2, <3>1, RequiredQueue
  <2> QED BY <2>1, <2>2
<1>5. /\ displayE' \in Seq(DisplayEvent) /\ Len(displayE') <= EventCap
      /\ displayE' = displayE \/ displayE' = Append(displayE, loaded)
  <2>1. CASE direct
    <3>1. displayE' = Append(displayE, loaded) /\ Len(displayE) < EventCap
      BY <1>2, <2>1
    <3>2. displayE' \in Seq(DisplayEvent) /\ Len(displayE') = Len(displayE) + 1
      BY <1>1, <3>1, AppendQueue
    <3> QED BY <1>1, <3>1, <3>2
  <2>2. CASE ~direct
    BY <1>1, <1>2, <2>2
  <2> QED BY <2>1, <2>2
<1> QED BY <1>4, <1>5 DEF EventsTyped

LEMMA DisplayReadyTyped == ASSUME Typed, DisplayReady, user' = user PROVE Typed'
  BY DEF DisplayReady, Waiting, Idle, DisplayKeeps, Keep, Typed, TypedRest, TypedChannels, TypedApp,
         TypedDisplay, DisplayState, channels, appVars

LEMMA StartRenderTyped == ASSUME Typed, StartRender, user' = user PROVE Typed'
<1>1. /\ Head(displayQ) \in DisplayCommand /\ displayQ' \in Seq(DisplayCommand)
      /\ Len(displayQ') <= user'.commands
  BY TailQueue, UserTyped DEF Typed, TypedChannels, StartRender
<1>2. Head(displayQ) \in RenderCommand
  BY <1>1 DEF StartRender, DisplayCommand
<1>3. store' \in [loaded : Books \union {None}, active : Books \union {None}, window : SUBSET Books]
  <2> DEFINE frame == Head(displayQ).frame
  <2>1. frame \in Frame /\ store' \in WithEntries(frame)
    BY <1>2 DEF StartRender, RenderCommand
  <2> HIDE DEF frame
  <2>2. store \in [loaded : Books \union {None}, active : Books \union {None}, window : SUBSET Books]
    BY DEF Typed, TypedDisplay
  <2>3. \/ store' = store
        \/ \E w \in Windows : store' = [store EXCEPT !.window = w]
        \/ frame.book \in Books /\ store' = [store EXCEPT !.active = frame.book]
    BY <2>1 DEF WithEntries
  <2> QED BY <2>2, <2>3, WindowsAssumption
<1>4. TypedDisplay'
  BY <1>2, <1>3 DEF StartRender, Waiting, Typed, TypedDisplay, DisplayState
<1>5. TypedChannels'
  BY <1>1 DEF StartRender, Typed, TypedChannels
<1> QED BY <1>4, <1>5 DEF StartRender, DisplayKeeps, Keep, Typed, TypedRest, TypedApp, appVars

LEMMA PanelTyped ==
  \A on \in BOOLEAN, last \in Frame \union {None} :
    [on |-> on, last |-> last] \in [on : BOOLEAN, last : Frame \union {None}]
  OBVIOUS

LEMMA FinishRenderTyped == ASSUME Typed, FinishRender, user' = user PROVE Typed'
<1>1. EventsTyped'
  BY AnswerTyped, RequiredDisplayTyped DEF FinishRender
<1>2. powerQ' \in Seq(PowerEvent) /\ Len(powerQ') <= user'.power
  <2>1. /\ powerQ \in Seq(PowerEvent) /\ Len(powerQ) <= user.power /\ user.power \in Nat
        /\ "displaySettled" \in PowerEvent /\ "displayFailed" \in PowerEvent
    BY UserTyped DEF Typed, TypedChannels, PowerEvent
  <2>2. \/ powerQ' = TrySend(powerQ, user.power, "displaySettled")
        \/ powerQ' = TrySend(powerQ, user.power, "displayFailed")
    BY DEF FinishRender
  <2> QED BY <2>1, <2>2, TrySendQueue
<1>3. display.cmd \in RenderCommand
  BY DEF FinishRender, Typed, TypedDisplay, DisplayState
<1>4. panel' \in [on : BOOLEAN, last : Frame \union {None}]
  <2>1. display.cmd.frame \in Frame
    BY <1>3 DEF RenderCommand
  <2>2. panel' = panel \/ panel' = [on |-> TRUE, last |-> display.cmd.frame]
    BY DEF FinishRender
  <2> QED BY <2>1, <2>2, PanelTyped DEF Typed, TypedDisplay
<1>5. TypedDisplay'
  BY <1>4 DEF FinishRender, Idle, Waiting, Typed, TypedDisplay, DisplayState
<1>6. TypedChannels'
  BY <1>1, <1>2 DEF FinishRender, Typed, TypedChannels, EventsTyped
<1> QED BY <1>5, <1>6 DEF FinishRender, DisplayKeeps, Keep, Typed, TypedRest, TypedApp, appVars

LEMMA FinishSleepTyped == ASSUME Typed, FinishSleep, user' = user PROVE Typed'
<1>1. EventsTyped'
  BY AnswerTyped, RequiredDisplayTyped DEF FinishSleep, SleepFails
<1>2. powerQ' \in Seq(PowerEvent) /\ Len(powerQ') <= user'.power
  <2>1. /\ powerQ \in Seq(PowerEvent) /\ Len(powerQ) <= user.power /\ user.power \in Nat
        /\ "displayAsleep" \in PowerEvent /\ "displayFailed" \in PowerEvent
    BY UserTyped DEF Typed, TypedChannels, PowerEvent
  <2>2. \/ powerQ' = TrySend(powerQ, user.power, "displayAsleep")
        \/ powerQ' = TrySend(powerQ, user.power, "displayFailed")
    BY DEF FinishSleep, SleepFails
  <2> QED BY <2>1, <2>2, TrySendQueue
<1>3. TypedDisplay'
  <2>1. panel' = panel \/ panel' = [on |-> FALSE, last |-> None]
    BY DEF FinishSleep, SleepFails
  <2>2. panel' \in [on : BOOLEAN, last : Frame \union {None}]
    BY <2>1, PanelTyped DEF Typed, TypedDisplay
  <2>3. display' \in DisplayState /\ display'.phase = "idle"
    BY DEF FinishSleep, Idle, Waiting, DisplayState
  <2> QED BY <2>2, <2>3 DEF FinishSleep, Typed, TypedDisplay
<1>4. TypedChannels'
  BY <1>1, <1>2 DEF FinishSleep, Typed, TypedChannels, EventsTyped
<1> QED BY <1>3, <1>4 DEF FinishSleep, DisplayKeeps, Keep, Typed, TypedRest, TypedApp, appVars

\* The durable records, whichever writes fail.
LEMMA StoreInTyped ==
  ASSUME NEW c \in [state : Position \union {None}, pos : [Books -> Page]], NEW p \in Position,
         NEW d, d = StoreIn(c, p) \/ d \in FailedStores(c, p)
  PROVE  d \in [state : Position \union {None}, pos : [Books -> Page]]
<1> DEFINE pos == IF p.book \in Books /\ Resident(p.book)
                  THEN [c.pos EXCEPT ![p.book] = p.page] ELSE c.pos
<1>1. pos \in [Books -> Page]
  BY DEF Position
<1> HIDE DEF pos
<1>2. StoreIn(c, p) = [state |-> p, pos |-> pos]
  BY DEF StoreIn, pos
<1>3. \/ d = StoreIn(c, p) \/ d = c \/ d = [c EXCEPT !.state = p]
      \/ d = [c EXCEPT !.pos = StoreIn(c, p).pos]
  BY DEF FailedStores
<1> QED BY <1>1, <1>2, <1>3

LEMMA StartSleepTyped == ASSUME Typed, StartSleep, user' = user PROVE Typed'
<1>1. displayQ' \in Seq(DisplayCommand) /\ Len(displayQ') <= user'.commands
  BY TailQueue, UserTyped DEF Typed, TypedChannels, StartSleep
<1>2. /\ card' \in [state : Position \union {None}, pos : [Books -> Page]]
      /\ progress' \in [pending : Position \union {None}, written : BOOLEAN, restored : BOOLEAN]
  <2>1. CASE FlushOk
    BY <2>1, StoreInTyped DEF FlushOk, Typed, TypedDisplay
  <2>2. CASE FlushFails
    BY <2>2, StoreInTyped DEF FlushFails, Typed, TypedDisplay
  <2> QED BY <2>1, <2>2 DEF StartSleep
<1>3. TypedDisplay'
  BY <1>2 DEF StartSleep, Waiting, Typed, TypedDisplay, DisplayState
<1>4. TypedChannels'
  BY <1>1 DEF StartSleep, Typed, TypedChannels
<1> QED BY <1>3, <1>4 DEF StartSleep, DisplayKeeps, Keep, Typed, TypedRest, TypedApp, appVars

\* What the display task keeps while it serves a storage command.
ServedTyped ==
  /\ EventsTyped
  /\ store \in [loaded : Books \union {None}, active : Books \union {None}, window : SUBSET Books]
  /\ progress \in [pending : Position \union {None}, written : BOOLEAN, restored : BOOLEAN]
  /\ card \in [state : Position \union {None}, pos : [Books -> Page]]
  /\ display = [phase |-> "idle", cmd |-> None]

LEMMA ReaderEventsTyped ==
  ASSUME Typed, NEW book \in Books
  PROVE  /\ LoadedEvent(book) \in LoadedBook
         /\ \A page \in Page : RestoredEvent(book, page) \in RestoredPlace \union {None}
<1>1. panel.last \in Frame \union {None}
  BY DEF Typed, TypedDisplay
<1> QED BY <1>1 DEF LoadedEvent, RestoredEvent, Event, LoadedBook, RestoredPlace, Frame

LEMMA LoadCatalogTyped ==
  ASSUME Typed, NEW cmd \in StorageCommand, LoadCatalog(cmd), Idle
  PROVE  ServedTyped' /\ displayE' = displayE
<1> DEFINE restore == ~progress.restored /\ card.state # None /\ card.state.book \in Books
           p == card.state
           place(pages) == Event("restored", p.book, p.page, pages)
           queue(pages) == IF restore THEN Required(libraryE, LibraryCap, place(pages)) ELSE libraryE
<1>1. PICK pages \in {0, PageCount} :
        libraryE' = TrySend(queue(pages), LibraryCap, Signal("scanned"))
  BY DEF LoadCatalog
<1>2. /\ libraryE \in Seq(ReaderEvent) /\ Len(libraryE) <= LibraryCap /\ LibraryCap \in Nat \ {0}
      /\ Signal("scanned") \in ReaderEvent
  BY UserTyped DEF Typed, TypedChannels, Signal, Event, ReaderEvent, ScannedShelf
<1>3. restore => p.book \in Books /\ p.page \in Page
  BY DEF Typed, TypedDisplay, Position
<1>4. restore => place(pages) \in ReaderEvent
  BY <1>3 DEF Event, ReaderEvent, RestoredPlace
<1> HIDE DEF place
<1>5. queue(pages) \in Seq(ReaderEvent) /\ Len(queue(pages)) <= LibraryCap
  BY <1>2, <1>4, RequiredQueue
<1> HIDE DEF queue
<1>6. libraryE' \in Seq(ReaderEvent) /\ Len(libraryE') <= LibraryCap
  BY <1>1, <1>2, <1>5, TrySendQueue
<1>7. /\ store' = IF restore THEN [store EXCEPT !.active = p.book] ELSE store
      /\ progress' = [progress EXCEPT !.restored = TRUE] /\ displayE' = displayE /\ card' = card
      /\ display' = [phase |-> "idle", cmd |-> None]
  BY DEF LoadCatalog, Idle, Waiting
<1> QED BY <1>3, <1>6, <1>7 DEF ServedTyped, EventsTyped, Typed, TypedDisplay, TypedChannels

LEMMA StoreProgressTyped ==
  ASSUME Typed, NEW cmd \in StorageCommand, StoreProgress(cmd), Idle
  PROVE  ServedTyped' /\ displayE' = displayE
<1> DEFINE p     == PlaceOf(cmd)
           held  == progress.pending
           other == held # None /\ held.book # p.book
           base  == IF other THEN StoreIn(card, held) ELSE card
           Card  == [state : Position \union {None}, pos : [Books -> Page]]
<1>1. p \in Position
  BY DEF StoreProgress, PlaceOf, Position, StorageCommand, AppCommand, ReaderCommand,
         ProgressCommand, CatalogCommand
<1>2. /\ card \in Card /\ held \in Position \union {None}
      /\ progress \in [pending : Position \union {None}, written : BOOLEAN, restored : BOOLEAN]
  BY DEF Typed, TypedDisplay
<1>3. base \in Card
  BY <1>2, StoreInTyped
<1>4. \/ other /\ card' \in FailedStores(card, held) /\ progress' = progress
      \/ card' = StoreIn(base, p) /\ progress' = [progress EXCEPT !.pending = None, !.written = TRUE]
      \/ /\ card' \in FailedStores(base, p)
         /\ progress' = [progress EXCEPT !.pending = p, !.written = @ \/ other]
      \/ card' = card /\ progress' = [progress EXCEPT !.pending = p]
  BY DEF StoreProgress, HoldBack
<1>5. progress.written \/ other \in BOOLEAN
  OBVIOUS
<1> HIDE DEF p, base
<1>6. card' \in Card
  <2>1. CASE other /\ card' \in FailedStores(card, held)
    BY <1>2, <2>1, StoreInTyped
  <2>2. CASE card' = StoreIn(base, p) \/ card' \in FailedStores(base, p)
    BY <1>1, <1>3, <2>2, StoreInTyped
  <2>3. CASE card' = card
    BY <1>2, <2>3
  <2> QED BY <1>4, <2>1, <2>2, <2>3
<1>7. progress' \in [pending : Position \union {None}, written : BOOLEAN, restored : BOOLEAN]
  <2>1. \E w \in BOOLEAN, q \in Position \union {None} :
          progress' = progress \/ progress' = [progress EXCEPT !.pending = q, !.written = w]
                    \/ progress' = [progress EXCEPT !.pending = q]
    BY <1>1, <1>4
  <2> QED BY <1>2, <2>1
<1> QED BY <1>6, <1>7 DEF StoreProgress, Idle, Waiting, ServedTyped, EventsTyped, Typed, TypedDisplay,
                         TypedChannels

\* A storage command sends the app at most a Loaded event.
OnlyLoaded == displayE' = displayE \/ \E e \in LoadedBook : displayE' = Append(displayE, e)

LEMMA HandleStorageTyped ==
  ASSUME Typed, NEW cmd \in StorageCommand, HandleStorage(cmd)
  PROVE  ServedTyped' /\ OnlyLoaded
<1>1. Idle /\ display' = [phase |-> "idle", cmd |-> None]
  BY DEF HandleStorage, Idle, Waiting
<1>2. cmd.kind \in {"open", "extend", "chapters", "jump"} => cmd \in ReaderCommand
  BY DEF StorageCommand, AppCommand, ReaderCommand, ProgressCommand, CatalogCommand
<1>3. /\ store \in [loaded : Books \union {None}, active : Books \union {None}, window : SUBSET Books]
      /\ progress \in [pending : Position \union {None}, written : BOOLEAN, restored : BOOLEAN]
      /\ card \in [state : Position \union {None}, pos : [Books -> Page]]
  BY DEF Typed, TypedDisplay
<1>4. CASE OpenOrExtend(cmd)
  <2>1. cmd.book \in Books
    BY <1>2, <1>4 DEF OpenOrExtend, ReaderCommand
  <2>2. card.pos[cmd.book] \in Page
    BY <1>3, <2>1
  <2>3. PICK resume \in RestoredPlace \union {None} : SendLoaded(LoadedEvent(cmd.book), resume)
    BY <1>4, <2>1, <2>2, ReaderEventsTyped DEF OpenOrExtend
  <2>4. EventsTyped' /\ OnlyLoaded
    BY <2>1, <2>3, ReaderEventsTyped, SendLoadedTyped DEF OnlyLoaded
  <2> QED BY <1>1, <1>3, <1>4, <2>1, <2>4 DEF OpenOrExtend, ServedTyped
<1>5. CASE LoadChapters(cmd)
  <2>1. cmd.book \in Books
    BY <1>2, <1>5 DEF LoadChapters, ReaderCommand
  <2>2. EventsTyped' /\ OnlyLoaded
    <3>1. SendLoaded(LoadedEvent(cmd.book), None)
      BY <1>5 DEF LoadChapters
    <3> QED BY <2>1, <3>1, ReaderEventsTyped, SendLoadedTyped DEF OnlyLoaded
  <2> QED BY <1>1, <1>3, <1>5, <2>1, <2>2 DEF LoadChapters, ServedTyped
<1>6. CASE JumpChapter(cmd)
  <2>1. cmd.book \in Books /\ cmd.page \in Page
    BY <1>2, <1>6 DEF JumpChapter, ReaderCommand
  <2>2. EventsTyped' /\ OnlyLoaded
    <3>1. PICK resume \in RestoredPlace \union {None} : SendLoaded(LoadedEvent(cmd.book), resume)
      BY <1>6, <2>1, ReaderEventsTyped DEF JumpChapter
    <3> QED BY <2>1, <3>1, ReaderEventsTyped, SendLoadedTyped DEF OnlyLoaded
  <2> QED BY <1>1, <1>3, <1>6, <2>1, <2>2 DEF JumpChapter, ServedTyped
<1>7. CASE SkipStale(cmd)
  BY <1>1, <1>3, <1>7 DEF SkipStale, ServedTyped, EventsTyped, OnlyLoaded, Typed, TypedChannels
<1>8. CASE LoadCatalog(cmd)
  BY <1>1, <1>8, LoadCatalogTyped DEF OnlyLoaded
<1>9. CASE StoreProgress(cmd)
  BY <1>1, <1>9, StoreProgressTyped DEF OnlyLoaded
<1> QED BY <1>4, <1>5, <1>6, <1>7, <1>8, <1>9 DEF HandleStorage

LEMMA TakeStorageTyped == ASSUME Typed, TakeStorage, user' = user PROVE Typed'
<1> DEFINE cmd == Head(storageQ)
<1>1. /\ cmd \in StorageCommand /\ Tail(storageQ) \in Seq(StorageCommand)
      /\ Len(Tail(storageQ)) <= user.storage
  BY TailQueue, UserTyped DEF Typed, TypedChannels, TakeStorage
<1>2. EventsTyped /\ TypedDisplay
  BY DEF Typed, TypedChannels, EventsTyped
<1>3. PICK done \in {"plate", "served", "retried"} :
        /\ done = "plate" => /\ MayPlate(cmd) /\ Waiting("plate", cmd) /\ storageQ' = Tail(storageQ)
                             /\ UNCHANGED <<displayE, libraryE, store, progress, card>>
        /\ done = "served" => HandleStorage(cmd) /\ storageQ' = Tail(storageQ)
        /\ done = "retried" =>
             /\ storageQ' = TrySend(Tail(storageQ), user.storage, StorageWork("refresh"))
             /\ Idle /\ UNCHANGED <<displayE, libraryE, store, progress, card>>
  BY DEF TakeStorage
<1> HIDE DEF cmd
<1>4. panel' = panel
  BY DEF TakeStorage
<1>5. TypedDisplay' /\ EventsTyped'
  <2>1. CASE done = "plate"
    <3>1. cmd \in ReaderCommand
      BY <1>1, <1>3, <2>1 DEF MayPlate, StorageCommand, AppCommand, ReaderCommand, ProgressCommand,
                              CatalogCommand
    <3>2. display' \in DisplayState /\ display'.cmd = cmd /\ cmd.kind \in {"open", "extend"}
          /\ panel.last # None
      BY <1>3, <2>1, <3>1 DEF Waiting, DisplayState, MayPlate
    <3> QED BY <1>2, <1>3, <1>4, <2>1, <3>2 DEF TypedDisplay, EventsTyped
  <2>2. CASE done = "served"
    <3>1. ServedTyped'
      BY <1>1, <1>3, <2>2, HandleStorageTyped
    <3> QED BY <1>2, <1>4, <3>1 DEF ServedTyped, TypedDisplay, DisplayState
  <2>3. CASE done = "retried"
    BY <1>2, <1>3, <1>4, <2>3 DEF Idle, Waiting, TypedDisplay, DisplayState, EventsTyped
  <2> QED BY <2>1, <2>2, <2>3
<1>6. storageQ' \in Seq(StorageCommand) /\ Len(storageQ') <= user'.storage
  <2>1. StorageWork("refresh") \in StorageCommand /\ user.storage \in Nat
    BY UserTyped DEF StorageWork, StorageCommand, CatalogCommand
  <2>2. /\ TrySend(Tail(storageQ), user.storage, StorageWork("refresh")) \in Seq(StorageCommand)
        /\ Len(TrySend(Tail(storageQ), user.storage, StorageWork("refresh"))) <= user.storage
    BY <1>1, <2>1, TrySendQueue
  <2> QED BY <1>1, <1>3, <2>2
<1>7. TypedChannels'
  BY <1>5, <1>6 DEF TakeStorage, Typed, TypedChannels, EventsTyped
<1> QED BY <1>5, <1>7 DEF TakeStorage, DisplayKeeps, Keep, Typed, TypedRest, TypedApp, appVars

LEMMA FinishPlateTyped == ASSUME Typed, FinishPlate, user' = user PROVE Typed'
<1>1. display.cmd \in ReaderCommand /\ panel.last # None
  BY DEF FinishPlate, Typed, TypedDisplay, DisplayState
<1>2. ServedTyped'
  BY <1>1, HandleStorageTyped DEF FinishPlate, StorageCommand, AppCommand
<1>3. PlateFor(display.cmd) \in Frame
  <2>1. panel.last \in Frame
    BY <1>1 DEF Typed, TypedDisplay
  <2> QED BY <1>1, <2>1 DEF PlateFor, Frame, ReaderCommand
<1>4. panel' \in [on : BOOLEAN, last : Frame \union {None}]
  <2>1. panel' = panel \/ panel' = [panel EXCEPT !.last = PlateFor(display.cmd)]
    BY DEF FinishPlate
  <2> QED BY <1>3, <2>1 DEF Typed, TypedDisplay
<1>5. TypedDisplay'
  BY <1>2, <1>4 DEF ServedTyped, TypedDisplay, DisplayState
<1>6. TypedChannels'
  BY <1>2 DEF FinishPlate, ServedTyped, EventsTyped, Typed, TypedChannels
<1> QED BY <1>5, <1>6 DEF FinishPlate, DisplayKeeps, Keep, Typed, TypedRest, TypedApp, appVars
-----------------------------------------------------------------------------
(* Types: the power task, the user, and a reset.                           *)

LEMMA EnterSleepTyped ==
  ASSUME Typed, EnterSleep, user' = user
  PROVE  /\ displayQ' \in Seq(DisplayCommand) /\ Len(displayQ') <= user'.commands
         /\ power' \in {"asking", "handshake"}
<1>1. /\ displayQ \in Seq(DisplayCommand) /\ Len(displayQ) <= user.commands /\ Len(displayQ) \in Nat
      /\ user.commands \in Nat /\ Sleep \in DisplayCommand
  BY UserTyped DEF Typed, TypedChannels, DisplayCommand
<1>2. CASE Len(displayQ) < user.commands
  <2>1. displayQ' = Append(displayQ, Sleep) /\ power' = "handshake"
    BY <1>2 DEF EnterSleep
  <2>2. displayQ' \in Seq(DisplayCommand) /\ Len(displayQ') = Len(displayQ) + 1
    BY <1>1, <2>1, AppendQueue
  <2> QED BY <1>1, <1>2, <2>1, <2>2
<1>3. CASE ~(Len(displayQ) < user.commands)
  BY <1>1, <1>3 DEF EnterSleep
<1> QED BY <1>2, <1>3

LEMMA PowerTyped ==
  ASSUME Typed, PowerAwake \/ Ask \/ Handshake \/ IdleExpires, user' = user
  PROVE  Typed'
<1>1. /\ displayQ' \in Seq(DisplayCommand) /\ Len(displayQ') <= user'.commands
      /\ power' \in {"awake", "asking", "handshake", "off"}
  <2>1. displayQ \in Seq(DisplayCommand) /\ Len(displayQ) <= user.commands
    BY DEF Typed, TypedChannels
  <2>2. CASE PowerAwake
    BY <2>1, <2>2, EnterSleepTyped DEF PowerAwake, Typed, TypedRest
  <2>3. CASE Ask \/ IdleExpires
    BY <2>3, EnterSleepTyped DEF Ask, IdleExpires
  <2>4. CASE Handshake
    BY <2>1, <2>4 DEF Handshake, Typed, TypedRest
  <2> QED BY <2>2, <2>3, <2>4
<1>2. powerQ' \in Seq(PowerEvent) /\ Len(powerQ') <= user'.power
  <2>1. CASE PowerAwake \/ Handshake
    <3>1. powerQ # <<>> /\ powerQ' = Tail(powerQ)
      BY <2>1 DEF PowerAwake, Handshake
    <3>2. powerQ \in Seq(PowerEvent) /\ Len(powerQ) <= user.power /\ user.power \in Nat
      BY UserTyped DEF Typed, TypedChannels
    <3> QED BY <3>1, <3>2, TailQueue
  <2>2. CASE Ask \/ IdleExpires
    BY <2>2 DEF Ask, IdleExpires, Typed, TypedChannels
  <2> QED BY <2>1, <2>2
<1>3. UNCHANGED <<inputs, storageQ, displayE, libraryE, appVars, dispVars>>
  BY DEF PowerAwake, Ask, Handshake, IdleExpires
<1>4. cpu' \in {"none", "app", "display", "power"}
  BY DEF PowerAwake, Ask, Handshake, IdleExpires, PowerKeeps, Keep
<1>5. prompts' = prompts \/ (prompts' = prompts + 1 /\ prompts < user.prompts)
  BY DEF PowerAwake, Ask, Handshake, IdleExpires
<1>6. TypedApp'
  <2>1. /\ latest \in Nat /\ prompts \in Nat /\ Len(inputs) \in Nat /\ user.prompts \in Nat
        /\ latest + Len(inputs) <= prompts /\ prompts <= user.prompts
    BY UserTyped DEF Typed, TypedApp, TypedChannels
  <2>2. latest' = latest /\ inputs' = inputs
    BY <1>3 DEF appVars
  <2>3. prompts' \in Nat /\ latest + Len(inputs) <= prompts' /\ prompts' <= user.prompts
    BY <1>5, <2>1
  <2>4. reader' = reader /\ app' = app /\ blocked' = blocked
    BY <1>3 DEF appVars
  <2> QED BY <2>1, <2>2, <2>3, <2>4 DEF Typed, TypedApp
<1>7. TypedChannels'
  BY <1>1, <1>2, <1>3 DEF Typed, TypedChannels
<1> QED BY <1>1, <1>3, <1>4, <1>6, <1>7 DEF Typed, TypedRest, TypedDisplay, dispVars

LEMMA PressTyped == ASSUME Typed, NEW key \in user.keys, Press(key), user' = user PROVE Typed'
<1>1. /\ inputs \in Seq(Keys) /\ Len(inputs) <= InputCap /\ key \in Keys /\ Len(inputs) \in Nat
      /\ InputCap \in Nat \ {0} /\ user.prompts \in Nat /\ latest \in Nat /\ prompts \in Nat
  BY UserTyped DEF Typed, TypedChannels, TypedApp
<1>2. inputs' = Required(inputs, InputCap, key) /\ prompts' = prompts + 1 /\ prompts < user.prompts
  BY DEF Press
<1>3. /\ inputs' \in Seq(Keys) /\ Len(inputs') <= InputCap /\ Len(inputs') <= Len(inputs) + 1
      /\ Len(inputs') \in Nat
  BY <1>1, <1>2, RequiredQueue
<1>4. TypedApp'
  BY <1>1, <1>2, <1>3 DEF Press, Typed, TypedApp, appVars
<1>5. TypedChannels'
  BY <1>3 DEF Press, Typed, TypedChannels
<1> QED BY <1>4, <1>5 DEF Press, Typed, TypedRest, TypedDisplay, dispVars

\* A reset empties the channels and forgets all but the card.
AtBoot ==
  /\ cpu = "none"
  /\ inputs = <<>> /\ displayQ = <<>> /\ storageQ = <<StorageWork("catalog")>>
  /\ displayE = <<>> /\ libraryE = <<>> /\ powerQ = <<>>
  /\ reader = ReaderAtBoot /\ app = AppAtBoot /\ blocked = None /\ latest = 0
  /\ display = DisplayAtBoot /\ panel = PanelAtBoot /\ store = StoreAtBoot
  /\ progress = ProgressAtBoot
  /\ power = "awake"

BootIsTyped ==
  /\ AtBoot /\ user \in Users
  /\ card \in [state : Position \union {None}, pos : [Books -> Page]]
  /\ prompts \in Nat /\ prompts <= user.prompts
  => Typed

LEMMA BootTyped == BootIsTyped
<1> SUFFICES ASSUME AtBoot, user \in Users,
                    card \in [state : Position \union {None}, pos : [Books -> Page]],
                    prompts \in Nat, prompts <= user.prompts
             PROVE  Typed
  BY DEF BootIsTyped
<1>1. /\ user.commands \in Nat /\ user.storage \in Nat \ {0} /\ user.power \in Nat
      /\ InputCap \in Nat /\ EventCap \in Nat /\ LibraryCap \in Nat
  BY UsersAssumption, CapsAssumption DEF User
<1>2. storageQ \in Seq(StorageCommand) /\ Len(storageQ) = 1
  BY DEF AtBoot, StorageWork, StorageCommand, CatalogCommand
<1>3. TypedChannels
  BY <1>1, <1>2, EmptyQueue DEF AtBoot, TypedChannels
<1>4. ReaderAtBoot \in Frame
  BY PageTyped DEF ReaderAtBoot, Frame
<1>5. AppAtBoot \in AppFlags
  BY DEF AppAtBoot, AppFlags
<1>6. TypedApp
  BY <1>4, <1>5 DEF AtBoot, TypedApp, Blocked
<1>7. TypedDisplay
  <2>1. PanelAtBoot \in [on : BOOLEAN, last : Frame \union {None}]
    BY PanelTyped DEF PanelAtBoot
  <2>2. StoreAtBoot \in [loaded : Books \union {None}, active : Books \union {None}, window : SUBSET Books]
    BY DEF StoreAtBoot
  <2>3. ProgressAtBoot \in [pending : Position \union {None}, written : BOOLEAN, restored : BOOLEAN]
    BY DEF ProgressAtBoot
  <2>4. DisplayAtBoot \in DisplayState /\ DisplayAtBoot.phase = "init"
    BY DEF DisplayAtBoot, DisplayState
  <2> QED BY <2>1, <2>2, <2>3, <2>4 DEF AtBoot, TypedDisplay
<1> QED BY <1>3, <1>6, <1>7 DEF AtBoot, Typed, TypedRest

LEMMA InitTyped == Init => Typed
<1> SUFFICES ASSUME Init PROVE Typed
  OBVIOUS
<1>1. user \in Users /\ user \in User
  BY UsersAssumption DEF Init
<1>2. PICK at \in user.places, b \in user.last :
        card = [pos |-> at, state |-> IF b = None THEN None ELSE [book |-> b, page |-> at[b]]]
  BY DEF Init
<1>3. at \in [Books -> Page] /\ b \in Books \union {None}
  BY <1>1, <1>2 DEF User
<1>4. card \in [state : Position \union {None}, pos : [Books -> Page]]
  BY <1>2, <1>3 DEF Position
<1>5. user.prompts \in Nat /\ prompts = 0
  BY <1>1 DEF User, Init
<1> QED BY <1>1, <1>4, <1>5, BootTyped DEF Init, AtBoot, BootIsTyped

LEMMA WakeTyped == ASSUME Typed, Wake, user' = user PROVE Typed'
<1>1. AtBoot'
  BY DEF Wake, AtBoot
<1>2. /\ user' \in Users /\ prompts' \in Nat /\ prompts' <= user'.prompts
      /\ card' \in [state : Position \union {None}, pos : [Books -> Page]]
  BY DEF Wake, Typed, TypedRest, TypedApp, TypedDisplay
<1>3. BootIsTyped'
  BY BootTyped, PTL
<1> QED BY <1>1, <1>2, <1>3 DEF BootIsTyped

LEMMA NextTyped == Typed /\ [Next]_vars => Typed'
<1> SUFFICES ASSUME Typed, [Next]_vars PROVE Typed'
  OBVIOUS
<1>1. CASE App
  <2>1. user' = user
    BY <1>1 DEF App
  <2> QED BY <1>1, <2>1, PowerKeyTyped, AppKeyTyped, AppDisplayEventTyped, AppLibraryEventTyped,
             ResumeTyped DEF App
<1>2. CASE Display
  <2>1. user' = user
    BY <1>2 DEF Display
  <2> QED BY <1>2, <2>1, DisplayReadyTyped, StartRenderTyped, FinishRenderTyped, StartSleepTyped,
             FinishSleepTyped, TakeStorageTyped, FinishPlateTyped DEF Display
<1>3. CASE Power
  BY <1>3, PowerTyped DEF Power
<1>4. CASE Prompt
  BY <1>4, PowerTyped, WakeTyped, PressTyped DEF Prompt
<1>5. CASE UNCHANGED vars
  BY <1>5 DEF vars, channels, appVars, dispVars, Typed, TypedRest, TypedChannels, TypedApp, TypedDisplay
<1> QED BY <1>1, <1>2, <1>3, <1>4, <1>5 DEF Next

LEMMA TypedIsTypeOK == Typed => TypeOK
<1> SUFFICES ASSUME Typed PROVE TypeOK
  OBVIOUS
<1>1. /\ app.pending \in Command \union {None} /\ app.opening \in Books \union {None}
  BY DEF Typed, TypedApp, AppFlags, AppCommand, ReaderCommand, ProgressCommand, Command
<1>2. latest \in 0 .. user.prompts
  <2>1. Len(inputs) \in Nat
    BY DEF Typed, TypedChannels
  <2> QED BY <2>1, UserTyped DEF Typed, TypedApp
<1>3. display.phase \in Busy
  BY DEF Typed, TypedDisplay, DisplayState, Busy
<1> QED BY <1>1, <1>2, <1>3 DEF Typed, TypedRest, TypedChannels, TypedApp, TypedDisplay, TypeOK

\* For any books, page counts, channel lengths and patterns of use, every
\* variable of the shell keeps its type and no channel holds more than its
\* capacity.
THEOREM TypeCorrect == Spec => []TypeOK
<1>1. Typed => TypeOK
  BY TypedIsTypeOK
<1> QED BY <1>1, InitTyped, NextTyped, PTL DEF Spec
-----------------------------------------------------------------------------
(* A render in flight, turn by turn. *)

\* The turn first takes an answer, which ends the flight, or none.
AppRender ==
  /\ display' = display
  /\ \/ Leaves(app.rendering) /\ displayE' = displayE
     \/ /\ displayE # <<>> /\ displayE' = Tail(displayE)
        /\ Leaves(IF IsAnswer(Head(displayE)) THEN FALSE ELSE app.rendering)

LEMMA AppRenders ==
  ASSUME Typed, SendsAreFree, App
  PROVE  AppRender /\ SendsAreFree'
<1>1. user' = user
  BY DEF App
<1>2. ASSUME NEW flight, Leaves(flight) PROVE SendsAreFree'
  BY <1>2 DEF Leaves, SendsAreFree
<1>3. CASE PowerKey
  <2>1. /\ displayQ' = displayQ /\ app' = app /\ blocked = None /\ displayE' = displayE
        /\ inputs # <<>> /\ Head(inputs) = "power"
        /\ blocked' = None \/ blocked' = [on |-> "power", m |-> "sleepNow"]
    BY <1>3 DEF PowerKey, AppTurn
  <2>2. blocked' # None => blocked'.on = "power"
    BY <2>1
  <2>3. app'.rendering = app.rendering
    BY <2>1
  <2>4. Leaves(app.rendering)
    BY <2>1, <2>2, <2>3 DEF Leaves
  <2> QED BY <1>2, <1>3, <2>1, <2>4 DEF AppRender, PowerKey, dispVars
<1>4. CASE AppKey
  <2>1. PICK block \in Blocks : IgnoreKey(Head(inputs), block) \/ TakeKey(Head(inputs), block)
    BY <1>4 DEF AppKey
  <2>2. block \in BOOLEAN
    BY DEF Blocks, Typed, TypedApp, AppFlags
  <2>3. CASE IgnoreKey(Head(inputs), block)
    <3>1. app'.rendering = app.rendering /\ displayQ' = displayQ /\ blocked' = blocked
      BY <2>3 DEF IgnoreKey, Typed, TypedApp, AppFlags
    <3>2. blocked = None
      BY <1>4 DEF AppKey, AppTurn
    <3> QED BY <1>2, <1>4, <3>1, <3>2 DEF Leaves, AppRender, AppKey, dispVars
  <2>4. CASE TakeKey(Head(inputs), block)
    <3>1. Leaves(app.rendering)
      BY <1>1, <2>2, <2>4, TakeKeyTyped
    <3> QED BY <1>2, <1>4, <3>1 DEF AppRender, AppKey, dispVars
  <2> QED BY <2>1, <2>3, <2>4
<1>5. CASE AppDisplayEvent
  <2> DEFINE e == Head(displayE)
  <2>1. displayE # <<>> /\ displayE' = Tail(displayE) /\ display' = display
    BY <1>5 DEF AppDisplayEvent, dispVars
  <2>2. e \in DisplayEvent /\ app \in AppFlags
    BY <2>1, TailQueue DEF Typed, TypedChannels, TypedApp
  <2>3. Leaves(IF IsAnswer(e) THEN FALSE ELSE app.rendering)
    <3>1. CASE Settled
      BY <1>1, <3>1, SettledTyped DEF Settled, IsAnswer
    <3>2. CASE DisplayFailed \/ DisplayAsleep
      <4>1. app'.rendering = FALSE /\ displayQ' = displayQ /\ blocked' = None
        BY <2>2, <3>2 DEF DisplayFailed, DisplayAsleep, NoPaint, AppFlags
      <4>2. IsAnswer(e)
        BY <3>2 DEF DisplayFailed, DisplayAsleep, IsAnswer
      <4> QED BY <4>1, <4>2 DEF Leaves
    <3>3. CASE e.kind = "loaded" /\ LibraryEvent(e)
      <4>1. e \in ReaderEvent /\ ~IsAnswer(e)
        BY <2>2, <3>3 DEF DisplayEvent, ReaderEvent, Answer, IsAnswer
      <4> QED BY <1>1, <3>3, <4>1, LibraryEventTyped
    <3> QED BY <1>5, <3>1, <3>2, <3>3 DEF AppDisplayEvent
  <2> QED BY <1>2, <2>1, <2>3 DEF AppRender
<1>6. CASE AppLibraryEvent
  <2>1. Head(libraryE) \in ReaderEvent
    BY <1>6, TailQueue DEF AppLibraryEvent, Typed, TypedChannels
  <2>2. Leaves(app.rendering)
    BY <1>1, <1>6, <2>1, LibraryEventTyped DEF AppLibraryEvent
  <2> QED BY <1>2, <1>6, <2>2 DEF AppRender, AppLibraryEvent, dispVars
<1>7. CASE Resume
  <2>1. app \in AppFlags /\ blocked \in Blocked /\ blocked # None /\ reader' \in Frame
    BY <1>7 DEF Resume, Typed, TypedApp
  <2>2. Leaves(app.rendering)
    <3>1. CASE NoPaint(app)
      BY <2>1, <3>1, PaintLeaves
    <3>2. CASE blocked.on = "storage" /\ AfterSettled(app)
      <4>1. ~app.rendering
        BY <2>1, <3>2 DEF SendsAreFree
      <4> QED BY <2>1, <3>2, <4>1, PaintLeaves
    <3>3. CASE /\ blocked.on = "display" /\ displayQ' = Append(displayQ, blocked.m)
               /\ app' = [app EXCEPT !.rendering = TRUE, !.again = FALSE] /\ blocked' = None
      <4>1. blocked.m \in RenderCommand /\ ~app.rendering
        BY <2>1, <3>3 DEF Blocked, SendsAreFree
      <4>2. app'.rendering
        BY <2>1, <3>3 DEF AppFlags
      <4> QED BY <3>3, <4>1, <4>2 DEF Leaves
    <3> QED BY <1>7, <3>1, <3>2, <3>3 DEF Resume
  <2> QED BY <1>2, <1>7, <2>2 DEF AppRender, Resume, dispVars
<1> QED BY <1>3, <1>4, <1>5, <1>6, <1>7 DEF App
\* The events and commands of the display task and the power task.
LEMMA HandledEvents ==
  ASSUME Typed, OnlyLoaded
  PROVE  Elements(displayE) \subseteq Elements(displayE')
<1>1. displayE \in Seq(DisplayEvent) /\ LoadedBook \subseteq DisplayEvent
  BY DEF Typed, TypedChannels, DisplayEvent
<1>2. CASE displayE' = displayE
  BY <1>2
<1>3. CASE \E e \in LoadedBook : displayE' = Append(displayE, e)
  <2>1. PICK e \in DisplayEvent : displayE' = Append(displayE, e)
    BY <1>1, <1>3
  <2>2. Elements(Append(displayE, e)) = Elements(displayE) \union {e}
    BY <1>1, AppendQueue
  <2> QED BY <2>1, <2>2
<1> QED BY <1>2, <1>3 DEF OnlyLoaded

LEMMA ServesQuietly ==
  ASSUME Typed, TakeStorage \/ FinishPlate
  PROVE  /\ OnlyLoaded /\ displayQ' = displayQ
         /\ display.phase \in {"idle", "plate"} /\ display'.phase \in {"idle", "plate"}
<1>1. CASE TakeStorage
  <2>1. Head(storageQ) \in StorageCommand
    BY <1>1, TailQueue DEF TakeStorage, Typed, TypedChannels
  <2>2. \/ display' = [phase |-> "plate", cmd |-> Head(storageQ)] /\ displayE' = displayE
        \/ HandleStorage(Head(storageQ))
        \/ display' = [phase |-> "idle", cmd |-> None] /\ displayE' = displayE
    BY <1>1 DEF TakeStorage, Waiting, Idle
  <2>3. HandleStorage(Head(storageQ)) => display'.phase = "idle"
    BY DEF HandleStorage, Idle, Waiting
  <2> QED BY <1>1, <2>1, <2>2, <2>3, HandleStorageTyped DEF OnlyLoaded, TakeStorage, DisplayTurn
<1>2. CASE FinishPlate
  <2>1. display.cmd \in StorageCommand /\ HandleStorage(display.cmd)
    BY <1>2 DEF FinishPlate, Typed, TypedDisplay, DisplayState, StorageCommand, AppCommand
  <2>2. display'.phase = "idle"
    BY <2>1 DEF HandleStorage, Idle, Waiting
  <2> QED BY <1>2, <2>1, <2>2, HandleStorageTyped DEF FinishPlate
<1> QED BY <1>1, <1>2

LEMMA AsksForSleep ==
  ASSUME Typed, PowerAwake \/ Ask \/ Handshake \/ IdleExpires
  PROVE  /\ displayQ' = displayQ \/ displayQ' = Append(displayQ, Sleep)
         /\ UNCHANGED <<inputs, storageQ, displayE, libraryE, appVars, dispVars>>
  BY DEF PowerAwake, Ask, Handshake, IdleExpires, EnterSleep

LEMMA AnswersComeBack ==
  ASSUME Typed, SendsAreFree, RenderAnswered, [Next]_vars
  PROVE  RenderAnswered'
<1> DEFINE Sent(queue) == \E m \in Elements(queue) : m # Sleep
           Back(queue) == \E e \in Elements(queue) : e.kind \in {"settled", "failed", "asleep"}
<1>1. /\ RenderAnswered <=> (app.rendering => Sent(displayQ) \/ display.phase = "render" \/ Back(displayE))
      /\ RenderAnswered' <=> (app'.rendering => Sent(displayQ') \/ display'.phase = "render" \/ Back(displayE'))
  BY DEF RenderAnswered
<1>2. /\ displayQ \in Seq(DisplayCommand) /\ displayE \in Seq(DisplayEvent)
      /\ Sleep \in DisplayCommand /\ RenderCommand \subseteq DisplayCommand
  BY DEF Typed, TypedChannels, DisplayCommand
<1>3. ASSUME UNCHANGED <<app, displayQ, display, displayE>> PROVE RenderAnswered'
  BY <1>1, <1>3
<1>4. CASE App
  <2>1. AppRender
    BY <1>4, AppRenders
  <2>2. PICK flight \in {FALSE, app.rendering} :
          /\ Leaves(flight) /\ display' = display
          /\ flight => displayE' = displayE \/ /\ displayE # <<>> /\ displayE' = Tail(displayE)
                                               /\ ~IsAnswer(Head(displayE))
    BY <2>1 DEF AppRender
  <2>3. CASE displayQ' = displayQ /\ app'.rendering = flight
    <3>1. SUFFICES ASSUME flight, Back(displayE), displayE' = Tail(displayE), displayE # <<>>,
                          ~IsAnswer(Head(displayE))
                   PROVE  Back(displayE')
      BY <1>1, <2>2, <2>3
    <3>2. Elements(displayE) = {Head(displayE)} \union Elements(Tail(displayE))
      BY <1>2, <3>1, TailQueue
    <3> QED BY <3>1, <3>2 DEF IsAnswer
  <2>4. CASE \E m \in RenderCommand : displayQ' = Append(displayQ, m)
    <3>1. PICK m \in RenderCommand : displayQ' = Append(displayQ, m)
      BY <2>4
    <3>2. m # Sleep /\ m \in Elements(displayQ')
      BY <1>2, <3>1, AppendQueue DEF RenderCommand, Sleep
    <3> QED BY <1>1, <3>2
  <2> QED BY <2>2, <2>3, <2>4 DEF Leaves
<1>5. CASE StartRender
  BY <1>1, <1>5 DEF StartRender, Waiting
<1>6. CASE FinishRender
  <2>1. \E m \in Answer : RequiredDisplay(m)
    BY <1>6, AnswerTyped DEF FinishRender
  <2>2. PICK m \in Answer : m \in Elements(displayE')
    BY <2>1, RequiredDisplayTyped
  <2> QED BY <1>1, <2>2 DEF Answer
<1>7. CASE FinishSleep
  <2>1. \E m \in Answer : RequiredDisplay(m)
    BY <1>7, AnswerTyped DEF FinishSleep, SleepFails
  <2>2. PICK m \in Answer : m \in Elements(displayE')
    BY <2>1, RequiredDisplayTyped
  <2> QED BY <1>1, <2>2 DEF Answer
<1>8. CASE StartSleep
  <2>1. /\ displayQ # <<>> /\ Head(displayQ) = Sleep /\ displayQ' = Tail(displayQ)
        /\ app' = app /\ displayE' = displayE /\ display.phase = "idle"
    BY <1>8 DEF StartSleep, DisplayTurn, appVars
  <2>2. Elements(displayQ) = {Sleep} \union Elements(displayQ')
    BY <1>2, <2>1, TailQueue
  <2> QED BY <1>1, <2>1, <2>2
<1>9. CASE TakeStorage \/ FinishPlate
  <2>1. app' = app
    BY <1>9 DEF TakeStorage, FinishPlate, appVars
  <2> QED BY <1>1, <1>9, <2>1, ServesQuietly, HandledEvents
<1>10. CASE DisplayReady
  BY <1>1, <1>10 DEF DisplayReady, channels, appVars
<1>11. CASE PowerAwake \/ Ask \/ Handshake \/ IdleExpires
  <2>1. app' = app /\ display' = display /\ displayE' = displayE
    BY <1>11, AsksForSleep DEF appVars, dispVars
  <2>2. Elements(displayQ) \subseteq Elements(displayQ')
    <3>1. Elements(Append(displayQ, Sleep)) = Elements(displayQ) \union {Sleep}
      BY <1>2, AppendQueue
    <3> QED BY <1>11, <3>1, AsksForSleep
  <2> QED BY <1>1, <2>1, <2>2
<1>12. CASE Wake
  BY <1>1, <1>12 DEF Wake, AppAtBoot
<1>13. CASE \E key \in user.keys : Press(key)
  BY <1>3, <1>13 DEF Press, appVars, dispVars
<1>14. CASE UNCHANGED vars
  BY <1>3, <1>14 DEF vars, channels, appVars, dispVars
<1> QED BY <1>4, <1>5, <1>6, <1>7, <1>8, <1>9, <1>10, <1>11, <1>12, <1>13, <1>14
       DEF Next, Display, Power, Prompt

LEMMA SendsStayFree ==
  ASSUME Typed, SendsAreFree, [Next]_vars
  PROVE  SendsAreFree'
<1>1. CASE App
  BY <1>1, AppRenders
<1>2. CASE Display
  BY <1>2 DEF Display, DisplayReady, StartRender, FinishRender, StartSleep, FinishSleep, TakeStorage,
              FinishPlate, appVars, SendsAreFree
<1>3. CASE Power \/ IdleExpires
  BY <1>3, AsksForSleep DEF Power, appVars, SendsAreFree
<1>4. CASE Wake
  BY <1>4 DEF Wake, AppAtBoot, SendsAreFree
<1>5. CASE (\E key \in user.keys : Press(key)) \/ UNCHANGED vars
  BY <1>5 DEF Press, vars, appVars, SendsAreFree
<1> QED BY <1>1, <1>2, <1>3, <1>4, <1>5 DEF Next, Prompt

\* While the app counts a render as in flight, its command, the flush or an
\* answer is somewhere on the way, whatever is evicted, fails or sleeps.
THEOREM RenderIsAnswered == Spec => []RenderAnswered
<1>1. Init => Typed /\ SendsAreFree /\ RenderAnswered
  BY InitTyped DEF Init, AppAtBoot, SendsAreFree, RenderAnswered
<1>2. Typed /\ SendsAreFree /\ RenderAnswered /\ [Next]_vars => (Typed /\ SendsAreFree /\ RenderAnswered)'
  BY NextTyped, SendsStayFree, AnswersComeBack
<1> QED BY <1>1, <1>2, PTL DEF Spec
-----------------------------------------------------------------------------
(* One render in flight, while nobody puts the device to sleep.            *)

Clear(queue) == \A e \in Elements(queue) : ~IsAnswer(e)
Once(queue) ==
  \A i, j \in 1 .. Len(queue) : IsAnswer(queue[i]) /\ IsAnswer(queue[j]) => i = j

\* A command, the flush or one answer, and none of them without the app's flag.
LoneFlight ==
  /\ Len(displayQ) <= 1 /\ Once(displayE)
  /\ displayQ # <<>> => display.phase # "render" /\ Clear(displayE)
  /\ display.phase = "render" => Clear(displayE)
  /\ ~app.rendering => displayQ = <<>> /\ display.phase # "render" /\ Clear(displayE)

NobodySleeps ==
  /\ "power" \notin Elements(inputs) /\ "sleepNow" \notin Elements(powerQ) /\ power = "awake"
  /\ Sleep \notin Elements(displayQ) /\ display.phase # "sleep"
  /\ blocked # None => blocked.on # "power"

LEMMA AnswerArrives ==
  ASSUME NEW queue \in Seq(DisplayEvent), NEW m \in DisplayEvent, NEW cap
  PROVE  /\ Clear(queue) => Once(Append(queue, m)) /\ Once(Required(queue, cap, m))
         /\ ~IsAnswer(m) /\ Clear(queue) => Clear(Append(queue, m))
         /\ ~IsAnswer(m) /\ Once(queue) => Once(Append(queue, m))
<1>1. ASSUME NEW q \in Seq(DisplayEvent), Clear(q) PROVE Once(Append(q, m))
  <2>1. \A i \in 1 .. Len(q) : ~IsAnswer(q[i])
    BY <1>1 DEF Clear, Elements
  <2>2. /\ Len(Append(q, m)) = Len(q) + 1 /\ Len(q) \in Nat
        /\ \A i \in 1 .. Len(q) : Append(q, m)[i] = q[i]
    OBVIOUS
  <2> QED BY <2>1, <2>2 DEF Once
<1>2. queue # <<>> /\ Clear(queue) => Clear(Tail(queue)) /\ Tail(queue) \in Seq(DisplayEvent)
  BY TailQueue DEF Clear
<1>3. ASSUME Clear(queue) PROVE Once(Required(queue, cap, m))
  <2>1. CASE Len(queue) < cap
    BY <1>1, <1>3, <2>1 DEF Required
  <2>2. CASE ~(Len(queue) < cap) /\ queue # <<>>
    BY <1>1, <1>2, <1>3, <2>2 DEF Required
  <2>3. CASE ~(Len(queue) < cap) /\ queue = <<>>
    <3>1. Tail(queue) = <<>>
      BY <2>3
    <3>2. Clear(<<>>) /\ <<>> \in Seq(DisplayEvent)
      BY EmptyQueue DEF Clear
    <3> QED BY <1>1, <2>3, <3>1, <3>2 DEF Required
  <2> QED BY <2>1, <2>2, <2>3
<1>4. ~IsAnswer(m) /\ Clear(queue) => Clear(Append(queue, m))
  BY AppendQueue DEF Clear
<1>5. Clear(queue) => Once(Append(queue, m))
  BY <1>1
<1>6. Clear(queue) => Once(Required(queue, cap, m))
  BY <1>3
<1>7. ~IsAnswer(m) /\ Once(queue) => Once(Append(queue, m))
  <2>1. /\ Len(Append(queue, m)) = Len(queue) + 1 /\ Len(queue) \in Nat
        /\ \A i \in 1 .. Len(queue) : Append(queue, m)[i] = queue[i]
        /\ Append(queue, m)[Len(queue) + 1] = m
    OBVIOUS
  <2> QED BY <2>1 DEF Once
<1> QED BY <1>4, <1>5, <1>6, <1>7

LEMMA AnswerLeaves ==
  ASSUME NEW queue \in Seq(DisplayEvent), queue # <<>>
  PROVE  /\ Clear(queue) => Clear(Tail(queue)) /\ ~IsAnswer(Head(queue))
         /\ Once(queue) => Once(Tail(queue))
         /\ Once(queue) /\ IsAnswer(Head(queue)) => Clear(Tail(queue))
<1> DEFINE rest == Tail(queue)
<1>1. /\ Len(rest) = Len(queue) - 1 /\ Len(queue) \in Nat \ {0}
      /\ \A i \in 1 .. Len(rest) : rest[i] = queue[i + 1] /\ i + 1 \in 1 .. Len(queue) /\ i + 1 # 1
      /\ Head(queue) = queue[1]
  OBVIOUS
<1> HIDE DEF rest
<1>2. Once(queue) => Once(rest)
  BY <1>1 DEF Once
<1>3. Once(queue) /\ IsAnswer(queue[1]) => Clear(rest)
  <2> SUFFICES ASSUME Once(queue), IsAnswer(queue[1]), NEW i \in 1 .. Len(rest), IsAnswer(rest[i])
               PROVE  FALSE
    BY DEF Clear, Elements
  <2>1. IsAnswer(queue[i + 1]) /\ i + 1 \in 1 .. Len(queue) /\ i + 1 # 1 /\ 1 \in 1 .. Len(queue)
    BY <1>1
  <2> QED BY <2>1 DEF Once
<1>4. Elements(queue) = {Head(queue)} \union Elements(rest)
  BY TailQueue DEF rest
<1> QED BY <1>1, <1>2, <1>3, <1>4 DEF Clear, rest

LEMMA AppFliesOne ==
  ASSUME Typed, SendsAreFree, NobodySleeps, LoneFlight, App
  PROVE  LoneFlight'
<1>1. AppRender /\ displayE \in Seq(DisplayEvent) /\ displayQ \in Seq(DisplayCommand)
  BY AppRenders DEF Typed, TypedChannels
<1>2. PICK flight \in BOOLEAN :
        /\ Leaves(flight) /\ display' = display
        /\ Once(displayE')
        /\ displayQ # <<>> \/ display.phase = "render" \/ ~flight => Clear(displayE')
        /\ ~flight => displayQ = <<>> /\ display.phase # "render"
  <2>1. CASE Leaves(app.rendering) /\ displayE' = displayE
    <3>1. app.rendering \in BOOLEAN
      BY DEF Typed, TypedApp, AppFlags
    <3> QED BY <1>1, <2>1, <3>1 DEF AppRender, LoneFlight
  <2>2. CASE /\ displayE # <<>> /\ displayE' = Tail(displayE)
             /\ Leaves(IF IsAnswer(Head(displayE)) THEN FALSE ELSE app.rendering)
    <3>1. /\ Clear(displayE) => Clear(displayE') /\ ~IsAnswer(Head(displayE))
          /\ Once(displayE')
          /\ IsAnswer(Head(displayE)) => Clear(displayE')
      BY <1>1, <2>2, AnswerLeaves DEF LoneFlight
    <3>2. CASE IsAnswer(Head(displayE))
      BY <1>1, <2>2, <3>1, <3>2 DEF AppRender, LoneFlight
    <3>3. CASE ~IsAnswer(Head(displayE))
      <4>1. app.rendering \in BOOLEAN
        BY DEF Typed, TypedApp, AppFlags
      <4> QED BY <1>1, <2>2, <3>1, <3>3, <4>1 DEF AppRender, LoneFlight
    <3> QED BY <3>2, <3>3
  <2> QED BY <1>1, <2>1, <2>2 DEF AppRender
<1>3. CASE displayQ' = displayQ /\ app'.rendering = flight
  BY <1>2, <1>3 DEF LoneFlight
<1>4. CASE ~flight /\ app'.rendering /\ \E m \in RenderCommand : displayQ' = Append(displayQ, m)
  <2>1. displayQ = <<>> /\ display'.phase # "render" /\ Clear(displayE')
    BY <1>2, <1>4
  <2>2. PICK m \in DisplayCommand : displayQ' = Append(displayQ, m)
    BY <1>4 DEF DisplayCommand
  <2>3. Len(displayQ') = 1
    BY <1>1, <2>1, <2>2, AppendQueue, EmptyQueue
  <2> QED BY <1>2, <1>4, <2>1, <2>3 DEF LoneFlight
<1> QED BY <1>2, <1>3, <1>4 DEF Leaves

LEMMA AppStaysAwake ==
  ASSUME Typed, SendsAreFree, NobodySleeps, App
  PROVE  NobodySleeps'
<1>1. /\ inputs \in Seq(Keys) /\ powerQ \in Seq(PowerEvent) /\ displayQ \in Seq(DisplayCommand)
      /\ Len(powerQ) <= user.power /\ user.power \in Nat /\ "activity" \in PowerEvent
      /\ RenderCommand \subseteq DisplayCommand
  BY UserTyped DEF Typed, TypedChannels, PowerEvent, DisplayCommand
<1>2. PICK flight : Leaves(flight) /\ display' = display
  BY AppRenders DEF AppRender
<1>3. Head(inputs) = "power" => inputs = <<>>
  BY <1>1, TailQueue DEF NobodySleeps
<1>4. "power" \notin Elements(inputs') /\ power' = power
  <2>1. inputs' = inputs \/ (inputs # <<>> /\ inputs' = Tail(inputs))
    BY DEF App, PowerKey, AppKey, AppDisplayEvent, AppLibraryEvent, Resume
  <2>2. power' = power
    BY DEF App, PowerKey, AppKey, AppDisplayEvent, AppLibraryEvent, Resume
  <2> QED BY <1>1, <2>1, <2>2, TailQueue DEF NobodySleeps
<1>5. "sleepNow" \notin Elements(powerQ')
  <2>1. powerQ' = powerQ \/ powerQ' = TrySend(powerQ, user.power, "activity")
    <3>1. CASE PowerKey
      BY <1>3, <3>1 DEF PowerKey
    <3>2. CASE AppKey
      BY <3>2 DEF AppKey, IgnoreKey, TakeKey
    <3>3. CASE Resume
      BY <3>3 DEF Resume, NobodySleeps
    <3> QED BY <3>1, <3>2, <3>3 DEF App, AppDisplayEvent, AppLibraryEvent
  <2>2. Elements(TrySend(powerQ, user.power, "activity")) \subseteq Elements(powerQ) \union {"activity"}
    BY <1>1, TrySendQueue
  <2> QED BY <2>1, <2>2 DEF NobodySleeps
<1>6. Sleep \notin Elements(displayQ')
  <2>1. CASE displayQ' = displayQ
    BY <2>1 DEF NobodySleeps
  <2>2. CASE \E m \in RenderCommand : displayQ' = Append(displayQ, m)
    <3>1. PICK m \in RenderCommand : displayQ' = Append(displayQ, m)
      BY <2>2
    <3>2. Elements(Append(displayQ, m)) = Elements(displayQ) \union {m} /\ m # Sleep
      BY <1>1, <3>1, AppendQueue DEF RenderCommand, Sleep
    <3> QED BY <3>1, <3>2 DEF NobodySleeps
  <2> QED BY <1>2, <2>1, <2>2 DEF Leaves
<1>7. blocked' # None => blocked'.on # "power"
  BY <1>2, <1>3 DEF Leaves
<1> QED BY <1>2, <1>4, <1>5, <1>6, <1>7 DEF NobodySleeps

LEMMA DisplayStaysAwake ==
  ASSUME Typed, NobodySleeps, LoneFlight, Display
  PROVE  NobodySleeps' /\ LoneFlight'
<1>1. /\ powerQ \in Seq(PowerEvent) /\ displayQ \in Seq(DisplayCommand)
      /\ Len(powerQ) <= user.power /\ user.power \in Nat
      /\ displayE \in Seq(DisplayEvent) /\ LoadedBook \subseteq DisplayEvent
  BY UserTyped DEF Typed, TypedChannels, DisplayEvent
<1>2. inputs' = inputs /\ power' = power /\ app' = app /\ blocked' = blocked
  BY DEF Display, DisplayReady, StartRender, FinishRender, StartSleep, FinishSleep, TakeStorage,
         FinishPlate, channels, appVars
<1>3. CASE StartRender
  <2>1. /\ displayQ # <<>> /\ displayQ' = Tail(displayQ) /\ displayE' = displayE /\ powerQ' = powerQ
        /\ display'.phase = "render"
    BY <1>3 DEF StartRender, Waiting
  <2>2. Tail(displayQ) \in Seq(DisplayCommand) /\ Len(Tail(displayQ)) = Len(displayQ) - 1
    BY <1>1, <2>1, TailQueue
  <2>3. Len(displayQ) = 1 /\ displayQ' = <<>>
    BY <1>1, <2>1, <2>2, TailQueue DEF LoneFlight
  <2>4. Sleep \notin Elements(displayQ') /\ Len(displayQ') = 0
    BY <2>3, EmptyQueue
  <2>5. app.rendering /\ Clear(displayE) /\ Once(displayE)
    BY <2>1 DEF LoneFlight
  <2>6. NobodySleeps'
    BY <1>2, <2>1, <2>4 DEF NobodySleeps
  <2>7. LoneFlight'
    <3>1. Clear(displayE') /\ Once(displayE') /\ app'.rendering
      BY <1>2, <2>1, <2>5
    <3>2. Len(displayQ') <= 1 /\ displayQ' = <<>>
      BY <2>3, <2>4
    <3> QED BY <3>1, <3>2 DEF LoneFlight
  <2> QED BY <2>6, <2>7
<1>4. CASE StartSleep
  BY <1>1, <1>4, TailQueue DEF StartSleep, NobodySleeps
<1>5. CASE FinishSleep
  BY <1>5 DEF FinishSleep, NobodySleeps
<1>6. CASE FinishRender
  <2>1. PICK m \in DisplayEvent : displayE' = Required(displayE, EventCap, m)
    BY <1>6, AnswerTyped DEF FinishRender, RequiredDisplay
  <2>2. displayQ' = displayQ /\ display'.phase = "idle" /\ display.phase = "render"
    BY <1>6 DEF FinishRender, Idle, Waiting
  <2>3. app.rendering /\ displayQ = <<>> /\ Clear(displayE)
    BY <2>2 DEF LoneFlight
  <2>4. Once(displayE')
    BY <1>1, <2>1, <2>3, AnswerArrives
  <2>5. "sleepNow" \notin Elements(powerQ')
    <3>1. PICK e \in {"displaySettled", "displayFailed"} : powerQ' = TrySend(powerQ, user.power, e)
      BY <1>6 DEF FinishRender
    <3>2. e \in PowerEvent
      BY DEF PowerEvent
    <3>3. Elements(TrySend(powerQ, user.power, e)) \subseteq Elements(powerQ) \union {e}
      BY <1>1, <3>2, TrySendQueue
    <3> QED BY <3>1, <3>3 DEF NobodySleeps
  <2> QED BY <1>2, <2>2, <2>3, <2>4, <2>5 DEF NobodySleeps, LoneFlight
<1>7. CASE TakeStorage \/ FinishPlate
  <2>1. /\ OnlyLoaded /\ displayQ' = displayQ
        /\ display.phase \in {"idle", "plate"} /\ display'.phase \in {"idle", "plate"}
    BY <1>7, ServesQuietly
  <2>2. powerQ' = powerQ
    BY <1>7 DEF TakeStorage, FinishPlate
  <2>3. (Clear(displayE) => Clear(displayE')) /\ Once(displayE')
    <3>1. CASE displayE' = displayE
      BY <3>1 DEF LoneFlight
    <3>2. CASE \E e \in LoadedBook : displayE' = Append(displayE, e)
      <4>1. PICK e \in LoadedBook : displayE' = Append(displayE, e)
        BY <3>2
      <4>2. e \in DisplayEvent /\ ~IsAnswer(e)
        BY <1>1 DEF LoadedBook, IsAnswer
      <4>3. Once(displayE)
        BY DEF LoneFlight
      <4>4. Clear(displayE) => Clear(Append(displayE, e))
        BY <1>1, <4>2, AnswerArrives
      <4>5. Once(Append(displayE, e))
        BY <1>1, <4>2, <4>3, AnswerArrives
      <4> QED BY <4>1, <4>4, <4>5
    <3> QED BY <2>1, <3>1, <3>2 DEF OnlyLoaded
  <2> QED BY <1>2, <2>1, <2>2, <2>3 DEF NobodySleeps, LoneFlight
<1>8. CASE DisplayReady
  BY <1>2, <1>8 DEF DisplayReady, channels, Idle, Waiting, NobodySleeps, LoneFlight
<1> QED BY <1>3, <1>4, <1>5, <1>6, <1>7, <1>8 DEF Display

LEMMA PowerStaysAwake ==
  ASSUME Typed, NobodySleeps, LoneFlight, Power
  PROVE  NobodySleeps' /\ LoneFlight'
<1>1. PowerAwake /\ powerQ # <<>> /\ powerQ' = Tail(powerQ)
  BY DEF Power, Ask, Handshake, PowerAwake, NobodySleeps
<1>2. Elements(powerQ) = {Head(powerQ)} \union Elements(Tail(powerQ))
  BY <1>1, TailQueue DEF Typed, TypedChannels
<1>3. displayQ' = displayQ /\ power' = power
  BY <1>1, <1>2 DEF PowerAwake, NobodySleeps
<1>4. UNCHANGED <<inputs, displayE, app, blocked, display>>
  BY <1>1 DEF PowerAwake, appVars, dispVars
<1> QED BY <1>1, <1>2, <1>3, <1>4 DEF NobodySleeps, LoneFlight

LEMMA PromptStaysAwake ==
  ASSUME Typed, StaysAwake, NobodySleeps, LoneFlight, Prompt
  PROVE  NobodySleeps' /\ LoneFlight'
<1>1. PICK key \in user.keys : Press(key)
  BY DEF Prompt, IdleExpires, Wake, StaysAwake, NobodySleeps
<1>2. /\ inputs \in Seq(Keys) /\ Len(inputs) <= InputCap /\ InputCap \in Nat \ {0} /\ key \in Keys
  BY UserTyped DEF Typed, TypedChannels
<1>3. Elements(Required(inputs, InputCap, key)) \subseteq Elements(inputs) \union {key}
  BY <1>2, RequiredQueue
<1>4. key # "power" /\ inputs' = Required(inputs, InputCap, key)
  BY <1>1 DEF Press, StaysAwake
<1>5. UNCHANGED <<powerQ, power, displayQ, displayE, app, blocked, display>>
  BY <1>1 DEF Press, appVars, dispVars
<1> QED BY <1>3, <1>4, <1>5 DEF NobodySleeps, LoneFlight

FliesAlone == StaysAwake => NobodySleeps /\ LoneFlight

LEMMA NextFliesAlone ==
  ASSUME Typed, SendsAreFree, FliesAlone, [Next]_vars
  PROVE  FliesAlone'
<1> SUFFICES ASSUME StaysAwake, NobodySleeps, LoneFlight PROVE NobodySleeps' /\ LoneFlight'
  <2>1. user' = user
    BY DEF Next, App, Display, Power, Prompt, vars
  <2>2. StaysAwake' => StaysAwake
    BY <2>1 DEF StaysAwake
  <2> QED BY <2>2 DEF FliesAlone
<1>1. CASE UNCHANGED vars
  BY <1>1 DEF vars, channels, appVars, dispVars, NobodySleeps, LoneFlight
<1> QED BY <1>1, AppStaysAwake, AppFliesOne, DisplayStaysAwake, PowerStaysAwake, PromptStaysAwake
        DEF Next

\* A single render command, flush or answer is under way at a time as long as
\* no power key is pressed and the idle time never ends, whatever is evicted,
\* fails or is asked for again.
THEOREM FlightIsAlone == Spec => []OneRenderInFlight
<1>1. Init => FliesAlone
  <2> SUFFICES ASSUME Init PROVE NobodySleeps /\ LoneFlight
    BY DEF FliesAlone
  <2>1. Elements(<<>>) = {} /\ Len(<<>>) = 0
    BY DEF Elements
  <2> QED BY <2>1 DEF Init, AppAtBoot, DisplayAtBoot, NobodySleeps, LoneFlight, Clear, Once
<1>2. Init => Typed /\ SendsAreFree
  BY InitTyped DEF Init, SendsAreFree
<1>3. Typed /\ SendsAreFree /\ FliesAlone /\ [Next]_vars => (Typed /\ SendsAreFree /\ FliesAlone)'
  BY NextTyped, SendsStayFree, NextFliesAlone
<1>4. Typed /\ FliesAlone => OneRenderInFlight
  <2> SUFFICES ASSUME Typed, LoneFlight, NEW i \in 1 .. Len(displayQ), NEW j \in 1 .. Len(displayQ)
               PROVE  display.phase # "render" /\ i = j
    BY DEF FliesAlone, OneRenderInFlight
  <2>1. Len(displayQ) \in Nat /\ Len(displayQ) <= 1
    BY DEF Typed, TypedChannels, LoneFlight
  <2> QED BY <2>1, EmptyQueue DEF LoneFlight
<1> QED BY <1>1, <1>2, <1>3, <1>4, PTL DEF Spec
-----------------------------------------------------------------------------
(* Commands on their way from the app to the card.                         *)

\* A command that the app has not handed over yet.
HeldBack == {app.pending} \union (IF blocked # None /\ blocked.on = "storage" THEN {blocked.m} ELSE {})
RecordFor(r) == [kind |-> "progress", req |-> 0, book |-> r.book, page |-> r.page]

LEMMA UnfinishedParts == Unfinished = Elements(storageQ) \union {display.cmd} \union HeldBack
  BY DEF Unfinished, HeldBack

\* What the end of a turn keeps of the flags it was given.
LEMMA PaintKeeps ==
  ASSUME NEW a \in AppFlags, NEW kind,
         Paint(a, kind) \/ PaintEvent(a) \/ NoPaint(a) \/ AfterSettled(a)
  PROVE  /\ app'.pending = a.pending /\ app'.opening = a.opening /\ app'.orphaned = a.orphaned
         /\ app'.suppress = a.suppress \/ (AfterSettled(a) /\ a.opening = None)
         /\ app'.listed = a.listed
         /\ blocked' # None => blocked'.on = "display"
<1> DEFINE Same(b) == /\ b \in AppFlags /\ b.pending = a.pending /\ b.opening = a.opening
                      /\ b.orphaned = a.orphaned /\ b.listed = a.listed
<1>1. ASSUME NEW b \in AppFlags, NEW k, SendRender(b, k) \/ NoPaint(b)
      PROVE  /\ app'.pending = b.pending /\ app'.opening = b.opening /\ app'.orphaned = b.orphaned
             /\ app'.suppress = b.suppress /\ app'.listed = b.listed
             /\ blocked' # None => blocked'.on = "display"
  <2>1. CASE NoPaint(b)
    BY <2>1 DEF NoPaint
  <2>2. CASE SendRender(b, k) /\ Len(displayQ) < user.commands
    <3>1. app' = [b EXCEPT !.rendering = TRUE, !.again = FALSE] /\ blocked' = None
      BY <2>2 DEF SendRender
    <3> QED BY <3>1 DEF AppFlags
  <2>3. CASE SendRender(b, k) /\ ~(Len(displayQ) < user.commands)
    BY <2>3 DEF SendRender
  <2> QED BY <1>1, <2>1, <2>2, <2>3
<1>2. /\ Same([a EXCEPT !.again = TRUE]) /\ [a EXCEPT !.again = TRUE].suppress = a.suppress
      /\ Same([a EXCEPT !.boot = FALSE]) /\ [a EXCEPT !.boot = FALSE].suppress = a.suppress
      /\ Same([a EXCEPT !.suppress = FALSE, !.block = TRUE]) /\ Same(a)
  BY DEF AppFlags
<1>3. CASE Paint(a, kind)
  BY <1>1, <1>2, <1>3 DEF Paint
<1>4. CASE PaintEvent(a)
  BY <1>1, <1>2, <1>4 DEF PaintEvent
<1>5. CASE NoPaint(a)
  BY <1>1, <1>2, <1>5
<1>6. CASE AfterSettled(a)
  <2>1. CASE a.again \/ ~(a.suppress /\ a.opening = None)
    BY <1>1, <1>2, <1>6, <2>1 DEF AfterSettled
  <2>2. CASE ~a.again /\ a.suppress /\ a.opening = None
    <3>1. NoPaint([a EXCEPT !.suppress = FALSE, !.block = TRUE])
      BY <1>6, <2>2 DEF AfterSettled
    <3> QED BY <1>1, <1>2, <1>6, <2>2, <3>1
  <2> QED BY <2>1, <2>2
<1> QED BY <1>3, <1>4, <1>5, <1>6

\* A key that is taken asks for at most one command of the reader and one record
\* of the new place, which go to the storage queue, or to the app's own hand.
KeyStep(sent, queued, moved) ==
  LET cmd == CommandFor(reader')
      queue == IF sent THEN Append(storageQ, cmd) ELSE storageQ
      held  == cmd # None /\ ~sent
  IN  /\ moved <=> PlaceOf(reader') # PlaceOf(reader)
      /\ sent => cmd # None
      /\ held => Len(storageQ) >= user.storage
      /\ queued => moved
      /\ moved /\ ~queued => Len(queue) >= user.storage
      /\ storageQ' = IF queued THEN Append(queue, RecordFor(reader')) ELSE queue
      /\ \/ held /\ app'.pending = cmd
         \/ /\ ~held /\ app'.pending = app.pending
            /\ moved /\ ~queued => app.pending # None
         \/ /\ ~held /\ app.pending = None /\ app'.pending = RecordFor(reader')
            /\ moved /\ ~queued
      /\ turned' = IF moved THEN PlaceOf(reader') ELSE turned
KeyEffect == \E sent, queued, moved \in BOOLEAN : KeyStep(sent, queued, moved)

\* Only the chapter list, which must be loaded first, is not painted at once.
KeyPaint ==
  \E a \in AppFlags :
    /\ a.rendering = app.rendering /\ a.boot = app.boot
    /\ \/ Paint(a, "page")
       \/ NoPaint(a) /\ CommandFor(reader') # None /\ CommandFor(reader').kind = "chapters"

KeyOpens == CommandFor(reader') # None /\ CommandFor(reader').kind = "open"

LEMMA KeyTaken ==
  ASSUME Typed, NEW key, NEW block \in BOOLEAN, TakeKey(key, block)
  PROVE  /\ reader' \in Frame /\ reader' \in AfterKey(key)
         /\ CommandFor(reader') \in ReaderCommand \union {None} /\ RecordFor(reader') \in ProgressCommand
         /\ latest' = IF CommandFor(reader') = None THEN latest ELSE latest + 1
         /\ CommandFor(reader') # None => CommandFor(reader').req = latest + 1
         /\ app.opening = None /\ ~app.suppress /\ app'.orphaned = app.orphaned
         /\ app'.opening = IF KeyOpens THEN CommandFor(reader').book ELSE None
         /\ app'.suppress = KeyOpens
         /\ KeyEffect /\ KeyPaint
         /\ blocked' # None => blocked'.on = "display"
<1> DEFINE cmd    == CommandFor(reader')
           sent   == cmd # None /\ Len(storageQ) < user.storage
           queue  == IF sent THEN Append(storageQ, cmd) ELSE storageQ
           held   == IF cmd # None /\ ~sent THEN cmd ELSE app.pending
           open   == cmd # None /\ cmd.kind = "open"
           moved  == PlaceOf(reader') # PlaceOf(reader)
           record == [kind |-> "progress", req |-> 0, book |-> reader'.book, page |-> reader'.page]
           lost   == moved /\ Len(queue) = user.storage
           newPending == IF lost /\ held = None THEN record ELSE held
           newOpening == IF open THEN cmd.book ELSE app.opening
           newSuppress == app.suppress \/ open
           a      == [app EXCEPT !.block = block, !.pending = newPending,
                                 !.opening = newOpening, !.suppress = newSuppress]
<1>1. /\ reader' \in AfterKey(key)
      /\ latest' = IF cmd = None THEN latest ELSE latest + 1
      /\ storageQ' = IF moved THEN TrySend(queue, user.storage, record) ELSE queue
      /\ turned' = IF moved THEN PlaceOf(reader') ELSE turned
      /\ \/ NoPaint([a EXCEPT !.again = FALSE]) /\ cmd # None /\ cmd.kind = "chapters"
         \/ Paint(a, "page")
      /\ app.opening = None /\ ~app.suppress
  BY DEF TakeKey, Ignored
<1>2. reader' \in Frame
  BY <1>1, AfterKeyTyped
<1>3. cmd \in ReaderCommand \union {None} /\ (cmd # None => cmd.req = latest + 1)
  BY <1>2, CommandTyped DEF CommandFor
<1>4. record \in ProgressCommand
  BY <1>2 DEF ProgressCommand, Frame
<1>5. app \in AppFlags /\ storageQ \in Seq(StorageCommand) /\ Len(storageQ) <= user.storage
      /\ Len(storageQ) \in Nat /\ user.storage \in Nat
  BY UserTyped DEF Typed, TypedApp, TypedChannels
<1>6. newPending \in AppCommand \union {None} /\ newOpening \in Books \union {None}
      /\ newSuppress \in BOOLEAN
  BY <1>3, <1>4, <1>5 DEF AppFlags, AppCommand, ReaderCommand
<1> HIDE DEF cmd, record, newPending, newOpening, newSuppress
<1>7. /\ a \in AppFlags /\ [a EXCEPT !.again = FALSE] \in AppFlags
      /\ a.pending = newPending /\ a.opening = newOpening /\ a.suppress = newSuppress
      /\ a.orphaned = app.orphaned /\ a.rendering = app.rendering /\ a.boot = app.boot
      /\ [a EXCEPT !.again = FALSE].rendering = app.rendering
      /\ [a EXCEPT !.again = FALSE].boot = app.boot
      /\ [a EXCEPT !.again = FALSE].pending = newPending
      /\ [a EXCEPT !.again = FALSE].opening = newOpening
      /\ [a EXCEPT !.again = FALSE].suppress = newSuppress
      /\ [a EXCEPT !.again = FALSE].orphaned = app.orphaned
  BY <1>5, <1>6 DEF AppFlags
<1> HIDE DEF a
<1>8. /\ app'.pending = newPending /\ app'.opening = newOpening /\ app'.orphaned = app.orphaned
      /\ app'.suppress = newSuppress
      /\ blocked' # None => blocked'.on = "display"
  <2>1. CASE NoPaint([a EXCEPT !.again = FALSE])
    BY <1>7, <2>1 DEF NoPaint
  <2>2. CASE Paint(a, "page")
    <3>1. ASSUME NEW b \in AppFlags, SendRender(b, "page") \/ NoPaint(b)
          PROVE  app'.suppress = b.suppress
      BY <3>1 DEF SendRender, NoPaint, AppFlags
    <3>2. [a EXCEPT !.again = TRUE] \in AppFlags /\ [a EXCEPT !.again = TRUE].suppress = a.suppress
      BY <1>7 DEF AppFlags
    <3>3. app'.suppress = newSuppress
      BY <1>7, <2>2, <3>1, <3>2 DEF Paint
    <3> QED BY <1>7, <2>2, <3>3, PaintKeeps
  <2> QED BY <1>1, <2>1, <2>2
<1>9. Len(queue) \in Nat /\ Len(queue) <= user.storage
  <2>1. sent => Len(Append(storageQ, cmd)) = Len(storageQ) + 1
    BY <1>3, <1>5, AppendQueue DEF StorageCommand, AppCommand
  <2> QED BY <1>5, <2>1
<1>10. KeyEffect
  <2> DEFINE queued == moved /\ Len(queue) < user.storage
  <2>1. storageQ' = IF queued THEN Append(queue, record) ELSE queue
    BY <1>1 DEF TrySend
  <2>2. cmd # None /\ ~sent => Len(storageQ) >= user.storage
    BY <1>5
  <2>3. \/ cmd # None /\ ~sent /\ app'.pending = cmd
        \/ ~(cmd # None /\ ~sent) /\ app'.pending = IF lost /\ app.pending = None THEN record ELSE app.pending
    BY <1>3, <1>8 DEF newPending
  <2> HIDE DEF queue, sent
  <2>4. moved /\ ~queued <=> lost
    BY <1>5, <1>9
  <2>5. lost => Len(queue) >= user.storage
    BY <1>5
  <2>6. record = RecordFor(reader') /\ cmd = CommandFor(reader')
    BY DEF record, RecordFor, cmd
  <2>7. sent \in BOOLEAN /\ queued \in BOOLEAN /\ moved \in BOOLEAN
    BY DEF sent
  <2>8. queue = (IF sent THEN Append(storageQ, cmd) ELSE storageQ) /\ (sent => cmd # None)
    BY DEF queue, sent
  <2> HIDE DEF queued, lost
  <2>9. KeyStep(sent, queued, moved)
    BY <1>1, <2>1, <2>2, <2>3, <2>4, <2>5, <2>6, <2>8 DEF KeyStep, queued
  <2> QED BY <2>7, <2>9 DEF KeyEffect
<1>11. app'.suppress = KeyOpens /\ app'.opening = IF KeyOpens THEN cmd.book ELSE None
  BY <1>1, <1>5, <1>8 DEF newSuppress, newOpening, KeyOpens, cmd, AppFlags
<1>12. record = RecordFor(reader')
  BY DEF record, RecordFor
<1>13. KeyPaint
  BY <1>1, <1>7 DEF KeyPaint, cmd
<1> QED BY <1>1, <1>2, <1>3, <1>4, <1>8, <1>10, <1>11, <1>12, <1>13 DEF cmd
-----------------------------------------------------------------------------
(* The other turns of the app. *)

HeldAlone == blocked # None /\ blocked.on = "storage" => app.pending = None
OpenHeld ==
  ~app.orphaned /\ app.pending # None /\ app.pending.kind = "open"
    => app.suppress /\ app.pending.req = latest
Locked == app.opening # None => app.suppress

\* At most one command goes over, and it was held back alone.
HandsOver ==
  \/ storageQ' = storageQ /\ HeldBack' \ {None} = HeldBack \ {None}
  \/ \E c \in AppCommand : /\ c \in HeldBack \ {None} /\ storageQ' = Append(storageQ, c)
                           /\ HeldBack' = {None}

QuietTurn ==
  /\ latest' = latest /\ turned' = turned
  /\ HandsOver
  /\ \/ app'.opening \in {app.opening, None}
     \/ app.pending # None /\ app.pending.kind = "open" /\ app'.opening = app.pending.book
  /\ Locked' /\ OpenHeld' /\ HeldAlone'
  /\ ~app'.orphaned => ~app.orphaned
  /\ \A e \in LoadedEvents : e \in LoadedEvents' \/ app'.opening # e.book

LEMMA LoadedEventBooks ==
  ASSUME Typed
  PROVE  /\ \A e \in LoadedEvents : e \in LoadedBook /\ e.book \in Books /\ e.book # None
         /\ displayE # <<>> => Elements(displayE) = {Head(displayE)} \union Elements(Tail(displayE))
         /\ libraryE # <<>> => Elements(libraryE) = {Head(libraryE)} \union Elements(Tail(libraryE))
<1>1. displayE \in Seq(DisplayEvent) /\ libraryE \in Seq(ReaderEvent)
  BY DEF Typed, TypedChannels
<1>2. Elements(displayE) \subseteq DisplayEvent /\ Elements(libraryE) \subseteq ReaderEvent
  BY <1>1 DEF Elements
<1>3. \A e \in DisplayEvent \union ReaderEvent : e.kind = "loaded" => e \in LoadedBook
  BY DEF DisplayEvent, ReaderEvent, Answer, RestoredPlace, ScannedShelf
<1>4. \A e \in LoadedEvents : e \in LoadedBook
  BY <1>2, <1>3 DEF LoadedEvents
<1>5. \A e \in LoadedBook : e.book \in Books /\ e.book # None
  BY BooksAssumption DEF LoadedBook
<1> QED BY <1>1, <1>4, <1>5, TailQueue

LEMMA HeldQuietly ==
  ASSUME UNCHANGED <<storageQ, latest, turned>>, app'.pending = app.pending, blocked = None,
         HeldAlone, blocked' # None => blocked'.on # "storage"
  PROVE  HandsOver /\ HeldAlone'
  BY DEF HandsOver, HeldBack, HeldAlone

LEMMA PowerKeyQuiet ==
  ASSUME Typed, Locked, OpenHeld, HeldAlone, PowerKey
  PROVE  QuietTurn
<1>1. /\ UNCHANGED <<storageQ, displayE, libraryE, app, latest, turned>> /\ blocked = None
      /\ blocked' # None => blocked'.on = "power"
  BY DEF PowerKey, AppTurn
<1>2. HandsOver /\ HeldAlone'
  BY <1>1, HeldQuietly
<1>3. Locked' /\ OpenHeld' /\ LoadedEvents' = LoadedEvents
  BY <1>1 DEF Locked, OpenHeld, LoadedEvents
<1> QED BY <1>1, <1>2, <1>3 DEF QuietTurn

LEMMA IgnoreKeyQuiet ==
  ASSUME Typed, Locked, OpenHeld, HeldAlone, AppTurn, NEW key, NEW block, IgnoreKey(key, block),
         UNCHANGED <<displayE, libraryE>>
  PROVE  QuietTurn
<1>1. /\ UNCHANGED <<storageQ, blocked, latest, turned>> /\ blocked = None
      /\ app' = [app EXCEPT !.block = block] /\ app \in AppFlags
  BY DEF IgnoreKey, AppTurn, Typed, TypedApp
<1>2. /\ app'.pending = app.pending /\ app'.opening = app.opening /\ app'.suppress = app.suppress
      /\ app'.orphaned = app.orphaned
  BY <1>1 DEF AppFlags
<1>3. HandsOver /\ HeldAlone'
  BY <1>1, <1>2, HeldQuietly
<1>4. Locked' /\ OpenHeld' /\ LoadedEvents' = LoadedEvents
  BY <1>1, <1>2 DEF Locked, OpenHeld, LoadedEvents
<1> QED BY <1>1, <1>2, <1>3, <1>4 DEF QuietTurn

LEMMA SettledQuiet ==
  ASSUME Typed, Locked, OpenHeld, HeldAlone, AppDisplayEvent, Settled
  PROVE  QuietTurn
<1> DEFINE cmd  == app.pending
           open == cmd # None /\ cmd.kind = "open"
           newOpening == IF open THEN cmd.book ELSE app.opening
           newSuppress == app.suppress \/ open
           a    == [app EXCEPT !.rendering = FALSE, !.pending = None, !.opening = newOpening,
                               !.suppress = newSuppress]
<1>1. /\ app \in AppFlags /\ cmd \in AppCommand \union {None} /\ blocked = None
      /\ latest' = latest /\ turned' = turned /\ libraryE' = libraryE
      /\ displayE # <<>> /\ displayE' = Tail(displayE) /\ Head(displayE).kind = "settled"
  BY DEF Typed, TypedApp, AppFlags, AppDisplayEvent, Settled, AppTurn
<1>2. \/ /\ cmd # None /\ blocked' = [on |-> "storage", m |-> cmd] /\ app' = a /\ storageQ' = storageQ
      \/ /\ storageQ' = (IF cmd = None THEN storageQ ELSE Append(storageQ, cmd))
         /\ AfterSettled(a)
  BY DEF Settled
<1>3. newOpening \in Books \union {None} /\ newSuppress \in BOOLEAN /\ app.orphaned \in BOOLEAN
      /\ app.suppress \in BOOLEAN
  BY <1>1 DEF AppFlags, AppCommand, ReaderCommand, ProgressCommand
<1> HIDE DEF newOpening, newSuppress, cmd
<1>4. /\ a \in AppFlags /\ a.pending = None /\ a.opening = newOpening /\ a.suppress = newSuppress
      /\ a.orphaned = app.orphaned
  BY <1>1, <1>3 DEF AppFlags
<1> HIDE DEF a
<1>5. /\ app'.pending = None /\ app'.opening = newOpening /\ app'.orphaned = app.orphaned
      /\ app'.suppress = newSuppress \/ newOpening = None
  BY <1>2, <1>4, PaintKeeps
<1>6. HandsOver /\ HeldAlone'
  <2>1. HeldBack = {cmd}
    BY <1>1 DEF HeldBack, cmd
  <2>2. CASE cmd # None /\ blocked' = [on |-> "storage", m |-> cmd] /\ storageQ' = storageQ
    <3>1. HeldBack' = {None, cmd} \/ blocked' = None
      BY <1>5, <2>2 DEF HeldBack
    <3>2. blocked' # None
      <4>1. cmd \in Command
        BY <1>1, <2>2 DEF cmd, AppCommand, ReaderCommand, ProgressCommand, Command
      <4> QED BY <2>2, <4>1, NoneAssumption
    <3> QED BY <1>5, <2>1, <2>2, <3>1, <3>2 DEF HandsOver, HeldAlone
  <2>3. CASE AfterSettled(a) /\ storageQ' = (IF cmd = None THEN storageQ ELSE Append(storageQ, cmd))
    <3>1. blocked' # None => blocked'.on = "display"
      BY <1>4, <2>3, PaintKeeps
    <3>2. HeldBack' = {None} /\ HeldAlone'
      BY <1>5, <3>1 DEF HeldBack, HeldAlone
    <3> QED BY <1>1, <2>1, <2>3, <3>2 DEF HandsOver
  <2> QED BY <1>2, <2>2, <2>3
<1>7. Locked' /\ OpenHeld'
  BY <1>3, <1>5 DEF Locked, OpenHeld, newOpening, newSuppress
<1>8. LoadedEvents \subseteq LoadedEvents'
  BY <1>1, LoadedEventBooks DEF LoadedEvents
<1> QED BY <1>1, <1>5, <1>6, <1>7, <1>8 DEF QuietTurn, newOpening, cmd

LEMMA FailedQuiet ==
  ASSUME Typed, Locked, OpenHeld, HeldAlone, AppDisplayEvent, DisplayFailed \/ DisplayAsleep
  PROVE  QuietTurn
<1>1. /\ app \in AppFlags /\ blocked = None /\ blocked' = None
      /\ UNCHANGED <<latest, turned, storageQ, libraryE>>
      /\ displayE # <<>> /\ displayE' = Tail(displayE) /\ Head(displayE).kind # "loaded"
  BY DEF Typed, TypedApp, AppDisplayEvent, DisplayFailed, DisplayAsleep, AppTurn, NoPaint
<1>2. /\ app'.pending = app.pending
      /\ \/ /\ app'.opening = app.opening /\ app'.suppress = app.suppress
            /\ app'.orphaned = app.orphaned
         \/ /\ app'.opening = None
            /\ app'.orphaned = (app.orphaned \/ (app.pending # None /\ app.pending.kind = "open"))
  <2>1. CASE DisplayFailed
    BY <1>1, <2>1 DEF DisplayFailed, NoPaint, AppFlags
  <2>2. CASE DisplayAsleep
    <3> DEFINE o == app.orphaned \/ (app.pending # None /\ app.pending.kind = "open")
    <3>1. app' = [app EXCEPT !.rendering = FALSE, !.again = FALSE, !.opening = None,
                             !.suppress = FALSE, !.block = FALSE, !.orphaned = o]
      BY <2>2 DEF DisplayAsleep, NoPaint
    <3> HIDE DEF o
    <3>2. app'.pending = app.pending /\ app'.opening = None /\ app'.orphaned = o
      BY <1>1, <3>1 DEF AppFlags
    <3> QED BY <3>2 DEF o
  <2> QED BY <2>1, <2>2
<1>3. HandsOver /\ HeldAlone'
  BY <1>1, <1>2, HeldQuietly
<1>4. Locked' /\ OpenHeld'
  BY <1>1, <1>2 DEF Locked, OpenHeld
<1>5. LoadedEvents \subseteq LoadedEvents'
  BY <1>1, LoadedEventBooks DEF LoadedEvents
<1> QED BY <1>1, <1>2, <1>3, <1>4, <1>5 DEF QuietTurn

LEMMA LibraryEventQuiet ==
  ASSUME Typed, Locked, OpenHeld, HeldAlone, AppTurn, NEW e \in ReaderEvent, LibraryEvent(e),
         UNCHANGED <<latest, turned>>, LoadedEvents \subseteq LoadedEvents' \union {e}
  PROVE  QuietTurn
<1> DEFINE newOpening == IF e.kind = "loaded" /\ e.book = app.opening THEN None ELSE app.opening
           newListed == app.listed \/ e.kind = "scanned"
           a == [app EXCEPT !.opening = newOpening, !.listed = newListed]
<1>1. app \in AppFlags /\ blocked = None /\ storageQ' = storageQ /\ (PaintEvent(a) \/ NoPaint(a))
  BY DEF Typed, TypedApp, AppTurn, LibraryEvent
<1>2. newOpening \in Books \union {None} /\ newListed \in BOOLEAN
  BY <1>1 DEF AppFlags
<1> HIDE DEF newOpening, newListed
<1>3. /\ a \in AppFlags /\ a.pending = app.pending /\ a.opening = newOpening
      /\ a.suppress = app.suppress /\ a.orphaned = app.orphaned
  BY <1>1, <1>2 DEF AppFlags
<1> HIDE DEF a
<1>4. /\ app'.pending = app.pending /\ app'.opening = newOpening /\ app'.orphaned = app.orphaned
      /\ blocked' # None => blocked'.on = "display"
  BY <1>1, <1>3, PaintKeeps
<1>5. app'.suppress = app.suppress
  <2>1. ASSUME NEW b \in AppFlags, NEW k, SendRender(b, k) \/ NoPaint(b)
        PROVE  app'.suppress = b.suppress
    BY <2>1 DEF SendRender, NoPaint, AppFlags
  <2>2. /\ [a EXCEPT !.again = TRUE] \in AppFlags /\ [a EXCEPT !.again = TRUE].suppress = a.suppress
        /\ [a EXCEPT !.boot = FALSE] \in AppFlags /\ [a EXCEPT !.boot = FALSE].suppress = a.suppress
    BY <1>3 DEF AppFlags
  <2> QED BY <1>1, <1>3, <2>1, <2>2 DEF PaintEvent
<1>6. HandsOver /\ HeldAlone'
  BY <1>1, <1>4, HeldQuietly
<1>7. Locked' /\ OpenHeld'
  BY <1>4, <1>5 DEF Locked, OpenHeld, newOpening
<1>8. \A l \in LoadedEvents : l \in LoadedEvents' \/ app'.opening # l.book
  <2> SUFFICES ASSUME e \in LoadedEvents PROVE app'.opening # e.book
    OBVIOUS
  <2>1. e.kind = "loaded" /\ e.book # None
    BY LoadedEventBooks DEF LoadedEvents
  <2> QED BY <1>4, <2>1 DEF newOpening
<1> QED BY <1>1, <1>4, <1>6, <1>7, <1>8 DEF QuietTurn, newOpening

LEMMA ResumeQuiet ==
  ASSUME Typed, Locked, OpenHeld, HeldAlone, Resume
  PROVE  QuietTurn
<1>1. /\ app \in AppFlags /\ blocked \in Blocked /\ blocked # None
      /\ UNCHANGED <<displayE, libraryE, latest, turned>>
  BY DEF Resume, Typed, TypedApp
<1>2. LoadedEvents' = LoadedEvents
  BY <1>1 DEF LoadedEvents
<1>3. CASE blocked.on = "power" /\ NoPaint(app) /\ storageQ' = storageQ
  <2>1. app' = app /\ blocked' = None
    BY <1>3 DEF NoPaint
  <2>2. HandsOver /\ HeldAlone'
    BY <1>1, <1>3, <2>1 DEF HandsOver, HeldBack, HeldAlone
  <2>3. Locked' /\ OpenHeld'
    BY <1>1, <2>1 DEF Locked, OpenHeld
  <2> QED BY <1>1, <1>2, <2>1, <2>2, <2>3 DEF QuietTurn
<1>4. CASE blocked.on = "display" /\ blocked' = None /\ storageQ' = storageQ
           /\ app' = [app EXCEPT !.rendering = TRUE, !.again = FALSE]
  <2>1. /\ app'.pending = app.pending /\ app'.opening = app.opening
        /\ app'.suppress = app.suppress /\ app'.orphaned = app.orphaned
    BY <1>1, <1>4 DEF AppFlags
  <2>2. HandsOver /\ HeldAlone'
    BY <1>1, <1>4, <2>1 DEF HandsOver, HeldBack, HeldAlone
  <2>3. Locked' /\ OpenHeld'
    BY <1>1, <2>1 DEF Locked, OpenHeld
  <2> QED BY <1>1, <1>2, <2>1, <2>2, <2>3 DEF QuietTurn
<1>5. CASE /\ blocked.on = "storage" /\ storageQ' = Append(storageQ, blocked.m)
           /\ AfterSettled(app)
  <2>1. app.pending = None /\ blocked.m \in AppCommand /\ blocked.m # None
    <3>1. blocked.m \in AppCommand
      BY <1>1, <1>5 DEF Blocked
    <3>2. blocked.m \in Command
      BY <3>1 DEF AppCommand, ReaderCommand, ProgressCommand, Command
    <3> QED BY <1>1, <1>5, <3>1, <3>2, NoneAssumption DEF HeldAlone
  <2>2. /\ app'.pending = app.pending /\ app'.opening = app.opening /\ app'.orphaned = app.orphaned
        /\ app'.suppress = app.suppress \/ app.opening = None
        /\ blocked' # None => blocked'.on = "display"
    BY <1>1, <1>5, PaintKeeps
  <2>3. HandsOver
    <3>1. HeldBack = {None, blocked.m} /\ HeldBack' = {None}
      BY <1>1, <1>5, <2>1, <2>2 DEF HeldBack
    <3> QED BY <1>5, <2>1, <3>1 DEF HandsOver
  <2>4. Locked' /\ OpenHeld' /\ HeldAlone'
    BY <2>1, <2>2 DEF Locked, OpenHeld, HeldAlone
  <2> QED BY <1>1, <1>2, <2>2, <2>3, <2>4 DEF QuietTurn
<1> QED BY <1>1, <1>3, <1>4, <1>5 DEF Resume

\* Every turn of the app takes a key or is a quiet one.
LEMMA AppTurns ==
  ASSUME Typed, Locked, OpenHeld, HeldAlone, App
  PROVE  \/ QuietTurn
         \/ /\ AppKey
            /\ \E block \in BOOLEAN : TakeKey(Head(inputs), block)
<1>1. CASE PowerKey
  BY <1>1, PowerKeyQuiet
<1>2. CASE AppKey
  <2>1. PICK block \in Blocks : IgnoreKey(Head(inputs), block) \/ TakeKey(Head(inputs), block)
    BY <1>2 DEF AppKey
  <2>2. block \in BOOLEAN
    BY DEF Blocks, Typed, TypedApp, AppFlags
  <2>3. AppTurn /\ UNCHANGED <<displayE, libraryE>>
    BY <1>2 DEF AppKey
  <2> QED BY <1>2, <2>1, <2>2, <2>3, IgnoreKeyQuiet
<1>3. CASE AppDisplayEvent
  <2>1. CASE Head(displayE).kind = "loaded" /\ LibraryEvent(Head(displayE)) /\ UNCHANGED libraryE
    <3>1. /\ AppTurn /\ displayE # <<>> /\ displayE' = Tail(displayE)
          /\ UNCHANGED <<latest, turned>>
      BY <1>3 DEF AppDisplayEvent
    <3>2. Head(displayE) \in ReaderEvent
      <4>1. Head(displayE) \in DisplayEvent
        BY <3>1, TailQueue DEF Typed, TypedChannels
      <4> QED BY <2>1, <4>1 DEF DisplayEvent, ReaderEvent, Answer
    <3>3. LoadedEvents \subseteq LoadedEvents' \union {Head(displayE)}
      BY <2>1, <3>1, LoadedEventBooks DEF LoadedEvents
    <3> QED BY <2>1, <3>1, <3>2, <3>3, LibraryEventQuiet
  <2> QED BY <1>3, <2>1, SettledQuiet, FailedQuiet DEF AppDisplayEvent
<1>4. CASE AppLibraryEvent
  <2>1. /\ AppTurn /\ libraryE # <<>> /\ libraryE' = Tail(libraryE) /\ displayE' = displayE
        /\ UNCHANGED <<latest, turned>> /\ LibraryEvent(Head(libraryE))
    BY <1>4 DEF AppLibraryEvent
  <2>2. Head(libraryE) \in ReaderEvent
    BY <2>1, TailQueue DEF Typed, TypedChannels
  <2>3. LoadedEvents \subseteq LoadedEvents' \union {Head(libraryE)}
    BY <2>1, LoadedEventBooks DEF LoadedEvents
  <2> QED BY <2>1, <2>2, <2>3, LibraryEventQuiet
<1>5. CASE Resume
  BY <1>5, ResumeQuiet
<1> QED BY <1>1, <1>2, <1>3, <1>4, <1>5 DEF App
-----------------------------------------------------------------------------
(* A request that is served sends its Loaded event.                        *)

\* What makes room for one more message does not drop the one just sent.
LEMMA RequiredTwice ==
  ASSUME NEW S, NEW queue \in Seq(S), NEW m \in S, NEW n \in S, NEW cap \in Nat \ {0, 1},
         Len(queue) <= cap
  PROVE  m \in Elements(Required(Required(queue, cap, m), cap, n))
<1> DEFINE after == Required(queue, cap, m)
<1>1. \E left \in Seq(S) : after = Append(left, m)
  <2>1. CASE Len(queue) < cap
    BY <2>1 DEF Required
  <2>2. CASE ~(Len(queue) < cap)
    <3>1. queue # <<>>
      BY <2>2
    <3> QED BY <2>2, <3>1, TailQueue DEF Required
  <2> QED BY <2>1, <2>2
<1>2. after \in Seq(S) /\ Len(after) <= cap /\ m \in Elements(after)
  BY RequiredQueue
<1> HIDE DEF after
<1>3. Len(after) < cap => m \in Elements(Required(after, cap, n))
  BY <1>2, AppendQueue DEF Required
<1>4. ASSUME ~(Len(after) < cap) PROVE m \in Elements(Required(after, cap, n))
  <2>1. PICK left \in Seq(S) : after = Append(left, m)
    BY <1>1
  <2>2. Len(after) = cap
    BY <1>2, <1>4
  <2>3. Len(Append(left, m)) = Len(left) + 1 /\ Append(left, m)[Len(left) + 1] = m /\ Len(left) \in Nat
    OBVIOUS
  <2>4. Len(left) + 1 = cap
    BY <2>1, <2>2, <2>3
  <2> DEFINE rest == Tail(after)
  <2>5. /\ rest \in Seq(S) /\ Len(rest) = Len(after) - 1
        /\ \A i \in 1 .. Len(after) - 1 : rest[i] = after[i + 1]
    <3>1. after # <<>>
      BY <2>2, EmptyQueue
    <3> QED BY <1>2, <3>1
  <2> HIDE DEF rest
  <2>6. Len(left) \in 1 .. Len(rest) /\ rest[Len(left)] = m
    BY <2>1, <2>2, <2>3, <2>4, <2>5
  <2>7. m \in Elements(rest)
    BY <2>6 DEF Elements
  <2>8. m \in Elements(Append(rest, n))
    BY <2>5, <2>7, AppendQueue
  <2> QED BY <1>4, <2>8 DEF Required, rest
<1> QED BY <1>3, <1>4 DEF after

LEMMA LoadedSent ==
  ASSUME Typed, NEW loaded \in LoadedBook, NEW resume \in RestoredPlace \union {None},
         SendLoaded(loaded, resume)
  PROVE  loaded \in LoadedEvents'
<1> DEFINE direct == Len(displayE) < EventCap
           after  == IF direct THEN libraryE ELSE Required(libraryE, LibraryCap, loaded)
<1>1. /\ displayE \in Seq(DisplayEvent) /\ libraryE \in Seq(ReaderEvent) /\ Len(libraryE) <= LibraryCap
      /\ loaded \in DisplayEvent /\ loaded \in ReaderEvent /\ loaded.kind = "loaded"
      /\ LibraryCap \in Nat \ {0, 1}
  BY CapsAssumption DEF Typed, TypedChannels, DisplayEvent, ReaderEvent, LoadedBook
<1>2. CASE direct
  <2>1. loaded \in Elements(displayE')
    BY <1>1, <1>2, AppendQueue DEF SendLoaded
  <2> QED BY <1>1, <2>1 DEF LoadedEvents
<1>3. CASE ~direct
  <2>1. libraryE' = IF resume = None THEN after ELSE Required(after, LibraryCap, resume)
    BY DEF SendLoaded
  <2>2. loaded \in Elements(libraryE')
    <3>1. CASE resume = None
      BY <1>1, <1>3, <2>1, <3>1, RequiredQueue
    <3>2. CASE resume # None
      <4>1. resume \in ReaderEvent
        BY <3>2 DEF ReaderEvent
      <4>2. loaded \in Elements(Required(Required(libraryE, LibraryCap, loaded), LibraryCap, resume))
        BY <1>1, <4>1, RequiredTwice
      <4> QED BY <1>3, <2>1, <3>2, <4>2
    <3> QED BY <3>1, <3>2
  <2> QED BY <1>1, <2>2 DEF LoadedEvents
<1> QED BY <1>2, <1>3

\* A command of the reader that carries the latest request is served, and what
\* it sends begins with its book's Loaded event.
LEMMA LatestServed ==
  ASSUME Typed, NEW cmd \in ReaderCommand, HandleStorage(cmd), cmd.req = latest
  PROVE  /\ \E resume \in RestoredPlace \union {None} : SendLoaded(LoadedEvent(cmd.book), resume)
         /\ LoadedEvent(cmd.book) \in LoadedBook /\ LoadedEvent(cmd.book) \in LoadedEvents'
         /\ LoadedEvent(cmd.book).book = cmd.book
         /\ cmd.kind \in {"open", "extend", "jump"} => store'.loaded = cmd.book
         /\ progress' = progress /\ card' = card
<1>1. cmd.book \in Books /\ cmd.page \in Page /\ card.pos[cmd.book] \in Page
      /\ cmd.kind \in {"open", "extend", "chapters", "jump"}
  BY DEF ReaderCommand, Typed, TypedDisplay
<1>2. OpenOrExtend(cmd) \/ LoadChapters(cmd) \/ JumpChapter(cmd)
  BY <1>1 DEF HandleStorage, SkipStale, LoadCatalog, StoreProgress
<1>3. PICK resume \in RestoredPlace \union {None} : SendLoaded(LoadedEvent(cmd.book), resume)
  BY <1>1, <1>2, ReaderEventsTyped DEF OpenOrExtend, LoadChapters, JumpChapter
<1>4. LoadedEvent(cmd.book) \in LoadedBook
  BY <1>1, ReaderEventsTyped
<1>5. LoadedEvent(cmd.book) \in LoadedEvents'
  BY <1>3, <1>4, LoadedSent
<1>6. cmd.kind \in {"open", "extend", "jump"} => store'.loaded = cmd.book
  BY <1>2 DEF OpenOrExtend, LoadChapters, JumpChapter, Typed, TypedDisplay
<1>7. progress' = progress /\ card' = card
  BY <1>2 DEF OpenOrExtend, LoadChapters, JumpChapter
<1> QED BY <1>3, <1>4, <1>5, <1>6, <1>7 DEF LoadedEvent, Event
-----------------------------------------------------------------------------
(* The steps of the display task, by what they do to the commands.         *)

\* A command is taken from the storage queue: it waits behind a plate, is served,
\* or is put back as a refresh.
TakesCommand(cmd) ==
  /\ display.phase = "idle" /\ display.cmd = None /\ displayQ = <<>>
  /\ storageQ # <<>> /\ cmd = Head(storageQ) /\ cmd \in StorageCommand
  /\ \/ /\ storageQ' = Tail(storageQ) /\ display' = [phase |-> "plate", cmd |-> cmd]
        /\ cmd \in ReaderCommand /\ UNCHANGED <<displayE, libraryE, store, progress, card>>
     \/ storageQ' = Tail(storageQ) /\ HandleStorage(cmd) /\ display' = [phase |-> "idle", cmd |-> None]
     \/ /\ storageQ' = TrySend(Tail(storageQ), user.storage, StorageWork("refresh"))
        /\ display' = [phase |-> "idle", cmd |-> None] /\ cmd \in CatalogCommand
        /\ UNCHANGED <<displayE, libraryE, store, progress, card>>

EndsPlate ==
  /\ display.phase = "plate" /\ display.cmd \in ReaderCommand /\ storageQ' = storageQ
  /\ HandleStorage(display.cmd) /\ display' = [phase |-> "idle", cmd |-> None]

\* The other steps leave the commands alone.
LeavesCommands ==
  /\ storageQ' = storageQ /\ store'.loaded = store.loaded
  /\ display.cmd \in RenderCommand \union {None} /\ display'.cmd \in RenderCommand \union {None}
  /\ display'.phase # "plate" /\ display.phase # "plate"

LEMMA DisplaySteps ==
  ASSUME Typed, Display
  PROVE  /\ UNCHANGED <<user, inputs, appVars>>
         /\ \/ TakeStorage /\ TakesCommand(Head(storageQ))
            \/ FinishPlate /\ EndsPlate
            \/ ~TakeStorage /\ ~FinishPlate /\ LeavesCommands
<1>1. UNCHANGED <<user, inputs, appVars>>
  BY DEF Display, DisplayReady, StartRender, FinishRender, StartSleep, FinishSleep, TakeStorage,
         FinishPlate, channels
<1>2. display \in DisplayState
  BY DEF Typed, TypedDisplay
<1>3. CASE TakeStorage
  <2>1. display.phase = "idle" /\ display.cmd = None /\ displayQ = <<>> /\ storageQ # <<>>
    BY <1>2, <1>3 DEF TakeStorage, DisplayTurn, DisplayState
  <2>2. Head(storageQ) \in StorageCommand
    BY <2>1, TailQueue DEF Typed, TypedChannels
  <2>3. /\ Head(storageQ).kind \in {"open", "extend"} => Head(storageQ) \in ReaderCommand
        /\ Head(storageQ).kind = "catalog" => Head(storageQ) \in CatalogCommand
    BY <2>2 DEF StorageCommand, AppCommand, ReaderCommand, ProgressCommand, CatalogCommand
  <2> QED BY <1>1, <1>3, <2>1, <2>2, <2>3
          DEF TakeStorage, TakesCommand, Waiting, Idle, HandleStorage, MayPlate
<1>4. CASE FinishPlate
  BY <1>1, <1>2, <1>4 DEF FinishPlate, EndsPlate, HandleStorage, Idle, Waiting, DisplayState
<1>5. CASE ~TakeStorage /\ ~FinishPlate
  <2>1. ASSUME DisplayReady PROVE LeavesCommands
    BY <1>2, <2>1 DEF DisplayReady, LeavesCommands, channels, Idle, Waiting, DisplayState
  <2>2. ASSUME StartRender PROVE LeavesCommands
    <3>1. Head(displayQ) \in RenderCommand
      BY <2>2, TailQueue DEF StartRender, Typed, TypedChannels, DisplayCommand
    <3>2. store'.loaded = store.loaded
      BY <2>2 DEF StartRender, WithEntries, Typed, TypedDisplay
    <3> QED BY <1>2, <2>2, <3>1, <3>2 DEF StartRender, LeavesCommands, Waiting, DisplayTurn, DisplayState
  <2>3. ASSUME FinishRender PROVE LeavesCommands
    BY <1>2, <2>3 DEF FinishRender, LeavesCommands, Idle, Waiting, DisplayState
  <2>4. ASSUME StartSleep PROVE LeavesCommands
    BY <1>2, <2>4 DEF StartSleep, LeavesCommands, Waiting, DisplayTurn, DisplayState
  <2>5. ASSUME FinishSleep PROVE LeavesCommands
    BY <1>2, <2>5 DEF FinishSleep, LeavesCommands, Idle, Waiting, DisplayState
  <2> QED BY <1>1, <1>5, <2>1, <2>2, <2>3, <2>4, <2>5 DEF Display
<1> QED BY <1>3, <1>4, <1>5
-----------------------------------------------------------------------------
(* The request of an opening, from the key to the Loaded event.            *)

RequestsKnown == \A c \in Unfinished : c \in ReaderCommand => c.req <= latest

\* No two commands on their way carry the latest request.
Latest(n) == {c \in ReaderCommand : c.req = n}
ClearOf(queue, S) == Elements(queue) \cap S = {}
OnceOf(queue, S) == \A i, j \in 1 .. Len(queue) : queue[i] \in S /\ queue[j] \in S => i = j
OneLatest ==
  /\ OnceOf(storageQ, Latest(latest))
  /\ display.cmd \in Latest(latest) \/ HeldBack \cap Latest(latest) # {}
       => ClearOf(storageQ, Latest(latest))
  /\ display.cmd \in Latest(latest) => HeldBack \cap Latest(latest) = {}

OpenUnderWay ==
  \/ \E cmd \in Unfinished \ {None} :
       cmd.kind = "open" /\ cmd.book = app.opening /\ cmd.req = latest
  \/ \E e \in LoadedEvents : e.book = app.opening
OpenFound == app.opening # None /\ ~(app.orphaned \/ dropped) => OpenUnderWay

Openings == HeldAlone /\ OpenHeld /\ Locked /\ RequestsKnown /\ OneLatest /\ OpenFound

LEMMA OnceArrives ==
  ASSUME NEW X, NEW queue \in Seq(X), NEW m \in X, NEW S
  PROVE  /\ ClearOf(queue, S) => OnceOf(queue, S) /\ OnceOf(Append(queue, m), S)
         /\ m \notin S /\ OnceOf(queue, S) => OnceOf(Append(queue, m), S)
         /\ m \notin S /\ ClearOf(queue, S) => ClearOf(Append(queue, m), S)
<1> DEFINE longer == Append(queue, m)
<1>1. /\ Len(longer) = Len(queue) + 1 /\ Len(queue) \in Nat /\ longer[Len(queue) + 1] = m
      /\ \A i \in 1 .. Len(queue) : longer[i] = queue[i] /\ queue[i] \in Elements(queue)
  BY DEF Elements
<1>2. Elements(longer) = Elements(queue) \union {m}
  BY AppendQueue
<1> HIDE DEF longer
<1>3. ASSUME ClearOf(queue, S) PROVE OnceOf(queue, S) /\ OnceOf(longer, S)
  <2>1. \A i \in 1 .. Len(queue) : queue[i] \notin S
    BY <1>1, <1>3 DEF ClearOf
  <2> QED BY <1>1, <2>1 DEF OnceOf
<1>4. m \notin S /\ OnceOf(queue, S) => OnceOf(longer, S)
  BY <1>1 DEF OnceOf
<1>5. m \notin S /\ ClearOf(queue, S) => ClearOf(longer, S)
  BY <1>2 DEF ClearOf
<1> QED BY <1>3, <1>4, <1>5 DEF longer

LEMMA OnceLeaves ==
  ASSUME NEW X, NEW queue \in Seq(X), queue # <<>>, NEW S
  PROVE  /\ OnceOf(queue, S) => OnceOf(Tail(queue), S)
         /\ OnceOf(queue, S) /\ Head(queue) \in S => ClearOf(Tail(queue), S)
         /\ ClearOf(queue, S) => ClearOf(Tail(queue), S) /\ Head(queue) \notin S
<1> DEFINE rest == Tail(queue)
<1>1. /\ Len(rest) = Len(queue) - 1 /\ Len(queue) \in Nat \ {0}
      /\ \A i \in 1 .. Len(rest) : rest[i] = queue[i + 1] /\ i + 1 \in 1 .. Len(queue) /\ i + 1 # 1
      /\ Head(queue) = queue[1]
  OBVIOUS
<1>2. Elements(queue) = {Head(queue)} \union Elements(rest)
  BY TailQueue
<1> HIDE DEF rest
<1>3. OnceOf(queue, S) => OnceOf(rest, S)
  BY <1>1 DEF OnceOf
<1>4. OnceOf(queue, S) /\ queue[1] \in S => ClearOf(rest, S)
  <2> SUFFICES ASSUME OnceOf(queue, S), queue[1] \in S, NEW i \in 1 .. Len(rest), rest[i] \in S
               PROVE  FALSE
    BY DEF ClearOf, Elements
  <2>1. queue[i + 1] \in S /\ i + 1 \in 1 .. Len(queue) /\ i + 1 # 1 /\ 1 \in 1 .. Len(queue)
    BY <1>1
  <2> QED BY <2>1 DEF OnceOf
<1> QED BY <1>1, <1>2, <1>3, <1>4 DEF ClearOf, rest

\* Only commands of the reader carry a request.
LEMMA OtherCommands ==
  /\ \A n : /\ Latest(n) \cap (ProgressCommand \union CatalogCommand \union RenderCommand \union {None}) = {}
            /\ Latest(n) \subseteq ReaderCommand
  /\ ReaderCommand \subseteq AppCommand /\ AppCommand \subseteq StorageCommand
  /\ CatalogCommand \subseteq StorageCommand
  /\ StorageWork("refresh") \in CatalogCommand /\ None \notin AppCommand
<1>1. None \notin Command /\ AppCommand \subseteq Command
  BY NoneAssumption DEF AppCommand, ReaderCommand, ProgressCommand, Command
<1>2. ReaderCommand \cap (ProgressCommand \union CatalogCommand \union RenderCommand) = {}
  BY DEF ReaderCommand, ProgressCommand, CatalogCommand, RenderCommand
<1> QED BY <1>1, <1>2 DEF Latest, AppCommand, StorageCommand, StorageWork, CatalogCommand

LEMMA QuietUnfinished ==
  ASSUME Typed, HeldAlone, HandsOver, UNCHANGED display
  PROVE  Unfinished' \ {None} = Unfinished \ {None}
<1>1. CASE storageQ' = storageQ /\ HeldBack' \ {None} = HeldBack \ {None}
  BY <1>1, UnfinishedParts DEF Unfinished, HeldBack
<1>2. CASE \E c \in AppCommand : /\ c \in HeldBack \ {None} /\ storageQ' = Append(storageQ, c)
                                 /\ HeldBack' = {None}
  <2>1. PICK c \in AppCommand : /\ c \in HeldBack \ {None} /\ storageQ' = Append(storageQ, c)
                                /\ HeldBack' = {None}
    BY <1>2
  <2>2. Elements(storageQ') = Elements(storageQ) \union {c}
    BY <2>1, AppendQueue, OtherCommands DEF Typed, TypedChannels
  <2>3. HeldBack \ {None} = {c}
    BY <2>1 DEF HeldBack, HeldAlone
  <2>4. Unfinished' = Elements(storageQ') \union {display'.cmd} \union HeldBack'
    BY DEF Unfinished, HeldBack
  <2> QED BY <2>1, <2>2, <2>3, <2>4, UnfinishedParts
<1> QED BY <1>1, <1>2 DEF HandsOver

LEMMA QuietKeepsOpening ==
  ASSUME Typed, Openings, QuietTurn, UNCHANGED <<display, dropped>>
  PROVE  Openings'
<1>1. /\ latest' = latest /\ HandsOver /\ HeldAlone' /\ OpenHeld' /\ Locked'
      /\ storageQ \in Seq(StorageCommand)
  BY DEF QuietTurn, Typed, TypedChannels
<1>2. Unfinished' \ {None} = Unfinished \ {None}
  BY <1>1, QuietUnfinished DEF Openings
<1>3. RequestsKnown'
  BY <1>1, <1>2, OtherCommands DEF RequestsKnown, Openings
<1>4. OneLatest'
  <2> DEFINE fresh == Latest(latest)
  <2>1. fresh = Latest(latest') /\ None \notin fresh
    BY <1>1, OtherCommands
  <2>2. CASE storageQ' = storageQ /\ HeldBack' \ {None} = HeldBack \ {None}
    BY <2>1, <2>2 DEF OneLatest, Openings
  <2>3. CASE \E c \in AppCommand : /\ c \in HeldBack \ {None} /\ storageQ' = Append(storageQ, c)
                                   /\ HeldBack' = {None}
    <3>1. PICK c \in AppCommand : /\ c \in HeldBack \ {None} /\ storageQ' = Append(storageQ, c)
                                  /\ HeldBack' = {None}
      BY <2>3
    <3>2. c \in StorageCommand
      BY <3>1, OtherCommands
    <3> HIDE DEF fresh
    <3>3. HeldBack' \cap fresh = {}
      BY <2>1, <3>1
    <3>4. CASE c \in fresh
      <4>1. ClearOf(storageQ, fresh) /\ display.cmd \notin fresh
        BY <3>1, <3>4 DEF OneLatest, Openings, fresh
      <4>2. OnceOf(storageQ', fresh)
        BY <1>1, <3>1, <3>2, <4>1, OnceArrives
      <4> QED BY <2>1, <3>3, <4>1, <4>2 DEF OneLatest
    <3>5. CASE c \notin fresh
      <4>1. /\ OnceOf(storageQ', fresh)
            /\ ClearOf(storageQ, fresh) => ClearOf(storageQ', fresh)
        BY <1>1, <3>1, <3>2, <3>5, OnceArrives DEF OneLatest, Openings, fresh
      <4> QED BY <2>1, <3>3, <4>1 DEF OneLatest, Openings, fresh
    <3> QED BY <3>4, <3>5
  <2> QED BY <1>1, <2>2, <2>3 DEF HandsOver
<1>5. OpenFound'
  <2> SUFFICES ASSUME app'.opening # None, ~app'.orphaned, ~dropped' PROVE OpenUnderWay'
    BY DEF OpenFound
  <2>1. ~app.orphaned /\ ~dropped
    BY DEF QuietTurn
  <2>2. CASE app'.opening = app.opening
    <3>1. OpenUnderWay
      BY <2>1, <2>2 DEF Openings, OpenFound
    <3>2. CASE \E cmd \in Unfinished \ {None} :
                 cmd.kind = "open" /\ cmd.book = app.opening /\ cmd.req = latest
      BY <1>1, <1>2, <2>2, <3>2 DEF OpenUnderWay
    <3>3. CASE \E e \in LoadedEvents : e.book = app.opening
      BY <2>2, <3>3 DEF OpenUnderWay, QuietTurn
    <3> QED BY <3>1, <3>2, <3>3 DEF OpenUnderWay
  <2>3. CASE app.pending # None /\ app.pending.kind = "open" /\ app'.opening = app.pending.book
    <3>1. app.pending.req = latest /\ app.pending \in Unfinished
      BY <2>1, <2>3 DEF Openings, OpenHeld, Unfinished
    <3> QED BY <1>1, <1>2, <2>3, <3>1 DEF OpenUnderWay
  <2> QED BY <2>2, <2>3 DEF QuietTurn
<1> QED BY <1>1, <1>3, <1>4, <1>5 DEF Openings

LEMMA KeyKeepsOpening ==
  ASSUME Typed, Openings, NEW key, NEW block \in BOOLEAN, TakeKey(key, block), blocked = None,
         UNCHANGED <<display, displayE, libraryE, dropped>>
  PROVE  Openings'
<1> DEFINE c == CommandFor(reader')
           r == RecordFor(reader')
           fresh == Latest(latest')
<1>1. /\ c \in ReaderCommand \union {None} /\ r \in ProgressCommand
      /\ latest' = IF c = None THEN latest ELSE latest + 1
      /\ c # None => c.req = latest + 1
      /\ app.opening = None /\ ~app.suppress /\ app'.orphaned = app.orphaned
      /\ app'.opening = IF KeyOpens THEN c.book ELSE None
      /\ app'.suppress = KeyOpens
      /\ blocked' # None => blocked'.on = "display"
      /\ KeyOpens <=> c # None /\ c.kind = "open"
  BY KeyTaken DEF KeyOpens
<1>2. PICK sent \in BOOLEAN, queued \in BOOLEAN, moved \in BOOLEAN :
        /\ sent => c # None
        /\ storageQ' = LET queue == IF sent THEN Append(storageQ, c) ELSE storageQ
                       IN  IF queued THEN Append(queue, r) ELSE queue
        /\ \/ c # None /\ ~sent /\ app'.pending = c
           \/ ~(c # None /\ ~sent) /\ app'.pending \in {app.pending, r}
  <2>1. KeyEffect
    BY KeyTaken
  <2>2. PICK sent \in BOOLEAN, queued \in BOOLEAN, moved \in BOOLEAN : KeyStep(sent, queued, moved)
    BY <2>1 DEF KeyEffect
  <2> QED BY <2>2 DEF KeyStep
<1> DEFINE queue == IF sent THEN Append(storageQ, c) ELSE storageQ
<1>3. /\ storageQ \in Seq(StorageCommand) /\ latest \in Nat
      /\ display.cmd \in ReaderCommand \union RenderCommand \union {None}
      /\ app.pending \in AppCommand \union {None}
      /\ r \in StorageCommand /\ r \notin ReaderCommand /\ r \notin fresh
      /\ c # None => c \in StorageCommand
  <2>1. /\ storageQ \in Seq(StorageCommand) /\ latest \in Nat
        /\ display.cmd \in ReaderCommand \union RenderCommand \union {None}
        /\ app.pending \in AppCommand \union {None}
    BY DEF Typed, TypedChannels, TypedApp, TypedDisplay, DisplayState, AppFlags
  <2> HIDE DEF c, r
  <2>2. r \notin ReaderCommand
    BY <1>1 DEF ProgressCommand, ReaderCommand
  <2>3. r \in StorageCommand /\ (c # None => c \in StorageCommand)
    BY <1>1, OtherCommands DEF AppCommand
  <2> QED BY <2>1, <2>2, <2>3 DEF Latest
<1>4. HeldBack = {app.pending} /\ HeldBack' = {app'.pending} /\ HeldAlone'
  BY <1>1 DEF HeldBack, HeldAlone
<1> HIDE DEF c, r
<1>5. /\ queue \in Seq(StorageCommand)
      /\ Elements(queue) = Elements(storageQ) \union (IF sent THEN {c} ELSE {})
      /\ storageQ' \in Seq(StorageCommand)
      /\ Elements(storageQ') = Elements(queue) \union (IF queued THEN {r} ELSE {})
  <2>1. /\ queue \in Seq(StorageCommand)
        /\ Elements(queue) = Elements(storageQ) \union (IF sent THEN {c} ELSE {})
    BY <1>2, <1>3, AppendQueue
  <2> HIDE DEF queue
  <2>2. storageQ' = IF queued THEN Append(queue, r) ELSE queue
    BY <1>2 DEF queue
  <2> QED BY <1>3, <2>1, <2>2, AppendQueue
<1>6. Unfinished' \subseteq Unfinished \union {c, r}
  <2>1. Unfinished' = Elements(storageQ') \union {display.cmd} \union {app'.pending}
    BY <1>4 DEF Unfinished, HeldBack
  <2> QED BY <1>2, <1>4, <1>5, <2>1, UnfinishedParts
<1>7. RequestsKnown'
  <2> SUFFICES ASSUME NEW d \in Unfinished', d \in ReaderCommand PROVE d.req <= latest'
    BY DEF RequestsKnown
  <2>1. CASE d \in Unfinished
    <3>1. d.req <= latest /\ d.req \in Nat
      BY <2>1 DEF Openings, RequestsKnown, ReaderCommand
    <3> QED BY <1>1, <1>3, <3>1
  <2>2. CASE d = c
    BY <1>1, <1>3, <2>2, OtherCommands
  <2> QED BY <1>3, <1>6, <2>1, <2>2
<1>8. c # None => Unfinished \cap fresh = {}
  <2> SUFFICES ASSUME c # None, NEW d \in Unfinished, d \in fresh PROVE FALSE
    OBVIOUS
  <2>1. d \in ReaderCommand /\ d.req = latest + 1
    BY <1>1 DEF Latest
  <2>2. d.req <= latest
    BY <2>1 DEF Openings, RequestsKnown
  <2> QED BY <1>3, <2>1, <2>2
<1> HIDE DEF fresh, queue
<1>9. c = None => fresh = Latest(latest) /\ queue = storageQ
  BY <1>1, <1>2 DEF fresh, queue
<1>10. storageQ' = IF queued THEN Append(queue, r) ELSE queue
  BY <1>2 DEF queue
<1>11. /\ ClearOf(queue, fresh) => ClearOf(storageQ', fresh)
       /\ OnceOf(queue, fresh) => OnceOf(storageQ', fresh)
  BY <1>3, <1>5, <1>10, OnceArrives
<1>12. None \notin fresh /\ display' = display
  BY OtherCommands DEF fresh
<1>13. OneLatest'
  <2> SUFFICES /\ OnceOf(storageQ', fresh)
               /\ display.cmd \in fresh \/ app'.pending \in fresh => ClearOf(storageQ', fresh)
               /\ display.cmd \in fresh => app'.pending \notin fresh
    BY <1>4, <1>12 DEF OneLatest, fresh
  <2>1. CASE c = None
    <3>1. /\ OnceOf(storageQ, fresh)
          /\ display.cmd \in fresh \/ app.pending \in fresh => ClearOf(storageQ, fresh)
          /\ display.cmd \in fresh => app.pending \notin fresh
      BY <1>4, <1>9, <2>1 DEF OneLatest, Openings
    <3> QED BY <1>2, <1>3, <1>9, <1>11, <2>1, <3>1
  <2>2. CASE c # None
    <3>1. ClearOf(storageQ, fresh) /\ display.cmd \notin fresh /\ app.pending \notin fresh
      BY <1>4, <1>8, <2>2, UnfinishedParts DEF ClearOf
    <3>2. CASE sent
      <4>1. OnceOf(queue, fresh)
        BY <1>3, <2>2, <3>1, <3>2, OnceArrives DEF queue
      <4> QED BY <1>2, <1>3, <1>11, <3>1, <3>2, <4>1
    <3>3. CASE ~sent
      <4>1. ClearOf(queue, fresh) /\ OnceOf(queue, fresh)
        BY <1>3, <3>1, <3>3, OnceArrives DEF queue
      <4> QED BY <1>11, <3>1, <4>1
    <3> QED BY <3>2, <3>3
  <2> QED BY <2>1, <2>2
<1>14. Locked' /\ OpenHeld'
  <2>1. Locked'
    BY <1>1 DEF Locked
  <2>2. OpenHeld'
    <3> SUFFICES ASSUME ~app'.orphaned, app'.pending # None, app'.pending.kind = "open"
                 PROVE  app'.suppress /\ app'.pending.req = latest'
      BY DEF OpenHeld
    <3>1. app'.pending # app.pending
      BY <1>1 DEF OpenHeld, Openings
    <3>2. r.kind # "open"
      BY <1>1 DEF ProgressCommand
    <3>3. c # None /\ app'.pending = c
      BY <1>2, <3>1, <3>2
    <3> QED BY <1>1, <3>3
  <2> QED BY <2>1, <2>2
<1>15. OpenFound'
  <2> SUFFICES ASSUME app'.opening # None PROVE OpenUnderWay'
    BY DEF OpenFound
  <2>1. c # None /\ c.kind = "open" /\ app'.opening = c.book /\ c.req = latest'
    BY <1>1
  <2>2. c \in Elements(storageQ') \/ c = app'.pending
    BY <1>2, <1>5, <2>1
  <2>3. c \in Unfinished' \ {None}
    BY <2>1, <2>2 DEF Unfinished
  <2> QED BY <2>1, <2>3 DEF OpenUnderWay
<1> QED BY <1>4, <1>7, <1>13, <1>14, <1>15 DEF Openings

\* A step of the display task brings no new command of the app, and it loses one
\* only by serving it, the latest request by sending what was asked for.
Carries ==
  /\ Unfinished' \cap AppCommand \subseteq Unfinished
  /\ \A c \in Unfinished \cap AppCommand : c \in Unfinished' \/ HandleStorage(c)
  /\ \A c \in Unfinished \cap Latest(latest) : c \in Unfinished' \/ LoadedEvent(c.book) \in LoadedEvents'
  /\ OneLatest'

LEMMA CommandTaken ==
  ASSUME Typed, Openings, UNCHANGED appVars, NEW cmd, TakesCommand(cmd)
  PROVE  Carries
<1> DEFINE fresh == Latest(latest)
           rest == Tail(storageQ)
<1>1. /\ storageQ \in Seq(StorageCommand) /\ storageQ # <<>> /\ cmd = Head(storageQ)
      /\ cmd \in StorageCommand /\ display.cmd = None /\ UNCHANGED <<app, blocked, latest>>
      /\ HeldBack' = HeldBack /\ StorageWork("refresh") \in StorageCommand
      /\ StorageWork("refresh") \notin AppCommand /\ None \notin AppCommand /\ fresh \subseteq ReaderCommand
      /\ CatalogCommand \cap AppCommand = {} /\ fresh \subseteq AppCommand
  <2>1. CatalogCommand \cap AppCommand = {}
    BY DEF CatalogCommand, AppCommand, ReaderCommand, ProgressCommand
  <2> QED BY <2>1, OtherCommands DEF TakesCommand, Typed, TypedChannels, appVars, HeldBack
<1>2. /\ rest \in Seq(StorageCommand) /\ Elements(storageQ) = {cmd} \union Elements(rest)
      /\ OnceOf(storageQ, fresh) => OnceOf(rest, fresh)
      /\ OnceOf(storageQ, fresh) /\ cmd \in fresh => ClearOf(rest, fresh)
      /\ ClearOf(storageQ, fresh) => ClearOf(rest, fresh) /\ cmd \notin fresh
  BY <1>1, TailQueue, OnceLeaves
<1>3. /\ OnceOf(storageQ, fresh)
      /\ HeldBack \cap fresh # {} => ClearOf(storageQ, fresh)
  BY DEF OneLatest, Openings
<1>4. /\ Unfinished = {cmd} \union Elements(rest) \union {None} \union HeldBack
      /\ Unfinished' = Elements(storageQ') \union {display'.cmd} \union HeldBack
  BY <1>1, <1>2, UnfinishedParts DEF Unfinished, HeldBack
<1> HIDE DEF rest, fresh
<1>5. CASE storageQ' = rest /\ display' = [phase |-> "plate", cmd |-> cmd]
  <2>1. Unfinished' \subseteq Unfinished /\ Unfinished \ {None} \subseteq Unfinished'
    BY <1>4, <1>5
  <2>2. OneLatest'
    <3>1. cmd \in fresh => HeldBack \cap fresh = {}
      BY <1>2, <1>3
    <3>2. cmd \in fresh \/ HeldBack \cap fresh # {} => ClearOf(rest, fresh)
      BY <1>2, <1>3
    <3> QED BY <1>1, <1>2, <1>3, <1>5, <3>1, <3>2 DEF OneLatest, fresh
  <2> QED BY <1>1, <2>1, <2>2 DEF Carries, fresh
<1>6. CASE storageQ' = rest /\ HandleStorage(cmd) /\ display' = [phase |-> "idle", cmd |-> None]
  <2>1. cmd \in fresh => LoadedEvent(cmd.book) \in LoadedEvents'
    BY <1>6, LatestServed DEF fresh, Latest
  <2>2. Unfinished' \subseteq Unfinished /\ Unfinished \ {None, cmd} \subseteq Unfinished'
    BY <1>4, <1>6
  <2>3. OneLatest'
    BY <1>1, <1>2, <1>3, <1>6 DEF OneLatest, fresh
  <2>4. \A c \in Unfinished \cap AppCommand : c \in Unfinished' \/ HandleStorage(c)
    BY <1>1, <1>6, <2>2
  <2>5. \A c \in Unfinished \cap fresh : c \in Unfinished' \/ LoadedEvent(c.book) \in LoadedEvents'
    BY <1>1, <2>1, <2>2
  <2> QED BY <2>2, <2>3, <2>4, <2>5 DEF Carries, fresh
<1>7. CASE /\ storageQ' = TrySend(rest, user.storage, StorageWork("refresh"))
           /\ display' = [phase |-> "idle", cmd |-> None] /\ cmd \in CatalogCommand
  <2>1. /\ Elements(rest) \subseteq Elements(storageQ')
        /\ Elements(storageQ') \subseteq Elements(rest) \union {StorageWork("refresh")}
        /\ OnceOf(storageQ', fresh)
        /\ ClearOf(storageQ, fresh) => ClearOf(storageQ', fresh)
    <3>1. StorageWork("refresh") \notin fresh
      BY <1>1
    <3>2. CASE storageQ' = rest
      BY <1>2, <1>3, <3>2
    <3>3. CASE storageQ' = Append(rest, StorageWork("refresh"))
      BY <1>1, <1>2, <1>3, <3>1, <3>3, AppendQueue, OnceArrives
    <3> QED BY <1>7, <3>2, <3>3 DEF TrySend
  <2>2. /\ Unfinished' \subseteq Unfinished \union {StorageWork("refresh")}
        /\ Unfinished \ {None, cmd} \subseteq Unfinished'
    BY <1>4, <1>7, <2>1
  <2>3. OneLatest'
    BY <1>1, <1>3, <1>7, <2>1 DEF OneLatest, fresh
  <2> QED BY <1>1, <1>7, <2>2, <2>3 DEF Carries, fresh
<1> QED BY <1>5, <1>6, <1>7 DEF TakesCommand, rest

LEMMA DisplayCarries ==
  ASSUME Typed, Openings, Display
  PROVE  UNCHANGED appVars /\ Carries
<1>1. UNCHANGED appVars /\ HeldBack' = HeldBack
  BY DisplaySteps DEF HeldBack, appVars
<1>2. CASE EndsPlate
  <2> DEFINE cmd == display.cmd
  <2>1. /\ cmd \in ReaderCommand /\ display'.cmd = None /\ storageQ' = storageQ /\ latest' = latest
        /\ HandleStorage(cmd) /\ None \notin Latest(latest)
    BY <1>1, <1>2, OtherCommands DEF EndsPlate, appVars
  <2>2. cmd \in Latest(latest) => LoadedEvent(cmd.book) \in LoadedEvents'
    BY <2>1, LatestServed DEF Latest
  <2>3. Unfinished = {cmd} \union Elements(storageQ) \union HeldBack
    BY UnfinishedParts
  <2>4. Unfinished' = {None} \union Elements(storageQ) \union HeldBack
    BY <1>1, <2>1 DEF Unfinished, HeldBack
  <2>5. OneLatest'
    BY <1>1, <2>1 DEF OneLatest, Openings
  <2>6. None \notin AppCommand
    BY OtherCommands
  <2>7. \A c \in Unfinished \cap AppCommand : c \in Unfinished' \/ HandleStorage(c)
    BY <2>1, <2>3, <2>4, <2>6
  <2>8. \A c \in Unfinished \cap Latest(latest) : c \in Unfinished' \/ LoadedEvent(c.book) \in LoadedEvents'
    BY <2>1, <2>2, <2>3, <2>4
  <2>9. Unfinished' \cap AppCommand \subseteq Unfinished
    BY <2>3, <2>4, <2>6
  <2> QED BY <1>1, <2>5, <2>7, <2>8, <2>9 DEF Carries
<1>3. CASE LeavesCommands
  <2>1. /\ storageQ' = storageQ /\ latest' = latest
        /\ display.cmd \notin AppCommand /\ display'.cmd \notin AppCommand
    <3>1. RenderCommand \cap AppCommand = {} /\ None \notin AppCommand
      BY OtherCommands DEF RenderCommand, AppCommand, ReaderCommand, ProgressCommand
    <3> QED BY <1>1, <1>3, <3>1 DEF LeavesCommands, appVars
  <2>2. Unfinished = {display.cmd} \union Elements(storageQ) \union HeldBack
    BY UnfinishedParts
  <2>3. Unfinished' = {display'.cmd} \union Elements(storageQ) \union HeldBack
    BY <1>1, <2>1 DEF Unfinished, HeldBack
  <2>4. Latest(latest) \subseteq AppCommand
    BY OtherCommands
  <2>5. OneLatest'
    BY <1>1, <2>1, <2>4 DEF OneLatest, Openings
  <2>6. Unfinished' \cap AppCommand \subseteq Unfinished
    BY <2>1, <2>2, <2>3
  <2>7. \A c \in Unfinished \cap AppCommand : c \in Unfinished'
    BY <2>1, <2>2, <2>3, <2>4
  <2> QED BY <1>1, <2>4, <2>5, <2>6, <2>7 DEF Carries
<1> QED BY <1>1, <1>2, <1>3, CommandTaken, DisplaySteps

LEMMA DisplayKeepsOpening ==
  ASSUME Typed, Openings, Display
  PROVE  Openings'
<1>1. UNCHANGED <<app, blocked, latest>> /\ Carries
  BY DisplayCarries DEF appVars
<1>2. HeldAlone' /\ OpenHeld' /\ Locked'
  BY <1>1 DEF Openings, HeldAlone, OpenHeld, Locked
<1>3. RequestsKnown'
  BY <1>1, OtherCommands DEF Carries, Openings, RequestsKnown
<1>4. OpenFound'
  <2> SUFFICES ASSUME app.opening # None, ~app.orphaned, ~dropped' PROVE OpenUnderWay'
    BY <1>1 DEF OpenFound
  <2>1. ~dropped /\ LoadedEvents \subseteq LoadedEvents'
    BY DEF Display
  <2>2. CASE \E e \in LoadedEvents : e.book = app.opening
    BY <1>1, <2>1, <2>2 DEF OpenUnderWay
  <2>3. CASE \E cmd \in Unfinished \ {None} :
               cmd.kind = "open" /\ cmd.book = app.opening /\ cmd.req = latest
    <3>1. PICK cmd \in Unfinished \ {None} :
                 cmd.kind = "open" /\ cmd.book = app.opening /\ cmd.req = latest
      BY <2>3
    <3>2. cmd \in Latest(latest)
      <4>1. cmd \in AppCommand \union CatalogCommand \union RenderCommand
        BY DEF Unfinished, Typed, TypedChannels, TypedApp, TypedDisplay, DisplayState, AppFlags, Blocked,
               Elements, AppCommand, StorageCommand
      <4> QED BY <3>1, <4>1 DEF AppCommand, ProgressCommand, CatalogCommand, RenderCommand, Latest
    <3>3. CASE cmd \in Unfinished'
      BY <1>1, <3>1, <3>3 DEF OpenUnderWay
    <3>4. CASE LoadedEvent(cmd.book) \in LoadedEvents'
      <4>1. LoadedEvent(cmd.book).book = app.opening
        BY <3>1 DEF LoadedEvent, Event
      <4> QED BY <1>1, <3>4, <4>1 DEF OpenUnderWay
    <3> QED BY <1>1, <3>1, <3>2, <3>3, <3>4 DEF Carries
  <2> QED BY <2>1, <2>2, <2>3 DEF Openings, OpenFound, OpenUnderWay
<1> QED BY <1>1, <1>2, <1>3, <1>4 DEF Openings, Carries

OpeningsAtBoot == AtBoot => Openings
LEMMA BootOpens == OpeningsAtBoot
<1> SUFFICES ASSUME AtBoot PROVE Openings
  BY DEF OpeningsAtBoot
<1>1. /\ HeldBack = {None} /\ display.cmd = None /\ Elements(storageQ) = {StorageWork("catalog")}
      /\ Len(storageQ) = 1 /\ latest = 0 /\ app.opening = None
  BY DEF AtBoot, HeldBack, AppAtBoot, DisplayAtBoot, Elements
<1>2. None \notin ReaderCommand /\ StorageWork("catalog") \notin ReaderCommand
  BY OtherCommands DEF StorageWork, ReaderCommand
<1>3. HeldAlone /\ OpenHeld /\ Locked /\ OpenFound
  BY DEF AtBoot, AppAtBoot, HeldAlone, OpenHeld, Locked, OpenFound
<1>4. RequestsKnown
  BY <1>1, <1>2, UnfinishedParts DEF RequestsKnown
<1>5. OneLatest
  BY <1>1, <1>2 DEF OneLatest, OnceOf, Latest
<1> QED BY <1>3, <1>4, <1>5 DEF Openings

LEMMA NextKeepsOpening ==
  ASSUME Typed, Openings, [Next]_vars
  PROVE  Openings'
<1>1. CASE App
  <2>1. UNCHANGED <<display, dropped>>
    BY <1>1 DEF App, PowerKey, AppKey, AppDisplayEvent, AppLibraryEvent, Resume, dispVars
  <2>2. Openings' \/ (AppKey /\ \E block \in BOOLEAN : TakeKey(Head(inputs), block))
    BY <1>1, <2>1, AppTurns, QuietKeepsOpening DEF Openings
  <2>3. AppKey => blocked = None /\ UNCHANGED <<displayE, libraryE>>
    BY DEF AppKey, AppTurn
  <2> QED BY <2>1, <2>2, <2>3, KeyKeepsOpening
<1>2. CASE Display
  BY <1>2, DisplayKeepsOpening
<1>3. ASSUME UNCHANGED <<app, blocked, latest, storageQ, display, displayE, libraryE, dropped>>
      PROVE  Openings'
  BY <1>3 DEF Openings, HeldAlone, OpenHeld, Locked, RequestsKnown, OneLatest, OpenFound, OpenUnderWay,
     Unfinished, HeldBack, LoadedEvents
<1>4. CASE Power \/ IdleExpires
  BY <1>3, <1>4, AsksForSleep DEF Power, appVars, dispVars
<1>5. CASE (\E key \in user.keys : Press(key)) \/ UNCHANGED vars
  BY <1>3, <1>5 DEF Press, vars, channels, appVars, dispVars
<1>6. CASE Wake
  <2>1. AtBoot'
    BY <1>6 DEF Wake, AtBoot
  <2>2. OpeningsAtBoot'
    BY BootOpens, PTL
  <2> QED BY <2>1, <2>2 DEF OpeningsAtBoot
<1> QED BY <1>1, <1>2, <1>4, <1>5, <1>6 DEF Next, Prompt
-----------------------------------------------------------------------------
(* Room for every answer, while nobody puts the device to sleep.           *)

\* The events the app is still owed: one Loaded event, and one answer.
Owed == display.cmd \in Latest(latest) \/ ~ClearOf(storageQ, Latest(latest))
Flying == displayQ # <<>> \/ display.phase = "render"
Room ==
  /\ Len(displayE) <= 2
  /\ cpu # "app" /\ (Owed \/ Flying) => Len(displayE) <= 1
  /\ cpu # "app" /\ Owed /\ Flying => Len(displayE) = 0
Expected(e) == e.kind # "asleep" /\ (e.kind = "failed" => "flush" \in user.faults)
Plain ==
  /\ \A e \in Elements(libraryE) : e.kind # "loaded"
  /\ \A e \in Elements(displayE) : Expected(e)
  /\ ~app.orphaned /\ ~dropped
  /\ blocked # None => blocked.on = "storage"
Waits == StaysAwake => Room /\ Plain

\* What the app waits in at the end of its turn.
LEMMA AppWaits ==
  ASSUME Typed, App, blocked' # None
  PROVE  \/ blocked'.on = "power"
         \/ (blocked'.on = "display" /\ displayQ' # <<>>)
         \/ (blocked'.on = "storage" /\ displayE # <<>> /\ displayE' = Tail(displayE))
<1>1. ASSUME NEW b, NEW k, SendRender(b, k) \/ NoPaint(b)
      PROVE  blocked'.on = "display" /\ displayQ' # <<>>
  <2>1. /\ ~(Len(displayQ) < user.commands) /\ displayQ' = displayQ
        /\ blocked' = [on |-> "display", m |-> [kind |-> k, frame |-> reader']]
    BY <1>1 DEF SendRender, NoPaint
  <2>2. displayQ # <<>>
    BY <2>1, UserTyped, EmptyQueue
  <2> QED BY <2>1, <2>2
<1>2. ASSUME NEW b, NEW k, Paint(b, k) \/ PaintEvent(b) \/ AfterSettled(b)
      PROVE  blocked'.on = "display" /\ displayQ' # <<>>
  BY <1>1, <1>2 DEF Paint, PaintEvent, AfterSettled
<1>3. CASE PowerKey
  BY <1>3 DEF PowerKey, AppTurn
<1>4. CASE AppKey
  <2>1. PICK block \in Blocks : IgnoreKey(Head(inputs), block) \/ TakeKey(Head(inputs), block)
    BY <1>4 DEF AppKey
  <2>2. ~IgnoreKey(Head(inputs), block)
    BY <1>4 DEF AppKey, AppTurn, IgnoreKey
  <2>3. \E b : NoPaint(b) \/ Paint(b, "page")
    BY <2>1, <2>2 DEF TakeKey
  <2> QED BY <1>1, <1>2, <2>3
<1>5. ASSUME NEW e, LibraryEvent(e) PROVE blocked'.on = "display" /\ displayQ' # <<>>
  <2>1. \E b : NoPaint(b) \/ PaintEvent(b)
    BY <1>5 DEF LibraryEvent
  <2> QED BY <1>1, <1>2, <2>1
<1>6. CASE AppDisplayEvent
  <2>1. ~DisplayFailed /\ ~DisplayAsleep
    BY DEF DisplayFailed, DisplayAsleep, NoPaint
  <2>2. CASE Settled
    <3>1. CASE blocked' = [on |-> "storage", m |-> app.pending]
      BY <1>6, <3>1 DEF AppDisplayEvent
    <3>2. CASE blocked' # [on |-> "storage", m |-> app.pending]
      <4>1. \E b : AfterSettled(b)
        BY <2>2, <3>2 DEF Settled
      <4> QED BY <1>2, <4>1
    <3> QED BY <3>1, <3>2
  <2> QED BY <1>5, <1>6, <2>1, <2>2 DEF AppDisplayEvent
<1>7. CASE AppLibraryEvent
  BY <1>5, <1>7 DEF AppLibraryEvent
<1>8. CASE Resume
  BY <1>1, <1>2, <1>8 DEF Resume
<1> QED BY <1>3, <1>4, <1>6, <1>7, <1>8 DEF App

LEMMA EventKeepsOrphan ==
  ASSUME Typed, NEW e, LibraryEvent(e)
  PROVE  app'.orphaned = app.orphaned
<1> DEFINE newOpening == IF e.kind = "loaded" /\ e.book = app.opening THEN None ELSE app.opening
           newListed == app.listed \/ e.kind = "scanned"
           a == [app EXCEPT !.opening = newOpening, !.listed = newListed]
<1>1. app \in AppFlags /\ (PaintEvent(a) \/ NoPaint(a))
  BY DEF Typed, TypedApp, LibraryEvent
<1>2. newOpening \in Books \union {None} /\ newListed \in BOOLEAN
  BY <1>1 DEF AppFlags
<1> HIDE DEF newOpening, newListed
<1>3. a \in AppFlags /\ a.orphaned = app.orphaned
  BY <1>1, <1>2 DEF AppFlags
<1> QED BY <1>1, <1>3, PaintKeeps

LEMMA AppLeavesRoom ==
  ASSUME Typed, NobodySleeps', SendsAreFree', LoneFlight', Room, Plain, App
  PROVE  Room' /\ Plain'
<1>1. /\ displayE \in Seq(DisplayEvent) /\ Len(displayE) \in Nat /\ libraryE \in Seq(ReaderEvent)
      /\ UNCHANGED <<user, display, dropped>>
      /\ AppKeeps
  BY DEF Typed, TypedChannels, App, PowerKey, AppKey, AppDisplayEvent, AppLibraryEvent, Resume, dispVars
<1>2. /\ displayE' = displayE \/ (displayE # <<>> /\ displayE' = Tail(displayE))
      /\ libraryE' = libraryE \/ (libraryE # <<>> /\ libraryE' = Tail(libraryE))
  <2>1. CASE AppDisplayEvent
    BY <2>1 DEF AppDisplayEvent, Settled, DisplayFailed, DisplayAsleep
  <2>2. CASE AppLibraryEvent
    BY <2>2 DEF AppLibraryEvent
  <2> QED BY <2>1, <2>2 DEF App, PowerKey, AppKey, Resume
<1>3. /\ Len(displayE') \in Nat /\ Len(displayE') <= 2
      /\ displayE # <<>> /\ displayE' = Tail(displayE) => Len(displayE') <= 1
      /\ Elements(displayE') \subseteq Elements(displayE)
      /\ Elements(libraryE') \subseteq Elements(libraryE)
      /\ Len(displayE') = 0 <=> displayE' = <<>>
  <2>1. displayE # <<>> => /\ Len(Tail(displayE)) = Len(displayE) - 1 /\ Len(displayE) # 0
                           /\ Elements(Tail(displayE)) \subseteq Elements(displayE)
                           /\ Tail(displayE) \in Seq(DisplayEvent)
    BY <1>1, TailQueue
  <2>2. libraryE # <<>> => Elements(Tail(libraryE)) \subseteq Elements(libraryE)
    BY <1>1, TailQueue
  <2>3. Len(displayE') \in Nat /\ (Len(displayE') = 0 <=> displayE' = <<>>)
    <3>1. displayE' \in Seq(DisplayEvent)
      BY <1>1, <1>2, <2>1
    <3> QED BY <3>1
  <2>4. Elements(displayE') \subseteq Elements(displayE) /\ Elements(libraryE') \subseteq Elements(libraryE)
    BY <1>2, <2>1, <2>2
  <2>5. Len(displayE) <= 2
    BY DEF Room
  <2>6. Len(displayE') <= 2 /\ (displayE # <<>> /\ displayE' = Tail(displayE) => Len(displayE') <= 1)
    <3>1. displayE # <<>> /\ displayE' = Tail(displayE) => Len(displayE') = Len(displayE) - 1
      BY <2>1
    <3>2. displayE' = displayE => Len(displayE') = Len(displayE)
      OBVIOUS
    <3> QED BY <1>1, <1>2, <2>5, <3>1, <3>2
  <2> QED BY <2>3, <2>4, <2>6
<1>4. blocked' # None =>
        blocked'.on = "storage" /\ displayE # <<>> /\ displayE' = Tail(displayE) /\ ~Flying'
  <2> SUFFICES ASSUME blocked' # None
               PROVE  /\ blocked'.on = "storage" /\ displayE # <<>> /\ displayE' = Tail(displayE)
                      /\ ~Flying'
    OBVIOUS
  <2>1. blocked'.on # "power"
    BY DEF NobodySleeps
  <2>2. ~app'.rendering
    BY <2>1 DEF SendsAreFree
  <2>3. displayQ' = <<>> /\ display'.phase # "render"
    BY <2>2 DEF LoneFlight
  <2> QED BY <2>1, <2>3, AppWaits DEF Flying
<1>5. Room'
  <2>1. ASSUME cpu' # "app" PROVE (displayE' = <<>>) \/ (Len(displayE') <= 1 /\ ~Flying')
    <3>1. blocked' # None \/ displayE' = <<>>
      BY <1>1, <2>1 DEF AppKeeps, Keep
    <3> QED BY <1>3, <1>4, <3>1
  <2>2. Len(displayE') = 0 => Len(displayE') <= 1
    BY <1>3
  <2> QED BY <1>3, <2>1, <2>2 DEF Room
<1>6. app'.orphaned = app.orphaned
  <2> USE DEF Typed, TypedApp
  <2>1. CASE AppDisplayEvent
    <3>1. Head(displayE) \in Elements(displayE)
      BY <1>1, <2>1, TailQueue DEF AppDisplayEvent
    <3>2. ~DisplayAsleep
      BY <3>1 DEF DisplayAsleep, Plain, Expected
    <3>3. CASE DisplayFailed
      BY <3>3 DEF DisplayFailed, NoPaint, AppFlags
    <3>4. CASE Settled
      <4> DEFINE cmd  == app.pending
                 open == cmd # None /\ cmd.kind = "open"
                 newOpening == IF open THEN cmd.book ELSE app.opening
                 newSuppress == app.suppress \/ open
                 a    == [app EXCEPT !.rendering = FALSE, !.pending = None, !.opening = newOpening,
                                     !.suppress = newSuppress]
      <4>1. app' = a \/ AfterSettled(a)
        BY <3>4 DEF Settled
      <4>2. newOpening \in Books \union {None} /\ newSuppress \in BOOLEAN
        BY DEF AppFlags, AppCommand, ReaderCommand, ProgressCommand
      <4> HIDE DEF newOpening, newSuppress
      <4>3. a \in AppFlags /\ a.orphaned = app.orphaned
        BY <4>2 DEF AppFlags
      <4> QED BY <4>1, <4>3, PaintKeeps
    <3>5. ASSUME LibraryEvent(Head(displayE)) PROVE app'.orphaned = app.orphaned
      BY <3>5, EventKeepsOrphan
    <3> QED BY <2>1, <3>2, <3>3, <3>4, <3>5 DEF AppDisplayEvent
  <2>2. CASE AppLibraryEvent
    BY <2>2, EventKeepsOrphan DEF AppLibraryEvent
  <2>3. CASE PowerKey
    BY <2>3 DEF PowerKey
  <2>4. CASE AppKey
    <3>1. PICK block \in Blocks : IgnoreKey(Head(inputs), block) \/ TakeKey(Head(inputs), block)
      BY <2>4 DEF AppKey
    <3>2. block \in BOOLEAN
      BY DEF Blocks, AppFlags
    <3>3. TakeKey(Head(inputs), block) => app'.orphaned = app.orphaned
      BY <3>2, KeyTaken
    <3> QED BY <3>1, <3>2, <3>3 DEF IgnoreKey, AppFlags
  <2>5. CASE Resume
    <3>1. NoPaint(app) \/ AfterSettled(app) => app'.orphaned = app.orphaned
      BY PaintKeeps
    <3> QED BY <2>5, <3>1 DEF Resume, AppFlags
  <2> QED BY <2>1, <2>2, <2>3, <2>4, <2>5 DEF App
<1> QED BY <1>1, <1>3, <1>4, <1>5, <1>6 DEF Plain, Expected

\* What serving a command adds to the channels of events.
LEMMA ServedStale ==
  ASSUME Typed, NEW cmd \in StorageCommand, HandleStorage(cmd), cmd \notin Latest(latest)
  PROVE  /\ displayE' = displayE
         /\ \A e \in Elements(libraryE') : e.kind = "loaded" => e \in Elements(libraryE)
<1>1. /\ libraryE \in Seq(ReaderEvent) /\ Len(libraryE) <= LibraryCap /\ LibraryCap \in Nat \ {0}
  BY CapsAssumption DEF Typed, TypedChannels
<1>2. cmd \in ReaderCommand => SkipStale(cmd)
  BY DEF HandleStorage, OpenOrExtend, LoadChapters, JumpChapter, SkipStale, LoadCatalog,
     StoreProgress, ReaderCommand, Latest
<1>3. cmd \in ProgressCommand \union CatalogCommand => StoreProgress(cmd) \/ LoadCatalog(cmd)
  BY DEF HandleStorage, OpenOrExtend, LoadChapters, JumpChapter, SkipStale, LoadCatalog,
     StoreProgress, ProgressCommand, CatalogCommand
<1>4. CASE SkipStale(cmd) \/ StoreProgress(cmd)
  BY <1>4 DEF SkipStale, StoreProgress
<1>5. CASE LoadCatalog(cmd)
  <2> DEFINE restore == ~progress.restored /\ card.state # None /\ card.state.book \in Books
             p == card.state
  <2>1. PICK pages \in {0, PageCount} :
          libraryE' = TrySend(IF restore
                              THEN Required(libraryE, LibraryCap,
                                            Event("restored", p.book, p.page, pages))
                              ELSE libraryE,
                              LibraryCap, Signal("scanned"))
    BY <1>5 DEF LoadCatalog
  <2> DEFINE e == Event("restored", p.book, p.page, pages)
             first == IF restore THEN Required(libraryE, LibraryCap, e) ELSE libraryE
  <2>2. restore => e \in ReaderEvent /\ e.kind # "loaded"
    BY DEF Typed, TypedDisplay, Position, Event, RestoredPlace, ReaderEvent
  <2> HIDE DEF e
  <2>3. /\ first \in Seq(ReaderEvent) /\ Len(first) <= LibraryCap
        /\ \A x \in Elements(first) : x.kind = "loaded" => x \in Elements(libraryE)
    <3>1. CASE restore
      BY <1>1, <2>2, <3>1, RequiredQueue
    <3>2. CASE ~restore
      BY <1>1, <3>2
    <3> QED BY <3>1, <3>2
  <2>4. Signal("scanned") \in ReaderEvent /\ Signal("scanned").kind # "loaded"
    BY DEF Signal, Event, ReaderEvent, ScannedShelf
  <2>5. libraryE' = TrySend(first, LibraryCap, Signal("scanned"))
    BY <2>1 DEF e
  <2> HIDE DEF first
  <2>6. Elements(libraryE') \subseteq Elements(first) \union {Signal("scanned")}
    BY <1>1, <2>3, <2>4, <2>5, TrySendQueue
  <2>7. displayE' = displayE
    BY <1>5 DEF LoadCatalog
  <2> QED BY <2>3, <2>4, <2>6, <2>7
<1> QED BY <1>2, <1>3, <1>4, <1>5 DEF StorageCommand, AppCommand

LEMMA ServedLatest ==
  ASSUME Typed, NEW cmd \in Latest(latest), HandleStorage(cmd), Len(displayE) <= 1
  PROVE  /\ LoadedEvent(cmd.book) \in LoadedBook /\ displayE' = Append(displayE, LoadedEvent(cmd.book))
         /\ \A e \in Elements(libraryE') : e.kind = "loaded" => e \in Elements(libraryE)
<1>1. /\ displayE \in Seq(DisplayEvent) /\ libraryE \in Seq(ReaderEvent) /\ Len(libraryE) <= LibraryCap
      /\ Len(displayE) < EventCap /\ LibraryCap \in Nat \ {0}
  BY CapsAssumption DEF Typed, TypedChannels
<1>2. cmd \in ReaderCommand /\ cmd.req = latest
  BY DEF Latest
<1>3. PICK resume \in RestoredPlace \union {None} : SendLoaded(LoadedEvent(cmd.book), resume)
  BY <1>2, LatestServed
<1>4. LoadedEvent(cmd.book) \in LoadedBook
  BY <1>2, LatestServed
<1>5. /\ displayE' = Append(displayE, LoadedEvent(cmd.book))
      /\ libraryE' = IF resume = None THEN libraryE ELSE Required(libraryE, LibraryCap, resume)
  BY <1>1, <1>3 DEF SendLoaded
<1>6. resume # None => resume \in ReaderEvent /\ resume.kind # "loaded"
  BY DEF ReaderEvent, RestoredPlace
<1>7. resume # None => Elements(libraryE') \subseteq Elements(libraryE) \union {resume}
  BY <1>1, <1>5, <1>6, RequiredQueue
<1> QED BY <1>4, <1>5, <1>6, <1>7

\* A step of the display task sends at most one event, and only one that is owed.
Answers ==
  /\ \/ displayE' = displayE /\ (Owed' => Owed) /\ (Flying' => Flying)
     \/ /\ Owed /\ ~Owed' /\ (Flying' => Flying)
        /\ \E e \in DisplayEvent : Expected(e) /\ displayE' = Append(displayE, e)
     \/ /\ Flying /\ ~Flying' /\ (Owed' => Owed)
        /\ \E e \in DisplayEvent : Expected(e) /\ displayE' = Append(displayE, e)
  /\ \A e \in Elements(libraryE') : e.kind = "loaded" => e \in Elements(libraryE)

LEMMA DisplayAnswers ==
  ASSUME Typed, Openings, NobodySleeps, LoneFlight, Room, Display
  PROVE  Answers
<1> DEFINE fresh == Latest(latest)
<1>1. /\ latest' = latest /\ cpu # "app" /\ None \notin fresh /\ fresh \cap RenderCommand = {}
      /\ storageQ \in Seq(StorageCommand) /\ libraryE \in Seq(ReaderEvent)
      /\ Signal("settled") \in DisplayEvent /\ Expected(Signal("settled"))
      /\ Signal("failed") \in DisplayEvent /\ ("flush" \in user.faults => Expected(Signal("failed")))
      /\ LoadedBook \subseteq DisplayEvent /\ \A e \in LoadedBook : Expected(e)
  <2>1. cpu # "app"
    BY DEF Display, DisplayReady, StartRender, FinishRender, StartSleep, FinishSleep, TakeStorage,
           FinishPlate, DisplayTurn, Free
  <2> QED BY <2>1, DisplaySteps, OtherCommands
          DEF appVars, Typed, TypedChannels, Signal, Event, DisplayEvent, Answer, LoadedBook, Expected
<1>2. CASE TakeStorage /\ TakesCommand(Head(storageQ))
  <2> DEFINE cmd == Head(storageQ)
             rest == Tail(storageQ)
  <2>1. /\ cmd \in StorageCommand /\ display.cmd = None /\ displayQ = <<>> /\ displayQ' = displayQ
        /\ storageQ # <<>> /\ Elements(storageQ) = {cmd} \union Elements(rest)
        /\ rest \in Seq(StorageCommand)
        /\ cmd \in fresh => ClearOf(rest, fresh)
        /\ display.phase # "render" /\ display'.phase # "render"
    BY <1>1, <1>2, TailQueue, OnceLeaves
       DEF TakesCommand, TakeStorage, Openings, OneLatest, HandleStorage, Idle, Waiting
  <2>2. ~Flying /\ ~Flying' /\ (cmd \in fresh => Owed)
    BY <2>1 DEF Flying, Owed, ClearOf
  <2>3. CASE storageQ' = rest /\ display'.cmd \in {cmd, None} /\ UNCHANGED <<displayE, libraryE>>
    <3>1. Owed' => Owed
      BY <1>1, <2>1, <2>3 DEF Owed, ClearOf
    <3> QED BY <2>2, <2>3, <3>1 DEF Answers
  <2>4. CASE storageQ' = rest /\ HandleStorage(cmd) /\ display' = [phase |-> "idle", cmd |-> None]
    <3>1. cmd \in fresh => Owed /\ ~Owed' /\ Len(displayE) <= 1
      BY <1>1, <2>1, <2>2, <2>4 DEF Owed, Room
    <3>2. Owed' => Owed
      BY <1>1, <2>1, <2>4 DEF Owed, ClearOf
    <3>3. CASE cmd \in fresh
      BY <1>1, <2>1, <2>2, <2>4, <3>1, <3>3, ServedLatest DEF Answers
    <3>4. CASE cmd \notin fresh
      <4>1. /\ displayE' = displayE
            /\ \A e \in Elements(libraryE') : e.kind = "loaded" => e \in Elements(libraryE)
        BY <2>1, <2>4, <3>4, ServedStale
      <4> QED BY <2>2, <3>2, <4>1 DEF Answers
    <3> QED BY <3>3, <3>4
  <2>5. CASE /\ storageQ' = TrySend(rest, user.storage, StorageWork("refresh"))
             /\ display'.cmd = None /\ UNCHANGED <<displayE, libraryE>>
    <3>1. StorageWork("refresh") \in StorageCommand /\ StorageWork("refresh") \notin fresh
      BY OtherCommands
    <3>2. Elements(storageQ') \subseteq Elements(rest) \union {StorageWork("refresh")}
      <4>1. storageQ' \in {rest, Append(rest, StorageWork("refresh"))}
        BY <2>5 DEF TrySend
      <4> HIDE DEF rest
      <4>2. /\ Elements(Append(rest, StorageWork("refresh")))
                 = Elements(rest) \union {StorageWork("refresh")}
        BY <2>1, <3>1, AppendQueue
      <4> QED BY <4>1, <4>2
    <3>3. Owed' => Owed
      BY <1>1, <2>1, <2>5, <3>1, <3>2 DEF Owed, ClearOf
    <3> QED BY <2>2, <2>5, <3>3 DEF Answers
  <2> QED BY <1>2, <2>3, <2>4, <2>5 DEF TakesCommand
<1>3. CASE FinishPlate /\ EndsPlate
  <2> DEFINE cmd == display.cmd
  <2>1. /\ cmd \in StorageCommand /\ HandleStorage(cmd) /\ storageQ' = storageQ /\ display'.cmd = None
        /\ display'.phase = "idle" /\ display.phase = "plate" /\ displayQ' = displayQ
    BY <1>3, OtherCommands DEF EndsPlate, FinishPlate
  <2>2. (Flying' => Flying) /\ (Owed' => Owed) /\ (cmd \in fresh => Owed /\ ~Owed')
    BY <1>1, <2>1 DEF Flying, Owed, Openings, OneLatest
  <2>3. CASE cmd \in fresh
    <3>1. Len(displayE) <= 1
      BY <1>1, <2>2, <2>3 DEF Room
    <3> QED BY <1>1, <2>1, <2>2, <2>3, <3>1, ServedLatest DEF Answers
  <2>4. CASE cmd \notin fresh
    <3>1. /\ displayE' = displayE
          /\ \A e \in Elements(libraryE') : e.kind = "loaded" => e \in Elements(libraryE)
      BY <2>1, <2>4, ServedStale
    <3> QED BY <2>2, <3>1 DEF Answers
  <2> QED BY <2>3, <2>4
<1>4. CASE ~TakeStorage /\ ~FinishPlate /\ LeavesCommands
  <2>1. Owed' <=> Owed
    BY <1>1, <1>4 DEF LeavesCommands, Owed
  <2>2. CASE DisplayReady
    BY <2>1, <2>2 DEF DisplayReady, Idle, Waiting, channels, Flying, Answers
  <2>3. CASE StartRender
    BY <2>1, <2>3 DEF StartRender, Waiting, DisplayTurn, Flying, Answers
  <2>4. CASE FinishRender
    <3>1. displayQ = <<>> /\ display.phase = "render" /\ display'.phase = "idle" /\ displayQ' = displayQ
      BY <2>4 DEF FinishRender, Idle, Waiting, LoneFlight
    <3>2. PICK m \in {Signal("settled"), Signal("failed")} : RequiredDisplay(m) /\ Expected(m)
      BY <1>1, <2>4 DEF FinishRender
    <3>3. Flying /\ ~Flying' /\ Len(displayE) <= 1
      BY <1>1, <3>1 DEF Flying, Room
    <3>4. displayE' = Append(displayE, m) /\ libraryE' = libraryE
      BY <3>2, <3>3, CapsAssumption DEF RequiredDisplay, Required, Typed, TypedChannels
    <3> QED BY <1>1, <2>1, <3>2, <3>3, <3>4 DEF Answers
  <2>5. ~StartSleep
    BY TailQueue DEF StartSleep, NobodySleeps, Typed, TypedChannels
  <2>6. ~FinishSleep
    BY DEF FinishSleep, NobodySleeps
  <2> QED BY <1>4, <2>2, <2>3, <2>4, <2>5, <2>6 DEF Display
<1> QED BY <1>2, <1>3, <1>4, DisplaySteps

LEMMA DisplayLeavesRoom ==
  ASSUME Typed, Openings, NobodySleeps, LoneFlight, Room, Plain, Display
  PROVE  Room' /\ Plain'
<1>1. Answers
  BY DisplayAnswers
<1>2. /\ displayE \in Seq(DisplayEvent) /\ Len(displayE) \in Nat /\ cpu # "app" /\ cpu' # "app"
      /\ UNCHANGED <<user, app, blocked>>
      /\ dropped' = (dropped \/ ~(LoadedEvents \subseteq LoadedEvents'))
  <2>1. cpu # "app" /\ cpu' # "app"
    BY DEF Display, DisplayReady, StartRender, FinishRender, StartSleep, FinishSleep, TakeStorage,
           FinishPlate, DisplayTurn, Free, DisplayKeeps, Keep
  <2> QED BY <2>1, DisplaySteps DEF Display, appVars, Typed, TypedChannels
<1>3. /\ Elements(displayE) \subseteq Elements(displayE')
      /\ \A e \in Elements(displayE') : e \in Elements(displayE) \/ Expected(e)
  <2>1. CASE displayE' = displayE
    BY <2>1
  <2>2. CASE \E e \in DisplayEvent : Expected(e) /\ displayE' = Append(displayE, e)
    <3>1. PICK e \in DisplayEvent : Expected(e) /\ displayE' = Append(displayE, e)
      BY <2>2
    <3>2. Elements(Append(displayE, e)) = Elements(displayE) \union {e}
      BY <1>2, AppendQueue
    <3> QED BY <3>1, <3>2
  <2> QED BY <1>1, <2>1, <2>2 DEF Answers
<1>4. LoadedEvents \subseteq LoadedEvents'
  <2>1. LoadedEvents \subseteq Elements(displayE)
    BY DEF LoadedEvents, Plain
  <2> QED BY <1>3, <2>1 DEF LoadedEvents
<1>5. Plain'
  <2>1. \A e \in Elements(libraryE') : e.kind # "loaded"
    BY <1>1 DEF Answers, Plain
  <2> QED BY <1>2, <1>3, <1>4, <2>1 DEF Plain, Expected
<1>6. Room'
  <2>1. CASE displayE' = displayE /\ (Owed' => Owed) /\ (Flying' => Flying)
    BY <1>2, <2>1 DEF Room
  <2>2. ASSUME NEW e \in DisplayEvent, displayE' = Append(displayE, e),
               \/ Owed /\ ~Owed' /\ (Flying' => Flying)
               \/ Flying /\ ~Flying' /\ (Owed' => Owed)
        PROVE  Room'
    <3>1. Len(displayE') = Len(displayE) + 1
      BY <1>2, <2>2, AppendQueue
    <3>2. /\ Len(displayE) <= 1 /\ ~(Owed' /\ Flying')
          /\ Owed' \/ Flying' => Len(displayE) = 0
      BY <1>2, <2>2 DEF Room
    <3>3. Len(displayE) + 1 <= 2 /\ (Len(displayE) = 0 => Len(displayE) + 1 <= 1)
      BY <1>2, <3>2
    <3> QED BY <3>1, <3>2, <3>3 DEF Room
  <2> QED BY <1>1, <2>1, <2>2 DEF Answers
<1> QED BY <1>5, <1>6

LEMMA NextWaits ==
  ASSUME Typed, SendsAreFree, Openings, FliesAlone, Waits, [Next]_vars
  PROVE  Waits'
<1>0. user' = user
  BY DEF Next, App, Display, Power, Prompt, vars
<1> SUFFICES ASSUME StaysAwake, Room, Plain, NobodySleeps, LoneFlight PROVE Room' /\ Plain'
  <2>1. StaysAwake' => StaysAwake
    BY <1>0 DEF StaysAwake
  <2> QED BY <2>1 DEF FliesAlone, Waits
<1>1. CASE App
  <2>1. NobodySleeps' /\ LoneFlight' /\ SendsAreFree'
    BY <1>1, AppStaysAwake, AppFliesOne, AppRenders
  <2> QED BY <1>1, <2>1, AppLeavesRoom
<1>2. CASE Display
  BY <1>2, DisplayLeavesRoom
<1>3. ASSUME UNCHANGED <<user, displayQ, storageQ, displayE, libraryE, app, blocked, latest, display,
                         dropped>>,
             cpu' = "app" \/ cpu # "app" \/ cpu' = cpu
      PROVE  Room' /\ Plain'
  BY <1>3 DEF Room, Plain, Expected, Owed, Flying
<1>4. CASE Power
  <2>1. PowerAwake /\ powerQ # <<>> /\ cpu # "app"
    BY <1>4 DEF Power, Ask, Handshake, PowerAwake, NobodySleeps, Free
  <2>2. Elements(powerQ) = {Head(powerQ)} \union Elements(Tail(powerQ))
    BY <2>1, TailQueue DEF Typed, TypedChannels
  <2>3. displayQ' = displayQ
    BY <2>1, <2>2 DEF PowerAwake, NobodySleeps
  <2> QED BY <1>0, <1>3, <2>1, <2>3 DEF PowerAwake, appVars, dispVars
<1>5. CASE Prompt
  <2>1. PICK key \in user.keys : Press(key)
    BY <1>5 DEF Prompt, IdleExpires, Wake, StaysAwake, NobodySleeps
  <2> QED BY <1>0, <1>3, <2>1 DEF Press, appVars, dispVars
<1>6. CASE UNCHANGED vars
  BY <1>0, <1>3, <1>6 DEF vars, channels, appVars, dispVars
<1> QED BY <1>1, <1>2, <1>4, <1>5, <1>6 DEF Next

LEMMA InitOpenings ==
  ASSUME Init
  PROVE  Typed /\ SendsAreFree /\ Openings /\ FliesAlone /\ Waits
<1>1. Openings
  BY BootOpens DEF OpeningsAtBoot, Init, AtBoot
<1>2. FliesAlone
  <2> SUFFICES NobodySleeps /\ LoneFlight
    BY DEF FliesAlone
  <2>1. Elements(<<>>) = {} /\ Len(<<>>) = 0
    BY DEF Elements
  <2> QED BY <2>1 DEF Init, AppAtBoot, DisplayAtBoot, NobodySleeps, LoneFlight, Clear, Once
<1>3. Waits
  <2>1. Elements(<<>>) = {} /\ Len(<<>>) = 0
    BY DEF Elements
  <2> QED BY <2>1 DEF Init, AppAtBoot, Waits, Room, Plain
<1> QED BY <1>1, <1>2, <1>3, InitTyped DEF Init, SendsAreFree

OpeningInv == Typed /\ SendsAreFree /\ Openings /\ FliesAlone /\ Waits

LEMMA OpeningsKept == OpeningInv /\ [Next]_vars => OpeningInv'
  BY NextTyped, SendsStayFree, NextKeepsOpening, NextFliesAlone, NextWaits DEF OpeningInv

\* The app never waits for an answer that nobody owes it: neither for the end of a
\* render nor for the book it drops its input for.  Its open command is still the
\* latest request, held back, queued or being served, or its Loaded event is queued.
\* On a device that stays awake no event is ever pushed out, for the channels never
\* hold more than two; otherwise only the losses that OpeningAnswered names remain.
THEOREM AnswersAreOwed == Spec => []AnswersOwed
<1>1. Init => OpeningInv /\ RenderAnswered
  <2>1. Init => OpeningInv
    BY InitOpenings DEF OpeningInv
  <2>2. Init => RenderAnswered
    BY DEF Init, AppAtBoot, RenderAnswered
  <2> QED BY <2>1, <2>2
<1>2. OpeningInv /\ RenderAnswered /\ [Next]_vars => (OpeningInv /\ RenderAnswered)'
  BY OpeningsKept, AnswersComeBack DEF OpeningInv
<1>3. OpeningInv /\ RenderAnswered => AnswersOwed
  BY DEF OpeningInv, Openings, OpenFound, OpenUnderWay, OpeningAnswered, Waits, Plain, AnswersOwed
<1> QED BY <1>1, <1>2, <1>3, PTL DEF Spec
-----------------------------------------------------------------------------
(* The last place a patient reader turned to.                              *)

Outstanding == Unfinished \cap AppCommand

\* A key that waits finds nothing on its way to the card.
WaitingKey ==
  Patient /\ inputs # <<>> =>
    Len(inputs) = 1 /\ storageQ = <<>> /\ app.pending = None /\ blocked = None /\ display.cmd \notin AppCommand

\* Every record on its way is the last place; once it is gone, that place has
\* landed, is held, or was given up for another book's.
Records == Patient => \A c \in Outstanding \cap ProgressCommand : PlaceOf(c) = turned
Landed ==
  IF progress.pending = None THEN card.state = turned
  ELSE progress.pending = turned
       \/ ("store" \in user.faults /\ progress.pending.book # turned.book)
Landing ==
  Patient /\ (StaysAwake \/ "store" \notin user.faults) /\ turned # None =>
    Landed \/ Outstanding \cap ProgressCommand # {}
Turning == WaitingKey /\ Records /\ Landing

LEMMA NothingOutstanding ==
  ASSUME Typed, WaitingKey, Patient, inputs # <<>>
  PROVE  Outstanding = {}
<1>1. Elements(storageQ) = {} /\ HeldBack = {None} /\ display.cmd \notin AppCommand
  BY EmptyQueue DEF WaitingKey, HeldBack
<1> QED BY <1>1, UnfinishedParts, OtherCommands DEF Outstanding

\* A key taken then sends its command, and its record is sent or held back.
KeyAsks ==
  \E moved \in BOOLEAN :
    /\ turned' = IF moved THEN PlaceOf(reader') ELSE turned
    /\ Outstanding' = ({CommandFor(reader')} \ {None}) \union (IF moved THEN {RecordFor(reader')} ELSE {})
    /\ Elements(storageQ') \subseteq Outstanding'

LEMMA WaitingKeyAsks ==
  ASSUME Typed, WaitingKey, Patient, inputs # <<>>, NEW key, NEW block \in BOOLEAN, TakeKey(key, block),
         UNCHANGED display
  PROVE  KeyAsks
<1> DEFINE c == CommandFor(reader')
           r == RecordFor(reader')
<1>1. Outstanding = {} /\ storageQ = <<>> /\ app.pending = None /\ blocked = None
      /\ display.cmd \notin AppCommand
  BY NothingOutstanding DEF WaitingKey
<1>2. /\ c \in ReaderCommand \union {None} /\ r \in ProgressCommand
      /\ blocked' # None => blocked'.on = "display"
  BY KeyTaken
<1>3. PICK sent \in BOOLEAN, queued \in BOOLEAN, moved \in BOOLEAN : KeyStep(sent, queued, moved)
  BY KeyTaken DEF KeyEffect
<1> DEFINE queue == IF sent THEN Append(storageQ, c) ELSE storageQ
<1>4. /\ storageQ' = IF queued THEN Append(queue, r) ELSE queue
      /\ queued => moved
      /\ turned' = IF moved THEN PlaceOf(reader') ELSE turned
      /\ sent <=> c # None
      /\ app'.pending = IF moved /\ ~queued THEN r ELSE None
  <2>1. c # None => sent
    <3>1. ~(Len(storageQ) >= user.storage)
      BY <1>1, UserTyped, EmptyQueue
    <3> QED BY <1>3, <3>1 DEF KeyStep
  <2> QED BY <1>1, <1>3, <2>1 DEF KeyStep
<1> HIDE DEF c, r
<1> DEFINE S == {c, r}
<1>5. Elements(queue) = {c} \ {None} /\ queue \in Seq(S)
  <2>1. storageQ \in Seq(S) /\ Elements(storageQ) = {} /\ c \in S
    BY <1>1, EmptyQueue
  <2> HIDE DEF S
  <2>2. Elements(Append(storageQ, c)) = Elements(storageQ) \union {c} /\ Append(storageQ, c) \in Seq(S)
    BY <2>1, AppendQueue
  <2> QED BY <1>4, <2>1, <2>2
<1> HIDE DEF queue
<1>6. Elements(storageQ') = ({c} \ {None}) \union (IF queued THEN {r} ELSE {})
  <2>1. Elements(Append(queue, r)) = Elements(queue) \union {r}
    BY <1>5, AppendQueue
  <2> QED BY <1>4, <1>5, <2>1
<1>7. Unfinished' = Elements(storageQ') \union {display.cmd} \union {app'.pending}
  BY <1>2 DEF Unfinished
<1>8. None \notin AppCommand /\ r \in AppCommand /\ (c # None => c \in AppCommand)
  BY <1>2, OtherCommands DEF AppCommand
<1>9. Outstanding' = ({c} \ {None}) \union (IF moved THEN {r} ELSE {})
  BY <1>1, <1>4, <1>6, <1>7, <1>8 DEF Outstanding
<1>10. Elements(storageQ') \subseteq Outstanding'
  BY <1>4, <1>6, <1>9
<1> QED BY <1>4, <1>9, <1>10 DEF KeyAsks, c, r

LEMMA KeyTurns ==
  ASSUME Typed, Turning, Patient, inputs # <<>>, NEW key, NEW block \in BOOLEAN, TakeKey(key, block),
         UNCHANGED <<user, display, progress, card>>
  PROVE  Records' /\ Landing'
<1> DEFINE c == CommandFor(reader')
           r == RecordFor(reader')
<1>1. Outstanding = {}
  BY NothingOutstanding DEF Turning
<1>2. PICK moved \in BOOLEAN :
        /\ turned' = IF moved THEN PlaceOf(reader') ELSE turned
        /\ Outstanding' = ({c} \ {None}) \union (IF moved THEN {r} ELSE {})
  BY WaitingKeyAsks DEF KeyAsks, Turning
<1>3. /\ c \in ReaderCommand \union {None} /\ r \in ProgressCommand /\ PlaceOf(r) = PlaceOf(reader')
  BY KeyTaken DEF PlaceOf, RecordFor
<1> HIDE DEF c, r
<1>4. Outstanding' \cap ProgressCommand = IF moved THEN {r} ELSE {}
  BY <1>2, <1>3 DEF ReaderCommand, ProgressCommand
<1>5. Records'
  BY <1>2, <1>3, <1>4 DEF Records
<1>6. Landing'
  <2>1. CASE moved
    BY <1>4, <2>1 DEF Landing
  <2>2. CASE ~moved
    BY <1>1, <1>2, <2>2 DEF Turning, Landing, Landed, Patient, StaysAwake
  <2> QED BY <2>1, <2>2
<1> QED BY <1>5, <1>6

LEMMA StoreLands ==
  ASSUME Typed, UNCHANGED <<user, turned>>, turned # None,
         NEW c \in ProgressCommand, StoreProgress(c), PlaceOf(c) = turned
  PROVE  Landed'
<1> DEFINE held  == progress.pending
           other == held # None /\ held.book # turned.book
           base  == IF other THEN StoreIn(card, held) ELSE card
<1>1. \/ other /\ card' \in FailedStores(card, held) /\ progress' = progress
      \/ card' = StoreIn(base, turned) /\ progress' = [progress EXCEPT !.pending = None, !.written = TRUE]
      \/ progress' = [progress EXCEPT !.pending = turned, !.written = @ \/ other]
      \/ progress' = [progress EXCEPT !.pending = turned]
  BY DEF StoreProgress, HoldBack
<1>2. progress \in [pending : Position \union {None}, written : BOOLEAN, restored : BOOLEAN]
  BY DEF Typed, TypedDisplay
<1>3. CASE other /\ card' \in FailedStores(card, held) /\ progress' = progress
  BY <1>3 DEF FailedStores, Landed
<1>4. CASE card' = StoreIn(base, turned) /\ progress' = [progress EXCEPT !.pending = None, !.written = TRUE]
  BY <1>2, <1>4 DEF StoreIn, Landed
<1>5. CASE progress'.pending = turned
  BY <1>5 DEF Landed
<1> QED BY <1>1, <1>2, <1>3, <1>4, <1>5

LEMMA DisplayTurns ==
  ASSUME Typed, Openings, FliesAlone, Turning, Display
  PROVE  Records' /\ Landing'
<1>1. UNCHANGED <<user, turned, inputs>> /\ Carries
  BY DisplaySteps, DisplayCarries DEF appVars
<1>2. Outstanding' \subseteq Outstanding
  BY <1>1 DEF Outstanding, Carries
<1>3. Records'
  BY <1>1, <1>2 DEF Records, Turning, Patient
<1>4. Landing'
  <2> SUFFICES ASSUME Patient, StaysAwake \/ "store" \notin user.faults, turned # None,
                      Outstanding' \cap ProgressCommand = {}
               PROVE  Landed'
    BY <1>1 DEF Landing, Patient, StaysAwake
  <2>1. CASE Outstanding \cap ProgressCommand # {}
    <3>1. PICK c \in Outstanding \cap ProgressCommand : HandleStorage(c)
      BY <1>1, <2>1 DEF Outstanding, Carries
    <3>2. StoreProgress(c) /\ PlaceOf(c) = turned
      BY <3>1 DEF HandleStorage, OpenOrExtend, LoadChapters, JumpChapter, SkipStale, LoadCatalog,
                  ProgressCommand, Records, Turning
    <3> QED BY <1>1, <3>2, StoreLands
  <2>2. CASE Outstanding \cap ProgressCommand = {}
    <3>1. Landed
      BY <2>2 DEF Turning, Landing
    <3>3. CASE progress'.pending = progress.pending /\ card' = card
      BY <1>1, <3>1, <3>3 DEF Landed
    <3>2. CASE StartSleep
      <4>1. "store" \notin user.faults
        BY <3>2, TailQueue DEF StartSleep, FliesAlone, NobodySleeps, Typed, TypedChannels
      <4>2. FlushOk
        BY <3>2, <4>1 DEF StartSleep, FlushFails, FailedStores
      <4>3. CASE progress.pending = None
        BY <3>3, <4>2, <4>3 DEF FlushOk
      <4>4. CASE progress.pending # None
        <5>1. progress.pending = turned
          BY <3>1, <4>1, <4>4 DEF Landed
        <5>2. card'.state = turned /\ progress'.pending = None
          <6>1. /\ card' = StoreIn(card, turned)
                /\ progress' = [progress EXCEPT !.pending = None, !.written = TRUE]
            BY <4>2, <4>4, <5>1 DEF FlushOk
          <6>2. progress'.pending = None
            BY <6>1 DEF Typed, TypedDisplay
          <6> QED BY <6>1, <6>2 DEF StoreIn
        <5> QED BY <1>1, <5>2 DEF Landed
      <4> QED BY <4>3, <4>4
    <3>4. ASSUME NEW cmd \in StorageCommand, HandleStorage(cmd), cmd \notin ProgressCommand
          PROVE  progress'.pending = progress.pending /\ card' = card
      <4>1. ~StoreProgress(cmd)
        BY <3>4 DEF StoreProgress, StorageCommand, AppCommand, ReaderCommand, CatalogCommand
      <4> QED BY <3>4, <4>1 DEF HandleStorage, OpenOrExtend, LoadChapters, JumpChapter, SkipStale,
                  LoadCatalog, Typed, TypedDisplay
    <3>5. CASE FinishPlate /\ EndsPlate
      BY <3>3, <3>4, <3>5 DEF EndsPlate, StorageCommand, AppCommand, ReaderCommand, ProgressCommand
    <3>6. CASE TakeStorage /\ TakesCommand(Head(storageQ))
      <4>1. /\ storageQ # <<>> /\ Head(storageQ) \in StorageCommand
            /\ \/ UNCHANGED <<progress, card>>
               \/ HandleStorage(Head(storageQ))
        BY <3>6 DEF TakesCommand
      <4>2. Head(storageQ) \in Unfinished
        BY <4>1, TailQueue DEF Unfinished, Typed, TypedChannels
      <4>3. Head(storageQ) \notin ProgressCommand
        BY <2>2, <4>2 DEF Outstanding, AppCommand
      <4> QED BY <3>3, <3>4, <4>1, <4>3
    <3>7. CASE DisplayReady \/ StartRender \/ FinishRender \/ FinishSleep
      BY <3>3, <3>7 DEF DisplayReady, StartRender, FinishRender, FinishSleep
    <3> QED BY <3>2, <3>5, <3>6, <3>7, DisplaySteps DEF Display
  <2> QED BY <2>1, <2>2
<1> QED BY <1>3, <1>4

LEMMA QuietTurns ==
  ASSUME Typed, Openings, Turning, QuietTurn, UNCHANGED <<user, display, progress, card>>
  PROVE  Records' /\ Landing'
<1>1. Unfinished' \ {None} = Unfinished \ {None}
  BY QuietUnfinished DEF QuietTurn, Openings
<1>2. Outstanding' = Outstanding
  BY <1>1, OtherCommands DEF Outstanding
<1> QED BY <1>2 DEF QuietTurn, Turning, Records, Landing, Landed, Patient, StaysAwake

LEMMA NextWaitingKey ==
  ASSUME Typed, WaitingKey, [Next]_vars
  PROVE  WaitingKey'
<1> SUFFICES ASSUME Patient, inputs' # <<>>
             PROVE  /\ Len(inputs') = 1 /\ storageQ' = <<>> /\ app'.pending = None /\ blocked' = None
                    /\ display'.cmd \notin AppCommand
  <2>1. user' = user
    BY DEF Next, App, Display, Power, Prompt, vars
  <2> QED BY <2>1 DEF WaitingKey, Patient
<1>1. CASE inputs' = inputs /\ UNCHANGED <<storageQ, app, blocked, display>>
  BY <1>1 DEF WaitingKey
<1>2. CASE App
  <2>1. CASE PowerKey \/ AppKey
    <3>1. inputs # <<>> /\ inputs' = Tail(inputs) /\ inputs \in Seq(Keys)
      BY <2>1 DEF PowerKey, AppKey, Typed, TypedChannels
    <3>2. Len(inputs') = 0 /\ inputs' \in Seq(Keys)
      BY <3>1, TailQueue DEF WaitingKey
    <3> QED BY <3>2
  <2>2. CASE AppDisplayEvent \/ AppLibraryEvent
    BY <2>2 DEF AppDisplayEvent, AppLibraryEvent
  <2>3. CASE Resume
    BY <2>3 DEF Resume, WaitingKey
  <2> QED BY <1>2, <2>1, <2>2, <2>3 DEF App
<1>3. CASE Display
  <2>1. /\ inputs' = inputs /\ UNCHANGED <<app, blocked>> /\ storageQ = <<>>
        /\ display.cmd \notin AppCommand
    BY <1>3, DisplaySteps DEF appVars, WaitingKey
  <2>2. LeavesCommands
    BY <1>3, <2>1, DisplaySteps DEF TakesCommand, EndsPlate, AppCommand
  <2>3. display'.cmd \notin AppCommand
    BY <2>2, OtherCommands DEF LeavesCommands, RenderCommand, AppCommand, ReaderCommand, ProgressCommand
  <2> QED BY <2>1, <2>2, <2>3 DEF LeavesCommands, WaitingKey
<1>4. CASE Power \/ IdleExpires
  BY <1>1, <1>4, AsksForSleep DEF Power, appVars, dispVars
<1>5. CASE Wake
  BY <1>5 DEF Wake
<1>6. ASSUME NEW key \in user.keys, Press(key) PROVE Len(inputs') = 1 /\ storageQ' = <<>>
             /\ app'.pending = None /\ blocked' = None /\ display'.cmd \notin AppCommand
  <2>1. inputs' = Required(<<>>, InputCap, key) /\ Drained /\ UNCHANGED <<storageQ, app, blocked, display>>
    BY <1>6 DEF Press, Patient, AtRest, Drained, appVars, dispVars
  <2>2. inputs' = Append(<<>>, key)
    BY <2>1, CapsAssumption DEF Required
  <2>3. display.cmd = None
    BY <2>1 DEF Drained, Typed, TypedDisplay, DisplayState
  <2> QED BY <2>1, <2>2, <2>3, OtherCommands DEF Drained
<1>7. CASE UNCHANGED vars
  BY <1>1, <1>7 DEF vars, channels, appVars, dispVars
<1> QED BY <1>2, <1>3, <1>4, <1>5, <1>6, <1>7 DEF Next, Prompt

BootTurns == AtBoot /\ turned = None => Turning
LEMMA TurnsAtBoot == BootTurns
<1> SUFFICES ASSUME AtBoot, turned = None PROVE Turning
  BY DEF BootTurns
<1>1. /\ HeldBack = {None} /\ display.cmd = None /\ Elements(storageQ) = {StorageWork("catalog")}
  BY DEF AtBoot, HeldBack, AppAtBoot, DisplayAtBoot, Elements
<1>2. StorageWork("catalog").kind = "catalog"
  BY DEF StorageWork
<1>3. Outstanding = {}
  BY <1>1, <1>2, UnfinishedParts, OtherCommands
     DEF Outstanding, AppCommand, ReaderCommand, ProgressCommand
<1> QED BY <1>3 DEF Turning, WaitingKey, Records, Landing, AtBoot

LEMMA NextTurning ==
  ASSUME Typed, Openings, FliesAlone, Turning, [Next]_vars
  PROVE  Turning'
<1>1. WaitingKey'
  BY NextWaitingKey DEF Turning
<1>2. CASE UNCHANGED <<user, storageQ, app, blocked, display, progress, card, turned>>
  <2>1. Records' /\ Landing'
    BY <1>2 DEF Turning, Records, Landing, Landed, Outstanding, Unfinished, Patient, StaysAwake
  <2> QED BY <1>1, <2>1 DEF Turning
<1>3. CASE App
  <2>1. UNCHANGED <<user, display, progress, card>>
    BY <1>3 DEF App, PowerKey, AppKey, AppDisplayEvent, AppLibraryEvent, Resume, dispVars
  <2>2. CASE QuietTurn
    BY <1>1, <2>1, <2>2, QuietTurns DEF Turning
  <2>3. CASE AppKey /\ \E block \in BOOLEAN : TakeKey(Head(inputs), block)
    <3>1. inputs # <<>>
      BY <2>3 DEF AppKey
    <3>2. Patient => Records' /\ Landing'
      BY <2>1, <2>3, <3>1, KeyTurns
    <3>3. ~Patient => Records' /\ Landing'
      BY <2>1 DEF Records, Landing, Patient
    <3> QED BY <1>1, <3>2, <3>3 DEF Turning
  <2> QED BY <1>3, <2>2, <2>3, AppTurns DEF Openings
<1>4. CASE Display
  BY <1>1, <1>4, DisplayTurns DEF Turning
<1>5. CASE Power \/ IdleExpires
  <2>1. user' = user
    BY DEF Next, App, Display, Power, Prompt, vars
  <2> QED BY <1>2, <1>5, <2>1, AsksForSleep DEF Power, appVars, dispVars
<1>6. CASE Wake
  <2>1. AtBoot' /\ turned' = None
    BY <1>6 DEF Wake, AtBoot
  <2>2. BootTurns'
    BY TurnsAtBoot, PTL
  <2> QED BY <2>1, <2>2 DEF BootTurns
<1>7. CASE Prompt /\ \E key \in user.keys : Press(key)
  BY <1>2, <1>7 DEF Press, Prompt, appVars, dispVars
<1>8. CASE UNCHANGED vars
  BY <1>2, <1>8 DEF vars, channels, appVars, dispVars
<1> QED BY <1>3, <1>4, <1>5, <1>6, <1>7, <1>8 DEF Next, Prompt

TurningInv == OpeningInv /\ Turning

LEMMA TurningsKept == TurningInv /\ [Next]_vars => TurningInv'
  BY OpeningsKept, NextTurning DEF TurningInv, OpeningInv

\* When all is quiet, the last place a patient reader turned to is on the card, or
\* the display task holds it for the next write; it is given up only if the place of
\* another book failed to land. Holds through any number of sleeps, full queues and
\* records that the app held back itself, for the records that are on their way at
\* one time all name the same place.
THEOREM LastTurnKept == Spec => []TurnedKept
<1>1. Init => TurningInv
  <2> SUFFICES ASSUME Init PROVE OpeningInv /\ Turning
    BY DEF TurningInv
  <2>1. AtBoot /\ turned = None
    BY DEF Init, AtBoot
  <2> QED BY <2>1, InitOpenings, TurnsAtBoot DEF OpeningInv, BootTurns
<1>2. TurningInv => TurnedKept
  <2> SUFFICES ASSUME TurningInv, Patient, StaysAwake \/ "store" \notin user.faults, Drained, turned # None
               PROVE  Landed
    BY DEF TurnedKept, Landed
  <2>1. display.cmd = None /\ Elements(storageQ) = {} /\ HeldBack = {None}
    BY EmptyQueue DEF Drained, TurningInv, OpeningInv, Typed, TypedDisplay, DisplayState, HeldBack
  <2>2. Outstanding = {}
    BY <2>1, UnfinishedParts, OtherCommands DEF Outstanding
  <2> QED BY <2>2 DEF TurningInv, Turning, Landing
<1> QED BY <1>1, <1>2, TurningsKept, PTL DEF Spec
-----------------------------------------------------------------------------
(* What a patient reader of a device that stays awake has before them.     *)

Asked == Outstanding \cap ReaderCommand
News == {e \in Elements(displayE) \union Elements(libraryE) : e.kind \in {"loaded", "restored"}}

\* A render of the page is due, or the panel shows it or is about to.
Due == \/ app.again /\ (app.rendering \/ (blocked # None /\ blocked.on = "storage"))
       \/ News # {}
Shown ==
  /\ \A m \in Elements(displayQ) : m.frame = reader
  /\ display.phase = "render" => display.cmd.frame = reader
  /\ displayQ # <<>> \/ display.phase = "render" \/ panel.last = reader

\* On a page: everything asked for and every answer is about its book, which is
\* loaded or asked for, and a render is due unless the panel catches up.
OnePage ==
  /\ Elements(storageQ) \cap CatalogCommand = {}
  /\ \A c \in Asked : c.kind \in {"open", "extend", "jump"} /\ c.book = reader.book /\ c.req = latest
  /\ \A e \in News : e.book = reader.book
  /\ reader.book \in Books => store.loaded = reader.book \/ Asked # {}
  /\ "flush" \notin user.faults => Due \/ Shown

\* A key that waits finds all tasks at rest, and none is taken before the first paint.
AtRestForKeys ==
  /\ inputs # <<>> => displayQ = <<>> /\ displayE = <<>> /\ libraryE = <<>> /\ display.phase = "idle"
  /\ inputs # <<>> \/ reader.view # "home" => ~app.boot
Ready == AtRestForKeys /\ (reader.view = "reading" => OnePage)
Loads == Patient /\ StaysAwake => Ready

\* The end of a turn that wants a render makes it due or sends it.
LEMMA PaintShows ==
  ASSUME Typed, NEW a \in AppFlags, NEW kind,
         Paint(a, kind) \/ PaintEvent(a) \/ (AfterSettled(a) /\ a.again /\ ~a.rendering),
         display' = display, ~a.rendering => displayQ = <<>> /\ display.phase # "render"
  PROVE  (Due \/ Shown)'
<1>1. ASSUME NEW b, NEW k, SendRender(b, k), displayQ = <<>>, display.phase # "render"
      PROVE  Shown'
  <2>1. displayQ' = Append(displayQ, [kind |-> k, frame |-> reader'])
    BY <1>1, UserTyped, EmptyQueue DEF SendRender
  <2> DEFINE m == [kind |-> k, frame |-> reader']
             S == {m}
  <2>2. displayQ \in Seq(S) /\ Elements(displayQ) = {} /\ m \in S /\ m.frame = reader'
    BY <1>1, EmptyQueue
  <2> HIDE DEF m, S
  <2>3. Elements(displayQ') = {m} /\ Len(displayQ') = Len(displayQ) + 1 /\ Len(displayQ) \in Nat
    BY <2>1, <2>2, AppendQueue DEF m
  <2>4. displayQ' # <<>>
    BY <2>3, EmptyQueue
  <2> QED BY <1>1, <2>2, <2>3, <2>4 DEF Shown
<1>2. ASSUME a.rendering, NoPaint([a EXCEPT !.again = TRUE]) PROVE Due'
  BY <1>2 DEF NoPaint, AppFlags, Due
<1>3. CASE Paint(a, kind)
  BY <1>1, <1>2, <1>3 DEF Paint
<1>4. CASE PaintEvent(a)
  BY <1>1, <1>2, <1>4 DEF PaintEvent
<1>5. CASE AfterSettled(a) /\ a.again /\ ~a.rendering
  BY <1>1, <1>5 DEF AfterSettled
<1> QED BY <1>3, <1>4, <1>5

\* A turn of the app that takes no key leaves the view, and the book of a page.
LEMMA EventKeepsPage ==
  ASSUME Typed, NEW e \in ReaderEvent, reader' = AfterEvent(e)
  PROVE  /\ reader'.view = reader.view
         /\ reader.view = "reading" /\ (e.kind = "restored" => e.book = reader.book)
              => reader'.book = reader.book
         /\ e.kind = "scanned" /\ reader.view = "reading" => reader' = reader
<1>1. reader \in Frame /\ e.kind \in {"loaded", "restored", "scanned"}
  BY DEF Typed, TypedApp, ReaderEvent, LoadedBook, RestoredPlace, ScannedShelf
<1>2. CASE e.kind = "loaded" /\ e.book = reader.book
  BY <1>1, <1>2 DEF AfterEvent, Frame
<1>3. CASE e.kind = "restored"
  BY <1>1, <1>3 DEF AfterEvent, Frame
<1>4. CASE e.kind = "scanned"
  BY <1>1, <1>4 DEF AfterEvent, Frame
<1>5. CASE e.kind = "loaded" /\ e.book # reader.book
  BY <1>1, <1>5 DEF AfterEvent
<1> QED BY <1>1, <1>2, <1>3, <1>4, <1>5

LEMMA PaintKeepsBoot ==
  ASSUME NEW a \in AppFlags, NEW kind, Paint(a, kind) \/ PaintEvent(a) \/ NoPaint(a) \/ AfterSettled(a)
  PROVE  app'.boot => a.boot
<1>1. ASSUME NEW b \in AppFlags, NEW k, SendRender(b, k) \/ NoPaint(b)
      PROVE  app'.boot = b.boot
  BY <1>1 DEF SendRender, NoPaint, AppFlags
<1>2. /\ [a EXCEPT !.again = TRUE] \in AppFlags /\ [a EXCEPT !.again = TRUE].boot = a.boot
      /\ [a EXCEPT !.boot = FALSE] \in AppFlags /\ [a EXCEPT !.boot = FALSE].boot = FALSE
      /\ [a EXCEPT !.suppress = FALSE, !.block = TRUE] \in AppFlags
      /\ [a EXCEPT !.suppress = FALSE, !.block = TRUE].boot = a.boot
  BY DEF AppFlags
<1>3. CASE Paint(a, kind)
  BY <1>1, <1>2, <1>3 DEF Paint
<1>4. CASE PaintEvent(a)
  BY <1>1, <1>2, <1>4 DEF PaintEvent
<1>5. CASE NoPaint(a) \/ AfterSettled(a)
  BY <1>1, <1>2, <1>5 DEF AfterSettled
<1> QED BY <1>3, <1>4, <1>5

LEMMA KeyReads ==
  ASSUME Typed, WaitingKey, Patient, RenderAnswered, Ready, inputs # <<>>, inputs' = <<>>,
         NEW key, NEW block \in BOOLEAN, TakeKey(key, block),
         UNCHANGED <<user, display, displayE, libraryE, store, panel>>
  PROVE  Ready'
<1> DEFINE c == CommandFor(reader')
<1>1. /\ displayQ = <<>> /\ displayE = <<>> /\ libraryE = <<>> /\ display.phase = "idle" /\ ~app.boot
      /\ Outstanding = {} /\ ~app.rendering /\ News = {}
  <2>1. /\ displayQ = <<>> /\ displayE = <<>> /\ libraryE = <<>> /\ display.phase = "idle" /\ ~app.boot
    BY DEF Ready, AtRestForKeys
  <2>2. Elements(displayQ) = {} /\ Elements(displayE) = {} /\ Elements(libraryE) = {}
    BY <2>1, EmptyQueue
  <2> QED BY <2>1, <2>2, NothingOutstanding DEF RenderAnswered, News
<1>2. /\ reader \in Frame /\ reader' \in Frame /\ c \in ReaderCommand \union {None}
      /\ RecordFor(reader') \in ProgressCommand
      /\ latest' = IF c = None THEN latest ELSE latest + 1
      /\ c # None => c.req = latest + 1 /\ c.kind = KindFor(reader') /\ c.book = reader'.book
      /\ c = None => KindFor(reader') = "none"
  <2>1. /\ reader \in Frame /\ reader' \in Frame /\ c \in ReaderCommand \union {None}
        /\ RecordFor(reader') \in ProgressCommand /\ latest \in Nat
        /\ latest' = IF c = None THEN latest ELSE latest + 1
    BY KeyTaken DEF Typed, TypedApp
  <2> DEFINE m == [kind |-> KindFor(reader'), req |-> latest + 1, book |-> reader'.book, page |-> reader'.page]
  <2>2. c = IF KindFor(reader') = "none" THEN None ELSE m
    BY DEF CommandFor
  <2>3. KindFor(reader') # "none" => m \in Command
    BY <2>1 DEF KindFor, Command, Frame
  <2>4. KindFor(reader') # "none" => m # None
    BY <2>3, NoneAssumption
  <2>5. m.kind = KindFor(reader') /\ m.req = latest + 1 /\ m.book = reader'.book
    OBVIOUS
  <2> HIDE DEF c, m
  <2> QED BY <2>1, <2>2, <2>4, <2>5
<1>3. PICK a \in AppFlags :
        /\ a.rendering = app.rendering /\ a.boot = app.boot
        /\ \/ Paint(a, "page")
           \/ NoPaint(a) /\ c # None /\ c.kind = "chapters"
  BY KeyTaken DEF KeyPaint
<1>4. PICK moved \in BOOLEAN :
        /\ Outstanding' = ({c} \ {None}) \union (IF moved THEN {RecordFor(reader')} ELSE {})
        /\ Elements(storageQ') \subseteq Outstanding'
  BY WaitingKeyAsks DEF KeyAsks
<1>5. Asked' = {c} \ {None} /\ Elements(storageQ') \cap CatalogCommand = {}
  <2>1. /\ ReaderCommand \cap ProgressCommand = {}
        /\ (ReaderCommand \union ProgressCommand) \cap CatalogCommand = {}
    BY DEF ReaderCommand, ProgressCommand, CatalogCommand
  <2>2. Outstanding' \subseteq ReaderCommand \union ProgressCommand
    BY <1>2, <1>4
  <2> HIDE DEF c
  <2>3. Asked' = {c} \ {None}
    BY <1>2, <1>4, <2>1 DEF Asked
  <2> QED BY <1>4, <2>1, <2>2, <2>3
<1> HIDE DEF c
<1>6. AtRestForKeys'
  BY <1>1, <1>3, PaintKeepsBoot DEF AtRestForKeys
<1>7. ASSUME reader'.view = "reading" PROVE OnePage'
  <2>1. c # None => c.kind \in {"open", "extend", "jump"} /\ c.req = latest'
    BY <1>2, <1>7 DEF KindFor, ReaderCommand
  <2>2. c = None /\ reader'.book \in Books => reader.view = "reading" /\ reader.book = reader'.book
    BY <1>2, <1>7, BooksAssumption DEF KindFor
  <2>3. c = None /\ reader'.book \in Books => store'.loaded = reader'.book
    BY <1>1, <2>2 DEF Ready, OnePage, Asked
  <2>4. (Due \/ Shown)'
    <3>1. Paint(a, "page")
      BY <1>3, <2>1
    <3> QED BY <1>1, <1>3, <3>1, PaintShows
  <2>5. News' = {}
    BY <1>1 DEF News
  <2> QED BY <1>2, <1>5, <2>1, <2>3, <2>4, <2>5 DEF OnePage
<1> QED BY <1>6, <1>7 DEF Ready

\* What leaves the page, its commands and its events alone.
LEMMA PageStays ==
  ASSUME Ready, inputs' \in {inputs, <<>>},
         UNCHANGED <<user, reader, displayQ, storageQ, displayE, libraryE, blocked, latest, display,
                     panel, store>>,
         app'.rendering = app.rendering, app'.again = app.again, app'.pending = app.pending,
         app'.boot = app.boot
  PROVE  Ready'
<1>1. Asked' = Asked /\ News' = News
  BY DEF Asked, Outstanding, Unfinished, News
<1>2. Due' = Due /\ Shown' = Shown
  BY <1>1 DEF Due, Shown
<1>3. AtRestForKeys'
  BY DEF Ready, AtRestForKeys
<1>4. OnePage => OnePage'
  BY <1>1, <1>2 DEF OnePage
<1> QED BY <1>3, <1>4 DEF Ready

\* A turn of the app that takes no key keeps what is asked for.
LEMMA QuietPage ==
  ASSUME Typed, HeldAlone, HandsOver, Ready, inputs = <<>>, inputs' = <<>>,
         UNCHANGED <<user, latest, display, store, panel>>,
         reader'.view = reader.view, reader.view = "reading" => reader'.book = reader.book,
         app'.boot => app.boot, News' \subseteq News,
         reader.view = "reading" /\ "flush" \notin user.faults => (Due \/ Shown)'
  PROVE  Ready'
<1>1. Outstanding' = Outstanding
  <2>1. Unfinished' \ {None} = Unfinished \ {None}
    BY QuietUnfinished
  <2> QED BY <2>1, OtherCommands DEF Outstanding
<1>2. Asked' = Asked
  BY <1>1 DEF Asked
<1>3. ASSUME Elements(storageQ) \cap CatalogCommand = {}
      PROVE  Elements(storageQ') \cap CatalogCommand = {}
  <2>1. CASE storageQ' = storageQ
    BY <1>3, <2>1
  <2>2. CASE \E c \in AppCommand : storageQ' = Append(storageQ, c)
    <3>1. PICK c \in AppCommand : storageQ' = Append(storageQ, c)
      BY <2>2
    <3>2. c \in StorageCommand /\ c \notin CatalogCommand
      BY DEF StorageCommand, AppCommand, ReaderCommand, ProgressCommand, CatalogCommand
    <3>3. Elements(Append(storageQ, c)) = Elements(storageQ) \union {c}
      BY <3>2, AppendQueue DEF Typed, TypedChannels
    <3> QED BY <1>3, <3>1, <3>2, <3>3
  <2> QED BY <2>1, <2>2 DEF HandsOver
<1>4. AtRestForKeys'
  BY DEF Ready, AtRestForKeys
<1>5. reader.view = "reading" => OnePage'
  BY <1>2, <1>3 DEF Ready, OnePage
<1> QED BY <1>4, <1>5 DEF Ready

\* A turn that paints nothing leaves what is due or shown.
LEMMA NothingPainted ==
  ASSUME Due \/ Shown, NEW a \in AppFlags, NoPaint(a), a.again = app.again, a.rendering = app.rendering,
         blocked = None \/ ~app.again, News' = News, UNCHANGED <<reader, display, panel>>
  PROVE  (Due \/ Shown)'
<1>1. Due => Due'
  BY DEF Due, NoPaint
<1>2. Shown => Shown'
  BY DEF Shown, NoPaint
<1> QED BY <1>1, <1>2

LEMMA SettledReads ==
  ASSUME Typed, LoneFlight, Plain, AppTurn, displayE # <<>>, Settled, displayE' = Tail(displayE),
         UNCHANGED <<user, libraryE, display, panel>>
  PROVE  /\ reader' = reader /\ News' \subseteq News /\ (app'.boot => app.boot)
         /\ Due \/ Shown => (Due \/ Shown)'
<1> DEFINE cmd  == app.pending
           open == cmd # None /\ cmd.kind = "open"
           newOpening == IF open THEN cmd.book ELSE app.opening
           newSuppress == app.suppress \/ open
           a    == [app EXCEPT !.rendering = FALSE, !.pending = None,
                               !.opening = newOpening, !.suppress = newSuppress]
<1>1. /\ app \in AppFlags /\ Elements(displayE) = {Head(displayE)} \union Elements(Tail(displayE))
      /\ Head(displayE).kind = "settled" /\ reader' = reader /\ blocked = None
  BY LoadedEventBooks DEF Typed, TypedApp, Settled, AppTurn
<1>2. displayQ = <<>> /\ display.phase # "render" /\ News' = News
  <2>1. Head(displayE) \in Elements(displayE) /\ IsAnswer(Head(displayE))
    BY <1>1 DEF IsAnswer
  <2> QED BY <1>1, <2>1 DEF LoneFlight, Clear, News
<1>3. newOpening \in Books \union {None} /\ newSuppress \in BOOLEAN
  BY <1>1 DEF AppFlags, AppCommand, ReaderCommand, ProgressCommand
<1>4. \/ cmd # None /\ blocked' = [on |-> "storage", m |-> cmd] /\ app' = a /\ displayQ' = displayQ
      \/ AfterSettled(a)
  BY DEF Settled
<1>5. cmd # None /\ blocked' = [on |-> "storage", m |-> cmd] => blocked' # None
  <2>1. cmd # None => cmd \in AppCommand
    BY <1>1 DEF AppFlags
  <2> QED BY <2>1, NoneAssumption DEF AppCommand, ReaderCommand, ProgressCommand, Command
<1> HIDE DEF newOpening, newSuppress
<1>6. a \in AppFlags /\ a.again = app.again /\ ~a.rendering /\ a.boot = app.boot
  BY <1>1, <1>3 DEF AppFlags
<1> HIDE DEF a
<1>7. app'.boot => app.boot
  BY <1>4, <1>6, PaintKeepsBoot
<1>8. ASSUME Due \/ Shown PROVE (Due \/ Shown)'
  <2>1. CASE AfterSettled(a) /\ a.again
    BY <1>2, <1>6, <2>1, PaintShows
  <2>2. ASSUME displayQ' = displayQ, ~app.again PROVE (Due \/ Shown)'
    <3>1. Due => Due'
      BY <1>2, <2>2 DEF Due
    <3>2. Shown => Shown'
      BY <1>1, <2>2 DEF Shown
    <3> QED BY <1>8, <3>1, <3>2
  <2>3. CASE AfterSettled(a) /\ ~a.again
    BY <1>6, <2>2, <2>3 DEF AfterSettled, NoPaint
  <2>4. CASE cmd # None /\ blocked' = [on |-> "storage", m |-> cmd] /\ app' = a /\ displayQ' = displayQ
    <3>1. app.again => Due'
      BY <1>5, <1>6, <2>4 DEF Due
    <3> QED BY <2>2, <2>4, <3>1
  <2> QED BY <1>4, <2>1, <2>3, <2>4
<1> QED BY <1>1, <1>2, <1>7, <1>8

LEMMA LibraryEventReads ==
  ASSUME Typed, LoneFlight, AppTurn, NEW e \in ReaderEvent, LibraryEvent(e), ~app.boot,
         reader.view = "reading", e.kind # "scanned" => e.book = reader.book,
         e.kind = "scanned" => News' = News, UNCHANGED <<user, display, panel>>
  PROVE  Due \/ Shown => (Due \/ Shown)'
<1> DEFINE newOpening == IF e.kind = "loaded" /\ e.book = app.opening THEN None ELSE app.opening
           newListed == app.listed \/ e.kind = "scanned"
           a == [app EXCEPT !.opening = newOpening, !.listed = newListed]
<1>1. /\ app \in AppFlags /\ reader' = AfterEvent(e) /\ blocked = None
      /\ IF AffectsView(e) THEN PaintEvent(a) ELSE NoPaint(a)
      /\ e.kind \in {"loaded", "restored", "scanned"}
  BY DEF Typed, TypedApp, LibraryEvent, AppTurn, ReaderEvent, LoadedBook, RestoredPlace, ScannedShelf
<1>2. newOpening \in Books \union {None} /\ newListed \in BOOLEAN
  BY <1>1 DEF AppFlags
<1> HIDE DEF newOpening, newListed
<1>3. a \in AppFlags /\ a.again = app.again /\ a.rendering = app.rendering
  BY <1>1, <1>2 DEF AppFlags
<1> HIDE DEF a
<1>4. CASE e.kind = "scanned"
  <2>1. NoPaint(a) /\ reader' = reader
    BY <1>1, <1>4, EventKeepsPage DEF AffectsView
  <2>2. News' = News
    BY <1>4 DEF News
  <2> QED BY <1>1, <1>3, <2>1, <2>2, NothingPainted
<1>5. CASE e.kind # "scanned"
  <2>1. PaintEvent(a)
    BY <1>1, <1>5 DEF AffectsView
  <2>2. ~a.rendering => displayQ = <<>> /\ display.phase # "render"
    BY <1>3 DEF LoneFlight
  <2> QED BY <1>3, <2>1, <2>2, PaintShows
<1> QED BY <1>4, <1>5

LEMMA EventReads ==
  ASSUME Typed, LoneFlight, Ready, AppTurn, NEW e \in ReaderEvent, LibraryEvent(e),
         e.kind = "scanned" \/ e \in News, e.kind = "scanned" => News' = News,
         UNCHANGED <<user, display, panel>>
  PROVE  /\ reader'.view = reader.view /\ (app'.boot => app.boot)
         /\ reader.view = "reading" => reader'.book = reader.book
         /\ reader.view = "reading" /\ "flush" \notin user.faults => (Due \/ Shown)'
<1>1. app'.boot => app.boot
  <2> DEFINE newOpening == IF e.kind = "loaded" /\ e.book = app.opening THEN None ELSE app.opening
             newListed == app.listed \/ e.kind = "scanned"
             a == [app EXCEPT !.opening = newOpening, !.listed = newListed]
  <2>1. app \in AppFlags /\ (PaintEvent(a) \/ NoPaint(a))
    BY DEF Typed, TypedApp, LibraryEvent
  <2>2. newOpening \in Books \union {None} /\ newListed \in BOOLEAN
    BY <2>1 DEF AppFlags
  <2> HIDE DEF newOpening, newListed
  <2>3. a \in AppFlags /\ a.boot = app.boot
    BY <2>1, <2>2 DEF AppFlags
  <2> QED BY <2>1, <2>3, PaintKeepsBoot
<1>2. reader.view = "reading" => OnePage /\ ~app.boot
  BY DEF Ready, AtRestForKeys
<1>3. reader.view = "reading" /\ e.kind # "scanned" => e.book = reader.book
  BY <1>2 DEF OnePage
<1>4. reader' = AfterEvent(e)
  BY DEF LibraryEvent
<1>5. reader'.view = reader.view /\ (reader.view = "reading" => reader'.book = reader.book)
  BY <1>3, <1>4, EventKeepsPage
<1>6. reader.view = "reading" /\ "flush" \notin user.faults => (Due \/ Shown)'
  BY <1>2, <1>3, LibraryEventReads DEF OnePage
<1> QED BY <1>1, <1>5, <1>6

LEMMA AppReads ==
  ASSUME Typed, SendsAreFree, Openings, NobodySleeps, LoneFlight, Plain, WaitingKey, RenderAnswered,
         Patient, StaysAwake, Ready, App
  PROVE  Ready'
<1>1. UNCHANGED <<user, display, panel, store>>
  BY DEF App, PowerKey, AppKey, AppDisplayEvent, AppLibraryEvent, Resume, dispVars
<1>2. /\ displayE \in Seq(DisplayEvent) /\ libraryE \in Seq(ReaderEvent) /\ inputs \in Seq(Keys)
      /\ displayE # <<>> => Elements(displayE) = {Head(displayE)} \union Elements(Tail(displayE))
      /\ libraryE # <<>> => Elements(libraryE) = {Head(libraryE)} \union Elements(Tail(libraryE))
      /\ inputs # <<>> => Elements(inputs) = {Head(inputs)} \union Elements(Tail(inputs))
  BY LoadedEventBooks, TailQueue DEF Typed, TypedChannels
<1>3. inputs # <<>> => Tail(inputs) = <<>>
  <2> SUFFICES ASSUME inputs # <<>> PROVE Tail(inputs) = <<>>
    OBVIOUS
  <2>1. Len(Tail(inputs)) = 0 /\ Tail(inputs) \in Seq(Keys)
    BY <1>2, TailQueue DEF WaitingKey
  <2> QED BY <2>1, EmptySeq
<1>4. HeldAlone
  BY DEF Openings
<1>5. inputs = <<>> => QuietTurn
  BY AppTurns DEF AppKey, Openings
<1>6. inputs = <<>> => HandsOver /\ latest' = latest
  BY <1>5 DEF QuietTurn
<1>7. CASE PowerKey
  BY <1>2, <1>7 DEF PowerKey, NobodySleeps
<1>8. CASE AppKey
  <2>1. /\ inputs # <<>> /\ inputs' = <<>> /\ UNCHANGED <<displayE, libraryE>>
    BY <1>3, <1>8 DEF AppKey
  <2>2. PICK block \in Blocks : IgnoreKey(Head(inputs), block) \/ TakeKey(Head(inputs), block)
    BY <1>8 DEF AppKey
  <2>3. block \in BOOLEAN /\ app \in AppFlags
    BY DEF Blocks, Typed, TypedApp, AppFlags
  <2>4. CASE TakeKey(Head(inputs), block)
    BY <1>1, <2>1, <2>3, <2>4, KeyReads
  <2>5. CASE IgnoreKey(Head(inputs), block)
    <3>1. /\ app' = [app EXCEPT !.block = block]
          /\ UNCHANGED <<displayQ, storageQ, reader, blocked, latest>>
      BY <2>5 DEF IgnoreKey
    <3>2. /\ app'.rendering = app.rendering /\ app'.again = app.again /\ app'.pending = app.pending
          /\ app'.boot = app.boot
      BY <2>3, <3>1 DEF AppFlags
    <3> QED BY <1>1, <2>1, <3>1, <3>2, PageStays
  <2> QED BY <2>2, <2>4, <2>5
<1>9. CASE AppDisplayEvent
  <2>1. /\ AppTurn /\ inputs = <<>> /\ inputs' = <<>> /\ displayE # <<>> /\ displayE' = Tail(displayE)
        /\ Head(displayE) \in Elements(displayE) /\ Head(displayE) \in DisplayEvent
    BY <1>2, <1>9 DEF AppDisplayEvent
  <2>2. "flush" \notin user.faults => ~DisplayFailed
    BY <2>1 DEF Plain, Expected, DisplayFailed
  <2>3. ~DisplayAsleep
    BY <2>1 DEF Plain, Expected, DisplayAsleep
  <2>4. CASE Settled
    <3>1. libraryE' = libraryE
      BY <2>4 DEF Settled
    <3>2. /\ reader' = reader /\ News' \subseteq News /\ (app'.boot => app.boot)
          /\ Due \/ Shown => (Due \/ Shown)'
      BY <1>1, <2>1, <2>4, <3>1, SettledReads
    <3>3. reader.view = "reading" /\ "flush" \notin user.faults => Due \/ Shown
      BY DEF Ready, OnePage
    <3> QED BY <1>1, <1>4, <1>6, <2>1, <3>2, <3>3, QuietPage
  <2>5. CASE DisplayFailed
    <3>1. /\ reader' = reader /\ libraryE' = libraryE
          /\ app' = [app EXCEPT !.rendering = FALSE, !.again = FALSE]
      BY <2>5 DEF DisplayFailed, NoPaint
    <3>2. News' \subseteq News
      BY <1>2, <2>1, <3>1 DEF News
    <3>3. app'.boot = app.boot
      BY <3>1 DEF Typed, TypedApp, AppFlags
    <3> QED BY <1>1, <1>4, <1>6, <2>1, <2>2, <2>5, <3>1, <3>2, <3>3, QuietPage
  <2>6. CASE Head(displayE).kind = "loaded" /\ LibraryEvent(Head(displayE)) /\ UNCHANGED libraryE
    <3> DEFINE e == Head(displayE)
    <3>1. e \in ReaderEvent /\ e \in News
      BY <2>1, <2>6 DEF DisplayEvent, Answer, ReaderEvent, News
    <3>2. News' \subseteq News
      BY <1>2, <2>1, <2>6 DEF News
    <3> HIDE DEF e
    <3>3. /\ reader'.view = reader.view /\ (app'.boot => app.boot)
          /\ reader.view = "reading" => reader'.book = reader.book
          /\ reader.view = "reading" /\ "flush" \notin user.faults => (Due \/ Shown)'
      <4>1. LibraryEvent(e) /\ e.kind # "scanned"
        BY <2>6 DEF e
      <4> QED BY <1>1, <2>1, <3>1, <4>1, EventReads
    <3> QED BY <1>1, <1>4, <1>6, <2>1, <3>2, <3>3, QuietPage
  <2> QED BY <1>9, <2>3, <2>4, <2>5, <2>6 DEF AppDisplayEvent
<1>10. CASE AppLibraryEvent
  <2> DEFINE e == Head(libraryE)
  <2>1. /\ AppTurn /\ inputs = <<>> /\ inputs' = <<>> /\ libraryE # <<>> /\ libraryE' = Tail(libraryE)
        /\ e \in Elements(libraryE) /\ e \in ReaderEvent /\ LibraryEvent(e) /\ displayE' = displayE
    BY <1>2, <1>10 DEF AppLibraryEvent
  <2>2. News' \subseteq News
    BY <1>2, <2>1 DEF News
  <2>3. e.kind = "scanned" \/ e \in News
    BY <2>1 DEF News, ReaderEvent, LoadedBook, RestoredPlace, ScannedShelf
  <2>4. e.kind = "scanned" => News' = News
    BY <1>2, <2>1 DEF News
  <2> HIDE DEF e
  <2>5. /\ reader'.view = reader.view /\ (app'.boot => app.boot)
        /\ reader.view = "reading" => reader'.book = reader.book
        /\ reader.view = "reading" /\ "flush" \notin user.faults => (Due \/ Shown)'
    BY <1>1, <2>1, <2>3, <2>4, EventReads
  <2> QED BY <1>1, <1>4, <1>6, <2>1, <2>2, <2>5, QuietPage
<1>11. CASE Resume
  <2>1. blocked # None /\ blocked.on = "storage" /\ UNCHANGED <<reader, inputs, displayE, libraryE>>
    BY <1>11 DEF Resume, Plain
  <2>2. inputs = <<>> /\ inputs' = <<>> /\ News' = News
    BY <2>1 DEF WaitingKey, News
  <2>3. AfterSettled(app) /\ app \in AppFlags
    BY <1>11, <2>1 DEF Resume, Typed, TypedApp
  <2>4. ~app.rendering /\ displayQ = <<>> /\ display.phase # "render"
    BY <2>1 DEF SendsAreFree, LoneFlight
  <2>5. app'.boot => app.boot
    BY <2>3, PaintKeepsBoot
  <2>6. ASSUME Due \/ Shown PROVE (Due \/ Shown)'
    <3>1. CASE app.again
      BY <1>1, <2>3, <2>4, <3>1, PaintShows
    <3>2. CASE ~app.again
      <4>1. displayQ' = displayQ
        BY <2>3, <3>2 DEF AfterSettled, NoPaint
      <4>2. (Due => Due') /\ (Shown => Shown')
        BY <1>1, <2>1, <2>2, <3>2, <4>1 DEF Due, Shown
      <4> QED BY <2>6, <4>2
    <3> QED BY <3>1, <3>2
  <2>7. reader.view = "reading" /\ "flush" \notin user.faults => Due \/ Shown
    BY DEF Ready, OnePage
  <2> QED BY <1>1, <1>4, <1>6, <2>1, <2>2, <2>5, <2>6, <2>7, QuietPage
<1> QED BY <1>7, <1>8, <1>9, <1>10, <1>11 DEF App

\* Serving the request of a page sends only what is about its book, and loads it.
LEMMA PageServed ==
  ASSUME Typed, NEW cmd \in ReaderCommand, cmd.req = latest, cmd.kind \in {"open", "extend", "jump"},
         HandleStorage(cmd)
  PROVE  /\ store'.loaded = cmd.book /\ News' # {}
         /\ \A e \in News' : e \in News \/ e.book = cmd.book
<1>1. /\ displayE \in Seq(DisplayEvent) /\ libraryE \in Seq(ReaderEvent) /\ Len(libraryE) <= LibraryCap
      /\ LibraryCap \in Nat \ {0} /\ cmd.book \in Books /\ cmd.page \in Page
      /\ card.pos[cmd.book] \in Page
  BY CapsAssumption DEF Typed, TypedChannels, TypedDisplay, ReaderCommand
<1> DEFINE loaded == LoadedEvent(cmd.book)
<1>2. /\ store'.loaded = cmd.book /\ loaded \in LoadedBook /\ loaded \in LoadedEvents' /\ loaded.book = cmd.book
      /\ loaded \in DisplayEvent /\ loaded \in ReaderEvent
  BY LatestServed DEF DisplayEvent, ReaderEvent
<1>3. PICK resume : /\ SendLoaded(loaded, resume)
                    /\ resume # None => resume \in ReaderEvent /\ resume.book = cmd.book
  <2>1. OpenOrExtend(cmd) \/ JumpChapter(cmd)
    BY DEF HandleStorage, OpenOrExtend, LoadChapters, JumpChapter, SkipStale, LoadCatalog, StoreProgress
  <2>2. ASSUME NEW p \in Page
        PROVE  /\ RestoredEvent(cmd.book, p) # None
                    => RestoredEvent(cmd.book, p) \in ReaderEvent /\ RestoredEvent(cmd.book, p).book = cmd.book
    BY <1>1, ReaderEventsTyped DEF RestoredEvent, Event, ReaderEvent
  <2> QED BY <1>1, <2>1, <2>2 DEF OpenOrExtend, JumpChapter
<1> HIDE DEF loaded
<1>4. Elements(displayE') \subseteq Elements(displayE) \union {loaded}
  BY <1>1, <1>2, <1>3, AppendQueue DEF SendLoaded
<1>5. \A e \in Elements(libraryE') : e \in Elements(libraryE) \/ e.book = cmd.book
  <2> DEFINE after == IF Len(displayE) < EventCap THEN libraryE ELSE Required(libraryE, LibraryCap, loaded)
  <2>1. /\ after \in Seq(ReaderEvent) /\ Len(after) <= LibraryCap
        /\ Elements(after) \subseteq Elements(libraryE) \union {loaded}
    BY <1>1, <1>2, RequiredQueue
  <2>2. libraryE' = IF resume = None THEN after ELSE Required(after, LibraryCap, resume)
    BY <1>3 DEF SendLoaded
  <2> HIDE DEF after
  <2>3. resume # None => Elements(libraryE') \subseteq Elements(after) \union {resume}
    BY <1>1, <1>3, <2>1, <2>2, RequiredQueue
  <2> QED BY <1>2, <1>3, <2>1, <2>2, <2>3
<1>6. loaded \in News'
  BY <1>2 DEF LoadedEvents, News
<1>7. \A e \in News' : e \in News \/ e.book = cmd.book
  BY <1>2, <1>4, <1>5 DEF News
<1> QED BY <1>2, <1>6, <1>7

LEMMA OthersServed ==
  ASSUME NEW cmd \in ProgressCommand, HandleStorage(cmd)
  PROVE  UNCHANGED <<displayE, libraryE, store>>
  BY DEF HandleStorage, OpenOrExtend, LoadChapters, JumpChapter, SkipStale, LoadCatalog, StoreProgress,
         ProgressCommand

\* While a page is read, a step of the display task serves a request of the page,
\* or moves a frame on, or leaves all that the page depends on.
PageDisplay ==
  \/ \E c \in Asked : HandleStorage(c)
  \/ /\ UNCHANGED <<displayE, libraryE, panel>> /\ store'.loaded = store.loaded
     /\ \/ displayQ' = displayQ /\ display.phase # "render" /\ display'.phase # "render"
        \/ StartRender
  \/ FinishRender

LEMMA DisplayPages ==
  ASSUME Typed, NobodySleeps, LoneFlight, OnePage, Display
  PROVE  /\ PageDisplay
         /\ Elements(storageQ') \cap CatalogCommand = {}
         /\ UNCHANGED <<reader, app, blocked, latest, user, inputs>>
<1>1. UNCHANGED <<reader, app, blocked, latest, user, inputs>>
  BY DisplaySteps DEF appVars
<1>2. \A c \in StorageCommand : c \in Unfinished /\ c \notin CatalogCommand
                                 => c \in Asked \/ c \in ProgressCommand
  BY DEF Asked, Outstanding, StorageCommand, AppCommand
<1>3. CASE TakeStorage /\ TakesCommand(Head(storageQ))
  <2> DEFINE cmd == Head(storageQ)
  <2>1. /\ storageQ # <<>> /\ cmd \in StorageCommand
        /\ Elements(storageQ) = {cmd} \union Elements(Tail(storageQ))
    BY <1>3, TailQueue DEF TakesCommand, Typed, TypedChannels
  <2>2. cmd \notin CatalogCommand /\ (cmd \in Asked \/ cmd \in ProgressCommand)
    BY <1>2, <2>1 DEF OnePage, Unfinished
  <2>3. /\ storageQ' = Tail(storageQ) /\ UNCHANGED <<displayQ, panel>>
        /\ display.phase # "render" /\ display'.phase # "render"
        /\ UNCHANGED <<displayE, libraryE, store>> \/ HandleStorage(cmd)
    BY <1>3, <2>2 DEF TakesCommand, TakeStorage
  <2> HIDE DEF cmd
  <2>4. PageDisplay
    BY <2>2, <2>3, OthersServed DEF PageDisplay
  <2> QED BY <1>1, <2>1, <2>3, <2>4 DEF OnePage
<1>4. CASE FinishPlate /\ EndsPlate
  <2>1. display.cmd \in Asked
    BY <1>4, OtherCommands DEF EndsPlate, Asked, Outstanding, Unfinished
  <2> QED BY <1>1, <1>4, <2>1 DEF EndsPlate, PageDisplay, OnePage
<1>5. CASE ~TakeStorage /\ ~FinishPlate /\ LeavesCommands
  <2>1. ~StartSleep /\ ~FinishSleep
    BY TailQueue DEF StartSleep, FinishSleep, NobodySleeps, Typed, TypedChannels
  <2>2. storageQ' = storageQ /\ store'.loaded = store.loaded
    BY <1>5 DEF LeavesCommands
  <2>3. DisplayReady => PageDisplay
    BY <2>2 DEF DisplayReady, Idle, Waiting, channels, PageDisplay
  <2>4. StartRender => PageDisplay
    BY <2>2 DEF StartRender, PageDisplay
  <2> QED BY <1>1, <1>5, <2>1, <2>2, <2>3, <2>4 DEF Display, OnePage, PageDisplay
<1> QED BY <1>3, <1>4, <1>5, DisplaySteps

LEMMA DisplayReads ==
  ASSUME Typed, Openings, NobodySleeps, LoneFlight, Room, WaitingKey, Patient, Ready, Display
  PROVE  Ready'
<1>1. inputs = <<>>
  BY DEF Ready, AtRestForKeys, WaitingKey, Display, DisplayReady, StartRender, FinishRender,
         StartSleep, FinishSleep, TakeStorage, FinishPlate
<1>2. UNCHANGED <<reader, app, blocked, latest, user, inputs>>
  BY DisplaySteps DEF appVars
<1>3. AtRestForKeys'
  BY <1>1, <1>2 DEF Ready, AtRestForKeys
<1> SUFFICES ASSUME reader.view = "reading", OnePage PROVE OnePage'
  BY <1>2, <1>3 DEF Ready
<1>4. PageDisplay /\ Elements(storageQ') \cap CatalogCommand = {}
  BY DisplayPages
<1>5. Asked' \subseteq Asked /\ \A c \in Asked : c \in Asked' \/ HandleStorage(c)
  BY DisplayCarries DEF Carries, Asked, Outstanding
<1>6. \A c \in Asked' : c.kind \in {"open", "extend", "jump"} /\ c.book = reader'.book /\ c.req = latest'
  BY <1>2, <1>5 DEF OnePage
<1>7. \A c \in Asked : /\ c \in ReaderCommand /\ c.kind \in {"open", "extend", "jump"}
                       /\ c.book = reader.book /\ c.req = latest
  BY DEF Asked, OnePage
<1>8. CASE \E c \in Asked : HandleStorage(c)
  <2>1. PICK c \in Asked : HandleStorage(c)
    BY <1>8
  <2>2. store'.loaded = reader.book /\ News' # {} /\ \A e \in News' : e \in News \/ e.book = reader.book
    BY <1>7, <2>1, PageServed
  <2>3. \A e \in News' : e.book = reader'.book
    BY <1>2, <2>2 DEF OnePage
  <2>4. Due'
    BY <2>2 DEF Due
  <2> QED BY <1>2, <1>4, <1>6, <2>2, <2>3, <2>4 DEF OnePage
<1>9. ASSUME ~\E c \in Asked : HandleStorage(c), store'.loaded = store.loaded, News' = News,
             "flush" \notin user.faults /\ Shown => Shown'
      PROVE  OnePage'
  <2>1. Asked' = Asked
    BY <1>5, <1>9
  <2>2. Due' = Due
    BY <1>2, <1>9 DEF Due
  <2> QED BY <1>2, <1>4, <1>6, <1>9, <2>1, <2>2 DEF OnePage
<1>10. CASE /\ ~\E c \in Asked : HandleStorage(c)
            /\ UNCHANGED <<displayE, libraryE, panel>> /\ store'.loaded = store.loaded
            /\ \/ displayQ' = displayQ /\ display.phase # "render" /\ display'.phase # "render"
               \/ StartRender
  <2>1. News' = News
    BY <1>10 DEF News
  <2>2. CASE displayQ' = displayQ /\ display.phase # "render" /\ display'.phase # "render"
    <3>1. Shown => Shown'
      BY <1>2, <1>10, <2>2 DEF Shown
    <3> QED BY <1>9, <1>10, <2>1, <3>1
  <2>3. CASE StartRender
    <3>1. /\ displayQ # <<>> /\ displayQ' = Tail(displayQ)
          /\ display' = [phase |-> "render", cmd |-> Head(displayQ)]
          /\ Elements(displayQ) = {Head(displayQ)} \union Elements(Tail(displayQ))
      BY <2>3, TailQueue DEF StartRender, Waiting, Typed, TypedChannels
    <3>2. Shown => Shown'
      BY <1>2, <3>1 DEF Shown
    <3> QED BY <1>9, <1>10, <2>1, <3>2
  <2> QED BY <1>10, <2>2, <2>3
<1>11. CASE FinishRender /\ ~\E c \in Asked : HandleStorage(c)
  <2>1. /\ displayQ = <<>> /\ displayQ' = displayQ /\ display'.phase = "idle" /\ display.phase = "render"
        /\ store' = store
    BY <1>11 DEF FinishRender, Idle, Waiting, LoneFlight
  <2>2. PICK m \in {Signal("settled"), Signal("failed")} : RequiredDisplay(m)
    BY <1>11 DEF FinishRender
  <2>3. m \in DisplayEvent /\ m.kind \notin {"loaded", "restored"}
    BY DEF Signal, Event, DisplayEvent, Answer
  <2>4. displayE' = Append(displayE, m) /\ libraryE' = libraryE
    <3>1. cpu # "app"
      BY <1>11 DEF FinishRender, Free
    <3>2. Len(displayE) <= 1 /\ displayE \in Seq(DisplayEvent)
      BY <2>1, <3>1 DEF Room, Flying, Typed, TypedChannels
    <3> QED BY <2>2, <3>2, CapsAssumption DEF RequiredDisplay, Required
  <2>5. Elements(displayE') = Elements(displayE) \union {m}
    BY <2>3, <2>4, AppendQueue DEF Typed, TypedChannels
  <2>6. News' = News
    BY <2>3, <2>4, <2>5 DEF News
  <2>7. "flush" \notin user.faults /\ Shown => Shown'
    <3>1. "flush" \notin user.faults => panel' = [on |-> TRUE, last |-> display.cmd.frame]
      BY <1>11 DEF FinishRender
    <3>2. Elements(displayQ') = {}
      BY <2>1, EmptyQueue
    <3> QED BY <1>2, <2>1, <3>1, <3>2 DEF Shown
  <2> QED BY <1>9, <1>11, <2>1, <2>6, <2>7
<1> QED BY <1>4, <1>8, <1>10, <1>11 DEF PageDisplay

LEMMA NextLoads ==
  ASSUME Typed, SendsAreFree, Openings, FliesAlone, Waits, Turning, RenderAnswered, Loads, [Next]_vars
  PROVE  Loads'
<1>0. user' = user
  BY DEF Next, App, Display, Power, Prompt, vars
<1> SUFFICES ASSUME Patient, StaysAwake, Ready, NobodySleeps, LoneFlight, Room, Plain, WaitingKey
             PROVE  Ready'
  <2>1. (Patient' => Patient) /\ (StaysAwake' => StaysAwake)
    BY <1>0 DEF Patient, StaysAwake
  <2> QED BY <2>1 DEF FliesAlone, Waits, Turning, Loads
<1>1. CASE App
  BY <1>1, AppReads
<1>2. CASE Display
  BY <1>2, DisplayReads
<1>3. CASE Power
  <2>1. PowerAwake /\ powerQ # <<>>
    BY <1>3 DEF Power, Ask, Handshake, PowerAwake, NobodySleeps, Free
  <2>2. Elements(powerQ) = {Head(powerQ)} \union Elements(Tail(powerQ))
    BY <2>1, TailQueue DEF Typed, TypedChannels
  <2>3. displayQ' = displayQ
    BY <2>1, <2>2 DEF PowerAwake, NobodySleeps
  <2> QED BY <1>0, <2>1, <2>3, PageStays DEF PowerAwake, appVars, dispVars
<1>4. CASE Prompt
  <2>1. PICK key \in user.keys : Press(key)
    BY <1>4 DEF Prompt, IdleExpires, Wake, StaysAwake, NobodySleeps
  <2>2. /\ Drained /\ ~app.boot
        /\ UNCHANGED <<reader, app, displayQ, storageQ, displayE, libraryE, blocked, latest, display,
                       panel, store>>
    BY <2>1 DEF Press, Patient, AtRest, appVars, dispVars
  <2>3. AtRestForKeys'
    BY <2>2 DEF Drained, AtRestForKeys
  <2>4. Asked' = Asked /\ News' = News
    BY <2>2 DEF Asked, Outstanding, Unfinished, News
  <2>5. OnePage => OnePage'
    BY <1>0, <2>2, <2>4 DEF OnePage, Due, Shown
  <2> QED BY <2>2, <2>3, <2>5 DEF Ready
<1>5. CASE UNCHANGED vars
  BY <1>5, PageStays DEF vars, channels, appVars, dispVars
<1> QED BY <1>1, <1>2, <1>3, <1>4, <1>5 DEF Next

\* Once all is quiet, a patient reader of a device that stays awake who is on a page
\* of a book has that book's section loaded, and the panel shows that page if none of
\* its flushes fails. Stale requests are skipped, repaints put off while a render is in
\* flight, and a resume moves the page under the reader's eyes; the argument is that
\* whatever is still on its way, commands or events, is about the book being read.
THEOREM PageIsLoaded == Spec => []ReadingLoaded
<1> DEFINE Inv == TurningInv /\ RenderAnswered /\ Loads
<1>1. Init => Inv
  <2> SUFFICES ASSUME Init PROVE TurningInv /\ RenderAnswered /\ Loads
    OBVIOUS
  <2>1. AtBoot /\ turned = None
    BY DEF Init, AtBoot
  <2>2. TurningInv
    BY <2>1, InitOpenings, TurnsAtBoot DEF TurningInv, OpeningInv, BootTurns
  <2>3. RenderAnswered
    BY DEF Init, AppAtBoot, RenderAnswered
  <2>4. Loads
    BY DEF Init, ReaderAtBoot, Loads, Ready, AtRestForKeys
  <2> QED BY <2>2, <2>3, <2>4
<1>2. Inv /\ [Next]_vars => Inv'
  BY TurningsKept, NextLoads, AnswersComeBack DEF TurningInv, OpeningInv
<1>3. Inv => ReadingLoaded
  <2> SUFFICES ASSUME Inv, Patient, StaysAwake, Drained, reader.view = "reading", reader.book \in Books
               PROVE  /\ store.loaded = reader.book
                      /\ "flush" \notin user.faults => panel.last = reader
    BY DEF ReadingLoaded
  <2>1. OnePage
    BY DEF Loads, Ready
  <2>2. Elements(displayE) = {} /\ Elements(libraryE) = {} /\ Elements(displayQ) = {}
    BY EmptyQueue DEF Drained
  <2>3. Asked = {}
    <3>1. display.cmd = None /\ Elements(storageQ) = {} /\ HeldBack = {None}
      BY EmptyQueue DEF Drained, TurningInv, OpeningInv, Typed, TypedDisplay, DisplayState, HeldBack
    <3> QED BY <3>1, UnfinishedParts, OtherCommands DEF Asked, Outstanding
  <2>4. ~Due
    BY <2>2 DEF Due, News, Drained, RenderAnswered
  <2> QED BY <2>1, <2>3, <2>4 DEF OnePage, Shown, Drained
<1> QED BY <1>1, <1>2, <1>3, PTL DEF Spec
=============================================================================
