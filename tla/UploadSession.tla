---------------------------- MODULE UploadSession ----------------------------
(***************************************************************************)
(* Books sent from a browser: the Wi-Fi task (upload_server, stream_book   *)
(* and exit_after_uploads of fw/src/tasks/wifi.rs) and the display task    *)
(* (upload_session of fw/src/sd_session.rs), which owns the card.  Chunks  *)
(* carry lent buffers one way, empty buffers come back, and each request   *)
(* is answered by one result.  Done (Exit) and Sleep may come at any time. *)
(*                                                                         *)
(* Each action ends at an await.  A chunk stands for a buffer's worth of   *)
(* bytes; what a buffer holds is in data, so a buffer filled again before  *)
(* it was written to the card would show in the book.                      *)
(***************************************************************************)
EXTENDS Integers, Sequences

CONSTANTS Books,        \* names of books on the page and in /BOOKS
          Buffers,      \* the lent buffers: two in the code
          NoBuffer,
          ChunkCap,     \* lengths of UPLOAD_CHUNKS and UPLOAD_RETURNS
          ReturnCap,
          MaxSize,      \* bound: chunks per book
          MaxRequests,  \* bound: requests of the browser
          Setups        \* how opening card, volume and BOOKS may turn out

ASSUME BuffersAssumption == NoBuffer \notin Buffers
ASSUME BoundsAssumption == MaxSize \in Nat /\ MaxRequests \in Nat
ASSUME CapsAssumption == ChunkCap \in Nat \ {0} /\ ReturnCap \in Nat \ {0}
ASSUME SetupsAssumption == Setups \subseteq {"open", "refusing", "missing"}

VARIABLES server,   \* upload_server: the request it serves and how far it is
          started,  \* its session_started
          pool,     \* its free buffers
          hand,     \* the buffer it fills
          data,     \* what each buffer holds
          active,   \* UPLOAD_SESSION_ACTIVE
          exit,     \* exit_after_uploads
          asked,    \* ReceiveUpload is in the storage queue
          begins, chunks, returns, results,   \* the UPLOAD_ channels
          stop, stopped,                      \* UPLOAD_STOP_REQUESTS, _STOPPED
          session,  \* upload_session: its setup, the request and the open file
          held,     \* the buffer the session has taken from a chunk
          shelf,    \* the books on the card
          sleep     \* the power task's Sleep

wifi    == <<server, started, pool, hand, data>>
streams == <<begins, chunks, returns, results>>
ending  == <<active, exit, asked, stop, stopped>>
disk    == <<session, held, shelf>>
vars    == <<wifi, streams, ending, disk, sleep>>

Request == [id : 1 .. MaxRequests, kind : {"upload", "delete"}, book : Books,
            size : 0 .. MaxSize]
Piece   == [from : 1 .. MaxRequests, part : 1 .. MaxSize, last : BOOLEAN]
Nothing == [from |-> 0, part |-> 0, last |-> FALSE]
Entry   == [state : {"absent", "old", "new", "unflushed", "leftover"}, data : Seq(Piece)]
Absent  == [state |-> "absent", data |-> <<>>]
Begin   == [kind : {"upload", "delete"}, book : Books]
Chunk   == [buffer : Buffers \union {NoBuffer}, last : BOOLEAN, abort : BOOLEAN]

\* The bytes of part i of a request's body.
PieceOf(request, i) == [from |-> request.id, part |-> i, last |-> i = request.size]
Body(request) == [i \in 1 .. request.size |-> PieceOf(request, i)]
IsWhole(content) ==
  content # <<>> /\ \E r \in [id : 1 .. MaxRequests, size : {Len(content)}] : content = Body(r)

Running == exit # "reset" /\ sleep # "off"
-----------------------------------------------------------------------------
Init ==
  /\ \E b \in Books : server = [pc |-> "listen", id |-> 0, kind |-> "upload", book |-> b,
                                size |-> 0, sent |-> 0, failed |-> FALSE]
  /\ started = FALSE
  /\ pool = Buffers
  /\ hand = NoBuffer
  /\ data = [b \in Buffers |-> Nothing]
  /\ active = FALSE
  /\ exit = "serving"
  /\ asked = FALSE
  /\ begins = <<>> /\ chunks = <<>> /\ returns = <<>> /\ results = <<>>
  /\ stop = FALSE /\ stopped = FALSE
  /\ \E b \in Books : session = [pc |-> "away", setup |-> "none", book |-> b, file |-> FALSE,
                                 failed |-> FALSE, ended |-> FALSE, abort |-> FALSE, ok |-> FALSE]
  /\ held = NoBuffer
  /\ shelf \in [Books -> {Absent, [Absent EXCEPT !.state = "old"]}]
  /\ sleep = "none"

-----------------------------------------------------------------------------
(* The Wi-Fi task: upload_server and stream_book. *)

\* Faulty variant: the session counts as active only once it is entered.
AcceptQuietly(kind, book, size) ==
  /\ Running /\ server.pc = "listen" /\ server.id < MaxRequests
  /\ server' = [pc |-> IF started THEN "begin" ELSE "start", id |-> server.id + 1,
                kind |-> kind, book |-> book, size |-> size, sent |-> 0, failed |-> FALSE]
  /\ UNCHANGED <<started, pool, hand, data, streams, ending, disk, sleep>>

\* The head of a POST: a book of size chunks, or a removal.  The first request
\* marks the session active before it asks for it.
Accept(kind, book, size) ==
  /\ Running /\ server.pc = "listen" /\ server.id < MaxRequests
  /\ server' = [pc |-> IF started THEN "begin" ELSE "start", id |-> server.id + 1,
                kind |-> kind, book |-> book, size |-> size, sent |-> 0, failed |-> FALSE]
  /\ active' = (active \/ ~started)
  /\ UNCHANGED <<started, pool, hand, data, streams, exit, asked, stop, stopped, disk, sleep>>

AskForSession ==
  /\ Running /\ server.pc = "start"
  /\ started' = TRUE
  /\ asked' = TRUE
  /\ server' = [server EXCEPT !.pc = "begin"]
  /\ UNCHANGED <<pool, hand, data, streams, active, exit, stop, stopped, disk, sleep>>

SendBegin ==
  /\ Running /\ server.pc = "begin" /\ begins = <<>>
  /\ begins' = <<[kind |-> server.kind, book |-> server.book]>>
  /\ server' = [server EXCEPT !.pc = IF server.kind = "delete" THEN "result"
                                     ELSE IF server.size = 0 THEN "empty" ELSE "buffer"]
  /\ UNCHANGED <<started, pool, hand, data, chunks, returns, results, ending, disk, sleep>>

\* From the pool while it lasts, then from UPLOAD_RETURNS.
TakeBuffer ==
  /\ Running /\ server.pc = "buffer"
  /\ \/ /\ hand' \in pool
        /\ pool' = pool \ {hand'}
        /\ UNCHANGED returns
     \/ /\ pool = {} /\ returns # <<>>
        /\ hand' = Head(returns)
        /\ returns' = Tail(returns)
        /\ UNCHANGED pool
  /\ server' = [server EXCEPT !.pc = "read"]
  /\ UNCHANGED <<started, data, begins, chunks, results, ending, disk, sleep>>

\* A buffer's worth of the body, or an end, error or timeout of the connection
\* before it was complete.
ReadBody ==
  /\ Running /\ server.pc = "read"
  /\ \/ /\ data' = [data EXCEPT ![hand] = PieceOf(server, server.sent + 1)]
        /\ server' = [server EXCEPT !.pc = "chunk", !.sent = @ + 1]
     \/ server' = [server EXCEPT !.pc = "chunk", !.failed = TRUE] /\ UNCHANGED data
  /\ UNCHANGED <<started, pool, hand, streams, ending, disk, sleep>>

\* Faulty variant: the loop runs once more than there are chunks.
SendChunkTooMany ==
  /\ Running /\ server.pc = "chunk" /\ Len(chunks) < ChunkCap
  /\ chunks' = Append(chunks, [buffer |-> hand, last |-> server.sent > server.size,
                               abort |-> server.failed])
  /\ hand' = NoBuffer
  /\ server' = [server EXCEPT !.pc = IF server.sent > server.size THEN "result" ELSE "buffer"]
  /\ UNCHANGED <<started, pool, data, begins, returns, results, ending, disk, sleep>>

SendChunk ==
  LET last == server.sent = server.size /\ ~server.failed
  IN  /\ Running /\ server.pc = "chunk" /\ Len(chunks) < ChunkCap
      /\ chunks' = Append(chunks, [buffer |-> hand, last |-> last, abort |-> server.failed])
      /\ hand' = NoBuffer
      /\ server' = [server EXCEPT !.pc = IF last \/ server.failed THEN "result" ELSE "buffer"]
      /\ UNCHANGED <<started, pool, data, begins, returns, results, ending, disk, sleep>>

\* An empty body: one chunk without a buffer, last and aborted at once.
SendEmpty ==
  /\ Running /\ server.pc = "empty" /\ Len(chunks) < ChunkCap
  /\ chunks' = Append(chunks, [buffer |-> NoBuffer, last |-> TRUE, abort |-> TRUE])
  /\ server' = [server EXCEPT !.pc = "result"]
  /\ UNCHANGED <<started, pool, hand, data, begins, returns, results, ending, disk, sleep>>

\* The result answers the browser; after a book the pool is filled from what
\* has come back.
TakeResult ==
  /\ Running /\ server.pc = "result" /\ results # <<>>
  /\ results' = Tail(results)
  /\ server' = [server EXCEPT !.pc = "listen"]
  /\ IF server.kind = "upload"
     THEN /\ pool' = pool \union {returns[i] : i \in DOMAIN returns}
          /\ returns' = <<>>
     ELSE UNCHANGED <<pool, returns>>
  /\ UNCHANGED <<started, hand, data, begins, chunks, ending, disk, sleep>>

\* The done press; the flag decides whether there is a session to wait for.
PressDone ==
  /\ Running /\ exit = "serving"
  /\ exit' = "asked"
  /\ UNCHANGED <<wifi, streams, active, asked, stop, stopped, disk, sleep>>

ServeExit ==
  /\ Running /\ exit = "asked"
  /\ IF active THEN stop' = TRUE /\ exit' = "waiting"
               ELSE exit' = "reset" /\ UNCHANGED stop
  /\ UNCHANGED <<wifi, streams, active, asked, stopped, disk, sleep>>

Reset ==
  /\ Running /\ exit = "waiting" /\ stopped
  /\ stopped' = FALSE
  /\ exit' = "reset"
  /\ UNCHANGED <<wifi, streams, active, asked, stop, disk, sleep>>
-----------------------------------------------------------------------------
(* The display task: upload_session and what it calls. *)

At(pc) == session' = [session EXCEPT !.pc = pc]
Answer(ok) == session' = [session EXCEPT !.pc = "result", !.ok = ok]
StartFile(b, file) ==
  session' = [session EXCEPT !.pc = "chunk", !.book = b, !.file = file, !.failed = FALSE,
                             !.ended = FALSE, !.abort = FALSE]
Taken(b) == shelf[b].state # "absent"

EnterSession(setup) ==
  /\ Running /\ session.pc = "away" /\ asked
  /\ asked' = FALSE
  /\ active' = TRUE
  /\ session' = [session EXCEPT !.pc = "begin", !.setup = setup]
  /\ UNCHANGED <<wifi, streams, exit, stop, stopped, held, shelf, sleep>>

\* Without card or BOOKS every request is drained like a book, a removal too.
RefuseRequest ==
  /\ Running /\ session.pc = "begin" /\ session.setup # "open" /\ begins # <<>>
  /\ begins' = <<>>
  /\ StartFile(Head(begins).book, FALSE)
  /\ UNCHANGED <<wifi, chunks, returns, results, ending, held, shelf, sleep>>

\* remove_file_reclaiming_clusters: truncated, then removed; false if either
\* fails, and the name may stay behind.
Remains(b) == {[Absent EXCEPT !.state = "leftover"]} \union
              (IF shelf[b].state = "new" THEN {[shelf[b] EXCEPT !.state = "leftover"]} ELSE {shelf[b]})

RemoveBook ==
  /\ Running /\ session.pc = "begin" /\ session.setup = "open" /\ begins # <<>>
  /\ Head(begins).kind = "delete"
  /\ begins' = <<>>
  /\ LET b == Head(begins).book
     IN  \/ Taken(b) /\ shelf' = [shelf EXCEPT ![b] = Absent] /\ Answer(TRUE)
         \/ ~Taken(b) /\ UNCHANGED shelf /\ Answer(FALSE)
         \/ /\ Taken(b)
            /\ \E left \in Remains(b) : shelf' = [shelf EXCEPT ![b] = left]
            /\ Answer(FALSE)
  /\ UNCHANGED <<wifi, chunks, returns, results, ending, held, sleep>>

\* Faulty variant: a refused book is answered at once, its chunks not drained.
OpenBookUndrained ==
  /\ Running /\ session.pc = "begin" /\ session.setup = "open" /\ begins # <<>>
  /\ Head(begins).kind = "upload"
  /\ begins' = <<>>
  /\ LET b == Head(begins).book
     IN  \/ Answer(FALSE) /\ UNCHANGED shelf
         \/ /\ ~Taken(b)
            /\ StartFile(b, TRUE)
            /\ shelf' = [shelf EXCEPT ![b] = [Absent EXCEPT !.state = "new"]]
  /\ UNCHANGED <<wifi, chunks, returns, results, ending, held, sleep>>

\* write_one_book: a name that is taken is never touched.  Looking for it, or
\* creating the file, may fail.
OpenBook ==
  /\ Running /\ session.pc = "begin" /\ session.setup = "open" /\ begins # <<>>
  /\ Head(begins).kind = "upload"
  /\ begins' = <<>>
  /\ LET b == Head(begins).book
     IN  \/ StartFile(b, FALSE) /\ UNCHANGED shelf
         \/ /\ ~Taken(b)
            /\ StartFile(b, TRUE)
            /\ shelf' = [shelf EXCEPT ![b] = [Absent EXCEPT !.state = "new"]]
  /\ UNCHANGED <<wifi, chunks, returns, results, ending, held, sleep>>

\* Faulty variant: a write error is not remembered.
TakeChunkUnchecked ==
  /\ Running /\ session.pc = "chunk" /\ chunks # <<>>
  /\ chunks' = Tail(chunks)
  /\ LET chunk  == Head(chunks)
         writes == session.file /\ ~chunk.abort /\ chunk.buffer # NoBuffer
     IN  /\ held' = chunk.buffer
         /\ \/ UNCHANGED shelf
            \/ writes /\ shelf' = [shelf EXCEPT ![session.book].data = Append(@, data[chunk.buffer])]
         /\ session' = [session EXCEPT !.pc = "recycle", !.ended = chunk.last, !.abort = chunk.abort]
  /\ UNCHANGED <<wifi, begins, returns, results, ending, sleep>>

\* A chunk is written at once; after an error the rest of the book is only
\* drained.
TakeChunk ==
  /\ Running /\ session.pc = "chunk" /\ chunks # <<>>
  /\ chunks' = Tail(chunks)
  /\ LET chunk  == Head(chunks)
         writes == session.file /\ ~session.failed /\ ~chunk.abort /\ chunk.buffer # NoBuffer
     IN  /\ held' = chunk.buffer
         /\ \E fails \in {FALSE, writes} :
              /\ shelf' = IF writes /\ ~fails
                          THEN [shelf EXCEPT ![session.book].data = Append(@, data[chunk.buffer])]
                          ELSE shelf
              /\ session' = [session EXCEPT !.pc = "recycle", !.failed = @ \/ fails,
                                            !.ended = chunk.last, !.abort = chunk.abort]
  /\ UNCHANGED <<wifi, begins, returns, results, ending, sleep>>

\* The file is closed; flushing its directory entry may fail unnoticed.
Kept(b) == {shelf[b], [shelf[b] EXCEPT !.state = "unflushed"]}

\* After the last chunk of a request: the file is kept, or removed if it can be.
CloseBook ==
  LET bad == session.failed \/ session.abort
  IN  /\ \E left \in IF bad THEN {Absent} \union Remains(session.book) ELSE Kept(session.book) :
           shelf' = [shelf EXCEPT ![session.book] = left]
      /\ session' = [session EXCEPT !.pc = "result", !.file = FALSE, !.ok = ~bad]

\* Faulty variant: the buffer of an aborted chunk is not given back.
RecycleUnlessAborted ==
  /\ Running /\ session.pc = "recycle" /\ Len(returns) < ReturnCap
  /\ returns' = IF held = NoBuffer \/ session.abort THEN returns ELSE Append(returns, held)
  /\ held' = NoBuffer
  /\ IF ~(session.ended \/ session.abort) THEN At("chunk") /\ UNCHANGED shelf
     ELSE IF session.file THEN CloseBook ELSE Answer(FALSE) /\ UNCHANGED shelf
  /\ UNCHANGED <<wifi, begins, chunks, results, ending, sleep>>

\* Faulty variant: only the last chunk ends a book.
RecycleUntilLast ==
  /\ Running /\ session.pc = "recycle" /\ (held = NoBuffer \/ Len(returns) < ReturnCap)
  /\ returns' = IF held = NoBuffer THEN returns ELSE Append(returns, held)
  /\ held' = NoBuffer
  /\ IF ~session.ended THEN At("chunk") /\ UNCHANGED shelf
     ELSE IF session.file THEN CloseBook ELSE Answer(FALSE) /\ UNCHANGED shelf
  /\ UNCHANGED <<wifi, begins, chunks, results, ending, sleep>>

\* Faulty variant: the buffers of a book that failed are not given back.
RecycleUnlessFailed ==
  /\ Running /\ session.pc = "recycle" /\ (held = NoBuffer \/ Len(returns) < ReturnCap)
  /\ returns' = IF held = NoBuffer \/ session.failed THEN returns ELSE Append(returns, held)
  /\ held' = NoBuffer
  /\ IF ~(session.ended \/ session.abort) THEN At("chunk") /\ UNCHANGED shelf
     ELSE IF session.file THEN CloseBook ELSE Answer(FALSE) /\ UNCHANGED shelf
  /\ UNCHANGED <<wifi, begins, chunks, results, ending, sleep>>

\* The buffer goes back; after the last or an aborted chunk the request is over.
Recycle ==
  /\ Running /\ session.pc = "recycle" /\ (held = NoBuffer \/ Len(returns) < ReturnCap)
  /\ returns' = IF held = NoBuffer THEN returns ELSE Append(returns, held)
  /\ held' = NoBuffer
  /\ IF ~(session.ended \/ session.abort) THEN At("chunk") /\ UNCHANGED shelf
     ELSE IF session.file THEN CloseBook ELSE Answer(FALSE) /\ UNCHANGED shelf
  /\ UNCHANGED <<wifi, begins, chunks, results, ending, sleep>>

SendResult ==
  /\ Running /\ session.pc = "result" /\ results = <<>>
  /\ results' = <<session.ok>>
  /\ At("begin")
  /\ UNCHANGED <<wifi, begins, chunks, returns, ending, held, shelf, sleep>>

\* The selects poll the stream first, then the stop request, then Sleep.
Listening == \/ session.pc = "begin" /\ begins = <<>>
             \/ session.pc = "chunk" /\ chunks = <<>>
SleepHeard == sleep = "queued" /\ (session.setup = "missing" => session.pc = "chunk")

\* Faulty variant: an open file is left as it is.
CloseFileAsIs == UNCHANGED shelf

\* An open file is closed and removed, if it can be.
DropFile ==
  IF session.file
  THEN \E left \in {Absent} \union Remains(session.book) :
         shelf' = [shelf EXCEPT ![session.book] = left]
  ELSE UNCHANGED shelf

\* Faulty variant: a session that drains does not hear the stop request.
StopWhileIdle ==
  /\ Running /\ session.pc = "begin" /\ begins = <<>> /\ stop
  /\ stop' = FALSE /\ stopped' = TRUE /\ active' = FALSE
  /\ DropFile
  /\ session' = [session EXCEPT !.pc = IF session.setup = "missing" THEN "begin" ELSE "closed", !.file = FALSE]
  /\ UNCHANGED <<wifi, streams, exit, asked, held, sleep>>

\* Exit ends the session, except the one without BOOKS, which goes on.
StopSession ==
  /\ Running /\ Listening /\ stop
  /\ stop' = FALSE /\ stopped' = TRUE /\ active' = FALSE
  /\ DropFile
  /\ session' = [session EXCEPT !.pc = IF session.setup = "missing" THEN "begin" ELSE "closed",
                                !.file = FALSE]
  /\ UNCHANGED <<wifi, streams, exit, asked, held, sleep>>

\* Faulty variant: Sleep ends the session and is not sent again.
SleepWithoutRequeue ==
  /\ Running /\ Listening /\ ~stop /\ SleepHeard
  /\ DropFile
  /\ IF session.setup = "missing"
     THEN At("begin") /\ UNCHANGED active
     ELSE session' = [session EXCEPT !.pc = "closed", !.file = FALSE] /\ active' = FALSE
  /\ sleep' = "lost"
  /\ UNCHANGED <<wifi, streams, exit, asked, stop, stopped, held>>

\* Sleep ends the session and is sent again for the display task's own loop;
\* without BOOKS it is taken while draining, and forgotten.
SleepSession ==
  /\ Running /\ Listening /\ ~stop /\ SleepHeard
  /\ DropFile
  /\ IF session.setup = "missing"
     THEN At("begin") /\ sleep' = "lost" /\ UNCHANGED active
     ELSE /\ session' = [session EXCEPT !.pc = "closed", !.file = FALSE]
          /\ active' = FALSE
          /\ UNCHANGED sleep
  /\ UNCHANGED <<wifi, streams, exit, asked, stop, stopped, held>>

\* The display task outside the session: the device goes to deep sleep, or
\* stays awake because the panel failed or a key came.
HandleSleep ==
  /\ Running /\ session.pc \in {"away", "closed"} /\ sleep = "queued"
  /\ sleep' \in {"off", "none"}
  /\ UNCHANGED <<wifi, streams, ending, disk>>

\* The power key or the idle timer; a lost Sleep leaves the power task waiting.
PressPower ==
  /\ Running /\ sleep = "none"
  /\ sleep' = "queued"
  /\ UNCHANGED <<wifi, streams, ending, disk>>
-----------------------------------------------------------------------------
Server ==
  AskForSession \/ SendBegin \/ TakeBuffer \/ ReadBody \/ SendChunk \/ SendEmpty \/ TakeResult

Leaver == ServeExit \/ Reset

Session ==
  \/ \E setup \in Setups : EnterSession(setup)
  \/ RefuseRequest \/ RemoveBook \/ OpenBook \/ TakeChunk \/ Recycle \/ SendResult
  \/ StopSession \/ SleepSession \/ HandleSleep

User ==
  \/ \E book \in Books : Accept("delete", book, 0)
  \/ \E book \in Books, size \in 0 .. MaxSize : Accept("upload", book, size)
  \/ PressDone \/ PressPower

Next == Server \/ Leaver \/ Session \/ User

\* Tasks that are ready are polled, reads of the connection time out, and card
\* operations return; the display task turns to the storage queue as soon as no
\* Sleep is queued.  Browser and user owe nothing.
Fairness ==
  /\ WF_vars(Server) /\ WF_vars(Leaver) /\ WF_vars(Session)
  /\ SF_vars(\E setup \in Setups : EnterSession(setup))

Spec == Init /\ [][Next]_vars /\ Fairness
-----------------------------------------------------------------------------
\* Types: no channel holds more than its capacity, no book more chunks sent
\* than it has.
TypeOK ==
  /\ server \in [pc : {"listen", "start", "begin", "empty", "buffer", "read", "chunk", "result"},
                 id : 0 .. MaxRequests, kind : {"upload", "delete"}, book : Books,
                 size : 0 .. MaxSize, sent : 0 .. MaxSize, failed : BOOLEAN]
  /\ server.sent <= server.size
  /\ pool \subseteq Buffers
  /\ hand \in Buffers \union {NoBuffer} /\ held \in Buffers \union {NoBuffer}
  /\ data \in [Buffers -> Piece \union {Nothing}]
  /\ started \in BOOLEAN /\ active \in BOOLEAN /\ asked \in BOOLEAN
  /\ exit \in {"serving", "asked", "waiting", "reset"}
  /\ stop \in BOOLEAN /\ stopped \in BOOLEAN
  /\ begins \in Seq(Begin) /\ Len(begins) <= 1
  /\ chunks \in Seq(Chunk) /\ Len(chunks) <= ChunkCap
  /\ returns \in Seq(Buffers) /\ Len(returns) <= ReturnCap
  /\ results \in Seq(BOOLEAN) /\ Len(results) <= 1
  /\ session \in [pc : {"away", "begin", "chunk", "recycle", "result", "closed"},
                  setup : {"none", "open", "refusing", "missing"}, book : Books,
                  file : BOOLEAN, failed : BOOLEAN, ended : BOOLEAN, abort : BOOLEAN,
                  ok : BOOLEAN]
  /\ shelf \in [Books -> Entry]
  /\ sleep \in {"none", "queued", "lost", "off"}

\* The buffers a sequence of them, or a variable that may hold one, has.
In(f) == {f[i] : i \in DOMAIN f} \ {NoBuffer}
Has(b) == {b} \ {NoBuffer}
Lending == [i \in DOMAIN chunks |-> chunks[i].buffer]
NoneTwice(f) == \A i, j \in DOMAIN f : i # j /\ f[i] = f[j] => f[i] = NoBuffer

\* No buffer is lost or in two places, whatever is aborted, refused or
\* interrupted: a lost one leaves stream_book waiting on UPLOAD_RETURNS, a
\* doubled one is filled while it is being written to the card.
BuffersConserved ==
  /\ Buffers = pool \union Has(hand) \union In(Lending) \union Has(held) \union In(returns)
  /\ pool \intersect (Has(hand) \union In(Lending) \union Has(held) \union In(returns)) = {}
  /\ Has(hand) \intersect (In(Lending) \union Has(held) \union In(returns)) = {}
  /\ In(Lending) \intersect (Has(held) \union In(returns)) = {}
  /\ Has(held) \intersect In(returns) = {}
  /\ NoneTwice(Lending) /\ NoneTwice(returns)

\* Between two requests every buffer is back in the pool and nothing of the
\* last book is left in the stream, also when the card failed in the middle of
\* it or the browser went away.
StreamIsDrained ==
  server.pc \in {"listen", "start", "begin"} =>
    pool = Buffers /\ chunks = <<>> /\ returns = <<>> /\ begins = <<>> /\ results = <<>>

\* What the browser is told is so: a book reported stored has every chunk of
\* this request, in order, handed to the card, and one reported deleted is gone.
AnswerIsTrue ==
  [][server.pc = "result" /\ server'.pc = "listen" /\ Head(results) /\ ~server.failed =>
       IF server.kind = "delete" THEN shelf[server.book] = Absent
       ELSE /\ shelf[server.book].state \in {"new", "unflushed"}
            /\ shelf[server.book].data = Body(server)]_vars

\* A book that is not complete exists only while it is being written - the
\* done press and Sleep included - or if the card refused to remove it.
HalfBooksAreOpen ==
  \A b \in Books : shelf[b].state = "new" /\ ~IsWhole(shelf[b].data)
                     => session.file /\ session.book = b

\* upload.rs 21-23: the reset never beats the display task into the session, so
\* the card is at rest when it comes: the session is closed or was never asked
\* for, or it has no BOOKS to write to.
ResetIsSafe ==
  exit = "reset" => /\ ~asked /\ ~session.file
                    /\ session.pc \in {"away", "closed"} \/ session.setup = "missing"

\* The done press always ends in the reset (or the device sleeps first).
ExitServed == exit = "asked" ~> exit = "reset" \/ sleep = "off"

\* Every request is answered: the Wi-Fi task, which takes one at a time, comes
\* back to its listener from every wait of it, for room in UPLOAD_BEGINS or
\* UPLOAD_CHUNKS, for a buffer from UPLOAD_RETURNS or for the result, unless the
\* session was ended.  The two tasks wait for each other until the done press
\* only over a removal, which a session without card or BOOKS drains like a
\* book, or after a Sleep taken while draining without BOOKS.
Unanswerable ==
  \/ server.kind = "delete" /\ session.setup \in {"refusing", "missing"}
  \/ session.setup = "missing" /\ sleep = "lost"
RequestAnswered ==
  server.pc # "listen" ~>
    server.pc = "listen" \/ session.pc = "closed" \/ Unanswerable \/ ~Running

\* Sleep reaches the display task's own loop, also in the middle of a book;
\* only a session without BOOKS does not serve it.
SleepServed ==
  sleep \in {"queued", "lost"} ~>
    sleep \notin {"queued", "lost"} \/ session.setup = "missing" \/ ~Running

\* Both ways out of a session lead out of it, wherever in an upload they come.
SessionIsLeft == ExitServed /\ SleepServed
=============================================================================
