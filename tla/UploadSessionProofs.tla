------------------------- MODULE UploadSessionProofs -------------------------
(***************************************************************************)
(* Theorems about UploadSession, for any number of buffers, books, chunks  *)
(* and requests and any channel lengths: the two tasks never lose or share *)
(* a buffer, a request ends with nothing of its stream left, the reset     *)
(* finds the card at rest, half a book is never taken for a book, and an   *)
(* upload answered with success has stored every chunk.                    *)
(***************************************************************************)
EXTENDS UploadSession, SequenceTheorems, TLAPS

\* The tasks hold a buffer exactly where their code has one in a variable.
HandsFull ==
  /\ hand # NoBuffer <=> server.pc \in {"read", "chunk"}
  /\ held # NoBuffer => session.pc = "recycle"

\* What is on its way to the card has been read: a chunk that is not aborted
\* carries a piece of the body.
BodyInOrder ==
  /\ server.pc # "listen" => server.id # 0
  /\ server.pc \in {"start", "begin"} => server.sent = 0
  /\ server.pc \in {"buffer", "read"} => server.sent < server.size
  /\ server.pc = "chunk" /\ ~server.failed => data[hand] \in Piece
  /\ \A i \in DOMAIN chunks :
       ~chunks[i].abort /\ chunks[i].buffer # NoBuffer => data[chunks[i].buffer] \in Piece

\* Why UPLOAD_SESSION_ACTIVE can be trusted: it is set before the session is
\* asked for and cleared only when no file is open any more.
FlagGuards ==
  /\ server.pc = "start" => ~started /\ active
  /\ ~started => session.pc = "away" /\ ~asked
  /\ asked => session.pc = "away" /\ active
  /\ session.pc \in {"away", "closed"} \/ active \/ session.setup = "missing"
  /\ session.pc = "away" => session.setup = "none"
  /\ session.file => session.pc \in {"chunk", "recycle"} /\ session.setup = "open"
  /\ stopped => session.pc = "closed" \/ session.setup = "missing"

IInv == TypeOK /\ BuffersConserved /\ HandsFull /\ BodyInOrder /\ FlagGuards /\ ResetIsSafe
-----------------------------------------------------------------------------
(* Sequences of buffers. *)

MaybeBuffer == Buffers \union {NoBuffer}

LEMMA EmptyHasNone == In(<<>>) = {} /\ NoneTwice(<<>>)
  BY DEF In, NoneTwice

LEMMA AppendAdds ==
  ASSUME NEW queue \in Seq(MaybeBuffer), NEW b \in MaybeBuffer, NoneTwice(queue), b \notin In(queue)
  PROVE  In(Append(queue, b)) = In(queue) \union Has(b) /\ NoneTwice(Append(queue, b))
<1> DEFINE longer == Append(queue, b)
<1>1. /\ DOMAIN queue = 1 .. Len(queue) /\ DOMAIN longer = 1 .. Len(queue) + 1
      /\ \A i \in DOMAIN queue : longer[i] = queue[i]
      /\ longer[Len(queue) + 1] = b /\ Len(queue) \in Nat
  OBVIOUS
<1> HIDE DEF longer
<1>2. In(longer) = In(queue) \union Has(b)
  <2>1. ASSUME NEW c \in In(longer) PROVE c \in In(queue) \union Has(b)
    BY <1>1, <2>1 DEF In, Has
  <2>2. ASSUME NEW c \in In(queue) \union Has(b) PROVE c \in In(longer)
    BY <1>1, <2>2 DEF In, Has
  <2> QED BY <2>1, <2>2
<1>3. NoneTwice(longer)
  BY <1>1 DEF NoneTwice, In
<1> QED BY <1>2, <1>3 DEF longer

LEMMA TailDrops ==
  ASSUME NEW queue \in Seq(MaybeBuffer), NoneTwice(queue), queue # <<>>
  PROVE  /\ In(queue) = In(Tail(queue)) \union Has(Head(queue))
         /\ In(Tail(queue)) \intersect Has(Head(queue)) = {}
         /\ NoneTwice(Tail(queue))
<1> DEFINE rest == Tail(queue)
           n == Len(queue)
           b == Head(queue)
<1>1. /\ DOMAIN queue = 1 .. n /\ DOMAIN rest = 1 .. n - 1 /\ n \in Nat \ {0}
      /\ \A i \in 1 .. n - 1 : rest[i] = queue[i + 1]
      /\ b = queue[1]
  OBVIOUS
<1> HIDE DEF rest, n, b
<1>2. /\ \A i \in DOMAIN rest : i + 1 \in DOMAIN queue /\ i + 1 # 1
      /\ \A i \in DOMAIN queue : i = 1 \/ (i - 1 \in DOMAIN rest /\ rest[i - 1] = queue[i])
  BY <1>1
<1>3. In(queue) = In(rest) \union Has(b)
  <2>1. ASSUME NEW c \in In(queue) PROVE c \in In(rest) \union Has(b)
    BY <1>1, <1>2, <2>1 DEF In, Has
  <2>2. ASSUME NEW c \in In(rest) \union Has(b) PROVE c \in In(queue)
    BY <1>1, <1>2, <2>2 DEF In, Has
  <2> QED BY <2>1, <2>2
<1>4. In(rest) \intersect Has(b) = {}
  BY <1>1, <1>2 DEF In, Has, NoneTwice
<1>5. NoneTwice(rest)
  BY <1>1, <1>2 DEF NoneTwice
<1> QED BY <1>3, <1>4, <1>5 DEF rest, b

\* The buffers on loan in a queue of chunks.
BuffersOf(queue) == [i \in DOMAIN queue |-> queue[i].buffer]

LEMMA BuffersOfQueue ==
  \A queue \in Seq(Chunk) :
    /\ BuffersOf(queue) \in Seq(MaybeBuffer)
    /\ Len(BuffersOf(queue)) = Len(queue)
    /\ \A i \in 1 .. Len(queue) : BuffersOf(queue)[i] = queue[i].buffer
<1> SUFFICES ASSUME NEW queue \in Seq(Chunk)
             PROVE  /\ BuffersOf(queue) \in Seq(MaybeBuffer)
                    /\ Len(BuffersOf(queue)) = Len(queue)
                    /\ \A i \in 1 .. Len(queue) : BuffersOf(queue)[i] = queue[i].buffer
  OBVIOUS
<1>1. DOMAIN queue = 1 .. Len(queue) /\ Len(queue) \in Nat
  BY LenProperties
<1>2. \A i \in 1 .. Len(queue) : queue[i].buffer \in MaybeBuffer
  <2> TAKE i \in 1 .. Len(queue)
  <2>1. queue[i] \in Chunk
    BY ElementOfSeq
  <2> QED BY <2>1 DEF Chunk, MaybeBuffer
<1>3. BuffersOf(queue) \in [1 .. Len(queue) -> MaybeBuffer]
  BY <1>1, <1>2 DEF BuffersOf
<1>4. BuffersOf(queue) \in Seq(MaybeBuffer)
  BY <1>1, <1>3, SeqDef
<1> QED BY <1>1, <1>3, <1>4, LenProperties DEF BuffersOf

LEMMA SendLends ==
  ASSUME NEW queue \in Seq(Chunk), NEW chunk \in Chunk
  PROVE  BuffersOf(Append(queue, chunk)) = Append(BuffersOf(queue), chunk.buffer)
<1> DEFINE longer == Append(queue, chunk)
           held0  == BuffersOf(queue)
<1>1. /\ held0 \in Seq(MaybeBuffer) /\ Len(held0) = Len(queue)
      /\ chunk.buffer \in MaybeBuffer
  BY BuffersOfQueue DEF Chunk, MaybeBuffer
<1>2. /\ longer \in Seq(Chunk) /\ Len(longer) = Len(queue) + 1 /\ Len(queue) \in Nat
      /\ \A i \in 1 .. Len(queue) : longer[i] = queue[i] /\ held0[i] = queue[i].buffer
      /\ longer[Len(queue) + 1] = chunk
  BY BuffersOfQueue
<1> HIDE DEF held0, longer
<1>3. /\ BuffersOf(longer) \in Seq(MaybeBuffer) /\ Len(BuffersOf(longer)) = Len(queue) + 1
      /\ \A i \in 1 .. Len(queue) + 1 : BuffersOf(longer)[i] = longer[i].buffer
  BY <1>2, BuffersOfQueue
<1>4. /\ Append(held0, chunk.buffer) \in Seq(MaybeBuffer)
      /\ Len(Append(held0, chunk.buffer)) = Len(queue) + 1
      /\ \A i \in 1 .. Len(queue) : Append(held0, chunk.buffer)[i] = held0[i]
      /\ Append(held0, chunk.buffer)[Len(queue) + 1] = chunk.buffer
  BY <1>1, <1>2
<1>5. \A i \in 1 .. Len(queue) + 1 : BuffersOf(longer)[i] = Append(held0, chunk.buffer)[i]
  BY <1>2, <1>3, <1>4
<1> QED BY <1>3, <1>4, <1>5, SeqEqual DEF held0, longer

LEMMA ReceiveTakes ==
  ASSUME NEW queue \in Seq(Chunk), queue # <<>>
  PROVE  /\ BuffersOf(Tail(queue)) = Tail(BuffersOf(queue))
         /\ BuffersOf(queue) # <<>>
         /\ Head(queue).buffer = Head(BuffersOf(queue))
<1> DEFINE rest == Tail(queue)
           lent == BuffersOf(queue)
<1>1. /\ lent \in Seq(MaybeBuffer) /\ Len(lent) = Len(queue)
      /\ \A i \in 1 .. Len(queue) : lent[i] = queue[i].buffer
  BY BuffersOfQueue
<1>2. /\ rest \in Seq(Chunk) /\ Len(rest) = Len(queue) - 1 /\ Len(queue) \in Nat \ {0}
      /\ \A i \in 1 .. Len(queue) - 1 : rest[i] = queue[i + 1]
      /\ Head(queue) = queue[1]
  OBVIOUS
<1> HIDE DEF rest, lent
<1>3. /\ BuffersOf(rest) \in Seq(MaybeBuffer) /\ Len(BuffersOf(rest)) = Len(queue) - 1
      /\ \A i \in 1 .. Len(queue) - 1 : BuffersOf(rest)[i] = rest[i].buffer
  BY <1>2, BuffersOfQueue
<1>4. /\ lent # <<>> /\ Head(lent) = lent[1]
      /\ Tail(lent) \in Seq(MaybeBuffer) /\ Len(Tail(lent)) = Len(queue) - 1
      /\ \A i \in 1 .. Len(queue) - 1 : Tail(lent)[i] = lent[i + 1]
  BY <1>1, <1>2
<1>5. \A i \in 1 .. Len(queue) - 1 : BuffersOf(rest)[i] = Tail(lent)[i]
  <2> TAKE i \in 1 .. Len(queue) - 1
  <2>1. i + 1 \in 1 .. Len(queue)
    BY <1>2
  <2> QED BY <1>1, <1>2, <1>3, <1>4, <2>1
<1>6. BuffersOf(rest) = Tail(lent)
  BY <1>3, <1>4, <1>5, SeqEqual
<1> QED BY <1>1, <1>2, <1>4, <1>6 DEF rest, lent
-----------------------------------------------------------------------------
(* The buffers. *)

BufferVars == <<pool, hand, chunks, held, returns>>

LEMMA BuffersStep == IInv /\ [Next]_vars => BuffersConserved'
<1> SUFFICES ASSUME IInv, [Next]_vars PROVE BuffersConserved'
  OBVIOUS
<1>1. /\ chunks \in Seq(Chunk) /\ returns \in Seq(MaybeBuffer) /\ NoBuffer \notin Buffers
      /\ hand \in MaybeBuffer /\ held \in MaybeBuffer
      /\ Lending = BuffersOf(chunks) /\ Lending' = BuffersOf(chunks')
      /\ BuffersOf(chunks) \in Seq(MaybeBuffer)
  BY BuffersOfQueue, BuffersAssumption, SeqMonotonic DEF IInv, TypeOK, Lending, BuffersOf, MaybeBuffer
<1>2. ASSUME UNCHANGED BufferVars PROVE BuffersConserved'
  BY <1>2 DEF BufferVars, IInv, BuffersConserved, Lending
<1>3. CASE TakeBuffer
  <2>1. hand = NoBuffer /\ UNCHANGED <<chunks, held>>
    BY <1>3 DEF TakeBuffer, IInv, HandsFull, disk, TypeOK
  <2>2. CASE hand' \in pool /\ pool' = pool \ {hand'} /\ UNCHANGED returns
    BY <1>1, <2>1, <2>2 DEF IInv, BuffersConserved, Lending, Has
  <2>3. CASE returns # <<>> /\ hand' = Head(returns) /\ returns' = Tail(returns) /\ UNCHANGED pool
    <3>1. NoneTwice(returns)
      BY DEF IInv, BuffersConserved
    <3>2. /\ In(returns) = In(returns') \union Has(hand')
          /\ In(returns') \intersect Has(hand') = {}
          /\ NoneTwice(returns')
      BY <1>1, <2>3, <3>1, TailDrops
    <3>3. Lending' = Lending /\ Has(hand) = {}
      BY <2>1 DEF Lending, Has
    <3> QED BY <2>1, <2>3, <3>2, <3>3 DEF IInv, BuffersConserved
  <2> QED BY <1>3, <2>2, <2>3 DEF TakeBuffer
<1>4. CASE SendChunk
  <2>1. PICK chunk \in Chunk : /\ chunks' = Append(chunks, chunk) /\ chunk.buffer = hand
                              /\ hand' = NoBuffer /\ UNCHANGED <<pool, returns, held>>
    <3> DEFINE chunk == [buffer |-> hand, last |-> server.sent = server.size /\ ~server.failed,
                         abort |-> server.failed]
    <3>1. chunk \in Chunk
      BY DEF Chunk, IInv, TypeOK
    <3> QED BY <1>4, <3>1 DEF SendChunk, disk
  <2>2. Lending' = Append(Lending, hand)
    BY <1>1, <2>1, SendLends
  <2>3. hand \notin In(Lending) /\ NoneTwice(Lending)
    BY <1>1 DEF IInv, BuffersConserved, In, Has
  <2>4. In(Lending') = In(Lending) \union Has(hand) /\ NoneTwice(Lending')
    BY <1>1, <2>2, <2>3, AppendAdds
  <2> QED BY <2>1, <2>4 DEF IInv, BuffersConserved, Has
<1>5. CASE SendEmpty
  <2>1. PICK chunk \in Chunk : /\ chunks' = Append(chunks, chunk) /\ chunk.buffer = NoBuffer
                              /\ UNCHANGED <<pool, hand, returns, held>>
    BY <1>5 DEF SendEmpty, Chunk, IInv, TypeOK, disk
  <2>2. Lending' = Append(Lending, NoBuffer)
    BY <1>1, <2>1, SendLends
  <2>3. NoBuffer \notin In(Lending) /\ NoneTwice(Lending) /\ NoBuffer \in MaybeBuffer
    BY <1>1 DEF IInv, BuffersConserved, In, MaybeBuffer
  <2>4. In(Lending') = In(Lending) /\ NoneTwice(Lending')
    <3>1. Has(NoBuffer) = {}
      BY DEF Has
    <3>2. In(Lending') = In(Lending) \union Has(NoBuffer) /\ NoneTwice(Lending')
      BY <1>1, <2>2, <2>3, AppendAdds
    <3> QED BY <3>1, <3>2
  <2> QED BY <2>1, <2>4 DEF IInv, BuffersConserved
<1>6. CASE TakeResult
  <2>1. CASE server.kind = "upload"
    <3>1. /\ pool' = pool \union {returns[i] : i \in DOMAIN returns} /\ returns' = <<>>
          /\ UNCHANGED <<hand, chunks, held>>
      BY <1>6, <2>1 DEF TakeResult, disk
    <3>2. {returns[i] : i \in DOMAIN returns} = In(returns)
      BY <1>1 DEF In, IInv, TypeOK
    <3> QED BY <3>1, <3>2, EmptyHasNone DEF IInv, BuffersConserved, Lending
  <2>2. CASE server.kind # "upload"
    BY <1>2, <1>6, <2>2 DEF TakeResult, BufferVars, disk
  <2> QED BY <2>1, <2>2
<1>7. CASE TakeChunk
  <2>1. /\ chunks # <<>> /\ chunks' = Tail(chunks) /\ held' = Head(chunks).buffer
        /\ UNCHANGED <<pool, hand, returns>>
    BY <1>7 DEF TakeChunk, wifi
  <2>2. held = NoBuffer
    BY <1>7 DEF TakeChunk, IInv, HandsFull, TypeOK
  <2>3. /\ Lending' = Tail(Lending) /\ Lending # <<>> /\ held' = Head(Lending)
    BY <1>1, <2>1, ReceiveTakes
  <2>4. NoneTwice(Lending)
    BY DEF IInv, BuffersConserved
  <2>5. /\ In(Lending) = In(Lending') \union Has(held')
        /\ In(Lending') \intersect Has(held') = {}
        /\ NoneTwice(Lending')
    BY <1>1, <2>3, <2>4, TailDrops
  <2> QED BY <2>1, <2>2, <2>5 DEF IInv, BuffersConserved, Has
<1>8. CASE Recycle
  <2>1. held' = NoBuffer /\ UNCHANGED <<pool, hand, chunks>>
    BY <1>8 DEF Recycle, wifi
  <2>2. CASE held = NoBuffer
    BY <1>2, <1>8, <2>1, <2>2 DEF Recycle, BufferVars
  <2>3. CASE held # NoBuffer
    <3>1. returns' = Append(returns, held)
      BY <1>8, <2>3 DEF Recycle
    <3>2. held \notin In(returns) /\ NoneTwice(returns)
      BY <2>3 DEF IInv, BuffersConserved, Has
    <3>3. In(returns') = In(returns) \union Has(held) /\ NoneTwice(returns')
      BY <1>1, <3>1, <3>2, AppendAdds
    <3> QED BY <2>1, <3>3 DEF IInv, BuffersConserved, Lending, Has
  <2> QED BY <2>2, <2>3
<1>9. CASE \E kind \in {"delete", "upload"}, book \in Books, size \in 0 .. MaxSize : Accept(kind, book, size)
  BY <1>2, <1>9 DEF Accept, BufferVars, streams, disk
<1>10. CASE AskForSession \/ SendBegin \/ ReadBody \/ ServeExit \/ Reset
  BY <1>2, <1>10 DEF AskForSession, SendBegin, ReadBody, ServeExit, Reset, BufferVars, wifi,
                     streams, disk
<1>11. CASE \E setup \in Setups : EnterSession(setup)
  BY <1>2, <1>11 DEF EnterSession, BufferVars, wifi, streams
<1>12. CASE RefuseRequest \/ RemoveBook \/ OpenBook \/ SendResult
  BY <1>2, <1>12 DEF RefuseRequest, RemoveBook, OpenBook, SendResult, BufferVars, wifi
<1>13. CASE StopSession \/ SleepSession \/ HandleSleep \/ PressDone \/ PressPower
  BY <1>2, <1>13 DEF StopSession, SleepSession, HandleSleep, PressDone, PressPower, BufferVars,
                     wifi, streams, disk
<1>14. CASE UNCHANGED vars
  BY <1>2, <1>14 DEF vars, wifi, streams, disk, BufferVars
<1> QED
  BY <1>3, <1>4, <1>5, <1>6, <1>7, <1>8, <1>9, <1>10, <1>11, <1>12, <1>13, <1>14, BoundsAssumption
     DEF Next, Server, Leaver, Session, User
-----------------------------------------------------------------------------
(* The other parts of the invariant. *)

\* TypeOK by task: what the Wi-Fi task keeps, what the channels hold, what the
\* display task keeps.
WifiTypes ==
  /\ server \in [pc : {"listen", "start", "begin", "empty", "buffer", "read", "chunk", "result"},
                 id : 0 .. MaxRequests, kind : {"upload", "delete"}, book : Books,
                 size : 0 .. MaxSize, sent : 0 .. MaxSize, failed : BOOLEAN]
  /\ server.sent <= server.size
  /\ pool \subseteq Buffers
  /\ hand \in Buffers \union {NoBuffer}
  /\ data \in [Buffers -> Piece \union {Nothing}]
  /\ started \in BOOLEAN
BeginTypes == begins \in Seq(Begin) /\ Len(begins) <= 1
ChunkTypes == chunks \in Seq(Chunk) /\ Len(chunks) <= ChunkCap
ReturnTypes == returns \in Seq(Buffers) /\ Len(returns) <= ReturnCap
ResultTypes == results \in Seq(BOOLEAN) /\ Len(results) <= 1
EndingTypes ==
  /\ active \in BOOLEAN /\ asked \in BOOLEAN /\ stop \in BOOLEAN /\ stopped \in BOOLEAN
  /\ exit \in {"serving", "asked", "waiting", "reset"}
  /\ sleep \in {"none", "queued", "lost", "off"}
SessionType ==
  session \in [pc : {"away", "begin", "chunk", "recycle", "result", "closed"},
               setup : {"none", "open", "refusing", "missing"}, book : Books,
               file : BOOLEAN, failed : BOOLEAN, ended : BOOLEAN, abort : BOOLEAN,
               ok : BOOLEAN]
HeldType == held \in Buffers \union {NoBuffer}
ShelfType == shelf \in [Books -> Entry]

LEMMA TypeParts ==
  TypeOK <=> /\ WifiTypes /\ BeginTypes /\ ChunkTypes /\ ReturnTypes /\ ResultTypes
             /\ EndingTypes /\ SessionType /\ HeldType /\ ShelfType
  BY DEF TypeOK, WifiTypes, BeginTypes, ChunkTypes, ReturnTypes, ResultTypes, EndingTypes,
         SessionType, HeldType, ShelfType

LEMMA WifiStep == IInv /\ [Next]_vars => WifiTypes'
<1> SUFFICES ASSUME IInv, [Next]_vars PROVE WifiTypes'
  OBVIOUS
<1>1. WifiTypes /\ ReturnTypes /\ BodyInOrder /\ HandsFull
  BY TypeParts DEF IInv
<1>2. ASSUME UNCHANGED wifi PROVE WifiTypes'
  BY <1>1, <1>2 DEF WifiTypes, wifi
<1>3. CASE \E kind \in {"delete", "upload"}, book \in Books, size \in 0 .. MaxSize : Accept(kind, book, size)
  BY <1>1, <1>3, BoundsAssumption DEF Accept, WifiTypes
<1>4. CASE AskForSession \/ SendBegin \/ SendChunk \/ SendEmpty
  BY <1>1, <1>4 DEF AskForSession, SendBegin, SendChunk, SendEmpty, WifiTypes
<1>5. CASE TakeBuffer
  <2>1. hand' \in Buffers /\ pool' \subseteq Buffers
    BY <1>1, <1>5, HeadTailProperties DEF TakeBuffer, WifiTypes, ReturnTypes
  <2> QED BY <1>1, <1>5, <2>1 DEF TakeBuffer, WifiTypes
<1>6. CASE ReadBody
  <2>1. hand \in Buffers /\ server.sent < server.size /\ PieceOf(server, server.sent + 1) \in Piece
    BY <1>1, <1>6, BoundsAssumption DEF ReadBody, HandsFull, BodyInOrder, WifiTypes, PieceOf, Piece
  <2>2. data' \in [Buffers -> Piece \union {Nothing}]
    BY <1>1, <1>6, <2>1 DEF ReadBody, WifiTypes
  <2>3. /\ server' \in [pc : {"listen", "start", "begin", "empty", "buffer", "read", "chunk", "result"},
                        id : 0 .. MaxRequests, kind : {"upload", "delete"}, book : Books,
                        size : 0 .. MaxSize, sent : 0 .. MaxSize, failed : BOOLEAN]
        /\ server'.sent <= server'.size
    <3>1. CASE server' = [server EXCEPT !.pc = "chunk", !.sent = @ + 1]
      <4>1. server.sent + 1 \in 0 .. MaxSize /\ server.sent + 1 <= server.size
        BY <1>1, <2>1, BoundsAssumption DEF WifiTypes
      <4> QED BY <1>1, <3>1, <4>1 DEF WifiTypes
    <3>2. CASE server' = [server EXCEPT !.pc = "chunk", !.failed = TRUE]
      BY <1>1, <3>2 DEF WifiTypes
    <3> QED BY <1>6, <3>1, <3>2 DEF ReadBody
  <2> QED BY <1>1, <1>6, <2>2, <2>3 DEF ReadBody, WifiTypes
<1>7. CASE TakeResult
  <2>1. pool' \subseteq Buffers
    BY <1>1, <1>7, ElementOfSeq DEF TakeResult, WifiTypes, ReturnTypes
  <2> QED BY <1>1, <1>7, <2>1 DEF TakeResult, WifiTypes
<1>8. CASE Leaver \/ PressDone \/ PressPower
  BY <1>2, <1>8 DEF Leaver, ServeExit, Reset, PressDone, PressPower
<1>9. CASE \E setup \in Setups : EnterSession(setup)
  BY <1>2, <1>9 DEF EnterSession
<1>10. CASE RefuseRequest \/ RemoveBook \/ OpenBook \/ TakeChunk
  BY <1>2, <1>10 DEF RefuseRequest, RemoveBook, OpenBook, TakeChunk
<1>11. CASE Recycle \/ SendResult \/ StopSession \/ SleepSession \/ HandleSleep
  BY <1>2, <1>11 DEF Recycle, SendResult, StopSession, SleepSession, HandleSleep
<1>12. CASE UNCHANGED vars
  BY <1>2, <1>12 DEF vars
<1> QED
  BY <1>3, <1>4, <1>5, <1>6, <1>7, <1>8, <1>9, <1>10, <1>11, <1>12, BoundsAssumption
     DEF Next, Server, Session, User

LEMMA TailFits ==
  ASSUME NEW S, NEW queue \in Seq(S), queue # <<>>, NEW cap \in Nat, Len(queue) <= cap
  PROVE  Tail(queue) \in Seq(S) /\ Len(Tail(queue)) <= cap
  BY HeadTailProperties, LenProperties

LEMMA StreamStep == IInv /\ [Next]_vars => BeginTypes' /\ ChunkTypes' /\ ReturnTypes' /\ ResultTypes'
<1> SUFFICES ASSUME IInv, [Next]_vars PROVE BeginTypes' /\ ChunkTypes' /\ ReturnTypes' /\ ResultTypes'
  OBVIOUS
<1>1. /\ WifiTypes /\ BeginTypes /\ ChunkTypes /\ ReturnTypes /\ ResultTypes /\ SessionType
      /\ HeldType /\ HandsFull
  BY TypeParts DEF IInv
<1>2. ASSUME UNCHANGED begins \/ begins' = <<>> PROVE BeginTypes'
  <2>1. <<>> \in Seq(Begin) /\ Len(<<>>) = 0
    BY EmptySeq
  <2>2. CASE begins' = <<>>
    BY <2>1, <2>2 DEF BeginTypes
  <2>3. CASE UNCHANGED begins
    BY <1>1, <2>3 DEF BeginTypes
  <2> QED BY <1>2, <2>2, <2>3
<1>3. ASSUME UNCHANGED chunks PROVE ChunkTypes'
  BY <1>1, <1>3 DEF ChunkTypes
<1>4. ASSUME UNCHANGED returns PROVE ReturnTypes'
  BY <1>1, <1>4 DEF ReturnTypes
<1>5. ASSUME UNCHANGED results PROVE ResultTypes'
  BY <1>1, <1>5 DEF ResultTypes
<1>6. CASE SendBegin
  <2>1. [kind |-> server.kind, book |-> server.book] \in Begin
    BY <1>1 DEF WifiTypes, Begin
  <2>2. BeginTypes'
    BY <1>6, <2>1 DEF SendBegin, BeginTypes
  <2> QED BY <1>3, <1>4, <1>5, <1>6, <2>2 DEF SendBegin
<1>7. CASE TakeBuffer
  <2>1. ReturnTypes'
    <3>1. CASE returns # <<>> /\ returns' = Tail(returns)
      BY <1>1, <3>1, TailFits, CapsAssumption DEF ReturnTypes
    <3> QED BY <1>4, <1>7, <3>1 DEF TakeBuffer
  <2> QED BY <1>2, <1>3, <1>5, <1>7, <2>1 DEF TakeBuffer
<1>8. CASE SendChunk \/ SendEmpty
  <2>1. PICK chunk \in Chunk : chunks' = Append(chunks, chunk) /\ Len(chunks) < ChunkCap
    <3>1. CASE SendEmpty
      BY <3>1 DEF SendEmpty, Chunk
    <3>2. CASE SendChunk
      <4> DEFINE chunk == [buffer |-> hand, last |-> server.sent = server.size /\ ~server.failed,
                           abort |-> server.failed]
      <4>1. chunk \in Chunk
        BY <1>1 DEF Chunk, WifiTypes
      <4> QED BY <3>2, <4>1 DEF SendChunk
    <3> QED BY <1>8, <3>1, <3>2
  <2>2. ChunkTypes'
    BY <1>1, <2>1, CapsAssumption DEF ChunkTypes
  <2> QED BY <1>2, <1>4, <1>5, <1>8, <2>2 DEF SendChunk, SendEmpty
<1>9. CASE TakeResult
  <2>1. ResultTypes' /\ ReturnTypes'
    BY <1>1, <1>9, HeadTailProperties, LenProperties, CapsAssumption
       DEF TakeResult, ResultTypes, ReturnTypes
  <2> QED BY <1>2, <1>3, <1>9, <2>1 DEF TakeResult
<1>10. CASE RefuseRequest \/ RemoveBook \/ OpenBook
  BY <1>2, <1>3, <1>4, <1>5, <1>10 DEF RefuseRequest, RemoveBook, OpenBook
<1>11. CASE TakeChunk
  <2>1. ChunkTypes'
    <3>1. chunks # <<>> /\ chunks' = Tail(chunks)
      BY <1>11 DEF TakeChunk
    <3> QED BY <1>1, <3>1, TailFits, CapsAssumption DEF ChunkTypes
  <2> QED BY <1>2, <1>4, <1>5, <1>11, <2>1 DEF TakeChunk
<1>12. CASE Recycle
  <2>1. ReturnTypes'
    <3>1. CASE held = NoBuffer
      BY <1>4, <1>12, <3>1 DEF Recycle
    <3>2. CASE held # NoBuffer
      <4>1. held \in Buffers /\ Len(returns) < ReturnCap /\ returns' = Append(returns, held)
        BY <1>1, <1>12, <3>2 DEF Recycle, HeldType
      <4> QED BY <1>1, <4>1, CapsAssumption DEF ReturnTypes
    <3> QED BY <3>1, <3>2
  <2> QED BY <1>2, <1>3, <1>5, <1>12, <2>1 DEF Recycle
<1>13. CASE SendResult
  <2>1. ResultTypes'
    BY <1>1, <1>13 DEF SendResult, ResultTypes, SessionType
  <2> QED BY <1>2, <1>3, <1>4, <1>13, <2>1 DEF SendResult
<1>14. ASSUME UNCHANGED streams PROVE BeginTypes' /\ ChunkTypes' /\ ReturnTypes' /\ ResultTypes'
  BY <1>2, <1>3, <1>4, <1>5, <1>14 DEF streams
<1>15. CASE AskForSession \/ ReadBody \/ StopSession \/ SleepSession \/ HandleSleep
  BY <1>14, <1>15 DEF AskForSession, ReadBody, StopSession, SleepSession, HandleSleep
<1>16. CASE Leaver \/ PressDone \/ PressPower
  BY <1>14, <1>16 DEF Leaver, ServeExit, Reset, PressDone, PressPower
<1>17. CASE \E kind \in {"delete", "upload"}, book \in Books, size \in 0 .. MaxSize : Accept(kind, book, size)
  BY <1>14, <1>17 DEF Accept
<1>18. CASE \E setup \in Setups : EnterSession(setup)
  BY <1>14, <1>18 DEF EnterSession
<1>19. CASE UNCHANGED vars
  BY <1>14, <1>19 DEF vars
<1> QED
  BY <1>6, <1>7, <1>8, <1>9, <1>10, <1>11, <1>12, <1>13, <1>15, <1>16, <1>17, <1>18, <1>19,
     BoundsAssumption DEF Next, Server, Session, User

LEMMA EndingStep == IInv /\ [Next]_vars => EndingTypes'
<1> SUFFICES ASSUME IInv, [Next]_vars PROVE EndingTypes'
  OBVIOUS
<1>1. EndingTypes /\ WifiTypes
  BY TypeParts DEF IInv
<1>2. ASSUME UNCHANGED <<ending, sleep>> PROVE EndingTypes'
  BY <1>1, <1>2 DEF EndingTypes, ending
<1>3. CASE AskForSession
  BY <1>1, <1>3 DEF AskForSession, EndingTypes
<1>4. CASE SendBegin \/ TakeBuffer \/ ReadBody \/ SendChunk \/ SendEmpty \/ TakeResult
  BY <1>2, <1>4 DEF SendBegin, TakeBuffer, ReadBody, SendChunk, SendEmpty, TakeResult
<1>5. CASE Leaver
  BY <1>1, <1>5 DEF Leaver, ServeExit, Reset, EndingTypes
<1>6. CASE \E setup \in Setups : EnterSession(setup)
  BY <1>1, <1>6 DEF EnterSession, EndingTypes
<1>7. CASE RefuseRequest \/ RemoveBook \/ OpenBook \/ TakeChunk \/ Recycle \/ SendResult
  BY <1>2, <1>7 DEF RefuseRequest, RemoveBook, OpenBook, TakeChunk, Recycle, SendResult
<1>8. CASE StopSession \/ SleepSession
  BY <1>1, <1>8 DEF StopSession, SleepSession, EndingTypes
<1>9. CASE HandleSleep \/ PressDone \/ PressPower
  BY <1>1, <1>9 DEF HandleSleep, PressDone, PressPower, EndingTypes, ending
<1>10. CASE \E kind \in {"delete", "upload"}, book \in Books, size \in 0 .. MaxSize : Accept(kind, book, size)
  BY <1>1, <1>10 DEF Accept, EndingTypes, WifiTypes
<1>11. CASE UNCHANGED vars
  BY <1>2, <1>11 DEF vars
<1> QED
  BY <1>3, <1>4, <1>5, <1>6, <1>7, <1>8, <1>9, <1>10, <1>11, BoundsAssumption
     DEF Next, Server, Session, User

\* What the display task may leave of a book is an entry of the directory.
LEMMA EntryKinds ==
  ASSUME ShelfType, NEW b \in Books
  PROVE  Absent \in Entry /\ Remains(b) \subseteq Entry /\ Kept(b) \subseteq Entry
<1>1. Absent \in Entry
  BY EmptySeq DEF Absent, Entry
<1>2. shelf[b] \in Entry
  BY DEF ShelfType
<1> QED BY <1>1, <1>2 DEF Remains, Kept, Absent, Entry

LEMMA DiskStep == IInv /\ [Next]_vars => SessionType' /\ HeldType' /\ ShelfType'
<1> SUFFICES ASSUME IInv, [Next]_vars PROVE SessionType' /\ HeldType' /\ ShelfType'
  OBVIOUS
<1>1. /\ SessionType /\ HeldType /\ ShelfType /\ BeginTypes /\ ChunkTypes /\ WifiTypes
      /\ BodyInOrder
  BY TypeParts DEF IInv
<1>2. ASSUME UNCHANGED disk PROVE SessionType' /\ HeldType' /\ ShelfType'
  BY <1>1, <1>2 DEF SessionType, HeldType, ShelfType, disk
<1>3. ASSUME NEW b \in Books, NEW entry \in Entry, shelf' = [shelf EXCEPT ![b] = entry]
      PROVE  ShelfType'
  BY <1>1, <1>3 DEF ShelfType
<1>4. ASSUME UNCHANGED shelf PROVE ShelfType'
  BY <1>1, <1>4 DEF ShelfType
<1>5. ASSUME UNCHANGED held PROVE HeldType'
  BY <1>1, <1>5 DEF HeldType
<1>6. CASE \E setup \in Setups : EnterSession(setup)
  BY <1>1, <1>4, <1>5, <1>6, SetupsAssumption DEF EnterSession, SessionType
<1>7. begins # <<>> => Head(begins).book \in Books
  <2>1. begins # <<>> => Head(begins) \in Begin
    BY <1>1, HeadTailProperties DEF BeginTypes
  <2> QED BY <2>1 DEF Begin
<1>8. CASE RefuseRequest
  BY <1>1, <1>4, <1>5, <1>7, <1>8 DEF RefuseRequest, StartFile, SessionType
<1>9. CASE RemoveBook
  <2>1. PICK entry \in Entry : shelf' = [shelf EXCEPT ![Head(begins).book] = entry] \/ UNCHANGED shelf
    BY <1>1, <1>7, <1>9, EntryKinds DEF RemoveBook
  <2>2. ShelfType'
    BY <1>3, <1>4, <1>7, <1>9, <2>1 DEF RemoveBook
  <2>3. SessionType'
    BY <1>1, <1>9 DEF RemoveBook, Answer, SessionType
  <2> QED BY <1>5, <1>9, <2>2, <2>3 DEF RemoveBook
<1>10. CASE OpenBook
  <2>1. [Absent EXCEPT !.state = "new"] \in Entry
    BY EmptySeq DEF Absent, Entry
  <2>2. ShelfType'
    BY <1>3, <1>4, <1>7, <1>10, <2>1 DEF OpenBook
  <2>3. SessionType'
    BY <1>1, <1>7, <1>10 DEF OpenBook, StartFile, SessionType
  <2> QED BY <1>5, <1>10, <2>2, <2>3 DEF OpenBook
<1>11. CASE TakeChunk
  <2> DEFINE chunk  == Head(chunks)
             writes == session.file /\ ~session.failed /\ ~chunk.abort /\ chunk.buffer # NoBuffer
  <2>1. chunk \in Chunk /\ chunks # <<>> /\ held' = chunk.buffer
    BY <1>1, <1>11, HeadTailProperties DEF TakeChunk, ChunkTypes
  <2>2. chunk = chunks[1] /\ 1 \in DOMAIN chunks
    BY <1>1, <2>1, LenProperties, EmptySeq DEF ChunkTypes
  <2>3. PICK fails \in BOOLEAN :
          /\ shelf' = IF writes /\ ~fails
                      THEN [shelf EXCEPT ![session.book].data = Append(@, data[chunk.buffer])]
                      ELSE shelf
          /\ session' = [session EXCEPT !.pc = "recycle", !.failed = @ \/ fails,
                                        !.ended = chunk.last, !.abort = chunk.abort]
    BY <1>11 DEF TakeChunk
  <2> HIDE DEF chunk
  <2>4. HeldType'
    BY <2>1 DEF HeldType, Chunk
  <2>5. SessionType'
    <3>1. session.failed \/ fails \in BOOLEAN
      OBVIOUS
    <3> QED BY <1>1, <2>1, <2>3, <3>1 DEF SessionType, Chunk
  <2>6. ShelfType'
    <3>1. CASE writes /\ ~fails
      <4>1. data[chunk.buffer] \in Piece /\ session.book \in Books
        BY <1>1, <2>2, <3>1 DEF BodyInOrder, SessionType
      <4>2. shelf[session.book] \in Entry
        BY <1>1, <4>1 DEF ShelfType
      <4>3. [shelf[session.book] EXCEPT !.data = Append(@, data[chunk.buffer])] \in Entry
        BY <4>1, <4>2, AppendProperties DEF Entry
      <4>4. shelf' = [shelf EXCEPT ![session.book] =
                        [shelf[session.book] EXCEPT !.data = Append(@, data[chunk.buffer])]]
        BY <1>1, <2>3, <3>1, <4>1 DEF ShelfType
      <4> QED BY <1>3, <4>1, <4>3, <4>4
    <3>2. CASE ~(writes /\ ~fails)
      BY <1>4, <2>3, <3>2
    <3> QED BY <3>1, <3>2
  <2> QED BY <2>4, <2>5, <2>6
<1>12. CASE Recycle
  <2>1. HeldType'
    BY <1>12 DEF Recycle, HeldType
  <2>2. session.book \in Books
    BY <1>1 DEF SessionType
  <2>3. CASE CloseBook
    <3>1. PICK entry \in Entry : shelf' = [shelf EXCEPT ![session.book] = entry]
      BY <1>1, <2>2, <2>3, EntryKinds DEF CloseBook
    <3>2. SessionType'
      BY <1>1, <2>3 DEF CloseBook, SessionType
    <3> QED BY <1>3, <2>1, <2>2, <3>1, <3>2
  <2>4. CASE (At("chunk") \/ Answer(FALSE)) /\ UNCHANGED shelf
    BY <1>1, <1>4, <2>1, <2>4 DEF At, Answer, SessionType
  <2> QED BY <1>12, <2>3, <2>4 DEF Recycle
<1>13. CASE SendResult
  BY <1>1, <1>4, <1>5, <1>13 DEF SendResult, At, SessionType
<1>14. CASE StopSession \/ SleepSession
  <2>1. ShelfType'
    <3>1. session.book \in Books /\ DropFile
      BY <1>1, <1>14 DEF SessionType, StopSession, SleepSession
    <3>2. CASE UNCHANGED shelf
      BY <1>4, <3>2
    <3>3. CASE \E left \in {Absent} \union Remains(session.book) :
                 shelf' = [shelf EXCEPT ![session.book] = left]
      BY <1>1, <1>3, <3>1, <3>3, EntryKinds
    <3> QED BY <3>1, <3>2, <3>3 DEF DropFile
  <2>2. SessionType'
    BY <1>1, <1>14 DEF StopSession, SleepSession, At, SessionType
  <2> QED BY <1>5, <1>14, <2>1, <2>2 DEF StopSession, SleepSession
<1>15. CASE Server
  BY <1>2, <1>15 DEF Server, AskForSession, SendBegin, TakeBuffer, ReadBody, SendChunk, SendEmpty, TakeResult
<1>16. CASE Leaver \/ HandleSleep \/ User
  BY <1>2, <1>16 DEF Leaver, ServeExit, Reset, HandleSleep, User, Accept, PressDone, PressPower
<1>17. CASE UNCHANGED vars
  BY <1>2, <1>17 DEF vars
<1> QED
  BY <1>6, <1>8, <1>9, <1>10, <1>11, <1>12, <1>13, <1>14, <1>15, <1>16, <1>17 DEF Next, Session

LEMMA HandsStep == IInv /\ [Next]_vars => HandsFull'
<1> SUFFICES ASSUME IInv, [Next]_vars PROVE HandsFull'
  OBVIOUS
<1>1. HandsFull /\ TypeOK /\ NoBuffer \notin Buffers
  BY BuffersAssumption DEF IInv
<1>2. CASE AskForSession \/ SendBegin \/ SendEmpty \/ TakeResult
  BY <1>1, <1>2 DEF AskForSession, SendBegin, SendEmpty, TakeResult, HandsFull, TypeOK, disk
<1>3. CASE TakeBuffer
  <2>1. hand' \in Buffers
    BY <1>1, <1>3, HeadTailProperties DEF TakeBuffer, TypeOK
  <2>2. server'.pc = "read" /\ UNCHANGED <<held, session>>
    BY <1>1, <1>3 DEF TakeBuffer, TypeOK, disk
  <2> QED BY <1>1, <2>1, <2>2 DEF HandsFull
<1>4. CASE ReadBody
  BY <1>1, <1>4 DEF ReadBody, HandsFull, TypeOK, disk
<1>5. CASE SendChunk
  <2>1. hand' = NoBuffer /\ server'.pc \in {"result", "buffer"} /\ UNCHANGED <<held, session>>
    BY <1>1, <1>5 DEF SendChunk, TypeOK, disk
  <2> QED BY <1>1, <2>1 DEF HandsFull
<1>6. CASE Leaver
  BY <1>1, <1>6 DEF Leaver, ServeExit, Reset, HandsFull, wifi, disk
<1>7. ASSUME UNCHANGED wifi, held' # NoBuffer => session'.pc = "recycle" PROVE HandsFull'
  BY <1>1, <1>7 DEF HandsFull, wifi
<1>8. CASE TakeChunk
  <2>1. UNCHANGED wifi /\ session'.pc = "recycle"
    BY <1>1, <1>8 DEF TakeChunk, TypeOK
  <2> QED BY <1>7, <2>1
<1>9. CASE Recycle
  <2>1. UNCHANGED wifi /\ held' = NoBuffer
    BY <1>9 DEF Recycle
  <2> QED BY <1>7, <2>1
<1>10. ASSUME session.pc # "recycle", UNCHANGED <<wifi, held>> PROVE HandsFull'
  BY <1>1, <1>7, <1>10 DEF HandsFull
<1>11. CASE \E setup \in Setups : EnterSession(setup)
  BY <1>10, <1>11 DEF EnterSession
<1>12. CASE RefuseRequest \/ RemoveBook \/ OpenBook \/ SendResult
  BY <1>10, <1>12 DEF RefuseRequest, RemoveBook, OpenBook, SendResult
<1>13. CASE StopSession \/ SleepSession
  BY <1>10, <1>13 DEF StopSession, SleepSession, Listening
<1>14. CASE HandleSleep
  BY <1>10, <1>14 DEF HandleSleep, disk
<1>15. CASE User
  BY <1>1, <1>15 DEF User, Accept, PressDone, PressPower, HandsFull, TypeOK, wifi, disk
<1>16. CASE UNCHANGED vars
  BY <1>1, <1>16 DEF vars, wifi, disk, HandsFull
<1> QED
  BY <1>2, <1>3, <1>4, <1>5, <1>6, <1>8, <1>9, <1>11, <1>12, <1>13, <1>14, <1>15, <1>16
     DEF Next, Server, Session

LEMMA BodyStep == IInv /\ [Next]_vars => BodyInOrder'
<1> SUFFICES ASSUME IInv, [Next]_vars PROVE BodyInOrder'
  OBVIOUS
<1>1. BodyInOrder /\ TypeOK /\ HandsFull /\ BuffersConserved /\ NoBuffer \notin Buffers
  BY BuffersAssumption DEF IInv
<1>2. ASSUME UNCHANGED <<server, hand, data, chunks>> PROVE BodyInOrder'
  BY <1>1, <1>2 DEF BodyInOrder
<1>3. CASE \E kind \in {"delete", "upload"}, book \in Books, size \in 0 .. MaxSize : Accept(kind, book, size)
  <2>1. /\ UNCHANGED <<hand, data, chunks>> /\ server'.id # 0 /\ server'.sent = 0
        /\ server'.pc \in {"start", "begin"}
    BY <1>1, <1>3 DEF Accept, streams, TypeOK
  <2> QED BY <1>1, <2>1 DEF BodyInOrder
<1>4. CASE AskForSession \/ SendBegin
  <2>1. /\ UNCHANGED <<hand, data, chunks>> /\ UNCHANGED <<server.id, server.sent, server.size>>
        /\ server.pc \in {"start", "begin"} /\ server'.pc \notin {"read", "chunk"}
        /\ server'.pc = "buffer" => server.size # 0
    BY <1>1, <1>4 DEF AskForSession, SendBegin, streams, TypeOK
  <2> QED BY <1>1, <2>1 DEF BodyInOrder, TypeOK
<1>5. CASE TakeBuffer
  <2>1. /\ UNCHANGED <<data, chunks>> /\ UNCHANGED <<server.id, server.sent, server.size>>
        /\ server.pc = "buffer" /\ server'.pc = "read"
    BY <1>1, <1>5 DEF TakeBuffer, TypeOK
  <2> QED BY <1>1, <2>1 DEF BodyInOrder
<1>6. CASE ReadBody
  <2>1. hand \in Buffers /\ server.pc = "read"
    BY <1>1, <1>6 DEF ReadBody, HandsFull, TypeOK
  <2>2. UNCHANGED <<chunks, hand>> /\ server'.pc = "chunk" /\ UNCHANGED server.id
    BY <1>1, <1>6 DEF ReadBody, streams, TypeOK
  <2>3. CASE UNCHANGED data /\ server'.failed
    BY <1>1, <2>1, <2>2, <2>3 DEF BodyInOrder
  <2>4. CASE data' = [data EXCEPT ![hand] = PieceOf(server, server.sent + 1)]
    <3>1. PieceOf(server, server.sent + 1) \in Piece
      BY <1>1, <2>1, BoundsAssumption DEF PieceOf, Piece, BodyInOrder, TypeOK
    <3>2. data'[hand] \in Piece
      BY <1>1, <2>1, <2>4, <3>1 DEF TypeOK
    <3>3. \A i \in DOMAIN chunks : chunks[i].buffer # hand
      BY <1>1, <2>1 DEF BuffersConserved, Has, In, Lending
    <3>4. \A i \in DOMAIN chunks : data'[chunks[i].buffer] = data[chunks[i].buffer]
      BY <1>1, <2>4, <3>3 DEF TypeOK
    <3> QED BY <1>1, <2>1, <2>2, <3>2, <3>4 DEF BodyInOrder
  <2> QED
    <3>1. \/ data' = [data EXCEPT ![hand] = PieceOf(server, server.sent + 1)]
          \/ UNCHANGED data /\ server'.failed
      BY <1>1, <1>6 DEF ReadBody, TypeOK
    <3> QED BY <2>3, <2>4, <3>1
<1>7. CASE SendChunk \/ SendEmpty
  <2>1. PICK chunk \in Chunk :
          /\ chunks' = Append(chunks, chunk) /\ UNCHANGED data
          /\ chunk.buffer # NoBuffer /\ ~chunk.abort =>
               server.pc = "chunk" /\ ~server.failed /\ chunk.buffer = hand
    <3>1. CASE SendEmpty
      <4> DEFINE chunk == [buffer |-> NoBuffer, last |-> TRUE, abort |-> TRUE]
      <4>1. chunk \in Chunk
        BY DEF Chunk
      <4> QED BY <3>1, <4>1 DEF SendEmpty
    <3>2. CASE SendChunk
      <4> DEFINE chunk == [buffer |-> hand, last |-> server.sent = server.size /\ ~server.failed,
                           abort |-> server.failed]
      <4>1. chunk \in Chunk
        BY <1>1 DEF Chunk, TypeOK
      <4> QED BY <3>2, <4>1 DEF SendChunk
    <3> QED BY <1>7, <3>1, <3>2
  <2>2. chunk.buffer # NoBuffer /\ ~chunk.abort => data[chunk.buffer] \in Piece
    BY <1>1, <2>1 DEF BodyInOrder
  <2>3. /\ DOMAIN chunks' = 1 .. Len(chunks) + 1 /\ DOMAIN chunks = 1 .. Len(chunks)
        /\ chunks'[Len(chunks) + 1] = chunk /\ Len(chunks) \in Nat
        /\ \A i \in 1 .. Len(chunks) : chunks'[i] = chunks[i]
    BY <1>1, <2>1, AppendProperties, LenProperties DEF TypeOK
  <2>4. \A i \in DOMAIN chunks' : \/ i \in DOMAIN chunks /\ chunks'[i] = chunks[i]
                                  \/ chunks'[i] = chunk
    BY <2>3
  <2>5. \A i \in DOMAIN chunks' : ~chunks'[i].abort /\ chunks'[i].buffer # NoBuffer
                                    => data'[chunks'[i].buffer] \in Piece
    BY <1>1, <2>1, <2>2, <2>4 DEF BodyInOrder
  <2>6. /\ server'.pc \in {"result", "buffer"} /\ UNCHANGED <<server.id, server.sent, server.size>>
        /\ server.pc \in {"chunk", "empty"}
        /\ server'.pc = "buffer" => server.sent # server.size
    BY <1>1, <1>7 DEF SendChunk, SendEmpty, TypeOK
  <2> QED BY <1>1, <2>5, <2>6 DEF BodyInOrder, TypeOK
<1>8. CASE TakeResult
  <2>1. UNCHANGED <<data, chunks>> /\ server'.pc = "listen"
    BY <1>1, <1>8 DEF TakeResult, TypeOK
  <2> QED BY <1>1, <2>1 DEF BodyInOrder
<1>9. CASE TakeChunk
  <2>1. UNCHANGED <<server, hand, data>> /\ chunks # <<>> /\ chunks' = Tail(chunks)
    BY <1>9 DEF TakeChunk, wifi
  <2>2. \A i \in DOMAIN chunks' : i + 1 \in DOMAIN chunks /\ chunks'[i] = chunks[i + 1]
    BY <1>1, <2>1, HeadTailProperties, LenProperties DEF TypeOK
  <2> QED BY <1>1, <2>1, <2>2 DEF BodyInOrder
<1>10. CASE \E setup \in Setups : EnterSession(setup)
  BY <1>2, <1>10 DEF EnterSession, wifi, streams
<1>11. CASE RefuseRequest \/ RemoveBook \/ OpenBook \/ Recycle \/ SendResult
  BY <1>2, <1>11 DEF RefuseRequest, RemoveBook, OpenBook, Recycle, SendResult, wifi
<1>12. CASE StopSession \/ SleepSession \/ HandleSleep
  BY <1>2, <1>12 DEF StopSession, SleepSession, HandleSleep, wifi, streams
<1>13. CASE Leaver \/ PressDone \/ PressPower
  BY <1>2, <1>13 DEF Leaver, ServeExit, Reset, PressDone, PressPower, wifi, streams
<1>14. CASE UNCHANGED vars
  BY <1>2, <1>14 DEF vars, wifi, streams
<1> QED
  BY <1>3, <1>4, <1>5, <1>6, <1>7, <1>8, <1>9, <1>10, <1>11, <1>12, <1>13, <1>14, BoundsAssumption
     DEF Next, Server, Session, User

LEMMA FlagStep == IInv /\ [Next]_vars => FlagGuards'
<1> SUFFICES ASSUME IInv, [Next]_vars PROVE FlagGuards'
  OBVIOUS
<1>1. FlagGuards /\ TypeOK
  BY DEF IInv
<1>2. ASSUME UNCHANGED <<started, active, asked, session, stopped>>,
             server'.pc = "start" => server.pc = "start"
      PROVE  FlagGuards'
  BY <1>1, <1>2 DEF FlagGuards
<1>3. ASSUME UNCHANGED <<started, active, asked, stopped, server>>,
             UNCHANGED session.setup,
             session.pc \notin {"away", "closed"},
             session'.pc \notin {"away", "closed"},
             session'.file => session'.pc \in {"chunk", "recycle"} /\ session.setup = "open"
      PROVE  FlagGuards'
  BY <1>1, <1>3 DEF FlagGuards
<1>4. CASE AskForSession
  BY <1>1, <1>4 DEF AskForSession, FlagGuards, TypeOK, disk
<1>5. CASE SendBegin \/ TakeBuffer \/ ReadBody \/ SendChunk \/ SendEmpty \/ TakeResult
  <2>1. UNCHANGED <<started, active, asked, session, stopped>>
    BY <1>5 DEF SendBegin, TakeBuffer, ReadBody, SendChunk, SendEmpty, TakeResult, ending, disk
  <2>2. server'.pc # "start"
    BY <1>1, <1>5 DEF SendBegin, TakeBuffer, ReadBody, SendChunk, SendEmpty, TakeResult, TypeOK
  <2> QED BY <1>2, <2>1, <2>2
<1>6. CASE ServeExit
  BY <1>2, <1>6 DEF ServeExit, wifi, disk
<1>7. CASE Reset
  <2>1. UNCHANGED <<started, active, asked, session, server>> /\ stopped' = FALSE
    BY <1>7 DEF Reset, wifi, disk
  <2> QED BY <1>1, <2>1 DEF FlagGuards
<1>8. CASE \E setup \in Setups : EnterSession(setup)
  <2>1. PICK setup \in Setups : EnterSession(setup)
    BY <1>8
  <2>2. /\ UNCHANGED <<started, server, stopped>> /\ asked /\ asked' = FALSE /\ active' = TRUE
        /\ session.pc = "away" /\ session'.pc = "begin" /\ session'.file = session.file
    BY <1>1, <2>1 DEF EnterSession, TypeOK, wifi
  <2> QED BY <1>1, <2>2 DEF FlagGuards
<1>9. CASE RefuseRequest \/ OpenBook \/ RemoveBook
  <2>1. /\ UNCHANGED <<started, active, asked, stopped, server>> /\ UNCHANGED session.setup
        /\ session.pc = "begin" /\ session'.pc \in {"chunk", "result"}
        /\ session'.file => session'.pc = "chunk" /\ session.setup = "open"
    BY <1>1, <1>9 DEF RefuseRequest, OpenBook, RemoveBook, StartFile, Answer, FlagGuards, TypeOK,
                      wifi, ending
  <2> QED BY <1>3, <2>1
<1>10. CASE TakeChunk
  <2>1. /\ UNCHANGED <<started, active, asked, stopped, server>> /\ UNCHANGED session.setup
        /\ session.pc = "chunk" /\ session'.pc = "recycle" /\ UNCHANGED session.file
    BY <1>1, <1>10 DEF TakeChunk, TypeOK, wifi, ending
  <2> QED BY <1>1, <1>3, <2>1 DEF FlagGuards
<1>11. CASE Recycle
  <2>1. /\ UNCHANGED <<started, active, asked, stopped, server>> /\ session.pc = "recycle"
    BY <1>11 DEF Recycle, wifi, ending
  <2>2. /\ UNCHANGED session.setup /\ session'.pc \in {"chunk", "result"}
        /\ session'.file => session.file /\ session'.pc = "chunk"
    BY <1>1, <1>11 DEF Recycle, At, Answer, CloseBook, TypeOK
  <2> QED BY <1>1, <1>3, <2>1, <2>2 DEF FlagGuards
<1>12. CASE SendResult
  <2>1. /\ UNCHANGED <<started, active, asked, stopped, server>> /\ UNCHANGED session.setup
        /\ session.pc = "result" /\ session'.pc = "begin" /\ UNCHANGED session.file
    BY <1>1, <1>12 DEF SendResult, At, TypeOK, wifi, ending
  <2> QED BY <1>1, <1>3, <2>1 DEF FlagGuards
<1>13. CASE StopSession \/ SleepSession
  <2>1. /\ UNCHANGED <<started, asked, server>> /\ UNCHANGED session.setup
        /\ session.pc \in {"begin", "chunk"}
    BY <1>1, <1>13 DEF StopSession, SleepSession, Listening, At, TypeOK, wifi
  <2>2. CASE session.setup = "missing"
    <3>1. session'.pc = "begin" /\ (session'.file => session.file)
      BY <1>1, <1>13, <2>2 DEF StopSession, SleepSession, At, TypeOK
    <3> QED BY <1>1, <2>1, <2>2, <3>1 DEF FlagGuards
  <2>3. CASE session.setup # "missing"
    <3>1. session'.pc = "closed" /\ session'.file = FALSE
      BY <1>1, <1>13, <2>3 DEF StopSession, SleepSession, TypeOK
    <3> QED BY <1>1, <2>1, <2>3, <3>1 DEF FlagGuards
  <2> QED BY <2>2, <2>3
<1>14. CASE HandleSleep \/ PressDone \/ PressPower
  BY <1>2, <1>14 DEF HandleSleep, PressDone, PressPower, wifi, ending, disk
<1>15. CASE \E kind \in {"delete", "upload"}, book \in Books, size \in 0 .. MaxSize : Accept(kind, book, size)
  <2>1. PICK kind \in {"delete", "upload"}, book \in Books, size \in 0 .. MaxSize : Accept(kind, book, size)
    BY <1>15
  <2>2. /\ UNCHANGED <<started, asked, session, stopped>> /\ active' = (active \/ ~started)
        /\ server'.pc = "start" => ~started
    BY <1>1, <2>1 DEF Accept, disk, TypeOK
  <2> QED BY <1>1, <2>2 DEF FlagGuards, TypeOK
<1>16. CASE UNCHANGED vars
  BY <1>1, <1>16 DEF vars, wifi, disk, ending, FlagGuards
<1> QED
  BY <1>4, <1>5, <1>6, <1>7, <1>8, <1>9, <1>10, <1>11, <1>12, <1>13, <1>14, <1>15, <1>16,
     BoundsAssumption DEF Next, Server, Leaver, Session, User

LEMMA ResetStep == IInv /\ [Next]_vars => ResetIsSafe'
<1> SUFFICES ASSUME IInv, [Next]_vars PROVE ResetIsSafe'
  OBVIOUS
<1>1. FlagGuards /\ TypeOK /\ ResetIsSafe
  BY DEF IInv
<1>2. CASE ServeExit \/ Reset
  BY <1>1, <1>2 DEF ServeExit, Reset, FlagGuards, TypeOK, ResetIsSafe, disk
<1>3. CASE Running /\ exit' # "reset"
  BY <1>3 DEF ResetIsSafe
<1>4. CASE Server
  BY <1>3, <1>4 DEF Running, Server, AskForSession, SendBegin, TakeBuffer, ReadBody, SendChunk,
                    SendEmpty, TakeResult, ending
<1>5. CASE Session
  <2>1. ASSUME Running, UNCHANGED exit PROVE ResetIsSafe'
    BY <1>3, <2>1 DEF Running
  <2>2. CASE \E setup \in Setups : EnterSession(setup)
    BY <2>1, <2>2 DEF EnterSession
  <2>3. CASE RefuseRequest \/ RemoveBook \/ OpenBook
    BY <2>1, <2>3 DEF RefuseRequest, RemoveBook, OpenBook, ending
  <2>4. CASE TakeChunk \/ Recycle \/ SendResult
    BY <2>1, <2>4 DEF TakeChunk, Recycle, SendResult, ending
  <2>5. CASE StopSession \/ SleepSession \/ HandleSleep
    BY <2>1, <2>5 DEF StopSession, SleepSession, HandleSleep, ending
  <2> QED BY <1>5, <2>2, <2>3, <2>4, <2>5 DEF Session
<1>6. CASE User
  BY <1>3, <1>6 DEF Running, User, Accept, PressDone, PressPower, ending
<1>7. CASE UNCHANGED vars
  BY <1>1, <1>7 DEF vars, disk, ending, ResetIsSafe
<1> QED BY <1>2, <1>4, <1>5, <1>6, <1>7 DEF Next, Leaver
-----------------------------------------------------------------------------
(* The theorems. *)

LEMMA Initially == Init => IInv
<1> SUFFICES ASSUME Init PROVE IInv
  OBVIOUS
<1>1. WifiTypes
  <2>1. PICK b \in Books : server = [pc |-> "listen", id |-> 0, kind |-> "upload", book |-> b,
                                     size |-> 0, sent |-> 0, failed |-> FALSE]
    BY DEF Init
  <2>2. 0 \in 0 .. MaxRequests /\ 0 \in 0 .. MaxSize
    BY BoundsAssumption
  <2>3. data \in [Buffers -> Piece \union {Nothing}]
    BY DEF Init
  <2>4. pool = Buffers /\ hand = NoBuffer /\ started = FALSE
    BY DEF Init
  <2>5. server.sent <= server.size
    BY <2>1
  <2>6. server \in [pc : {"listen", "start", "begin", "empty", "buffer", "read", "chunk", "result"},
                    id : 0 .. MaxRequests, kind : {"upload", "delete"}, book : Books,
                    size : 0 .. MaxSize, sent : 0 .. MaxSize, failed : BOOLEAN]
    BY <2>1, <2>2
  <2> QED BY <2>3, <2>4, <2>5, <2>6 DEF WifiTypes
<1>2. BeginTypes /\ ChunkTypes /\ ReturnTypes /\ ResultTypes
  <2>1. begins = <<>> /\ chunks = <<>> /\ returns = <<>> /\ results = <<>>
    BY DEF Init
  <2>2. \A S : <<>> \in Seq(S) /\ Len(<<>>) = 0
    BY EmptySeq
  <2>3. BeginTypes /\ ResultTypes
    BY <2>1, <2>2 DEF BeginTypes, ResultTypes
  <2>4. ChunkTypes /\ ReturnTypes
    BY <2>1, <2>2, CapsAssumption DEF ChunkTypes, ReturnTypes
  <2> QED BY <2>3, <2>4
<1>3. EndingTypes /\ HeldType
  BY DEF Init, EndingTypes, HeldType
<1>4. SessionType
  <2>1. PICK b \in Books : session = [pc |-> "away", setup |-> "none", book |-> b, file |-> FALSE,
                                      failed |-> FALSE, ended |-> FALSE, abort |-> FALSE, ok |-> FALSE]
    BY DEF Init
  <2> QED BY <2>1 DEF SessionType
<1>5. ShelfType
  <2>1. Absent \in Entry /\ [Absent EXCEPT !.state = "old"] \in Entry
    BY EmptySeq DEF Absent, Entry
  <2> QED BY <2>1 DEF Init, ShelfType
<1>6. TypeOK
  BY <1>1, <1>2, <1>3, <1>4, <1>5, TypeParts
<1>7. BuffersConserved
  <2>1. chunks = <<>> /\ returns = <<>> /\ pool = Buffers /\ hand = NoBuffer /\ held = NoBuffer
    BY DEF Init
  <2>2. Lending = <<>>
    BY <2>1 DEF Lending
  <2> QED BY <2>1, <2>2, EmptyHasNone DEF BuffersConserved, Has
<1>8. HandsFull /\ BodyInOrder /\ FlagGuards /\ ResetIsSafe
  BY DEF Init, HandsFull, BodyInOrder, FlagGuards, ResetIsSafe
<1> QED BY <1>6, <1>7, <1>8 DEF IInv

LEMMA Inductive == IInv /\ [Next]_vars => IInv'
<1> SUFFICES ASSUME IInv, [Next]_vars PROVE IInv'
  OBVIOUS
<1>1. TypeOK'
  <2>1. /\ WifiTypes' /\ BeginTypes' /\ ChunkTypes' /\ ReturnTypes' /\ ResultTypes'
        /\ EndingTypes' /\ SessionType' /\ HeldType' /\ ShelfType'
    BY WifiStep, StreamStep, EndingStep, DiskStep
  <2> QED BY <2>1 DEF TypeOK, WifiTypes, BeginTypes, ChunkTypes, ReturnTypes, ResultTypes,
                      EndingTypes, SessionType, HeldType, ShelfType
<1> QED BY <1>1, BuffersStep, HandsStep, BodyStep, FlagStep, ResetStep DEF IInv

LEMMA Invariance == Spec => []IInv
  BY Initially, Inductive, PTL DEF Spec

\* Every variable keeps its type: no channel is filled beyond its length and no
\* chunk is sent of a body that has ended (stream_book's loop).
THEOREM TypeCorrect == Spec => []TypeOK
<1>1. IInv => TypeOK
  BY DEF IInv
<1> QED BY <1>1, Invariance, PTL

\* No lent buffer is ever lost or in two places, however many there are and
\* whatever is aborted, refused or interrupted (upload.rs 31-43).
THEOREM NoBufferLost == Spec => []BuffersConserved
<1>1. IInv => BuffersConserved
  BY DEF IInv
<1> QED BY <1>1, Invariance, PTL

\* The reset of the done press finds the card at rest (exit_after_uploads).
THEOREM CardAtRest == Spec => []ResetIsSafe
<1>1. IInv => ResetIsSafe
  BY DEF IInv
<1> QED BY <1>1, Invariance, PTL
-----------------------------------------------------------------------------
(* One request at a time. *)

Asks  == server.pc \in {"listen", "start", "begin"}
Quiet == session.pc \in {"away", "begin", "closed"}

\* A request is in the begin channel, with the session, or its result is on the
\* way back: never in two of these places.
OneRequest ==
  /\ begins # <<>> => /\ ~Asks /\ Quiet /\ results = <<>>
                      /\ begins = <<[kind |-> server.kind, book |-> server.book]>>
  /\ session.pc \in {"chunk", "recycle"} => ~Asks /\ results = <<>> /\ session.book = server.book
  /\ session.pc = "chunk" => ~session.abort
  /\ session.pc = "recycle" /\ (session.ended \/ session.abort) => server.pc = "result" /\ chunks = <<>>
  /\ session.pc = "result" => server.pc = "result" /\ chunks = <<>> /\ results = <<>>
  /\ results # <<>> => server.pc = "result" /\ chunks = <<>>

\* Only the last chunk of a request may be marked as its last or aborted.
MarksEnd ==
  \A i \in 1 .. Len(chunks) :
    chunks[i].last \/ chunks[i].abort => server.pc = "result" /\ i = Len(chunks)

RemovalLendsNothing ==
  server.kind = "delete" => /\ server.pc \notin {"empty", "buffer", "read", "chunk"}
                            /\ session.pc # "recycle" /\ chunks = <<>> /\ returns = <<>>

SizeFits == /\ server.pc = "empty" => server.size = 0
            /\ server.pc \in {"buffer", "read", "chunk"} => server.size # 0

InOrder == StreamIsDrained /\ OneRequest /\ MarksEnd /\ RemovalLendsNothing /\ SizeFits

OrderVars == <<server, begins, chunks, returns, results, pool, session>>

LEMMA MarksTail ==
  ASSUME NEW queue \in Seq(Chunk), queue # <<>>
  PROVE  /\ Head(queue) = queue[1] /\ Len(queue) \in Nat \ {0} /\ Len(Tail(queue)) = Len(queue) - 1
         /\ Tail(queue) \in Seq(Chunk)
         /\ \A i \in 1 .. Len(Tail(queue)) : Tail(queue)[i] = queue[i + 1] /\ i + 1 \in 1 .. Len(queue)
         /\ Len(queue) = 1 => Tail(queue) = <<>>
<1> DEFINE rest == Tail(queue)
           n == Len(queue)
<1>1. /\ rest \in Seq(Chunk) /\ n \in Nat \ {0} /\ Len(rest) = n - 1
      /\ \A i \in 1 .. n - 1 : rest[i] = queue[i + 1]
      /\ Head(queue) = queue[1]
  OBVIOUS
<1> HIDE DEF rest, n
<1>2. \A i \in 1 .. Len(rest) : rest[i] = queue[i + 1] /\ i + 1 \in 1 .. n
  BY <1>1
<1>3. n = 1 => rest = <<>>
  BY <1>1, EmptySeq
<1> QED BY <1>1, <1>2, <1>3 DEF rest, n

LEMMA OrderStep ==
  ASSUME IInv, IInv', InOrder, [Next]_vars
  PROVE  InOrder'
<1>1. TypeOK /\ TypeOK' /\ FlagGuards /\ chunks \in Seq(Chunk) /\ Len(chunks) \in Nat
  BY DEF IInv, TypeOK
<1>2. /\ server.pc \in {"listen", "start", "begin", "empty", "buffer", "read", "chunk", "result"}
      /\ server.kind \in {"upload", "delete"}
      /\ session.pc \in {"away", "begin", "chunk", "recycle", "result", "closed"}
      /\ server \in [pc : {"listen", "start", "begin", "empty", "buffer", "read", "chunk", "result"},
                     id : 0 .. MaxRequests, kind : {"upload", "delete"}, book : Books,
                     size : 0 .. MaxSize, sent : 0 .. MaxSize, failed : BOOLEAN]
      /\ session \in [pc : {"away", "begin", "chunk", "recycle", "result", "closed"},
                      setup : {"none", "open", "refusing", "missing"}, book : Books,
                      file : BOOLEAN, failed : BOOLEAN, ended : BOOLEAN, abort : BOOLEAN,
                      ok : BOOLEAN]
  BY <1>1 DEF TypeOK
<1>3. ASSUME UNCHANGED OrderVars PROVE InOrder'
  BY <1>3 DEF OrderVars, InOrder, StreamIsDrained, OneRequest, Asks, Quiet, MarksEnd,
              RemovalLendsNothing, SizeFits
<1>4. ASSUME NEW kind \in {"delete", "upload"}, NEW book \in Books, NEW size \in 0 .. MaxSize,
             Accept(kind, book, size)
      PROVE  InOrder'
  <2>1. /\ server.pc = "listen" /\ server'.pc \in {"start", "begin"}
        /\ UNCHANGED <<begins, chunks, returns, results, pool, session>>
    BY <1>4 DEF Accept, streams, disk
  <2>2. /\ pool = Buffers /\ chunks = <<>> /\ returns = <<>> /\ begins = <<>> /\ results = <<>>
        /\ session.pc \in {"away", "begin", "closed"}
    BY <1>2, <2>1 DEF InOrder, StreamIsDrained, OneRequest, Asks
  <2> QED BY <2>1, <2>2, EmptySeq DEF InOrder, StreamIsDrained, OneRequest, Asks, MarksEnd,
                             RemovalLendsNothing, SizeFits
<1>5. CASE AskForSession
  <2>1. /\ server.pc = "start" /\ server'.pc = "begin" /\ server'.kind = server.kind
        /\ UNCHANGED <<begins, chunks, returns, results, pool, session>>
    BY <1>2, <1>5 DEF AskForSession, streams, disk
  <2>2. /\ pool = Buffers /\ chunks = <<>> /\ returns = <<>> /\ begins = <<>> /\ results = <<>>
        /\ session.pc \in {"away", "begin", "closed"}
    BY <1>2, <2>1 DEF InOrder, StreamIsDrained, OneRequest, Asks
  <2> QED BY <2>1, <2>2, EmptySeq DEF InOrder, StreamIsDrained, OneRequest, Asks, MarksEnd,
                             RemovalLendsNothing, SizeFits
<1>6. CASE SendBegin
  <2>1. /\ server.pc = "begin"
        /\ server'.pc = IF server.kind = "delete" THEN "result"
                        ELSE IF server.size = 0 THEN "empty" ELSE "buffer"
        /\ server'.kind = server.kind /\ server'.book = server.book /\ server'.size = server.size
        /\ begins' = <<[kind |-> server.kind, book |-> server.book]>>
        /\ UNCHANGED <<chunks, returns, results, pool, session>>
    BY <1>2, <1>6 DEF SendBegin, disk
  <2>2. /\ chunks = <<>> /\ returns = <<>> /\ results = <<>>
        /\ session.pc \in {"away", "begin", "closed"}
    BY <1>2, <2>1 DEF InOrder, StreamIsDrained, OneRequest, Asks
  <2> QED BY <2>1, <2>2, EmptySeq DEF InOrder, StreamIsDrained, OneRequest, Asks, Quiet, MarksEnd,
                             RemovalLendsNothing, SizeFits
<1>7. CASE TakeBuffer \/ ReadBody
  <2>1. /\ server.pc \in {"buffer", "read"} /\ server'.pc \in {"read", "chunk"}
        /\ server'.kind = server.kind /\ server'.book = server.book /\ server'.size = server.size
        /\ UNCHANGED <<begins, chunks, results, session>>
    BY <1>2, <1>7 DEF TakeBuffer, ReadBody, streams, disk
  <2>2. server.kind # "delete" /\ server.size # 0
    BY <2>1 DEF InOrder, RemovalLendsNothing, SizeFits
  <2> QED BY <2>1, <2>2 DEF InOrder, StreamIsDrained, OneRequest, Asks, Quiet, MarksEnd,
                             RemovalLendsNothing, SizeFits
<1>8. CASE SendChunk \/ SendEmpty
  <2>1. PICK chunk \in Chunk :
          /\ server.pc \in {"chunk", "empty"} /\ chunks' = Append(chunks, chunk)
          /\ server'.pc = IF chunk.last \/ chunk.abort THEN "result" ELSE "buffer"
          /\ server'.pc = "buffer" => server.pc = "chunk"
          /\ server'.kind = server.kind /\ server'.book = server.book /\ server'.size = server.size
          /\ UNCHANGED <<begins, results, session>>
    <3>1. CASE SendEmpty
      <4> DEFINE chunk == [buffer |-> NoBuffer, last |-> TRUE, abort |-> TRUE]
      <4>1. chunk \in Chunk
        BY DEF Chunk
      <4> QED BY <1>2, <3>1, <4>1 DEF SendEmpty, disk
    <3>2. CASE SendChunk
      <4> DEFINE chunk == [buffer |-> hand, last |-> server.sent = server.size /\ ~server.failed,
                           abort |-> server.failed]
      <4>1. chunk \in Chunk
        BY <1>1 DEF Chunk, TypeOK
      <4> QED BY <1>2, <3>2, <4>1 DEF SendChunk, disk
    <3> QED BY <1>8, <3>1, <3>2
  <2>2. /\ server.kind # "delete" /\ results = <<>> /\ session.pc # "result"
        /\ session.pc = "recycle" => ~session.ended /\ ~session.abort
        /\ \A i \in 1 .. Len(chunks) : ~chunks[i].last /\ ~chunks[i].abort
    BY <2>1 DEF InOrder, RemovalLendsNothing, OneRequest, MarksEnd
  <2>3. /\ Len(chunks') = Len(chunks) + 1 /\ chunks'[Len(chunks) + 1] = chunk
        /\ \A i \in 1 .. Len(chunks) : chunks'[i] = chunks[i]
    BY <1>1, <2>1
  <2>4. MarksEnd'
    BY <1>1, <2>1, <2>2, <2>3 DEF MarksEnd
  <2> QED BY <2>1, <2>2, <2>4 DEF InOrder, StreamIsDrained, OneRequest, Asks, Quiet,
                             RemovalLendsNothing, SizeFits
<1>9. CASE TakeResult
  <2>1. /\ server.pc = "result" /\ results # <<>> /\ server'.pc = "listen"
        /\ server'.kind = server.kind /\ results' = <<>>
        /\ server.kind = "upload" => returns' = <<>>
        /\ server.kind # "upload" => returns' = returns
        /\ UNCHANGED <<begins, chunks, session>>
    <3>1. results \in Seq(BOOLEAN) /\ Len(results) <= 1
      BY <1>1 DEF TypeOK
    <3> QED BY <1>2, <1>9, <3>1 DEF TakeResult, disk
  <2>2. /\ chunks = <<>> /\ begins = <<>> /\ session.pc \in {"away", "begin", "closed"}
        /\ server.kind = "delete" => returns = <<>>
    BY <1>2, <2>1 DEF InOrder, OneRequest, RemovalLendsNothing
  <2>3. returns' = <<>> /\ chunks' = <<>> /\ begins' = <<>>
    BY <1>2, <2>1, <2>2
  <2>4. pool' = Buffers
    <3>1. hand' = NoBuffer /\ held' = NoBuffer
      BY <2>1, <2>2 DEF IInv, HandsFull
    <3>2. Lending' = <<>>
      BY <2>3 DEF Lending
    <3> QED BY <2>3, <3>1, <3>2, EmptyHasNone DEF IInv, BuffersConserved, Has
  <2> QED BY <2>1, <2>2, <2>3, <2>4, EmptySeq DEF InOrder, StreamIsDrained, OneRequest, Asks, MarksEnd,
                                        RemovalLendsNothing, SizeFits
<1>10. CASE \E setup \in Setups : EnterSession(setup)
  <2>1. /\ UNCHANGED <<server, begins, chunks, returns, results, pool>>
        /\ session.pc = "away" /\ session'.pc = "begin"
    BY <1>2, <1>10 DEF EnterSession, wifi, streams
  <2> QED BY <2>1 DEF InOrder, StreamIsDrained, OneRequest, Asks, Quiet, MarksEnd,
                      RemovalLendsNothing, SizeFits
<1>11. CASE RefuseRequest \/ OpenBook \/ RemoveBook
  <2>1. /\ UNCHANGED <<server, chunks, returns, results, pool>>
        /\ session.pc = "begin" /\ begins # <<>> /\ begins' = <<>>
        /\ \/ session'.pc = "chunk" /\ session'.book = Head(begins).book /\ ~session'.abort
           \/ session'.pc = "result" /\ Head(begins).kind = "delete"
    BY <1>2, <1>11 DEF RefuseRequest, OpenBook, RemoveBook, StartFile, Answer, wifi
  <2>2. /\ ~Asks /\ results = <<>> /\ Head(begins).book = server.book /\ Head(begins).kind = server.kind
    BY <2>1 DEF InOrder, OneRequest
  <2>3. server.kind = "delete" => server.pc = "result" /\ chunks = <<>>
    BY <1>2, <2>2 DEF InOrder, RemovalLendsNothing, Asks
  <2> QED BY <2>1, <2>2, <2>3 DEF InOrder, StreamIsDrained, OneRequest, Asks, MarksEnd,
                             RemovalLendsNothing, SizeFits
<1>12. CASE TakeChunk
  <2>1. /\ UNCHANGED <<server, begins, returns, results, pool>>
        /\ session.pc = "chunk" /\ session'.pc = "recycle" /\ session'.book = session.book
        /\ chunks # <<>> /\ chunks' = Tail(chunks)
        /\ session'.ended = Head(chunks).last /\ session'.abort = Head(chunks).abort
    BY <1>2, <1>12 DEF TakeChunk, wifi
  <2>2. /\ Head(chunks) = chunks[1] /\ Len(chunks) \in Nat \ {0} /\ Len(chunks') = Len(chunks) - 1
        /\ \A i \in 1 .. Len(chunks') : chunks'[i] = chunks[i + 1] /\ i + 1 \in 1 .. Len(chunks)
        /\ Len(chunks) = 1 => chunks' = <<>>
    BY <1>1, <2>1, MarksTail
  <2>3. /\ ~Asks /\ results = <<>> /\ session.book = server.book /\ begins = <<>>
        /\ server.kind # "delete"
    BY <2>1 DEF InOrder, OneRequest, RemovalLendsNothing, Quiet
  <2>4. Head(chunks).last \/ Head(chunks).abort => server.pc = "result" /\ chunks' = <<>>
    BY <2>2 DEF InOrder, MarksEnd
  <2>5. MarksEnd'
    <3> SUFFICES ASSUME NEW i \in 1 .. Len(chunks'), chunks'[i].last \/ chunks'[i].abort
                 PROVE  server.pc = "result" /\ i = Len(chunks')
      BY <2>1 DEF MarksEnd
    <3>1. chunks'[i] = chunks[i + 1] /\ i + 1 \in 1 .. Len(chunks)
      BY <2>2
    <3>2. server.pc = "result" /\ i + 1 = Len(chunks)
      BY <3>1 DEF InOrder, MarksEnd
    <3> QED BY <2>2, <3>2
  <2> QED BY <2>1, <2>3, <2>4, <2>5 DEF InOrder, StreamIsDrained, OneRequest, Asks,
                                        RemovalLendsNothing, SizeFits
<1>13. CASE Recycle
  <2>1. /\ UNCHANGED <<server, begins, chunks, results, pool>> /\ session.pc = "recycle"
        /\ session'.book = session.book
        /\ \/ session'.pc = "chunk" /\ ~session.abort /\ session'.abort = session.abort
           \/ session'.pc = "result" /\ (session.ended \/ session.abort)
    BY <1>2, <1>13 DEF Recycle, At, Answer, CloseBook, wifi
  <2>2. /\ ~Asks /\ results = <<>> /\ session.book = server.book /\ begins = <<>>
        /\ server.kind # "delete"
    BY <2>1 DEF InOrder, OneRequest, RemovalLendsNothing, Quiet
  <2> QED BY <2>1, <2>2 DEF InOrder, StreamIsDrained, OneRequest, Asks, MarksEnd,
                            RemovalLendsNothing, SizeFits
<1>14. CASE SendResult
  <2>1. /\ UNCHANGED <<server, begins, chunks, returns, pool>> /\ session.pc = "result"
        /\ session'.pc = "begin" /\ results = <<>>
    BY <1>2, <1>14 DEF SendResult, At, wifi
  <2>2. server.pc = "result" /\ chunks = <<>> /\ begins = <<>>
    BY <2>1 DEF InOrder, OneRequest, Quiet
  <2> QED BY <2>1, <2>2 DEF InOrder, StreamIsDrained, OneRequest, Asks, MarksEnd,
                            RemovalLendsNothing, SizeFits
<1>15. CASE StopSession \/ SleepSession
  <2>1. /\ UNCHANGED <<server, begins, chunks, returns, results, pool>>
        /\ session'.pc \in {"begin", "closed"} /\ (session.pc = "chunk" \/ begins = <<>>)
    BY <1>2, <1>15 DEF StopSession, SleepSession, Listening, At, wifi, streams
  <2>2. begins = <<>>
    BY <2>1 DEF InOrder, OneRequest, Quiet
  <2> QED BY <2>1, <2>2 DEF InOrder, StreamIsDrained, OneRequest, Asks, MarksEnd,
                            RemovalLendsNothing, SizeFits
<1>16. CASE Leaver \/ HandleSleep \/ PressDone \/ PressPower
  BY <1>3, <1>16 DEF Leaver, ServeExit, Reset, HandleSleep, PressDone, PressPower, OrderVars, wifi,
                     streams, disk
<1>17. CASE UNCHANGED vars
  BY <1>3, <1>17 DEF vars, wifi, streams, disk, OrderVars
<1>18. CASE User
  BY <1>4, <1>16, <1>18, BoundsAssumption DEF User
<1> QED
  BY <1>5, <1>6, <1>7, <1>8, <1>9, <1>10, <1>11, <1>12, <1>13, <1>14, <1>15, <1>16, <1>17, <1>18
     DEF Next, Server, Session

LEMMA InvariantInOrder == Spec => [](IInv /\ InOrder)
<1>1. Init => InOrder
  BY EmptySeq DEF Init, InOrder, StreamIsDrained, OneRequest, Asks, MarksEnd, RemovalLendsNothing, SizeFits
<1>2. IInv /\ InOrder /\ [Next]_vars => (IInv /\ InOrder)'
  BY Inductive, OrderStep
<1> QED BY <1>1, <1>2, Initially, PTL DEF Spec

\* Between two requests every buffer is back and nothing of the last book is
\* left in a channel, for any capacities and wherever the card or the browser
\* failed (stream_book's drain of UPLOAD_RETURNS, drain_book).
THEOREM NothingIsLeft == Spec => []StreamIsDrained
<1>1. InOrder => StreamIsDrained
  BY DEF InOrder
<1> QED BY <1>1, InvariantInOrder, PTL
-----------------------------------------------------------------------------
(* What is on the card. *)

\* What the session has written of the request that is being served.
Written == IF begins # <<>> THEN <<>> ELSE shelf[session.book].data
Tracked == begins # <<>> \/ (session.file /\ ~session.failed /\ ~session.abort)

\* While nothing has failed, the file and the chunks that follow are the body of
\* the request, from its first piece on.
SentFits ==
  ~server.failed /\ server.size # 0 =>
    server.sent = Len(Written) + Len(chunks) + (IF server.pc = "chunk" THEN 1 ELSE 0)
FileFollows == \A i \in 1 .. Len(Written) : Written[i] = PieceOf(server, i)
ChunksFollow ==
  \A i \in 1 .. Len(chunks) : ~chunks[i].abort =>
    /\ chunks[i].buffer \in Buffers
    /\ data[chunks[i].buffer] = PieceOf(server, Len(Written) + i)
    /\ chunks[i].last => Len(Written) + i = server.size
HandFollows == server.pc = "chunk" /\ ~server.failed => data[hand] = PieceOf(server, server.sent)
EndIsWhole == session.pc = "recycle" /\ session.ended => Len(Written) = server.size /\ server.size # 0
Follows == SentFits /\ FileFollows /\ ChunksFollow /\ HandFollows /\ EndIsWhole
BodyFollows == Tracked => Follows

FileIsNew == session.file => shelf[session.book].state = "new"

\* What an answer of success promises.
Promised ==
  IF server.kind = "delete" THEN shelf[server.book] = Absent
  ELSE /\ shelf[server.book].state \in {"new", "unflushed"}
       /\ shelf[server.book].data = Body(server)
AnswerHolds ==
  (session.pc = "result" /\ session.ok) \/ (results # <<>> /\ Head(results)) => Promised

OnCard == BodyFollows /\ FileIsNew /\ HalfBooksAreOpen /\ AnswerHolds

BodyVars == <<server, data, hand, begins, chunks, session, shelf>>

LEMMA FollowsStep ==
  ASSUME IInv, IInv', InOrder, InOrder', OnCard, [Next]_vars
  PROVE  BodyFollows'
<1>1. /\ TypeOK /\ FlagGuards /\ chunks \in Seq(Chunk) /\ Len(chunks) \in Nat
      /\ FlagGuards' /\ OneRequest /\ OneRequest' /\ SizeFits
  BY DEF IInv, TypeOK, InOrder
<1>2. /\ server \in [pc : {"listen", "start", "begin", "empty", "buffer", "read", "chunk", "result"},
                     id : 0 .. MaxRequests, kind : {"upload", "delete"}, book : Books,
                     size : 0 .. MaxSize, sent : 0 .. MaxSize, failed : BOOLEAN]
      /\ session \in [pc : {"away", "begin", "chunk", "recycle", "result", "closed"},
                      setup : {"none", "open", "refusing", "missing"}, book : Books,
                      file : BOOLEAN, failed : BOOLEAN, ended : BOOLEAN, abort : BOOLEAN,
                      ok : BOOLEAN]
      /\ server.sent \in Nat /\ server.size \in Nat /\ MaxSize \in Nat
  BY <1>1, BoundsAssumption DEF TypeOK
<1>3. Written \in Seq(Piece) /\ Len(Written) \in Nat
  <2>1. shelf[session.book].data \in Seq(Piece)
    BY <1>1, <1>2 DEF TypeOK, Entry
  <2>2. Written \in Seq(Piece)
    BY <2>1, EmptySeq DEF Written
  <2> QED BY <2>2, LenProperties
<1>4. ASSUME ~Tracked' PROVE BodyFollows'
  BY <1>4 DEF BodyFollows
<1>5. session'.file => server'.pc \notin {"listen", "start", "begin"} /\ begins' = <<>>
  BY <1>1 DEF FlagGuards, OneRequest, Asks, Quiet
<1>6. begins' # <<>> => server'.pc \notin {"listen", "start", "begin"}
  BY <1>1 DEF OneRequest, Asks
<1>7. CASE server'.pc \in {"listen", "start", "begin"}
  BY <1>4, <1>5, <1>6, <1>7 DEF Tracked
<1>8. CASE SendBegin
  <2>1. /\ server.pc = "begin" /\ server'.pc \in {"result", "empty", "buffer"} /\ begins' # <<>>
        /\ server'.sent = server.sent /\ UNCHANGED <<chunks, session>>
    BY <1>2, <1>8 DEF SendBegin, disk
  <2>2. server.sent = 0 /\ chunks = <<>> /\ session.pc # "recycle"
    BY <1>1, <2>1 DEF IInv, BodyInOrder, InOrder, StreamIsDrained, OneRequest, Asks
  <2>3. Written' = <<>> /\ Len(Written') = 0 /\ Len(chunks') = 0
    BY <2>1, <2>2, EmptySeq DEF Written
  <2> QED BY <2>1, <2>2, <2>3
          DEF BodyFollows, Follows, SentFits, FileFollows, ChunksFollow, HandFollows, EndIsWhole
<1>9. CASE TakeBuffer
  <2>1. /\ server' = [server EXCEPT !.pc = "read"] /\ server.pc = "buffer"
        /\ UNCHANGED <<data, begins, chunks, session, shelf>>
    BY <1>9 DEF TakeBuffer, disk
  <2>2. /\ server'.pc = "read" /\ server'.sent = server.sent /\ server'.size = server.size
        /\ server'.id = server.id /\ server'.failed = server.failed
    BY <1>2, <2>1
  <2>3. Written' = Written /\ Tracked' = Tracked
    BY <2>1 DEF Written, Tracked
  <2> QED BY <2>1, <2>2, <2>3 DEF OnCard, BodyFollows, Follows, SentFits, FileFollows, ChunksFollow,
                                  HandFollows, EndIsWhole, PieceOf
<1>10. CASE ReadBody
  <2>1. /\ server.pc = "read" /\ server'.pc = "chunk" /\ hand \in Buffers
        /\ UNCHANGED <<hand, begins, chunks, session, shelf>>
    BY <1>1, <1>2, <1>10 DEF ReadBody, streams, disk, IInv, HandsFull, TypeOK
  <2>2. server'.size = server.size /\ server'.id = server.id
    BY <1>2, <1>10 DEF ReadBody
  <2>3. Written' = Written /\ Tracked' = Tracked
    BY <2>1 DEF Written, Tracked
  <2>4. \/ /\ data' = [data EXCEPT ![hand] = PieceOf(server, server.sent + 1)]
           /\ server'.sent = server.sent + 1 /\ server'.failed = server.failed
        \/ data' = data /\ server'.failed
    BY <1>2, <1>10 DEF ReadBody
  <2>5. \A i \in 1 .. Len(chunks) : chunks[i].buffer # hand
    <3>1. DOMAIN chunks = 1 .. Len(chunks)
      BY <1>1
    <3> QED BY <2>1, <3>1, BuffersAssumption DEF IInv, BuffersConserved, Has, In, Lending
  <2>6. \A i \in 1 .. Len(chunks) : chunks[i].buffer \in Buffers =>
          data'[chunks[i].buffer] = data[chunks[i].buffer]
    BY <1>1, <2>4, <2>5 DEF TypeOK
  <2>7. ~server'.failed => /\ data'[hand] = PieceOf(server, server.sent + 1)
                           /\ server'.sent = server.sent + 1 /\ ~server.failed
    BY <1>1, <2>1, <2>4 DEF TypeOK
  <2> SUFFICES ASSUME Tracked' PROVE Follows'
    BY DEF BodyFollows
  <2>8. Follows
    BY <2>3 DEF OnCard, BodyFollows
  <2>9. SentFits'
    <3> SUFFICES ASSUME ~server'.failed, server'.size # 0
                 PROVE  server'.sent = Len(Written') + Len(chunks') + 1
      BY <2>1 DEF SentFits
    <3>1. server.sent = Len(Written) + Len(chunks)
      BY <1>1, <1>3, <2>1, <2>2, <2>7, <2>8 DEF Follows, SentFits
    <3> QED BY <1>1, <1>3, <2>1, <2>3, <2>7, <3>1
  <2>10. FileFollows' /\ EndIsWhole'
    BY <2>1, <2>2, <2>3, <2>8 DEF Follows, FileFollows, EndIsWhole, PieceOf
  <2>11. ChunksFollow'
    BY <2>1, <2>2, <2>3, <2>6, <2>8 DEF Follows, ChunksFollow, PieceOf
  <2>12. HandFollows'
    BY <2>1, <2>2, <2>7 DEF HandFollows, PieceOf
  <2> QED BY <2>9, <2>10, <2>11, <2>12 DEF Follows
<1>11. CASE SendEmpty
  <2>1. /\ server.pc = "empty" /\ server'.pc = "result" /\ server'.size = server.size
        /\ server'.id = server.id /\ server'.failed = server.failed
        /\ chunks' = Append(chunks, [buffer |-> NoBuffer, last |-> TRUE, abort |-> TRUE])
        /\ UNCHANGED <<data, begins, session, shelf>>
    BY <1>2, <1>11 DEF SendEmpty, disk
  <2>2. Written' = Written /\ Tracked' = Tracked /\ server.size = 0
    BY <1>1, <2>1 DEF Written, Tracked, SizeFits
  <2>3. [buffer |-> NoBuffer, last |-> TRUE, abort |-> TRUE] \in Chunk
    BY DEF Chunk
  <2>4. /\ Len(chunks') = Len(chunks) + 1 /\ chunks'[Len(chunks) + 1].abort
        /\ \A i \in 1 .. Len(chunks) : chunks'[i] = chunks[i]
    BY <1>1, <2>1, <2>3
  <2>5. \A i \in 1 .. Len(chunks') : i \in 1 .. Len(chunks) \/ i = Len(chunks) + 1
    BY <1>1, <2>4
  <2> SUFFICES ASSUME Follows PROVE Follows'
    BY <2>2 DEF OnCard, BodyFollows
  <2>6. ChunksFollow'
    <3> SUFFICES ASSUME NEW i \in 1 .. Len(chunks'), ~chunks'[i].abort
                 PROVE  /\ chunks'[i].buffer \in Buffers
                        /\ data[chunks'[i].buffer] = PieceOf(server, Len(Written) + i)
                        /\ chunks'[i].last => Len(Written) + i = server.size
      BY <2>1, <2>2 DEF ChunksFollow, PieceOf
    <3>1. i \in 1 .. Len(chunks) /\ chunks'[i] = chunks[i]
      BY <2>4, <2>5
    <3> QED BY <3>1 DEF Follows, ChunksFollow
  <2> QED BY <2>1, <2>2, <2>6 DEF Follows, SentFits, FileFollows, HandFollows, EndIsWhole, PieceOf
<1>12. CASE SendChunk
  <2> DEFINE chunk == [buffer |-> hand, last |-> server.sent = server.size /\ ~server.failed,
                       abort |-> server.failed]
  <2>1. /\ server.pc = "chunk" /\ server'.pc \in {"result", "buffer"} /\ server'.size = server.size
        /\ server'.id = server.id /\ server'.failed = server.failed /\ server'.sent = server.sent
        /\ chunks' = Append(chunks, chunk) /\ hand \in Buffers
        /\ UNCHANGED <<data, begins, session, shelf>>
    BY <1>1, <1>2, <1>12 DEF SendChunk, disk, IInv, HandsFull, TypeOK
  <2>2. Written' = Written /\ Tracked' = Tracked /\ server.size # 0
    BY <1>1, <2>1 DEF Written, Tracked, SizeFits
  <2>3. chunk \in Chunk /\ chunk.buffer = hand
        /\ (chunk.last <=> server.sent = server.size /\ ~server.failed) /\ chunk.abort = server.failed
    BY <1>2, <2>1 DEF Chunk
  <2> HIDE DEF chunk
  <2>4. /\ Len(chunks') = Len(chunks) + 1 /\ chunks'[Len(chunks) + 1] = chunk
        /\ \A i \in 1 .. Len(chunks) : chunks'[i] = chunks[i]
    BY <1>1, <2>1, <2>3
  <2>5. \A i \in 1 .. Len(chunks') : i \in 1 .. Len(chunks) \/ i = Len(chunks) + 1
    BY <1>1, <2>4
  <2> SUFFICES ASSUME Follows PROVE Follows'
    BY <2>2 DEF OnCard, BodyFollows
  <2>6. ~server.failed => server.sent = Len(Written) + Len(chunks) + 1
    BY <2>1, <2>2 DEF Follows, SentFits
  <2>7. SentFits'
    <3>1. server'.pc # "chunk" /\ Len(Written)' = Len(Written) /\ Len(chunks)' = Len(chunks) + 1
      BY <2>1, <2>2, <2>4
    <3>2. Len(Written) + (Len(chunks) + 1) + 0 = Len(Written) + Len(chunks) + 1
      BY <1>1, <1>3
    <3> QED BY <2>1, <2>6, <3>1, <3>2 DEF SentFits
  <2>8. ChunksFollow'
    <3> SUFFICES ASSUME NEW i \in 1 .. Len(chunks'), ~chunks'[i].abort
                 PROVE  /\ chunks'[i].buffer \in Buffers
                        /\ data[chunks'[i].buffer] = PieceOf(server, Len(Written) + i)
                        /\ chunks'[i].last => Len(Written) + i = server.size
      BY <2>1, <2>2 DEF ChunksFollow, PieceOf
    <3>1. CASE i \in 1 .. Len(chunks)
      BY <2>4, <3>1 DEF Follows, ChunksFollow
    <3>2. CASE i = Len(chunks) + 1
      <4>1. chunks'[i] = chunk /\ ~server.failed
        BY <2>3, <2>4, <3>2
      <4>2. server.sent = Len(Written) + i
        BY <1>1, <1>3, <2>6, <3>2, <4>1
      <4>3. data[hand] = PieceOf(server, server.sent)
        BY <2>1, <4>1 DEF Follows, HandFollows
      <4> QED BY <2>1, <2>3, <4>1, <4>2, <4>3
    <3> QED BY <2>5, <3>1, <3>2
  <2> QED BY <2>1, <2>2, <2>7, <2>8 DEF Follows, FileFollows, HandFollows, EndIsWhole, PieceOf
<1>13. CASE \E setup \in Setups : EnterSession(setup)
  <2>1. /\ session.pc = "away" /\ session'.pc = "begin" /\ session'.file = session.file
        /\ session'.book = session.book /\ UNCHANGED <<server, data, hand, begins, chunks, shelf>>
    BY <1>2, <1>13 DEF EnterSession, wifi, streams
  <2>2. Written' = Written /\ (Tracked' => Tracked)
    BY <1>1, <2>1 DEF Written, Tracked, FlagGuards
  <2> QED BY <2>1, <2>2 DEF OnCard, BodyFollows, Follows, SentFits, FileFollows, ChunksFollow,
                            HandFollows, EndIsWhole, PieceOf
<1>14. CASE OpenBook
  <2> DEFINE b == Head(begins).book
  <2>1. /\ begins # <<>> /\ begins' = <<>> /\ UNCHANGED <<server, data, hand, chunks>>
        /\ session'.pc = "chunk" /\ session'.book = b /\ b \in Books
        /\ session'.file => shelf' = [shelf EXCEPT ![b] = [Absent EXCEPT !.state = "new"]]
    <3>1. b \in Books
      <4>1. Head(begins) \in Begin
        BY <1>1, <1>14, HeadTailProperties DEF OpenBook, TypeOK
      <4> QED BY <4>1 DEF Begin
    <3>2. UNCHANGED <<server, data, hand>> /\ begins # <<>> /\ begins' = <<>> /\ UNCHANGED chunks
      BY <1>14 DEF OpenBook, wifi
    <3>3. CASE StartFile(b, FALSE)
      BY <1>2, <3>1, <3>2, <3>3 DEF StartFile
    <3>4. CASE StartFile(b, TRUE) /\ shelf' = [shelf EXCEPT ![b] = [Absent EXCEPT !.state = "new"]]
      BY <1>2, <3>1, <3>2, <3>4 DEF StartFile
    <3> QED BY <1>14, <3>3, <3>4 DEF OpenBook
  <2> HIDE DEF b
  <2> SUFFICES ASSUME Tracked' PROVE Follows'
    BY DEF BodyFollows
  <2>2. shelf'[b] = [Absent EXCEPT !.state = "new"]
    BY <1>1, <2>1 DEF Tracked, TypeOK
  <2>3. Written' = <<>> /\ Written = <<>>
    BY <2>1, <2>2 DEF Written, Absent
  <2>4. Follows
    BY <2>1 DEF OnCard, BodyFollows, Tracked
  <2> QED BY <2>1, <2>3, <2>4 DEF Follows, SentFits, FileFollows, ChunksFollow, HandFollows,
                                  EndIsWhole, PieceOf
<1>15. CASE TakeChunk
  <2> DEFINE chunk == Head(chunks)
             n     == Len(Written)
  <2>1. /\ chunks # <<>> /\ chunks' = Tail(chunks) /\ UNCHANGED <<server, data, hand, begins>>
        /\ session.pc = "chunk" /\ session'.pc = "recycle" /\ session'.book = session.book
        /\ session'.file = session.file /\ session'.ended = chunk.last /\ session'.abort = chunk.abort
        /\ session.failed => session'.failed
    BY <1>2, <1>15 DEF TakeChunk, wifi
  <2>2. /\ chunk = chunks[1] /\ Len(chunks) \in Nat \ {0} /\ Len(chunks') = Len(chunks) - 1
        /\ \A i \in 1 .. Len(chunks') : chunks'[i] = chunks[i + 1] /\ i + 1 \in 1 .. Len(chunks)
    BY <1>1, <2>1, MarksTail
  <2>3. begins = <<>> /\ ~session.abort /\ session.book \in Books
    BY <1>1, <1>2, <2>1 DEF OneRequest, Quiet
  <2> SUFFICES ASSUME Tracked' PROVE Follows'
    BY DEF BodyFollows
  <2>4. Follows /\ session.file /\ ~session.failed /\ ~chunk.abort /\ ~session'.failed
    BY <2>1, <2>3 DEF OnCard, BodyFollows, Tracked
  <2>5. /\ chunk.buffer \in Buffers /\ data[chunk.buffer] = PieceOf(server, n + 1)
        /\ chunk.last => n + 1 = server.size
    BY <2>2, <2>4 DEF Follows, ChunksFollow
  <2>6. shelf' = [shelf EXCEPT ![session.book].data = Append(@, data[chunk.buffer])]
    <3>1. chunk.buffer # NoBuffer
      BY <2>5, BuffersAssumption
    <3> QED BY <1>2, <1>15, <2>4, <3>1 DEF TakeChunk
  <2>7. Written' = Append(Written, data[chunk.buffer])
    <3>1. shelf[session.book] \in Entry /\ shelf \in [Books -> Entry]
      BY <1>1, <2>3 DEF TypeOK
    <3>2. shelf'[session.book].data = Append(shelf[session.book].data, data[chunk.buffer])
      BY <2>3, <2>6, <3>1 DEF Entry
    <3> QED BY <2>1, <2>3, <3>2 DEF Written
  <2>8. data[chunk.buffer] \in Piece
    BY <1>1, <2>2, <2>4, <2>5, BuffersAssumption DEF IInv, BodyInOrder
  <2>9. /\ Len(Written') = n + 1 /\ Written'[n + 1] = PieceOf(server, n + 1)
        /\ \A i \in 1 .. n : Written'[i] = Written[i]
    BY <1>3, <2>5, <2>7, <2>8
  <2> HIDE DEF chunk, n
  <2>10. FileFollows'
    <3>1. \A i \in 1 .. n + 1 : i \in 1 .. n \/ i = n + 1
      BY <1>3 DEF n
    <3>2. \A i \in 1 .. n : Written[i] = PieceOf(server, i)
      BY <2>4 DEF Follows, FileFollows, n
    <3> SUFFICES ASSUME NEW i \in 1 .. n + 1 PROVE Written'[i] = PieceOf(server, i)
      BY <2>1, <2>9 DEF FileFollows, PieceOf
    <3> QED BY <2>9, <3>1, <3>2
  <2>11. SentFits'
    <3> SUFFICES ASSUME ~server.failed, server.size # 0
                 PROVE  server.sent = (n + 1) + (Len(chunks) - 1) + (IF server.pc = "chunk" THEN 1 ELSE 0)
      BY <2>1, <2>2, <2>9 DEF SentFits
    <3>1. server.sent = n + Len(chunks) + (IF server.pc = "chunk" THEN 1 ELSE 0)
      BY <2>4 DEF Follows, SentFits, n
    <3> QED BY <1>1, <1>3, <3>1 DEF n
  <2>12. ChunksFollow'
    <3> SUFFICES ASSUME NEW i \in 1 .. Len(chunks'), ~chunks'[i].abort
                 PROVE  /\ chunks'[i].buffer \in Buffers
                        /\ data[chunks'[i].buffer] = PieceOf(server, (n + 1) + i)
                        /\ chunks'[i].last => (n + 1) + i = server.size
      BY <2>1, <2>9 DEF ChunksFollow, PieceOf
    <3>1. chunks'[i] = chunks[i + 1] /\ i + 1 \in 1 .. Len(chunks) /\ (n + 1) + i = n + (i + 1)
      BY <1>3, <2>2 DEF n
    <3> QED BY <2>4, <3>1 DEF Follows, ChunksFollow, n
  <2>13. HandFollows'
    BY <2>1, <2>4 DEF Follows, HandFollows, PieceOf
  <2>14. EndIsWhole'
    BY <1>3, <2>1, <2>5, <2>9 DEF EndIsWhole, n
  <2> QED BY <2>10, <2>11, <2>12, <2>13, <2>14 DEF Follows
<1>16. CASE Recycle
  <2>1. /\ UNCHANGED <<server, data, hand, begins, chunks>> /\ session.pc = "recycle"
        /\ \/ session'.pc = "chunk" /\ session' = [session EXCEPT !.pc = "chunk"] /\ shelf' = shelf
           \/ ~session'.file
    BY <1>2, <1>16 DEF Recycle, At, Answer, CloseBook, wifi
  <2>2. begins' = <<>>
    BY <1>1, <2>1 DEF OneRequest, Quiet
  <2>3. CASE session'.pc = "chunk" /\ session' = [session EXCEPT !.pc = "chunk"] /\ shelf' = shelf
    <3>1. /\ session'.file = session.file /\ session'.failed = session.failed
          /\ session'.abort = session.abort /\ session'.book = session.book
      BY <1>2, <2>3
    <3>2. Written' = Written /\ Tracked' = Tracked
      BY <2>1, <2>3, <3>1 DEF Written, Tracked
    <3> QED BY <2>1, <2>3, <3>1, <3>2 DEF OnCard, BodyFollows, Follows, SentFits, FileFollows,
                                          ChunksFollow, HandFollows, EndIsWhole, PieceOf
  <2> QED BY <1>4, <2>1, <2>2, <2>3 DEF Tracked
<1>17. CASE RefuseRequest
  BY <1>2, <1>4, <1>17 DEF RefuseRequest, StartFile, Tracked
<1>18. CASE RemoveBook
  <2>1. begins' = <<>> /\ session'.file = session.file /\ session.pc = "begin"
    BY <1>2, <1>18 DEF RemoveBook, Answer
  <2> QED BY <1>1, <1>4, <2>1 DEF Tracked, FlagGuards
<1>19. CASE SendResult
  <2>1. begins' = begins /\ session'.file = session.file /\ session.pc = "result"
    BY <1>2, <1>19 DEF SendResult, At
  <2> QED BY <1>1, <1>4, <2>1 DEF Tracked, FlagGuards, OneRequest, Quiet
<1>20. CASE StopSession \/ SleepSession
  <2>1. /\ begins' = begins /\ (session.pc = "chunk" \/ begins = <<>>)
        /\ ~session'.file \/ (session.setup = "missing" /\ session'.file = session.file)
    BY <1>2, <1>20 DEF StopSession, SleepSession, Listening, At, streams
  <2> QED BY <1>1, <1>4, <2>1 DEF Tracked, FlagGuards, OneRequest, Quiet
<1>21. ASSUME UNCHANGED BodyVars PROVE BodyFollows'
  <2>1. UNCHANGED <<server, data, hand, begins, chunks, session, shelf>>
    BY <1>21 DEF BodyVars
  <2>2. Written' = Written /\ Tracked' = Tracked
    BY <2>1 DEF Written, Tracked
  <2> QED BY <2>1, <2>2 DEF OnCard, BodyFollows, Follows, SentFits, FileFollows, ChunksFollow,
                            HandFollows, EndIsWhole, PieceOf
<1>22. CASE Leaver \/ HandleSleep \/ PressDone \/ PressPower
  BY <1>21, <1>22 DEF Leaver, ServeExit, Reset, HandleSleep, PressDone, PressPower, BodyVars, wifi,
                      streams, disk
<1>23. CASE UNCHANGED vars
  BY <1>21, <1>23 DEF vars, wifi, streams, disk, BodyVars
<1>24. CASE AskForSession \/ TakeResult
  BY <1>2, <1>7, <1>24 DEF AskForSession, TakeResult
<1>25. CASE User
  BY <1>7, <1>22, <1>25 DEF User, Accept
<1> QED
  BY <1>8, <1>9, <1>10, <1>11, <1>12, <1>13, <1>14, <1>15, <1>16, <1>17, <1>18, <1>19, <1>20, <1>22,
     <1>23, <1>24, <1>25 DEF Next, Server, Session

\* A book whose pieces are the body of a request is whole.
LEMMA WholeBook ==
  ASSUME TypeOK, server.id # 0, server.size # 0, NEW content \in Seq(Piece),
         Len(content) = server.size, \A i \in 1 .. Len(content) : content[i] = PieceOf(server, i)
  PROVE  content = Body(server) /\ IsWhole(content)
<1>1. server.id \in 1 .. MaxRequests
  BY BoundsAssumption DEF TypeOK
<1>2. content = [i \in 1 .. server.size |-> PieceOf(server, i)]
  <2>1. DOMAIN content = 1 .. server.size
    BY LenProperties
  <2>2. content = [i \in DOMAIN content |-> content[i]]
    BY LenProperties
  <2> QED BY <2>1, <2>2
<1>3. content # <<>>
  BY EmptySeq
<1> DEFINE r == [id |-> server.id, size |-> server.size]
<1>4. r \in [id : 1 .. MaxRequests, size : {Len(content)}]
  BY <1>1
<1>5. Body(r) = Body(server)
  BY DEF Body, PieceOf
<1> QED BY <1>2, <1>3, <1>4, <1>5 DEF IsWhole, Body

\* What may be left of a removed book is not a new file.
LEMMA NoneIsNew ==
  ASSUME ShelfType, NEW b \in Books, NEW left \in {Absent} \union Remains(b)
  PROVE  left.state # "new"
<1>1. shelf[b] \in Entry
  BY DEF ShelfType
<1>2. [shelf[b] EXCEPT !.state = "leftover"].state = "leftover"
  BY <1>1 DEF Entry
<1>3. Absent.state = "absent" /\ [Absent EXCEPT !.state = "leftover"].state = "leftover"
  BY DEF Absent
<1>4. \/ left = Absent
      \/ left = [Absent EXCEPT !.state = "leftover"]
      \/ left = [shelf[b] EXCEPT !.state = "leftover"]
      \/ left = shelf[b] /\ shelf[b].state # "new"
  BY DEF Remains
<1> QED BY <1>2, <1>3, <1>4

OneBookChanges(b) == \E left \in Entry : shelf' = [shelf EXCEPT ![b] = left] /\ left.state # "new"

LEMMA ShelfStep ==
  ASSUME IInv, IInv', InOrder, OnCard, [Next]_vars
  PROVE  FileIsNew' /\ HalfBooksAreOpen'
<1>1. /\ TypeOK /\ FlagGuards /\ OneRequest /\ ShelfType /\ BeginTypes /\ ChunkTypes
      /\ shelf \in [Books -> Entry]
  BY TypeParts DEF IInv, InOrder, TypeOK
<1>2. session \in [pc : {"away", "begin", "chunk", "recycle", "result", "closed"},
                   setup : {"none", "open", "refusing", "missing"}, book : Books,
                   file : BOOLEAN, failed : BOOLEAN, ended : BOOLEAN, abort : BOOLEAN,
                   ok : BOOLEAN]
  BY <1>1 DEF TypeOK
<1>3. FileIsNew /\ HalfBooksAreOpen
  BY DEF OnCard
<1>4. ASSUME shelf' = shelf, session'.file = session.file, session'.book = session.book
      PROVE  FileIsNew' /\ HalfBooksAreOpen'
  BY <1>3, <1>4 DEF FileIsNew, HalfBooksAreOpen, IsWhole, Body, PieceOf
<1>5. ASSUME ~session.file, ~session'.file, NEW b \in Books,
             shelf' = shelf \/ OneBookChanges(b)
      PROVE  FileIsNew' /\ HalfBooksAreOpen'
  <2>1. ASSUME NEW c \in Books, shelf'[c].state = "new" PROVE IsWhole(shelf'[c].data)
    <3>1. shelf'[c] = shelf[c]
      BY <1>1, <1>5, <2>1 DEF OneBookChanges
    <3> QED BY <1>3, <1>5, <2>1, <3>1 DEF HalfBooksAreOpen
  <2> QED BY <1>5, <2>1 DEF FileIsNew, HalfBooksAreOpen
<1>6. ASSUME session.file, ~session'.file, NEW left \in Entry,
             shelf' = [shelf EXCEPT ![session.book] = left],
             left.state = "new" => IsWhole(left.data)
      PROVE  FileIsNew' /\ HalfBooksAreOpen'
  <2>1. ASSUME NEW c \in Books, shelf'[c].state = "new" PROVE IsWhole(shelf'[c].data)
    <3>1. CASE c = session.book
      BY <1>1, <1>6, <2>1, <3>1
    <3>2. CASE c # session.book
      BY <1>1, <1>2, <1>3, <1>6, <2>1, <3>2 DEF HalfBooksAreOpen
    <3> QED BY <3>1, <3>2
  <2> QED BY <1>6, <2>1 DEF FileIsNew, HalfBooksAreOpen
<1>7. session.book \in Books /\ {Absent} \union Remains(session.book) \subseteq Entry
  BY <1>1, <1>2, EntryKinds
<1>8. begins # <<>> => Head(begins).book \in Books
  <2>1. begins # <<>> => Head(begins) \in Begin
    BY <1>1, HeadTailProperties DEF BeginTypes
  <2> QED BY <2>1 DEF Begin
<1>9. CASE RefuseRequest
  <2>1. session.pc = "begin" /\ shelf' = shelf /\ ~session'.file
    BY <1>2, <1>9 DEF RefuseRequest, StartFile
  <2> QED BY <1>1, <1>5, <1>7, <2>1 DEF FlagGuards
<1>10. CASE RemoveBook
  <2> DEFINE b == Head(begins).book
  <2>1. session.pc = "begin" /\ session'.file = session.file /\ b \in Books
    BY <1>2, <1>8, <1>10 DEF RemoveBook, Answer
  <2>2. {Absent} \union Remains(b) \subseteq Entry
    BY <1>1, <2>1, EntryKinds
  <2>3. \A left \in {Absent} \union Remains(b) : left.state # "new"
    BY <1>1, <2>1, NoneIsNew
  <2>4. shelf' = shelf \/ \E left \in {Absent} \union Remains(b) : shelf' = [shelf EXCEPT ![b] = left]
    BY <1>10 DEF RemoveBook
  <2>5. shelf' = shelf \/ OneBookChanges(b)
    BY <2>2, <2>3, <2>4 DEF OneBookChanges
  <2> HIDE DEF b
  <2> QED BY <1>1, <1>5, <2>1, <2>5 DEF FlagGuards
<1>11. CASE OpenBook
  <2> DEFINE b == Head(begins).book
  <2>1. session.pc = "begin" /\ ~session.file /\ b \in Books
    BY <1>1, <1>8, <1>11 DEF OpenBook, FlagGuards
  <2>2. CASE StartFile(b, FALSE) /\ UNCHANGED shelf
    <3>1. ~session'.file
      BY <1>2, <2>2 DEF StartFile
    <3> QED BY <1>5, <2>1, <2>2, <3>1
  <2>3. CASE StartFile(b, TRUE) /\ shelf' = [shelf EXCEPT ![b] = [Absent EXCEPT !.state = "new"]]
    <3>1. session'.file /\ session'.book = b
      BY <1>2, <2>3 DEF StartFile
    <3>2. shelf'[b].state = "new"
      BY <1>1, <2>1, <2>3 DEF Absent
    <3>3. \A c \in Books : c # b => shelf'[c] = shelf[c]
      BY <1>1, <2>3
    <3> HIDE DEF b
    <3> QED BY <1>3, <2>1, <3>1, <3>2, <3>3 DEF FileIsNew, HalfBooksAreOpen
  <2> QED BY <1>11, <2>2, <2>3 DEF OpenBook
<1>12. CASE TakeChunk
  <2>1. session'.file = session.file /\ session'.book = session.book
    BY <1>2, <1>12 DEF TakeChunk
  <2>2. CASE shelf' = shelf
    BY <1>4, <2>1, <2>2
  <2>3. CASE /\ session.file
             /\ shelf' = [shelf EXCEPT ![session.book].data = Append(@, data[Head(chunks).buffer])]
    <3>1. shelf'[session.book].state = shelf[session.book].state
      BY <1>1, <1>7, <2>3 DEF Entry
    <3>2. \A c \in Books : c # session.book => shelf'[c] = shelf[c]
      BY <1>1, <2>3
    <3> QED BY <1>3, <2>1, <2>3, <3>1, <3>2 DEF FileIsNew, HalfBooksAreOpen
  <2> QED BY <1>12, <2>2, <2>3 DEF TakeChunk
<1>13. CASE Recycle
  <2>1. CASE ~(session.ended \/ session.abort) \/ ~session.file
    <3>1. shelf' = shelf /\ session'.file = session.file /\ session'.book = session.book
      BY <1>2, <1>13, <2>1 DEF Recycle, At, Answer
    <3> QED BY <1>4, <3>1
  <2>2. CASE (session.ended \/ session.abort) /\ session.file
    <3> DEFINE bad == session.failed \/ session.abort
    <3>1. /\ session.pc = "recycle" /\ ~session'.file
          /\ \E left \in IF bad THEN {Absent} \union Remains(session.book) ELSE Kept(session.book) :
               shelf' = [shelf EXCEPT ![session.book] = left]
      BY <1>2, <1>13, <2>2 DEF Recycle, CloseBook
    <3>2. CASE bad
      <4>1. PICK left \in {Absent} \union Remains(session.book) : shelf' = [shelf EXCEPT ![session.book] = left]
        BY <3>1, <3>2
      <4>2. left.state # "new" /\ left \in Entry
        BY <1>1, <1>7, <4>1, NoneIsNew
      <4> QED BY <1>6, <2>2, <3>1, <4>1, <4>2
    <3>3. CASE ~bad
      <4>1. PICK left \in Kept(session.book) : shelf' = [shelf EXCEPT ![session.book] = left]
        BY <3>1, <3>3
      <4>2. left \in Entry /\ left.data = shelf[session.book].data
        BY <1>1, <1>7, <4>1, EntryKinds DEF Kept, Entry
      <4>3. IsWhole(left.data)
        <5>1. begins = <<>> /\ ~Asks
          BY <1>1, <3>1 DEF OneRequest, Quiet
        <5>2. Follows /\ Written = left.data
          BY <2>2, <3>3, <4>2, <5>1 DEF OnCard, BodyFollows, Tracked, Written
        <5>3. left.data \in Seq(Piece) /\ server.id # 0
          BY <1>1, <4>2, <5>1 DEF IInv, BodyInOrder, Asks, Entry
        <5> QED BY <1>1, <2>2, <3>1, <3>3, <5>2, <5>3, WholeBook DEF Follows, FileFollows, EndIsWhole
      <4> QED BY <1>6, <2>2, <3>1, <4>1, <4>2, <4>3
    <3> QED BY <3>2, <3>3
  <2> QED BY <2>1, <2>2
<1>14. CASE StopSession \/ SleepSession
  <2>1. DropFile /\ (session'.file = session.file \/ ~session'.file) /\ session'.book = session.book
    BY <1>2, <1>14 DEF StopSession, SleepSession, At
  <2>2. session.file => ~session'.file
    BY <1>1, <1>2, <1>14 DEF StopSession, SleepSession, FlagGuards
  <2>3. CASE session.file
    <3>1. PICK left \in {Absent} \union Remains(session.book) : shelf' = [shelf EXCEPT ![session.book] = left]
      BY <2>1, <2>3 DEF DropFile
    <3>2. left.state # "new" /\ left \in Entry
      BY <1>1, <1>7, <3>1, NoneIsNew
    <3> QED BY <1>6, <2>2, <2>3, <3>1, <3>2
  <2>4. CASE ~session.file
    BY <1>5, <1>7, <2>1, <2>4 DEF DropFile
  <2> QED BY <2>3, <2>4
<1>15. CASE (\E setup \in Setups : EnterSession(setup)) \/ SendResult
  <2>1. shelf' = shelf /\ session'.file = session.file /\ session'.book = session.book
    BY <1>2, <1>15 DEF EnterSession, SendResult, At
  <2> QED BY <1>4, <2>1
<1>16. CASE Server
  BY <1>4, <1>16 DEF Server, AskForSession, SendBegin, TakeBuffer, ReadBody, SendChunk, SendEmpty,
                     TakeResult, disk
<1>17. CASE Leaver \/ HandleSleep \/ User
  BY <1>4, <1>17 DEF Leaver, ServeExit, Reset, HandleSleep, User, Accept, PressDone, PressPower, disk
<1>18. CASE UNCHANGED vars
  BY <1>4, <1>18 DEF vars, disk
<1> QED
  BY <1>9, <1>10, <1>11, <1>12, <1>13, <1>14, <1>15, <1>16, <1>17, <1>18 DEF Next, Session

LEMMA AnswerStep ==
  ASSUME IInv, IInv', InOrder, InOrder', OnCard, [Next]_vars
  PROVE  AnswerHolds'
<1>1. /\ TypeOK /\ FlagGuards /\ OneRequest /\ OneRequest' /\ RemovalLendsNothing
      /\ shelf \in [Books -> Entry] /\ BeginTypes
  BY TypeParts DEF IInv, InOrder, TypeOK
<1>2. /\ server \in [pc : {"listen", "start", "begin", "empty", "buffer", "read", "chunk", "result"},
                     id : 0 .. MaxRequests, kind : {"upload", "delete"}, book : Books,
                     size : 0 .. MaxSize, sent : 0 .. MaxSize, failed : BOOLEAN]
      /\ session \in [pc : {"away", "begin", "chunk", "recycle", "result", "closed"},
                      setup : {"none", "open", "refusing", "missing"}, book : Books,
                      file : BOOLEAN, failed : BOOLEAN, ended : BOOLEAN, abort : BOOLEAN,
                      ok : BOOLEAN]
  BY <1>1 DEF TypeOK
<1>3. AnswerHolds
  BY DEF OnCard
<1>4. ASSUME results' = <<>>, session'.pc # "result" PROVE AnswerHolds'
  BY <1>4 DEF AnswerHolds
<1>5. ASSUME UNCHANGED <<server, results, shelf>>, session'.pc = "result" => session' = session
      PROVE  AnswerHolds'
  BY <1>3, <1>5 DEF AnswerHolds, Promised, Body, PieceOf
<1>6. CASE server'.pc # "result"
  BY <1>1, <1>4, <1>6 DEF OneRequest
<1>7. CASE Server \/ (\E kind \in {"delete", "upload"}, book \in Books, size \in 0 .. MaxSize : Accept(kind, book, size))
  <2>1. CASE server.pc # "result"
    <3>1. results = <<>> /\ session.pc # "result"
      BY <1>1, <2>1 DEF OneRequest
    <3>2. results' = results /\ session' = session
      BY <1>7, <2>1 DEF Server, AskForSession, SendBegin, TakeBuffer, ReadBody, SendChunk, SendEmpty,
                        TakeResult, Accept, streams, disk
    <3> QED BY <1>4, <3>1, <3>2
  <2>2. CASE server.pc = "result"
    BY <1>2, <1>6, <1>7, <2>2 DEF Server, AskForSession, SendBegin, TakeBuffer, ReadBody, SendChunk,
                                  SendEmpty, TakeResult, Accept
  <2> QED BY <2>1, <2>2
<1>8. CASE RefuseRequest \/ OpenBook
  <2>1. begins # <<>> /\ results' = results /\ session'.pc = "chunk"
    BY <1>2, <1>8 DEF RefuseRequest, OpenBook, StartFile
  <2> QED BY <1>1, <1>4, <2>1 DEF OneRequest
<1>9. CASE RemoveBook
  <2> DEFINE b == Head(begins).book
  <2>1. /\ begins # <<>> /\ UNCHANGED <<server, results>> /\ b = server.book
        /\ server.kind = "delete" /\ results = <<>>
    BY <1>1, <1>9 DEF RemoveBook, wifi, OneRequest
  <2>2. b \in Books
    BY <1>2, <2>1
  <2>3. (shelf' = [shelf EXCEPT ![b] = Absent] /\ Answer(TRUE)) \/ Answer(FALSE)
    BY <1>9 DEF RemoveBook
  <2>4. session'.pc = "result" /\ session'.ok => shelf'[b] = Absent
    BY <1>1, <1>2, <2>2, <2>3 DEF Answer
  <2> QED BY <2>1, <2>4 DEF AnswerHolds, Promised
<1>10. CASE TakeChunk
  <2>1. session.pc = "chunk" /\ results' = results /\ session'.pc = "recycle"
    BY <1>2, <1>10 DEF TakeChunk
  <2> QED BY <1>1, <1>4, <2>1 DEF OneRequest
<1>11. CASE Recycle
  <2>1. /\ session.pc = "recycle" /\ UNCHANGED <<server, results>> /\ results = <<>>
        /\ begins = <<>> /\ ~Asks /\ session.book = server.book /\ server.kind # "delete"
    BY <1>1, <1>11 DEF Recycle, wifi, OneRequest, Quiet, RemovalLendsNothing
  <2>2. CASE (session.ended \/ session.abort) /\ session.file /\ CloseBook
    <3> SUFFICES ASSUME session'.ok PROVE Promised'
      BY <2>1 DEF AnswerHolds
    <3>1. ~session.failed /\ ~session.abort
      BY <1>2, <2>2 DEF CloseBook
    <3>2. PICK left \in Kept(session.book) : shelf' = [shelf EXCEPT ![session.book] = left]
      BY <2>2, <3>1 DEF CloseBook
    <3>3. shelf[session.book] \in Entry /\ shelf[session.book].state = "new" /\ session.book \in Books
      BY <1>1, <1>2, <2>2 DEF OnCard, FileIsNew
    <3>4. left.state \in {"new", "unflushed"} /\ left.data = shelf[session.book].data
      BY <3>2, <3>3 DEF Kept, Entry
    <3>5. Follows /\ Written = shelf[session.book].data
      BY <2>1, <2>2, <3>1 DEF OnCard, BodyFollows, Tracked, Written
    <3>6. shelf[session.book].data \in Seq(Piece) /\ server.id # 0
      BY <2>1, <3>3 DEF IInv, BodyInOrder, Asks, Entry
    <3>7. left.data = Body(server)
      BY <1>1, <2>1, <2>2, <3>1, <3>4, <3>5, <3>6, WholeBook DEF Follows, FileFollows, EndIsWhole
    <3>8. shelf'[server'.book] = left
      BY <1>1, <2>1, <3>2, <3>3
    <3> QED BY <2>1, <3>4, <3>7, <3>8 DEF Promised, Body, PieceOf
  <2>3. CASE At("chunk") \/ Answer(FALSE)
    BY <1>2, <2>1, <2>3 DEF At, Answer, AnswerHolds
  <2> QED BY <1>11, <2>2, <2>3 DEF Recycle
<1>12. CASE SendResult
  <2>1. /\ session.pc = "result" /\ UNCHANGED <<server, shelf>> /\ results' = <<session.ok>>
        /\ session'.pc = "begin"
    BY <1>2, <1>12 DEF SendResult, At, wifi
  <2>2. Head(results') = session.ok /\ Promised' = Promised
    BY <2>1 DEF Promised, Body, PieceOf
  <2> QED BY <1>3, <2>1, <2>2 DEF AnswerHolds
<1>13. CASE StopSession \/ SleepSession
  <2>1. /\ UNCHANGED <<server, results>> /\ DropFile /\ session.pc \in {"begin", "chunk"}
        /\ session'.pc \in {"begin", "closed"}
    BY <1>2, <1>13 DEF StopSession, SleepSession, Listening, At, wifi, streams
  <2>2. CASE results = <<>>
    BY <1>4, <2>1, <2>2
  <2>3. CASE results # <<>>
    <3>1. ~session.file
      BY <1>1, <2>1, <2>3 DEF OneRequest, FlagGuards
    <3> QED BY <1>5, <2>1, <3>1 DEF DropFile
  <2> QED BY <2>2, <2>3
<1>14. CASE \E setup \in Setups : EnterSession(setup)
  <2>1. UNCHANGED <<server, results, shelf>> /\ session'.pc = "begin"
    BY <1>2, <1>14 DEF EnterSession, wifi, streams
  <2> QED BY <1>5, <2>1
<1>15. CASE Leaver \/ HandleSleep \/ PressDone \/ PressPower
  BY <1>5, <1>15 DEF Leaver, ServeExit, Reset, HandleSleep, PressDone, PressPower, wifi, streams, disk
<1>16. CASE UNCHANGED vars
  BY <1>5, <1>16 DEF vars, wifi, streams, disk
<1> QED
  BY <1>7, <1>8, <1>9, <1>10, <1>11, <1>12, <1>13, <1>14, <1>15, <1>16, BoundsAssumption
     DEF Next, Session, User

LEMMA InvariantOnCard == Spec => [](IInv /\ InOrder /\ OnCard)
<1>1. Init => OnCard
  <2> SUFFICES ASSUME Init PROVE OnCard
    OBVIOUS
  <2>1. ~session.file /\ session.pc = "away" /\ begins = <<>> /\ results = <<>>
    BY DEF Init
  <2>2. \A b \in Books : shelf[b].state # "new"
    <3>1. Absent.state = "absent" /\ [Absent EXCEPT !.state = "old"].state = "old"
      BY DEF Absent
    <3>2. shelf \in [Books -> {Absent, [Absent EXCEPT !.state = "old"]}]
      BY DEF Init
    <3> QED BY <3>1, <3>2
  <2> QED BY <2>1, <2>2 DEF OnCard, BodyFollows, Tracked, FileIsNew, HalfBooksAreOpen, AnswerHolds
<1>2. Init => InOrder
  BY EmptySeq DEF Init, InOrder, StreamIsDrained, OneRequest, Asks, MarksEnd, RemovalLendsNothing, SizeFits
<1>3. IInv /\ InOrder /\ OnCard /\ [Next]_vars => (IInv /\ InOrder /\ OnCard)'
  <2> SUFFICES ASSUME IInv, InOrder, OnCard, [Next]_vars PROVE (IInv /\ InOrder /\ OnCard)'
    OBVIOUS
  <2>1. IInv' /\ InOrder'
    BY Inductive, OrderStep
  <2>2. OnCard'
    BY <2>1, FollowsStep, ShelfStep, AnswerStep DEF OnCard
  <2> QED BY <2>1, <2>2
<1> QED BY <1>1, <1>2, <1>3, Initially, PTL DEF Spec

\* A new book on the card that is not complete is the one being written: a
\* broken connection, a card error, the done press and Sleep all take it away
\* again, or leave it marked as what the card refused to remove (drop of the
\* file in upload_session).
THEOREM NoHalfBook == Spec => []HalfBooksAreOpen
<1>1. OnCard => HalfBooksAreOpen
  BY DEF OnCard
<1> QED BY <1>1, InvariantOnCard, PTL

\* An answer of success is true, for books of any length, any number of buffers
\* and any channel lengths: the book has all its pieces in order, or is gone.
THEOREM SuccessIsTrue == Spec => AnswerIsTrue
<1> DEFINE Step == server.pc = "result" /\ server'.pc = "listen" /\ Head(results) /\ ~server.failed =>
                     Promised
<1>1. IInv /\ InOrder /\ OnCard /\ [Next]_vars => [Step]_vars
  <2> SUFFICES ASSUME IInv, InOrder, OnCard, Next, server.pc = "result", server'.pc = "listen",
                      Head(results)
               PROVE  Promised
    OBVIOUS
  <2>1. TakeResult
    <3>1. server' # server
      OBVIOUS
    <3>2. Server \/ server.pc = "listen"
      <4>1. CASE Session
        BY <3>1, <4>1 DEF Session, EnterSession, RefuseRequest, RemoveBook, OpenBook, TakeChunk, Recycle,
                          SendResult, StopSession, SleepSession, HandleSleep, wifi
      <4>2. CASE Leaver \/ PressDone \/ PressPower
        BY <3>1, <4>2 DEF Leaver, ServeExit, Reset, PressDone, PressPower, wifi
      <4>3. CASE User
        BY <4>2, <4>3 DEF User, Accept
      <4> QED BY <4>1, <4>2, <4>3 DEF Next
    <3> QED BY <3>2 DEF Server, AskForSession, SendBegin, TakeBuffer, ReadBody, SendChunk, SendEmpty, TakeResult
  <2>2. results # <<>>
    BY <2>1 DEF TakeResult
  <2> QED BY <2>2 DEF OnCard, AnswerHolds
<1>2. Spec => [][Step]_vars
  BY <1>1, InvariantOnCard, PTL DEF Spec
<1>3. Promised <=> IF server.kind = "delete" THEN shelf[server.book] = Absent
                   ELSE /\ shelf[server.book].state \in {"new", "unflushed"}
                        /\ shelf[server.book].data = Body(server)
  BY DEF Promised
<1> QED BY <1>2, <1>3, PTL DEF AnswerIsTrue
=============================================================================
