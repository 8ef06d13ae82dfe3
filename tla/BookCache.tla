------------------------------ MODULE BookCache ------------------------------
(***************************************************************************)
(* The whole-book cache on the card and the one section of it that is in   *)
(* memory: fw/src/reader_cache.rs, reader_cache_files.rs, reader_store.rs  *)
(* and the display task's handlers of OpenBook, ExtendSection,             *)
(* LoadChapters and JumpChapter (fw/src/tasks/display.rs).                 *)
(*                                                                         *)
(* A book is a number of lines per chapter and type size; the spacing says *)
(* how many lines a page takes.  A cache is an index (BOOK.BIN), section   *)
(* files and the chapter list (TOC.BIN), each written in place.  What an   *)
(* index says follows from the book and the layout, so an index file is    *)
(* the layout it was written under; a section file also keeps the lines it *)
(* holds, for these are what goes wrong.                                   *)
(***************************************************************************)
EXTENDS Integers, Sequences, SequencesExt

CONSTANTS Books, Sizes, Spacings,
          Layouts,     \* the layouts the user tries: size and spacing
          Lines,       \* [Books -> [Sizes -> sequence: lines of each chapter]]
          Rows,        \* [Layouts -> lines of a page]
          Places,      \* pages saved for a book, 0 for none
          Arena,       \* lines the section buffers hold when they count as full
          MaxSections, \* MAX_BOOK_SECTIONS, 320
          None, Blank, TocBytes,
          Absent, Torn, \* a file that is not there, or whose write was cut short
          MaxMishaps   \* bound on failing file operations and losses of power

ASSUME BoundsAssumption ==
  /\ Arena \in Nat \ {0} /\ MaxSections \in Nat \ {0} /\ MaxMishaps \in Nat
ASSUME BooksAssumption ==
  /\ Layouts \subseteq [size : Sizes, spacing : Spacings] /\ Places \subseteq Nat
  /\ \A L \in Layouts : Rows[L] \in Nat \ {0}
  /\ \A b \in Books, z \in Sizes : Lines[b][z] \in Seq(Nat \ {0}) /\ Lines[b][z] # <<>>

VARIABLES card,   \* the cache directories
          store,  \* ReaderStore
          app,    \* view, book, page and layout of the app task
          asked,  \* the newest reader command, not yet served
          job,    \* the build under way
          left    \* mishaps still to come

vars == <<card, store, app, asked, job, left>>

Lesser(i, j) == IF i <= j THEN i ELSE j
Ceil(i, j) == (i + j - 1) \div j
-----------------------------------------------------------------------------
(* Pagination.                                                             *)

\* A section that fills the buffers ends on a whole page: the last one is
\* carried into the next section, unless it is the only one.
CutAt(L) == IF Arena > Rows[L] THEN ((Arena - 1) \div Rows[L]) * Rows[L] ELSE Arena

ChapterTexts(b, L, c) ==
  LET lines == Lines[b][L.size][c]
      full  == IF lines < Arena THEN 0 ELSE (lines - Arena) \div CutAt(L) + 1
      cuts  == [i \in 1..full |-> [book |-> b, size |-> L.size, spine |-> c,
                                   from |-> (i - 1) * CutAt(L) + 1, to |-> i * CutAt(L)]]
      rest  == [book |-> b, size |-> L.size, spine |-> c,
                from |-> full * CutAt(L) + 1, to |-> lines]
  IN IF full * CutAt(L) < lines THEN Append(cuts, rest) ELSE cuts

\* The texts of a book's sections, at most MaxSections of them: a longer book
\* is cached partially. Faulty variant: the builder does not stop there.
TextsUnbounded == [b \in Books |-> [L \in Layouts |->
                     FlattenSeq([c \in DOMAIN Lines[b][L.size] |-> ChapterTexts(b, L, c)])]]
Texts == [b \in Books |-> [L \in Layouts |->
            LET all == FlattenSeq([c \in DOMAIN Lines[b][L.size] |-> ChapterTexts(b, L, c)])
            IN SubSeq(all, 1, Lesser(Len(all), MaxSections))]]

Text == UNION {UNION {ToSet(Texts[b][L]) : L \in Layouts} : b \in Books}
PagesIn(text, L) == Ceil(text.to - text.from + 1, Rows[L])

\* The section records of an index.
Records(texts, L) ==
  LET page[k \in 0..Len(texts)] == IF k = 0 THEN 0 ELSE page[k - 1] + PagesIn(texts[k], L)
  IN [k \in DOMAIN texts |->
        [spine |-> texts[k].spine, start |-> page[k - 1], pages |-> page[k] - page[k - 1]]]
Sections == [b \in Books |-> [L \in Layouts |-> Records(Texts[b][L], L)]]

PagesOf(recs) == Last(recs).start + Last(recs).pages
Total(b, L) == PagesOf(Sections[b][L])

\* A page past the end is looked for in the last section.
SectionFor(recs, page) ==
  LET on == {k \in DOMAIN recs : page \in recs[k].start .. recs[k].start + recs[k].pages - 1}
  IN IF on = {} THEN Len(recs) ELSE CHOOSE k \in on : TRUE

\* The first page of a chapter, 0 when the index does not know it.
FirstOf(recs, c) ==
  LET of == {k \in DOMAIN recs : recs[k].spine = c}
  IN IF of = {} THEN 0 ELSE recs[CHOOSE k \in of : \A j \in of : k <= j].start
ChapterStart(index, c) == IF index = None THEN 0 ELSE FirstOf(Sections[index.book][index.layout], c)

\* The i-th page of a text, from 0: its lines.
PageOf(text, L, i) ==
  [book |-> text.book, spine |-> text.spine, from |-> text.from + i * Rows[L],
   to |-> Lesser(text.to, text.from + (i + 1) * Rows[L] - 1)]

BookPage(b, L, page) ==
  LET k == SectionFor(Sections[b][L], page)
  IN PageOf(Texts[b][L][k], L, page - Sections[b][L][k].start)
-----------------------------------------------------------------------------
(* The card and the store.                                                 *)

Lost == {Absent, Torn}
SectionFile == [layout : Layouts, text : Text]
Slots == 1..MaxSections

\* A TOC.BIN is cut in its header or in its records.
TocFile == {"absent", "header", "body", "whole"}
Edition == [book : Books, layout : Layouts]
Store == [book : Books \union {None}, status : {"empty", "loading", "ready", "error"},
          layout : Layouts, index : Edition \union {None}, start : Nat, count : Nat,
          text : Text \union {Blank, TocBytes}, pages : Nat, holdsToc : BOOLEAN,
          map : Edition \union {None},  \* chapter_page_token, None while there is no map
          rows : SUBSET Edition,        \* editions the entries of chapter_page are from
          unread : BOOLEAN]             \* history: a list failed since the map was read whole
Command == [kind : {"open", "extend", "chapters", "jump"}, page : Nat, chapter : Nat,
            book : Books, layout : Layouts]
Reader == [view : {"home", "reading", "chapters"}, book : Books, page : Nat, pages : Nat \ {0},
           layout : Layouts]
Build == [book : Books, page : Nat, restored : BOOLEAN, next : 0..MaxSections + 2]

ASSUME NoneAssumption ==
  /\ None \notin Books \union Edition \union Command \union Build
  /\ {Blank, TocBytes} \intersect Text = {} /\ Blank # TocBytes
  /\ Lost \intersect (Layouts \union SectionFile) = {}

TypeOK ==
  /\ card \in [index : [Books -> Layouts \union Lost],
               section : [Books -> [Slots -> SectionFile \union Lost]], toc : [Books -> TocFile]]
  /\ store \in Store
  /\ app \in Reader
  /\ asked \in Command \union {None}
  /\ job \in Build \union {None}
  /\ left \in 0..MaxMishaps

EmptyStore(L) ==
  [book |-> None, status |-> "empty", layout |-> L, index |-> None, start |-> 0, count |-> 0,
   text |-> Blank, pages |-> 0, holdsToc |-> FALSE, map |-> None, rows |-> {}, unread |-> FALSE]

Init ==
  /\ card = [index |-> [b \in Books |-> Absent],
             section |-> [b \in Books |-> [k \in Slots |-> Absent]],
             toc |-> [b \in Books |-> "absent"]]
  /\ app \in [view : {"home"}, book : Books, page : {0}, pages : {1}, layout : Layouts]
  /\ store = EmptyStore(app.layout)
  /\ asked = None /\ job = None
  /\ left = MaxMishaps

Fault == left > 0 /\ left' = left - 1
Done == UNCHANGED left

Adopt(st, L) ==
  IF st.layout = L THEN st ELSE [st EXCEPT !.layout = L, !.pages = 0, !.count = 0]

\* Faulty variant: the chapter list in the buffer is not noticed.
CoversUnborrowed(st, b, page) ==
  /\ st.book = b /\ st.status = "ready" /\ st.pages > 0
  /\ page \in st.start .. st.start + st.count - 1
Covers(st, b, page) ==
  /\ st.book = b /\ st.status = "ready" /\ ~st.holdsToc /\ st.pages > 0
  /\ page \in st.start .. st.start + st.count - 1

\* The chapter map and the TOC window survive the beginning of a load.
Begin(st) ==
  [st EXCEPT !.book = None, !.status = "loading", !.text = Blank, !.pages = 0, !.index = None,
             !.start = 0, !.count = 0]

\* The spacing is masked off: a section of another spacing is paginated anew.
\* Faulty variant: the size is masked off too.
AcceptsAny(file, rec, L) ==
  file \notin Lost /\ file.text.spine = rec.spine
Accepts(file, rec, L) ==
  file \notin Lost /\ file.layout.size = L.size /\ file.text.spine = rec.spine

\* load_v2_section_by_global_page: whether it hits, and the store it leaves.
LoadSection(st, file, rec) ==
  LET pages == PagesIn(file.text, st.layout)
      read  == [st EXCEPT !.text = file.text, !.pages = pages, !.count = pages, !.holdsToc = FALSE]
  IN IF ~Accepts(file, rec, st.layout) THEN [hit |-> FALSE, store |-> st]
     ELSE IF pages < rec.pages THEN [hit |-> FALSE, store |-> read]
     ELSE [hit |-> TRUE, store |-> [read EXCEPT !.start = rec.start]]

\* A section that was paginated anew is written back, whatever becomes of it.
Renewed(b, k, st, hit) == hit /\ card.section[b][k].layout # st.layout
Written(b, k, st, hit) ==
  card' = IF Renewed(b, k, st, hit)
          THEN [card EXCEPT !.section[b][k] = [layout |-> st.layout, text |-> @.text]] ELSE card
WriteBack(b, k, st, hit) ==
  \/ Written(b, k, st, hit) /\ Done
  \/ Renewed(b, k, st, hit) /\ card' \in {[card EXCEPT !.section[b][k] = Torn], card} /\ Fault

\* The map is read anew for another book or layout, in place and in batches: a
\* list cut in its body, or a read that fails, leaves the batches before it under
\* the old token.  Without a map there is none after it either.
Due(st, e) == st.map # e
ReadWhole(st, e) == [st EXCEPT !.map = e, !.rows = {e}, !.unread = FALSE]
ReadPart(st, e) ==
  {[st EXCEPT !.rows = r, !.unread = TRUE] :
     r \in IF st.map = None THEN {st.rows} ELSE {st.rows, st.rows \union {e}, {e}}}

\* refresh_chapter_tracking, with the reads that do not fail.  Faulty variant: a
\* change of layout goes unnoticed.
TrackBook(st, b) ==
  LET e == [book |-> b, layout |-> st.layout]
  IN CASE st.map # None /\ st.map.book = b -> {st}
       [] OTHER -> IF card.toc[b] = "whole" THEN {ReadWhole(st, e)} ELSE {st}
Track(st, b) ==
  LET e == [book |-> b, layout |-> st.layout]
  IN CASE Due(st, e) /\ card.toc[b] = "whole" -> {ReadWhole(st, e)}
       [] Due(st, e) /\ card.toc[b] = "body"  -> ReadPart(st, e)
       [] OTHER -> {st}
\* A read of a list that is there fails.
TrackFails(st, b) ==
  LET e == [book |-> b, layout |-> st.layout]
  IN IF Due(st, e) /\ card.toc[b] \in {"whole", "body"} THEN ReadPart(st, e) ELSE {}

Finish(st, b, status) == [st EXCEPT !.book = b, !.status = status]

\* The Loaded event: the app adopts the page count and stays within it. After
\* a resume or a jump Restored follows, with the page as it was asked for and
\* the page count of the last frame drawn.
Advertised(st) ==
  Max({1, st.pages, IF st.index = None THEN 0 ELSE Total(st.index.book, st.index.layout)})
Answer(st, b, page, restored) ==
  /\ store' = st /\ asked' = None
  /\ app' = IF app.book # b THEN app
            ELSE IF restored THEN [app EXCEPT !.page = page]
            ELSE [app EXCEPT !.pages = Advertised(st), !.page = Lesser(@, Advertised(st) - 1)]

\* The book is ready: the section, read into the store st from section k, is
\* written back if it was paginated anew, and the chapter map follows it.  (Bound:
\* one of the two fails.)
Ready(st, b, k, hit, page, restored) ==
  LET answer(t) == Answer(Finish(t, b, "ready"), b, page, restored)
  IN \/ WriteBack(b, k, st, hit) /\ \E t \in Track(st, b) : answer(t)
     \/ Written(b, k, st, hit) /\ Fault /\ \E t \in TrackFails(st, b) : answer(t)
-----------------------------------------------------------------------------
(* The app task. A newer command replaces one not yet served, which the    *)
(* display task would skip by its request id; while a book is opening keys *)
(* are dropped.                                                            *)

Opening == asked # None /\ asked.kind = "open"
KeysTaken == job = None /\ ~Opening
Ask(kind, next, page, chapter) ==
  /\ app' = next
  /\ asked' = [kind |-> kind, page |-> page, chapter |-> chapter, book |-> next.book,
               layout |-> next.layout]
  /\ UNCHANGED <<card, store, job, left>>

\* Read on Home asks for the page the app is at.
Read ==
  /\ KeysTaken /\ app.view = "home"
  /\ Ask("open", [app EXCEPT !.view = "reading"], app.page, 0)

\* A choice in the library is of page 0, for which the place saved for the book
\* is taken, if there is one. The page count of the last frame, which comes
\* back with it, is that of the library or of the book just chosen.
Open(b, place) ==
  /\ KeysTaken /\ app.view = "home"
  /\ \E pages \in {1, app.pages} :
       Ask("open", [app EXCEPT !.view = "reading", !.book = b, !.page = 0, !.pages = pages], place, 0)
Resumed == asked.kind = "open" /\ asked.page # app.page

Turn(page) ==
  /\ KeysTaken /\ app.view = "reading" /\ page # app.page
  /\ Ask("extend", [app EXCEPT !.page = page], page, 0)
NextPage == Turn(IF app.page + 1 < app.pages THEN app.page + 1 ELSE app.pages - 1)
PreviousPage == app.page > 0 /\ Turn(app.page - 1)

OpenChapters ==
  /\ KeysTaken /\ app.view = "reading"
  /\ Ask("chapters", [app EXCEPT !.view = "chapters"], app.page, 0)

BackToReading ==
  /\ KeysTaken /\ app.view = "chapters"
  /\ Ask("extend", [app EXCEPT !.view = "reading"], app.page, 0)

\* The app's own table of chapter pages may not have the chapter. A choice of
\* the current chapter is no jump.
PickChapter(c) ==
  /\ KeysTaken /\ app.view = "chapters"
  /\ \E page \in {0, ChapterStart([book |-> app.book, layout |-> app.layout], c)},
        kind \in {"jump", "extend"} :
       Ask(kind, [app EXCEPT !.view = "reading", !.page = page], page, c)

GoHome ==
  /\ KeysTaken /\ app.view = "reading"
  /\ app' = [app EXCEPT !.view = "home"]
  /\ UNCHANGED <<card, store, asked, job, left>>

\* Type settings are changed away from the page; entering it sends them.
SetLayout(L) ==
  /\ KeysTaken /\ app.view = "home" /\ L # app.layout
  /\ app' = [app EXCEPT !.layout = L]
  /\ UNCHANGED <<card, store, asked, job, left>>
-----------------------------------------------------------------------------
(* The display task: commands.                                             *)

\* The index must be of the very layout: another spacing is built anew.
Indexed(b, L) == card.index[b] = L

\* try_load_v2_book_cache: with the index, the section of the page.
FromCache(begun, b, k) ==
  LoadSection([begun EXCEPT !.index = [book |-> b, layout |-> begun.layout]],
              card.section[b][k], Sections[b][begun.layout][k])

\* From the cache, or else the build begins. A card that cannot be mounted or a
\* catalog entry that cannot be read is an error, the latter of no book; a file
\* that cannot be read is built anew.
Load(st, b, page, restored) ==
  LET begun   == Begin(st)
      k       == SectionFor(Sections[b][st.layout], page)
      section == FromCache(begun, b, k)
      build(s) == /\ store' = s
                  /\ job' = [book |-> b, page |-> page, restored |-> restored, next |-> 0]
                  /\ UNCHANGED <<card, app, asked>>
  IN \/ /\ Indexed(b, st.layout) /\ section.hit
        /\ Ready(section.store, b, k, TRUE, page, restored)
        /\ UNCHANGED job
     \/ Indexed(b, st.layout) /\ ~section.hit /\ build(section.store) /\ Done
     \/ ~Indexed(b, st.layout) /\ build(begun) /\ Done
     \/ Indexed(b, st.layout) /\ build(begun) /\ Fault
     \/ /\ Fault
        /\ \E st2 \in {Finish(begun, b, "error"), [begun EXCEPT !.status = "error"]} :
             Answer(st2, b, page, restored)
        /\ UNCHANGED <<card, job>>

ServePage ==
  /\ job = None /\ asked # None /\ asked.kind \in {"open", "extend"}
  /\ LET st == Adopt(store, asked.layout)
     IN IF Covers(st, asked.book, asked.page)
        THEN Answer(st, asked.book, asked.page, Resumed) /\ UNCHANGED <<card, job, left>>
        ELSE Load(st, asked.book, asked.page, Resumed)

\* load_v2_toc_into_text: the list goes where the section's text was.
ReadToc(st, b) ==
  CASE card.toc[b] = "whole" -> [st EXCEPT !.text = TocBytes, !.holdsToc = TRUE]
    [] card.toc[b] = "body"  -> [st EXCEPT !.text = TocBytes]
    [] OTHER                 -> st

ServeChapters ==
  /\ job = None /\ asked # None /\ asked.kind = "chapters"
  /\ \/ Answer(ReadToc(store, asked.book), asked.book, asked.page, FALSE) /\ Done
     \/ Answer(store, asked.book, asked.page, FALSE) /\ Fault
  /\ UNCHANGED <<card, job>>

\* The target is looked up before the section takes the list's place.
\* Faulty variant: after the load has begun.
TargetLate(st, c) == IF st.holdsToc THEN ChapterStart(Begin(st).index, c) ELSE 0
Target(st, c) == IF st.holdsToc THEN ChapterStart(st.index, c) ELSE 0

ServeJump ==
  /\ job = None /\ asked # None /\ asked.kind = "jump"
  /\ LET st     == Adopt(store, asked.layout)
         listed == IF st.holdsToc THEN st ELSE ReadToc(st, asked.book)
     IN Load(listed, asked.book, Target(listed, asked.chapter), TRUE)
-----------------------------------------------------------------------------
(* The display task: build_or_load_epub_cache_from_zip, one file after the *)
(* other. Nothing else runs meanwhile.                                     *)

Step == job' = [job EXCEPT !.next = @ + 1]
Building == job # None
Built == Texts[job.book][store.layout]
PutSection(f) == card' = [card EXCEPT !.section[job.book][job.next] = f]
PutIndex(f) == [card EXCEPT !.index[job.book] = f]

BuildToc ==
  /\ Building /\ job.next = 0 /\ Step
  /\ \/ card' = [card EXCEPT !.toc[job.book] = "whole"] /\ Done
     \/ \E t \in {"header", "body"} : card' = [card EXCEPT !.toc[job.book] = t] /\ Fault
     \/ UNCHANGED card /\ Fault
  /\ UNCHANGED <<store, app, asked>>

\* A section that cannot be written makes the book partial, no more.
BuildSection ==
  /\ Building /\ job.next \in DOMAIN Built /\ Step
  /\ \/ PutSection([layout |-> store.layout, text |-> Built[job.next]]) /\ Done
     \/ PutSection(Torn) /\ Fault
     \/ UNCHANGED card /\ Fault
  /\ UNCHANGED <<store, app, asked>>

\* The EPUB cannot be read on.
BuildFails ==
  /\ Building /\ job.next <= Len(Built) /\ Fault
  /\ Answer(Finish([store EXCEPT !.text = Blank, !.pages = 0], job.book, "error"),
            job.book, job.page, job.restored)
  /\ job' = None /\ UNCHANGED card

\* The index is written last. Whether it was or not, the book has one now.
BuildIndex ==
  /\ Building /\ job.next = Len(Built) + 1 /\ Step
  /\ \/ card' = PutIndex(store.layout) /\ Done
     \/ card' = PutIndex(Torn) /\ Fault
     \/ UNCHANGED card /\ Fault
  /\ store' = [store EXCEPT !.index = [book |-> job.book, layout |-> store.layout],
                             !.text = Blank, !.pages = 0]
  /\ UNCHANGED <<app, asked>>

\* Then the section of the page is loaded from its file. If that fails the
\* first section's range stands, and the book is ready all the same. A read
\* that fails here has the effect of a file that was not written.
PublishBook ==
  /\ Building /\ job.next = Len(Built) + 2
  /\ LET b      == job.book
         recs   == Sections[b][store.layout]
         k      == SectionFor(recs, Lesser(job.page, PagesOf(recs) - 1))
         loaded == LoadSection(store, card.section[b][k], recs[k])
         st     == IF loaded.hit THEN loaded.store
                   ELSE [loaded.store EXCEPT !.start = recs[1].start, !.count = recs[1].pages]
     IN Ready(st, b, k, loaded.hit, job.page, job.restored)
  /\ job' = None
-----------------------------------------------------------------------------
\* A catalog scan reclaims a cache whose index it cannot read. It learns the
\* number of section files from that index, so these stay.
Sweep(b) ==
  /\ job = None /\ card.index[b] \in Lost
  /\ card' = [card EXCEPT !.index[b] = Absent, !.toc[b] = "absent"]
  /\ UNCHANGED <<store, app, asked, job, left>>

\* A file being written is left cut, or as it was before its truncation.
CardAfterCut ==
  IF job = None THEN {card}
  ELSE {card} \union
       (IF job.next = 0 THEN {[card EXCEPT !.toc[job.book] = t] : t \in {"header", "body"}}
        ELSE IF job.next \in DOMAIN Built THEN {[card EXCEPT !.section[job.book][job.next] = Torn]}
        ELSE IF job.next = Len(Built) + 1 THEN {PutIndex(Torn)} ELSE {})

\* The settings that come back are those last saved, not always the last used.
PowerCut ==
  /\ Fault
  /\ card' \in CardAfterCut
  /\ \E L \in Layouts :
       /\ app' = [app EXCEPT !.view = "home", !.layout = L, !.pages = 1]
       /\ store' = EmptyStore(L)
  /\ asked' = None /\ job' = None

Next ==
  \/ \E b \in Books, place \in Places : Open(b, place)
  \/ Read \/ NextPage \/ PreviousPage \/ OpenChapters \/ BackToReading \/ GoHome
  \/ \E c \in DOMAIN Lines[app.book][app.layout.size] : PickChapter(c)
  \/ \E L \in Layouts : SetLayout(L)
  \/ ServePage \/ ServeChapters \/ ServeJump
  \/ BuildToc \/ BuildSection \/ BuildIndex \/ PublishBook \/ BuildFails
  \/ \E b \in Books : Sweep(b)
  \/ PowerCut

Spec == Init /\ [][Next]_vars
-----------------------------------------------------------------------------
Settled == asked = None /\ job = None /\ app.view = "reading"

\* The store has what draw_sd_reader_page asks for; else the plate is drawn.
Drawn ==
  /\ store.status = "ready" /\ store.book = app.book /\ store.layout = app.layout
  /\ ~store.holdsToc

\* The lines draw_sd_reader_page paints.
DrawnPage ==
  LET page  == Lesser(app.page, Total(app.book, app.layout) - 1)
      local == IF page < store.start THEN 0 ELSE Lesser(page - store.start, store.count - 1)
  IN PageOf(store.text, store.layout, local)

\* What another spacing has at the place of a section. Builds that were cut
\* short or could not write leave such section files, and so it gets in memory.
OtherCut(text, b, L, k) ==
  /\ text # Texts[b][L][k]
  /\ \E M \in Layouts : M.size = L.size /\ k \in DOMAIN Texts[b][M] /\ text = Texts[b][M][k]
Mixed(b, L) ==
  \E k \in DOMAIN Texts[b][L] :
    card.section[b][k] \notin Lost /\ OtherCut(card.section[b][k].text, b, L, k)
Leftover(b, L) == OtherCut(store.text, b, L, SectionFor(Sections[b][L], store.start))

PageIsShown(b, L) ==
  LET page == Lesser(app.page, Total(b, L) - 1)
      k    == SectionFor(Sections[b][L], page)
  IN \/ Drawn /\ store.text \in Text /\ DrawnPage = BookPage(b, L, page)
     \/ ~Accepts(card.section[b][k], Sections[b][L][k], L) /\ store.text = Blank
\* A chapter list cut in its body: its bytes are over the text unnoticed.
Garbled == store.text = TocBytes /\ ~store.holdsToc
Shown == Settled /\ store.status # "error" /\ ~Garbled

\* Whatever was interrupted, failed to be written or was laid out otherwise,
\* the page on the screen is the page asked for, once the command is served
\* and no error is shown.  Two things break it in this model and are left out
\* here: leftovers of another spacing, and a chapter list cut in its body.  A
\* section that could not be written shows nothing. (reader_cache.rs:1100,
\* reader_cache_files.rs:1130, reader_store.rs:868, views.rs:252)
PageIsTrue ==
  Shown /\ ~Mixed(app.book, app.layout) /\ ~Leftover(app.book, app.layout) =>
    PageIsShown(app.book, app.layout)

\* The chapter map, from which the firmware names the chapter and sets the
\* cursor, is that of the book and layout on the screen, through any change of
\* book and layout, build cut short and loss of power, if their chapter list is
\* on the card whole and no list that was there failed to be read since the map
\* was last read. (reader_cache.rs:671)
MapIsTheBooks ==
  Settled /\ Drawn /\ card.toc[app.book] = "whole" /\ ~store.unread =>
    LET e == [book |-> app.book, layout |-> app.layout] IN store.map = e /\ store.rows = {e}

\* A jump served goes to the page the chosen chapter begins on, though the
\* list it is looked up in and the text of that page share one buffer; unless
\* the list cannot be read, the book did not load, or its index ends before
\* the chapter. (display.rs:750)
JumpLands ==
  [][ /\ asked # None /\ asked.kind = "jump" /\ ServeJump
      /\ store.holdsToc \/ card.toc[asked.book] = "whole"
      /\ store.index # None
      => LET page == IF job' = None THEN app'.page ELSE job'.page
             recs == Sections[asked.book][asked.layout]
             k    == SectionFor(recs, page)
         IN \/ asked.chapter \notin {recs[i].spine : i \in DOMAIN recs}
            \/ recs[k].start = page /\ recs[k].spine = asked.chapter ]_vars
=============================================================================
