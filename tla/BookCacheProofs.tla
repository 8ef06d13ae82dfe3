--------------------------- MODULE BookCacheProofs ---------------------------
(***************************************************************************)
(* Theorems about BookCache, for any books, layouts and buffers and any    *)
(* number of mishaps: the page on the screen is the page asked for, the    *)
(* chapter map is that of the book, and a jump finds the chapter.  The     *)
(* inductive invariant says what the store holds while the app, the newest *)
(* command and the build disagree about the book.                          *)
(***************************************************************************)
EXTENDS BookPagesProofs

-----------------------------------------------------------------------------
(* The tables and the texts.                                               *)

\* A text has a page under any spacing.
LEMMA TextPages ==
  ASSUME NEW text \in Text, NEW L \in Layouts
  PROVE  PagesIn(text, L) \in Nat \ {0}
<1>1. PICK b \in Books, M \in Layouts : text \in ToSet(Texts[b][M]) BY DEF Text
<1>2. PICK i \in DOMAIN Texts[b][M] : text = Texts[b][M][i] BY <1>1 DEF ToSet
<1>3. text \in Piece(b, M.size) BY <1>2, TextsAreSequences
<1> QED BY <1>3, PagesInPositive

\* What the other lemmas need of the tables.
LEMMA TableFacts ==
  ASSUME NEW b \in Books, NEW L \in Layouts
  PROVE  /\ Follows(Sections[b][L])
         /\ DOMAIN Sections[b][L] = DOMAIN Texts[b][L]
         /\ DOMAIN Sections[b][L] = 1 .. Len(Sections[b][L])
         /\ DOMAIN Sections[b][L] \subseteq Slots
         /\ \A k \in DOMAIN Sections[b][L] :
              /\ Texts[b][L][k] \in Text
              /\ Sections[b][L][k].start \in Nat
              /\ Sections[b][L][k].pages = PagesIn(Texts[b][L][k], L)
              /\ Sections[b][L][k].spine = Texts[b][L][k].spine
         /\ Total(b, L) \in Nat \ {0}
<1>1. /\ Follows(Sections[b][L])
      /\ Len(Sections[b][L]) = Len(Texts[b][L])
      /\ \A k \in 1 .. Len(Texts[b][L]) :
           /\ Sections[b][L][k].spine = Texts[b][L][k].spine
           /\ Sections[b][L][k].pages = PagesIn(Texts[b][L][k], L)
  BY SectionsFollow
<1>2. /\ DOMAIN Sections[b][L] = 1 .. Len(Sections[b][L])
      /\ \A k \in 1 .. Len(Sections[b][L]) : Sections[b][L][k].start \in Nat
  BY <1>1, FollowsFacts
<1>3. Texts[b][L] \in Seq(Piece(b, L.size)) /\ Len(Texts[b][L]) \in 1 .. MaxSections
  BY TextsAreSequences
<1>4. DOMAIN Texts[b][L] = 1 .. Len(Texts[b][L]) BY <1>3
<1>5. 1 .. Len(Texts[b][L]) \subseteq Slots BY <1>3, BoundsAssumption DEF Slots
<1>6. \A k \in DOMAIN Texts[b][L] : Texts[b][L][k] \in Text BY DEF Text, ToSet
<1>7. Total(b, L) \in Nat \ {0} BY <1>1, PagesOfCounts DEF Total
<1> QED BY <1>1, <1>2, <1>4, <1>5, <1>6, <1>7

\* A section is found by its first page.
LEMMA StartsItself ==
  ASSUME NEW b \in Books, NEW L \in Layouts, NEW k \in DOMAIN Sections[b][L]
  PROVE  SectionFor(Sections[b][L], Sections[b][L][k].start) = k
<1> DEFINE recs == Sections[b][L]
<1>1. Follows(recs) /\ DOMAIN recs = 1 .. Len(recs) BY TableFacts
<1> HIDE DEF recs
<1>2. recs[k].start \in Nat /\ recs[k].pages \in Nat \ {0} BY <1>1, FollowsFacts DEF recs
<1>3. recs[k].start \in PageRange(recs[k]) BY <1>2 DEF PageRange
<1>4. SectionFor(recs, recs[k].start) = k BY <1>1, <1>3, SectionOfPage DEF recs
<1> QED BY <1>4 DEF recs

\* No section has more pages than its book.
LEMMA PagesWithinTotal ==
  ASSUME NEW b \in Books, NEW L \in Layouts, NEW k \in DOMAIN Sections[b][L]
  PROVE  Sections[b][L][k].pages \in Nat \ {0} /\ Sections[b][L][k].pages <= Total(b, L)
<1> DEFINE recs == Sections[b][L]
           n == Len(recs)
<1>1. Follows(recs) /\ DOMAIN recs = 1 .. n BY TableFacts
<1>2. Total(b, L) = PagesOf(recs) BY DEF Total
<1> HIDE DEF recs
<1>3. /\ n \in Nat \ {0}
      /\ \A i \in 1 .. n : recs[i].start \in Nat /\ recs[i].pages \in Nat \ {0}
  BY <1>1, FollowsFacts
<1>4. PagesOf(recs) = recs[n].start + recs[n].pages BY <1>1, PagesOfCounts
<1>5. k \in 1 .. n BY <1>1 DEF recs
<1>6. CASE k = n BY <1>3, <1>4, <1>5, <1>6, <1>2 DEF recs
<1>7. CASE k # n
  <2>1. k < n /\ n \in 1 .. n BY <1>3, <1>5, <1>7
  <2>2. recs[k].start + recs[k].pages <= recs[n].start BY <1>1, <1>5, <2>1, LaterStartsLater
  <2>3. recs[k].pages <= recs[n].start + recs[n].pages BY <1>3, <1>5, <2>1, <2>2
  <2> QED BY <1>2, <1>3, <1>4, <1>5, <2>3 DEF recs
<1> QED BY <1>6, <1>7

\* A chapter that is not known begins on page 0.
LEMMA ChapterStartIsPage ==
  ASSUME NEW index \in Edition \union {None}, NEW c
  PROVE  ChapterStart(index, c) \in Nat
<1>1. CASE index = None BY <1>1 DEF ChapterStart
<1>2. CASE index # None
  <2>1. index.book \in Books /\ index.layout \in Layouts BY <1>2 DEF Edition
  <2>2. Follows(Sections[index.book][index.layout]) BY <2>1, TableFacts
  <2>3. FirstOf(Sections[index.book][index.layout], c) \in Nat BY <2>2, FirstOfChapter
  <2> QED BY <1>2, <2>3 DEF ChapterStart
<1> QED BY <1>1, <1>2
-----------------------------------------------------------------------------
(* What the operations leave in the store.                                 *)

\* The entries of the map are those its token names, if no list failed.
RowsTrue(st) == ~st.unread /\ st.map # None => st.rows = {st.map}
MapOf(st, e) == ~st.unread => st.map = e /\ st.rows = {e}
SameMap(t, st) == t.map = st.map /\ t.rows = st.rows /\ t.unread = st.unread

\* A load begins: the map and the chapter list stay.
LEMMA BeginFacts ==
  ASSUME NEW st \in Store
  PROVE  /\ Begin(st) \in Store
         /\ Begin(st).layout = st.layout /\ Begin(st).status = "loading"
         /\ Begin(st).book = None /\ Begin(st).index = None
         /\ Begin(st).text = Blank /\ Begin(st).pages = 0
         /\ Begin(st).holdsToc = st.holdsToc /\ SameMap(Begin(st), st)
BY DEF Begin, Store, SameMap

\* The end of a load names the book.
LEMMA FinishFacts ==
  ASSUME NEW st \in Store, NEW b \in Books \union {None},
         NEW status \in {"empty", "loading", "ready", "error"}
  PROVE  /\ Finish(st, b, status) \in Store
         /\ Finish(st, b, status).book = b /\ Finish(st, b, status).status = status
         /\ Finish(st, b, status).layout = st.layout /\ Finish(st, b, status).index = st.index
         /\ Finish(st, b, status).text = st.text /\ Finish(st, b, status).pages = st.pages
         /\ Finish(st, b, status).start = st.start /\ Finish(st, b, status).count = st.count
         /\ Finish(st, b, status).holdsToc = st.holdsToc
         /\ RowsTrue(st) => RowsTrue(Finish(st, b, status))
         /\ \A e : MapOf(st, e) => MapOf(Finish(st, b, status), e)
BY DEF Finish, Store, RowsTrue, MapOf

\* The map is brought up to date, if the list on the card can be read.
LEMMA TrackFacts ==
  ASSUME NEW st \in Store, NEW b \in Books, RowsTrue(st),
         NEW t \in Track(st, b) \union TrackFails(st, b)
  PROVE  /\ t \in Store
         /\ t.book = st.book /\ t.status = st.status
         /\ t.layout = st.layout /\ t.index = st.index
         /\ t.text = st.text /\ t.pages = st.pages
         /\ t.start = st.start /\ t.count = st.count
         /\ t.holdsToc = st.holdsToc
         /\ RowsTrue(t)
         /\ card.toc[b] = "whole" => MapOf(t, [book |-> b, layout |-> st.layout])
<1> DEFINE e == [book |-> b, layout |-> st.layout]
<1>1. e \in Edition /\ e # None
  <2>1. e \in Edition BY DEF Store, Edition
  <2> QED BY <2>1, NoneAssumption
<1>2. \/ t = ReadWhole(st, e)
      \/ t \in ReadPart(st, e)
      \/ t = st /\ (card.toc[b] = "whole" => st.map = e)
  BY DEF Track, TrackFails, Due
<1> HIDE DEF e
<1>3. CASE t = ReadWhole(st, e)
  BY <1>1, <1>3 DEF ReadWhole, Store, RowsTrue, MapOf, e
<1>4. CASE t \in ReadPart(st, e)
  <2>1. PICK r \in SUBSET Edition : t = [st EXCEPT !.rows = r, !.unread = TRUE]
    <3>1. st.rows \in SUBSET Edition BY DEF Store
    <3>2. {st.rows, st.rows \union {e}, {e}} \subseteq SUBSET Edition BY <1>1, <3>1
    <3> QED BY <1>4, <3>2 DEF ReadPart
  <2>2. t \in Store /\ t.unread BY <2>1 DEF Store
  <2>3. RowsTrue(t) /\ MapOf(t, e) BY <2>2 DEF RowsTrue, MapOf
  <2> QED BY <2>1, <2>2, <2>3 DEF Store, e
<1>5. CASE t = st /\ (card.toc[b] = "whole" => st.map = e)
  BY <1>1, <1>5 DEF RowsTrue, MapOf, e
<1> QED BY <1>2, <1>3, <1>4, <1>5

\* Another layout takes the pages from the store.
LEMMA AdoptFacts ==
  ASSUME NEW st \in Store, NEW L \in Layouts
  PROVE  /\ Adopt(st, L) \in Store /\ Adopt(st, L).layout = L
         /\ st.layout = L => Adopt(st, L) = st
         /\ st.layout # L => Adopt(st, L).pages = 0
         /\ Adopt(st, L).index = st.index /\ Adopt(st, L).holdsToc = st.holdsToc
         /\ SameMap(Adopt(st, L), st)
BY DEF Adopt, Store, SameMap

\* The chapter list comes into the buffer.
LEMMA ReadTocFacts ==
  ASSUME NEW st \in Store, NEW b \in Books, card.toc[b] \in TocFile
  PROVE  /\ ReadToc(st, b) \in Store
         /\ ReadToc(st, b).book = st.book /\ ReadToc(st, b).status = st.status
         /\ ReadToc(st, b).layout = st.layout /\ ReadToc(st, b).index = st.index
         /\ SameMap(ReadToc(st, b), st)
         /\ ReadToc(st, b) = st \/ ReadToc(st, b).text = TocBytes
         /\ card.toc[b] = "whole" => ReadToc(st, b).holdsToc
BY DEF ReadToc, Store, TocFile, SameMap
-----------------------------------------------------------------------------
(* Section files and sections in memory.                                   *)

\* A section file holds what some spacing has at its place.
FileCut(file, b, k) ==
  file \notin Lost =>
    \E M \in Layouts : /\ M.size = file.layout.size
                       /\ k \in DOMAIN Texts[b][M] /\ file.text = Texts[b][M][k]

SlotsCut == \A b \in Books, k \in Slots : FileCut(card.section[b][k], b, k)

\* The store holds the section of number k, or a leftover that passes for it.
HoldsSection(st, b, L, k) ==
  /\ k \in DOMAIN Sections[b][L] /\ st.start = Sections[b][L][k].start
  /\ st.text \in Text /\ st.pages = PagesIn(st.text, L) /\ st.count = st.pages
  /\ st.text = Texts[b][L][k] \/ OtherCut(st.text, b, L, k)

\* A file that is accepted is the section, or a leftover in its place.
LEMMA AcceptedText ==
  ASSUME NEW file, NEW b \in Books, NEW L \in Layouts, NEW k \in DOMAIN Sections[b][L],
         FileCut(file, b, k), Accepts(file, Sections[b][L][k], L)
  PROVE  file.text = Texts[b][L][k] \/ OtherCut(file.text, b, L, k)
<1>1. file \notin Lost /\ file.layout.size = L.size BY DEF Accepts
<1>2. PICK M \in Layouts : /\ M.size = file.layout.size
                           /\ k \in DOMAIN Texts[b][M] /\ file.text = Texts[b][M][k]
  BY <1>1 DEF FileCut
<1> QED BY <1>1, <1>2 DEF OtherCut

\* A hit holds the section; a miss has read nothing, or a leftover.
LEMMA LoadSectionFacts ==
  ASSUME NEW st \in Store, NEW b \in Books, NEW k \in DOMAIN Sections[b][st.layout],
         NEW file \in SectionFile \union Lost, FileCut(file, b, k),
         NEW rec, rec = Sections[b][st.layout][k],
         NEW r, r = LoadSection(st, file, rec)
  PROVE  /\ r.hit \in BOOLEAN /\ r.store \in Store
         /\ r.store.layout = st.layout /\ r.store.index = st.index /\ r.store.book = st.book
         /\ r.store.status = st.status /\ SameMap(r.store, st)
         /\ r.hit => /\ HoldsSection(r.store, b, st.layout, k) /\ ~r.store.holdsToc
                     /\ Accepts(file, rec, st.layout)
         /\ ~r.hit => \/ r.store = st /\ ~Accepts(file, rec, st.layout)
                      \/ file \notin Lost /\ OtherCut(file.text, b, st.layout, k)
<1>1. st.layout \in Layouts BY DEF Store
<1>2. /\ DOMAIN Sections[b][st.layout] = DOMAIN Texts[b][st.layout]
      /\ rec.start \in Nat /\ rec.pages = PagesIn(Texts[b][st.layout][k], st.layout)
  BY <1>1, TableFacts
<1> DEFINE pages == PagesIn(file.text, st.layout)
           read  == [st EXCEPT !.text = file.text, !.pages = pages, !.count = pages,
                               !.holdsToc = FALSE]
           full  == [read EXCEPT !.start = rec.start]
<1>3. CASE ~Accepts(file, rec, st.layout)
  <2>1. r = [hit |-> FALSE, store |-> st] BY <1>3 DEF LoadSection
  <2> QED BY <1>3, <2>1 DEF SameMap
<1>4. CASE Accepts(file, rec, st.layout)
  <2>1. file.text = Texts[b][st.layout][k] \/ OtherCut(file.text, b, st.layout, k)
    BY <1>1, <1>4, AcceptedText
  <2>2. file \notin Lost BY <1>4 DEF Accepts
  <2>3. file.text \in Text BY <2>2 DEF SectionFile
  <2>4. pages \in Nat BY <1>1, <2>3, TextPages
  <2> HIDE DEF pages
  <2>5. /\ read \in Store /\ read.layout = st.layout /\ read.index = st.index /\ read.book = st.book
        /\ read.status = st.status /\ SameMap(read, st) /\ ~read.holdsToc
        /\ read.text = file.text /\ read.pages = pages /\ read.count = pages
    BY <2>3, <2>4 DEF Store, SameMap
  <2>6. CASE pages < rec.pages
    <3>1. r = [hit |-> FALSE, store |-> read] BY <1>4, <2>6 DEF LoadSection, pages
    <3>2. file.text # Texts[b][st.layout][k] BY <1>1, <1>2, <2>4, <2>6 DEF pages
    <3> HIDE DEF read
    <3> QED BY <2>1, <2>2, <2>5, <3>1, <3>2
  <2>7. CASE ~(pages < rec.pages)
    <3>1. r = [hit |-> TRUE, store |-> full] BY <1>4, <2>7 DEF LoadSection, pages
    <3>2. /\ full \in Store /\ full.layout = st.layout /\ full.index = st.index
          /\ full.book = st.book /\ full.status = st.status /\ SameMap(full, st) /\ ~full.holdsToc
          /\ full.text = file.text /\ full.pages = pages /\ full.count = pages
          /\ full.start = rec.start
      <4> HIDE DEF read
      <4> QED BY <1>2, <2>5 DEF Store, SameMap
    <3> HIDE DEF full, read
    <3>3. HoldsSection(full, b, st.layout, k)
      BY <2>1, <2>3, <3>2 DEF HoldsSection, pages
    <3> QED BY <1>4, <3>1, <3>2, <3>3
  <2> QED BY <2>6, <2>7
<1> QED BY <1>3, <1>4

CardType == [index : [Books -> Layouts \union Lost],
             section : [Books -> [Slots -> SectionFile \union Lost]], toc : [Books -> TocFile]]

\* A section file written.
LEMMA PutFacts ==
  ASSUME card \in CardType, SlotsCut, NEW b \in Books, NEW k \in Slots,
         NEW f \in SectionFile \union Lost, FileCut(f, b, k),
         card' = [card EXCEPT !.section[b][k] = f]
  PROVE  /\ card' \in CardType /\ SlotsCut'
         /\ card'.toc = card.toc /\ card'.index = card.index
<1>1. card'.toc = card.toc /\ card'.index = card.index
      /\ card'.section = [card.section EXCEPT ![b][k] = f]
  BY DEF CardType
<1>2. card' \in CardType BY DEF CardType
<1>3. \A c \in Books, j \in Slots :
        card'.section[c][j] = IF c = b /\ j = k THEN f ELSE card.section[c][j]
  BY <1>1 DEF CardType
<1>4. \A c \in Books, j \in Slots : FileCut(card'.section[c][j], c, j)
  <2> TAKE c \in Books, j \in Slots
  <2>1. CASE c = b /\ j = k BY <1>3, <2>1
  <2>2. CASE ~(c = b /\ j = k)
    <3>1. card'.section[c][j] = card.section[c][j] BY <1>3, <2>2
    <3> QED BY <3>1 DEF SlotsCut
  <2> QED BY <2>1, <2>2
<1> QED BY <1>1, <1>2, <1>4 DEF SlotsCut

\* A section written back is still the one of its place.
LEMMA WriteBackFacts ==
  ASSUME card \in CardType, SlotsCut, left \in 0 .. MaxMishaps, NEW b \in Books,
         NEW st \in Store, NEW k \in DOMAIN Sections[b][st.layout], NEW hit \in BOOLEAN,
         hit => Accepts(card.section[b][k], Sections[b][st.layout][k], st.layout),
         WriteBack(b, k, st, hit) \/ (Written(b, k, st, hit) /\ Fault)
  PROVE  /\ card' \in CardType /\ SlotsCut' /\ left' \in 0 .. MaxMishaps
         /\ card'.toc = card.toc
         /\ ~hit => card' = card
<1> DEFINE file == card.section[b][k]
           new == [layout |-> st.layout, text |-> file.text]
<1>1. st.layout \in Layouts /\ k \in Slots
  <2>1. st.layout \in Layouts BY DEF Store
  <2> QED BY <2>1, TableFacts
<1>2. file \in SectionFile \union Lost /\ FileCut(file, b, k)
  BY <1>1 DEF CardType, SlotsCut
<1>3. left' \in 0 .. MaxMishaps
  <2>1. Done \/ Fault BY DEF WriteBack
  <2> QED BY <2>1, BoundsAssumption DEF Done, Fault
<1>4. \/ UNCHANGED card
      \/ /\ hit /\ file.layout # st.layout
         /\ \/ card' = [card EXCEPT !.section[b][k] = new]
            \/ card' = [card EXCEPT !.section[b][k] = Torn]
  <2>1. CASE Written(b, k, st, hit)
    <3>1. [card EXCEPT !.section[b][k] = [layout |-> st.layout, text |-> @.text]]
            = [card EXCEPT !.section[b][k] = new]
      BY <1>1 DEF CardType
    <3> QED BY <2>1, <3>1 DEF Written, Renewed
  <2>2. CASE ~Written(b, k, st, hit)
    <3>1. Renewed(b, k, st, hit) /\ card' \in {[card EXCEPT !.section[b][k] = Torn], card}
      BY <2>2 DEF WriteBack
    <3> QED BY <3>1 DEF Renewed
  <2> QED BY <2>1, <2>2
<1>5. CASE UNCHANGED card BY <1>3, <1>5 DEF SlotsCut, FileCut
<1>6. CASE hit /\ file.layout # st.layout
  <2>1. file \notin Lost /\ file.layout.size = st.layout.size BY <1>6 DEF Accepts
  <2>2. new \in SectionFile BY <1>1, <1>2, <2>1 DEF SectionFile
  <2>3. FileCut(new, b, k) BY <1>2, <2>1 DEF FileCut
  <2>4. Torn \in Lost /\ FileCut(Torn, b, k) BY DEF FileCut, Lost
  <2> HIDE DEF new
  <2>5. CASE card' = [card EXCEPT !.section[b][k] = new]
    BY <1>1, <1>3, <1>6, <2>2, <2>3, <2>5, PutFacts
  <2>6. CASE card' = [card EXCEPT !.section[b][k] = Torn]
    BY <1>1, <1>3, <1>6, <2>4, <2>6, PutFacts
  <2> QED BY <1>4, <1>5, <2>5, <2>6
<1> QED BY <1>4, <1>5, <1>6

\* The page count announced is that of the index.
LEMMA AdvertisedFacts ==
  ASSUME NEW st \in Store
  PROVE  /\ Advertised(st) \in Nat \ {0}
         /\ \A b \in Books, L \in Layouts :
              st.index = [book |-> b, layout |-> L] /\ st.pages <= Total(b, L)
                => Advertised(st) = Total(b, L)
<1> DEFINE total == IF st.index = None THEN 0 ELSE Total(st.index.book, st.index.layout)
           S == {1, st.pages, total}
<1>1. st.pages \in Nat BY DEF Store
<1>2. total \in Nat
  <2>1. CASE st.index = None BY <2>1
  <2>2. CASE st.index # None
    <3>1. st.index.book \in Books /\ st.index.layout \in Layouts BY <2>2 DEF Store, Edition
    <3>2. Total(st.index.book, st.index.layout) \in Nat BY <3>1, TableFacts
    <3> QED BY <2>2, <3>2
  <2> QED BY <2>1, <2>2
<1>3. \A b \in Books, L \in Layouts : st.index = [book |-> b, layout |-> L] => total = Total(b, L)
  <2> TAKE b \in Books, L \in Layouts
  <2> HAVE st.index = [book |-> b, layout |-> L]
  <2>1. st.index \in Edition BY DEF Edition
  <2>2. st.index # None BY <2>1, NoneAssumption
  <2>3. st.index.book = b /\ st.index.layout = L OBVIOUS
  <2> QED BY <2>2, <2>3
<1>4. Advertised(st) = Max(S) BY DEF Advertised
<1> HIDE DEF total
<1>5. \E x \in S : \A y \in S : x >= y
  <2>1. CASE 1 >= st.pages /\ 1 >= total BY <1>1, <1>2, <2>1
  <2>2. CASE st.pages >= 1 /\ st.pages >= total BY <1>1, <1>2, <2>2
  <2>3. CASE total >= 1 /\ total >= st.pages BY <1>1, <1>2, <2>3
  <2> QED BY <1>1, <1>2, <2>1, <2>2, <2>3
<1>6. Max(S) \in S /\ \A y \in S : Max(S) >= y
  <2> HIDE DEF S
  <2> QED BY <1>5 DEF Max
<1>7. \A b \in Books, L \in Layouts : Total(b, L) \in Nat \ {0} BY TableFacts
<1>8. Max(S) \in Nat \ {0} BY <1>1, <1>2, <1>6
<1>9. total >= 1 /\ st.pages <= total => Max(S) = total BY <1>1, <1>2, <1>6
<1> HIDE DEF S
<1>10. ASSUME NEW b \in Books, NEW L \in Layouts,
              st.index = [book |-> b, layout |-> L], st.pages <= Total(b, L)
       PROVE  Advertised(st) = Total(b, L)
  <2>1. total = Total(b, L) BY <1>3, <1>10
  <2>2. Total(b, L) >= 1 BY <1>7
  <2> QED BY <1>4, <1>9, <1>10, <2>1, <2>2
<1> QED BY <1>4, <1>8, <1>10

\* The page the app ends at.
LEMMA AnswerFacts ==
  ASSUME app \in Reader, NEW st \in Store, NEW b \in Books, NEW page \in Nat,
         NEW restored \in BOOLEAN, Answer(st, b, page, restored)
  PROVE  /\ store' = st /\ asked' = None
         /\ app' \in Reader
         /\ app'.view = app.view /\ app'.book = app.book /\ app'.layout = app.layout
         /\ app.book = b /\ restored => app'.page = page
         /\ app.book = b /\ ~restored => app'.page = Lesser(app.page, Advertised(st) - 1)
<1>1. Advertised(st) \in Nat \ {0} BY AdvertisedFacts
<1>2. Lesser(app.page, Advertised(st) - 1) \in Nat BY <1>1 DEF Lesser, Reader
<1>3. store' = st /\ asked' = None BY DEF Answer
<1>4. CASE app.book # b
  <2>1. app' = app BY <1>4 DEF Answer
  <2> QED BY <1>3, <1>4, <2>1
<1>5. CASE app.book = b /\ restored
  <2>1. app' = [app EXCEPT !.page = page] BY <1>5 DEF Answer
  <2> QED BY <1>3, <1>5, <2>1 DEF Reader
<1>6. CASE app.book = b /\ ~restored
  <2> DEFINE total == Advertised(st)
  <2>1. app' = [app EXCEPT !.pages = total, !.page = Lesser(app.page, total - 1)]
    BY <1>6 DEF Answer, Reader
  <2> HIDE DEF total
  <2>2. Lesser(app.page, total - 1) \in Nat /\ total \in Nat \ {0} BY <1>1, <1>2 DEF total
  <2>3. /\ app' \in Reader /\ app'.view = app.view /\ app'.book = app.book
        /\ app'.layout = app.layout /\ app'.page = Lesser(app.page, total - 1)
    BY <2>1, <2>2 DEF Reader
  <2> QED BY <1>3, <1>6, <2>3 DEF total
<1> QED BY <1>4, <1>5, <1>6
-----------------------------------------------------------------------------
(* The three ends of Load: a section in memory, an error, a build.         *)

Ed(b, L) == [book |-> b, layout |-> L]

Loaded(L, b, page, restored) ==
  /\ Answer(store', b, page, restored) /\ UNCHANGED job
  /\ store' \in Store /\ store'.status = "ready" /\ store'.book = b /\ store'.layout = L
  /\ store'.index = Ed(b, L) /\ ~store'.holdsToc
  /\ HoldsSection(store', b, L, SectionFor(Sections[b][L], page))
  /\ RowsTrue(store') /\ (card.toc[b] = "whole" => MapOf(store', Ed(b, L)))
LoadFailed(L, b, page, restored) ==
  /\ Answer(store', b, page, restored) /\ UNCHANGED job
  /\ store' \in Store /\ store'.status = "error" /\ store'.layout = L /\ store'.index = None
  /\ RowsTrue(store')
BuildBegins(L, b, page, restored) ==
  /\ UNCHANGED <<card, app, asked>>
  /\ store' \in Store /\ store'.status = "loading" /\ store'.book = None /\ store'.layout = L
  /\ store'.index \in {None, Ed(b, L)} /\ RowsTrue(store')
  /\ job' = [book |-> b, page |-> page, restored |-> restored, next |-> 0]

\* Every way a load goes on ends in one of the three.
LEMMA LoadFacts ==
  ASSUME TypeOK, SlotsCut, NEW st \in Store, RowsTrue(st), NEW b \in Books, NEW page \in Nat,
         NEW restored \in BOOLEAN, Load(st, b, page, restored)
  PROVE  /\ card' \in CardType /\ SlotsCut' /\ card'.toc = card.toc /\ left' \in 0 .. MaxMishaps
         /\ \/ Loaded(st.layout, b, page, restored)
            \/ LoadFailed(st.layout, b, page, restored)
            \/ BuildBegins(st.layout, b, page, restored)
<1> DEFINE L == st.layout
           recs == Sections[b][L]
           begun == Begin(st)
           k == SectionFor(recs, page)
           indexed == [begun EXCEPT !.index = [book |-> b, layout |-> begun.layout]]
           section == FromCache(begun, b, k)
           build(s) == /\ store' = s
                       /\ job' = [book |-> b, page |-> page, restored |-> restored, next |-> 0]
                       /\ UNCHANGED <<card, app, asked>>
<1>1. L \in Layouts BY DEF Store
<1>2. k \in DOMAIN recs /\ k \in Slots
  <2>1. Follows(recs) /\ DOMAIN recs = 1 .. Len(recs) /\ DOMAIN recs \subseteq Slots
    BY <1>1, TableFacts
  <2> HIDE DEF recs
  <2> QED BY <2>1, SectionForPage
<1>3. card \in CardType BY DEF TypeOK, CardType
<1>4. card.section[b][k] \in SectionFile \union Lost /\ FileCut(card.section[b][k], b, k)
  BY <1>2, <1>3 DEF CardType, SlotsCut
<1>5. /\ begun \in Store /\ begun.layout = L /\ begun.status = "loading" /\ begun.book = None
      /\ begun.index = None /\ SameMap(begun, st)
  BY BeginFacts
<1>6. /\ indexed \in Store /\ indexed.layout = L /\ indexed.status = "loading"
      /\ indexed.book = None /\ indexed.index = Ed(b, L) /\ SameMap(indexed, st)
  <2> HIDE DEF begun
  <2> QED BY <1>1, <1>5 DEF Store, Edition, Ed, SameMap
<1>7. section = LoadSection(indexed, card.section[b][k], Sections[b][begun.layout][k])
  BY DEF FromCache
<1>8. /\ section.hit \in BOOLEAN /\ section.store \in Store
      /\ section.store.layout = L /\ section.store.index = Ed(b, L)
      /\ section.store.book = None /\ section.store.status = "loading"
      /\ SameMap(section.store, st)
      /\ section.hit => /\ HoldsSection(section.store, b, L, k) /\ ~section.store.holdsToc
                        /\ Accepts(card.section[b][k], recs[k], L)
  <2> HIDE DEF section, indexed, begun, k
  <2> QED BY <1>2, <1>4, <1>5, <1>6, <1>7, LoadSectionFacts DEF SameMap
<1>9. \/ section.hit /\ Ready(section.store, b, k, TRUE, page, restored) /\ UNCHANGED job
      \/ build(section.store) /\ Done
      \/ build(begun) /\ Done
      \/ build(begun) /\ Fault
      \/ /\ Fault
         /\ \E st2 \in {Finish(begun, b, "error"), [begun EXCEPT !.status = "error"]} :
              Answer(st2, b, page, restored)
         /\ UNCHANGED <<card, job>>
  BY DEF Load
<1>10. left \in 0 .. MaxMishaps /\ MaxMishaps \in Nat BY BoundsAssumption DEF TypeOK
<1>11. CASE section.hit /\ Ready(section.store, b, k, TRUE, page, restored) /\ UNCHANGED job
  <2>1. PICK tracked \in Track(section.store, b) \union TrackFails(section.store, b) :
          Answer(Finish(tracked, b, "ready"), b, page, restored)
    BY <1>11 DEF Ready
  <2> DEFINE st2 == Finish(tracked, b, "ready")
  <2>2. /\ tracked \in Store /\ tracked.layout = L /\ tracked.index = Ed(b, L)
        /\ tracked.text = section.store.text /\ tracked.pages = section.store.pages
        /\ tracked.start = section.store.start /\ tracked.count = section.store.count
        /\ tracked.holdsToc = section.store.holdsToc
        /\ RowsTrue(tracked) /\ (card.toc[b] = "whole" => MapOf(tracked, Ed(b, L)))
    <3> HIDE DEF section
    <3>1. RowsTrue(section.store) BY <1>8 DEF SameMap, RowsTrue
    <3> QED BY <1>8, <2>1, <3>1, TrackFacts DEF Ed
  <2>3. /\ st2 \in Store /\ st2.layout = L /\ st2.index = Ed(b, L) /\ st2.book = b
        /\ st2.status = "ready"
        /\ st2.text = section.store.text /\ st2.pages = section.store.pages
        /\ st2.start = section.store.start /\ st2.count = section.store.count
        /\ st2.holdsToc = section.store.holdsToc
        /\ RowsTrue(st2) /\ (card.toc[b] = "whole" => MapOf(st2, Ed(b, L)))
    <3> HIDE DEF section
    <3> QED BY <2>2, FinishFacts
  <2>4. store' = st2 BY <2>1 DEF Answer
  <2>5. HoldsSection(st2, b, L, k)
    <3> HIDE DEF section, st2
    <3> QED BY <1>8, <1>11, <2>3 DEF HoldsSection
  <2>6. Answer(store', b, page, restored) /\ UNCHANGED job BY <1>11, <2>1, <2>4
  <2>7. /\ card' \in CardType /\ SlotsCut' /\ left' \in 0 .. MaxMishaps /\ card'.toc = card.toc
    <3> DEFINE read == section.store
    <3>1. TRUE => Accepts(card.section[b][k], Sections[b][read.layout][k], read.layout)
      BY <1>8, <1>11
    <3>2. WriteBack(b, k, read, TRUE) \/ (Written(b, k, read, TRUE) /\ Fault)
      BY <1>11 DEF Ready
    <3>3. k \in DOMAIN Sections[b][read.layout] /\ read \in Store BY <1>2, <1>8
    <3> HIDE DEF k, read
    <3> QED BY <1>3, <1>10, <3>1, <3>2, <3>3, WriteBackFacts
  <2>8. ~st2.holdsToc
    <3> HIDE DEF section, st2
    <3> QED BY <1>8, <1>11, <2>3
  <2>9. Loaded(L, b, page, restored)
    <3> HIDE DEF st2
    <3> QED BY <2>3, <2>4, <2>5, <2>6, <2>8 DEF Loaded
  <2> QED BY <2>7, <2>9
<1>12. CASE \/ build(section.store) /\ Done
            \/ build(begun) /\ Done
            \/ build(begun) /\ Fault
  <2>1. left' \in 0 .. MaxMishaps BY <1>10, <1>12 DEF Done, Fault
  <2>2. PICK s \in {section.store, begun} : build(s) BY <1>12
  <2>3. /\ s \in Store /\ s.layout = L /\ s.status = "loading" /\ s.book = None
        /\ s.index \in {None, Ed(b, L)} /\ RowsTrue(s)
    <3> HIDE DEF section, begun
    <3> QED BY <1>5, <1>8 DEF SameMap, RowsTrue
  <2>4. store' = s /\ UNCHANGED <<card, app, asked>>
        /\ job' = [book |-> b, page |-> page, restored |-> restored, next |-> 0]
    BY <2>2
  <2>5. BuildBegins(L, b, page, restored) BY <2>3, <2>4 DEF BuildBegins
  <2>6. SlotsCut' /\ card' \in CardType /\ card'.toc = card.toc
    BY <1>3, <2>4 DEF SlotsCut, FileCut
  <2> QED BY <2>1, <2>5, <2>6
<1>13. CASE /\ Fault
            /\ \E st2 \in {Finish(begun, b, "error"), [begun EXCEPT !.status = "error"]} :
                 Answer(st2, b, page, restored)
            /\ UNCHANGED <<card, job>>
  <2>1. PICK st2 \in {Finish(begun, b, "error"), [begun EXCEPT !.status = "error"]} :
          Answer(st2, b, page, restored)
    BY <1>13
  <2> HIDE DEF begun
  <2>2. /\ st2 \in Store /\ st2.layout = L /\ st2.status = "error" /\ st2.index = None
        /\ RowsTrue(st2)
    <3>1. CASE st2 = Finish(begun, b, "error")
      BY <1>5, <3>1 DEF Finish, Store, SameMap, RowsTrue
    <3>2. CASE st2 = [begun EXCEPT !.status = "error"]
      BY <1>5, <3>2 DEF Store, SameMap, RowsTrue
    <3> QED BY <2>1, <3>1, <3>2
  <2>3. store' = st2 BY <2>1 DEF Answer
  <2>4. LoadFailed(L, b, page, restored) BY <1>13, <2>1, <2>2, <2>3 DEF LoadFailed
  <2>5. left' \in 0 .. MaxMishaps BY <1>10, <1>13 DEF Fault
  <2>6. SlotsCut' /\ card' \in CardType /\ card'.toc = card.toc
    BY <1>3, <1>13 DEF SlotsCut, FileCut
  <2> QED BY <2>4, <2>5, <2>6
<1> QED BY <1>9, <1>11, <1>12, <1>13
-----------------------------------------------------------------------------
(* The inductive invariant.                                                *)

\* What is asked for agrees with what the app shows, a page turned included.
AskedFits ==
  asked # None =>
    /\ asked.book = app.book
    /\ asked.kind = "open" => app.view = "reading" /\ asked.layout = app.layout
    /\ asked.kind = "chapters" <=> app.view = "chapters"
    /\ app.view # "home" => asked.layout = app.layout
    /\ asked.kind = "extend" => asked.page = app.page

\* A build serves the command asked for, and at its end the store is blank.
JobFits ==
  job # None =>
    /\ store.status = "loading" /\ store.book = None
    /\ asked # None /\ asked.kind # "chapters"
    /\ asked.book = job.book /\ asked.layout = store.layout
    /\ store.index \in {None, Ed(job.book, store.layout)}
    /\ job.next <= Len(Built) + 2
    /\ job.next = Len(Built) + 2 => /\ store.index = Ed(job.book, store.layout)
                                    /\ store.text = Blank /\ store.pages = 0
    /\ asked.kind = "jump" => job.restored
    /\ ~job.restored => job.page = asked.page /\ asked.page = app.page

\* Away from Home, once the book is open, the store is of the app's edition.
Of(b, L) ==
  /\ store.layout = L /\ store.index \in {None, Ed(b, L)}
  /\ job = None => store.status \in {"ready", "error"}
StoreFits ==
  /\ app.view # "home" /\ ~Opening => Of(app.book, app.layout)
  /\ asked # None /\ ~Opening => Of(asked.book, asked.layout)
  /\ job = None => store.status # "loading"

\* A store that is ready holds a section of its index, or nothing it would draw,
\* unless the cache is mixed.
StoreHolds ==
  /\ store.book \in Books /\ store.index = Ed(store.book, store.layout)
  /\ \/ \E k \in DOMAIN Sections[store.book][store.layout] :
          HoldsSection(store, store.book, store.layout, k)
     \/ store.text = TocBytes
     \/ store.text = Blank /\ store.pages = 0
     \/ Mixed(store.book, store.layout)
StoreTrue == store.status = "ready" /\ job = None => StoreHolds

\* The map is that of the edition in the store, or a list has failed since.
MapTrue ==
  /\ RowsTrue(store)
  /\ store.status = "ready" /\ job = None /\ card.toc[store.book] = "whole" =>
       MapOf(store, Ed(store.book, store.layout))

\* The section in memory is that of the page the app is at.
Shows(b, L) ==
  LET k == SectionFor(Sections[b][L], Lesser(app.page, Total(b, L) - 1))
  IN  \/ HoldsSection(store, b, L, k) /\ ~store.holdsToc
      \/ Leftover(b, L)
      \/ store.text = TocBytes /\ ~store.holdsToc
      \/ store.text = Blank /\ ~Accepts(card.section[b][k], Sections[b][L][k], L)
      \/ Mixed(b, L)
PageShown ==
  Settled /\ store.status = "ready" =>
    store.book = app.book /\ store.layout = app.layout /\ Shows(app.book, app.layout)

IInv == /\ TypeOK /\ SlotsCut
        /\ AskedFits /\ JobFits /\ StoreFits
        /\ StoreTrue /\ MapTrue /\ PageShown

\* The invariant holds at first.
LEMMA InitIInv == Init => IInv
<1> SUFFICES ASSUME Init PROVE IInv OBVIOUS
<1>1. /\ asked = None /\ job = None /\ left = MaxMishaps
      /\ app \in [view : {"home"}, book : Books, page : {0}, pages : {1}, layout : Layouts]
      /\ store = EmptyStore(app.layout)
      /\ card = [index |-> [b \in Books |-> Absent],
                 section |-> [b \in Books |-> [k \in Slots |-> Absent]],
                 toc |-> [b \in Books |-> "absent"]]
  BY DEF Init
<1>2. app \in Reader /\ app.view = "home" /\ app.layout \in Layouts BY <1>1 DEF Reader
<1>3. store \in Store /\ store.status = "empty" /\ RowsTrue(store)
  BY <1>1, <1>2 DEF Store, EmptyStore, RowsTrue
<1>4. card \in CardType BY <1>1 DEF CardType, Lost, TocFile
<1>5. SlotsCut
  <2>1. \A b \in Books, k \in Slots : card.section[b][k] = Absent BY <1>1
  <2>2. Absent \in Lost BY DEF Lost
  <2> QED BY <2>1, <2>2 DEF SlotsCut, FileCut
<1>6. TypeOK
  BY <1>1, <1>2, <1>3, <1>4, BoundsAssumption DEF TypeOK, CardType
<1> QED
  BY <1>1, <1>2, <1>3, <1>5, <1>6
  DEF IInv, AskedFits, JobFits, StoreFits, StoreTrue, MapTrue, PageShown, Settled
-----------------------------------------------------------------------------
(* Keys.                                                                   *)

\* Keys leave the card, the store and the build as they are.
LEMMA AskKeeps ==
  ASSUME IInv, KeysTaken, NEW kind \in {"open", "extend", "chapters", "jump"},
         NEW next \in Reader, NEW page \in Nat, NEW chapter \in Nat,
         Ask(kind, next, page, chapter),
         next.view # "home",
         kind = "chapters" <=> next.view = "chapters",
         kind = "open" => next.view = "reading",
         kind = "extend" => page = next.page,
         kind # "open" => app.view # "home" /\ next.book = app.book /\ next.layout = app.layout
  PROVE  IInv'
<1>1. TypeOK /\ SlotsCut /\ StoreFits /\ StoreTrue /\ MapTrue BY DEF IInv
<1>2. job = None /\ ~Opening BY DEF KeysTaken
<1> DEFINE command == [kind |-> kind, page |-> page, chapter |-> chapter,
                       book |-> next.book, layout |-> next.layout]
<1>3. /\ app' = next /\ asked' = command
      /\ card' = card /\ store' = store /\ job' = job /\ left' = left
  BY DEF Ask
<1>4. command \in Command BY DEF Command, Reader
<1>5. command # None BY <1>4, NoneAssumption
<1>6. TypeOK' BY <1>1, <1>3, <1>4 DEF TypeOK
<1>7. SlotsCut' /\ StoreTrue' /\ MapTrue'
  BY <1>1, <1>3 DEF SlotsCut, StoreTrue, StoreHolds, MapTrue, RowsTrue, MapOf, Mixed
<1>8. /\ asked'.kind = kind /\ asked'.page = page /\ asked'.book = next.book
      /\ asked'.layout = next.layout
  BY <1>3
<1> HIDE DEF command
<1>9. AskedFits' BY <1>3, <1>8 DEF AskedFits
<1>10. JobFits' BY <1>2, <1>3 DEF JobFits
<1>11. PageShown' BY <1>3, <1>5 DEF PageShown, Settled
<1>12. StoreFits'
  <2>1. job' = None => store'.status # "loading" BY <1>1, <1>3 DEF StoreFits
  <2>2. CASE kind = "open"
    <3>1. Opening' BY <1>3, <1>5, <1>8, <2>2 DEF Opening
    <3> QED BY <2>1, <3>1 DEF StoreFits
  <2>3. CASE kind # "open"
    <3>1. Of(app.book, app.layout) BY <1>1, <1>2, <2>3 DEF StoreFits
    <3>2. Of(app.book, app.layout)' BY <1>3, <2>3, <3>1 DEF Of
    <3>3. Of(asked.book, asked.layout)' BY <1>3, <1>8, <2>3, <3>1 DEF Of
    <3> QED BY <2>1, <3>2, <3>3 DEF StoreFits
  <2> QED BY <2>2, <2>3
<1> QED BY <1>6, <1>7, <1>9, <1>10, <1>11, <1>12 DEF IInv

\* The keys that ask the display task for something.
LEMMA KeyKeeps ==
  ASSUME IInv,
         \/ \E b \in Books, place \in Places : Open(b, place)
         \/ Read \/ NextPage \/ PreviousPage \/ OpenChapters \/ BackToReading
         \/ \E c \in DOMAIN Lines[app.book][app.layout.size] : PickChapter(c)
  PROVE  IInv'
<1>1. app \in Reader /\ Places \subseteq Nat BY BooksAssumption DEF IInv, TypeOK
<1>2. ASSUME NEW b \in Books, NEW place \in Places, Open(b, place) PROVE IInv'
  <2>1. PICK pages \in {1, app.pages} :
          Ask("open", [app EXCEPT !.view = "reading", !.book = b, !.page = 0, !.pages = pages],
              place, 0)
    BY <1>2 DEF Open
  <2> DEFINE next == [app EXCEPT !.view = "reading", !.book = b, !.page = 0, !.pages = pages]
  <2>2. next \in Reader /\ next.view = "reading"
    <3>1. pages \in Nat \ {0} BY <1>1 DEF Reader
    <3> QED BY <1>1, <3>1 DEF Reader
  <2>3. KeysTaken /\ place \in Nat /\ 0 \in Nat BY <1>1, <1>2 DEF Open
  <2>4. Ask("open", next, place, 0) BY <2>1
  <2> HIDE DEF next
  <2> QED BY <2>2, <2>3, <2>4, AskKeeps
<1>3. ASSUME Read PROVE IInv'
  <2> DEFINE next == [app EXCEPT !.view = "reading"]
  <2>1. next \in Reader /\ next.view = "reading" /\ app.page \in Nat BY <1>1 DEF Reader
  <2>2. KeysTaken /\ Ask("open", next, app.page, 0) BY <1>3 DEF Read
  <2> HIDE DEF next
  <2> QED BY <2>1, <2>2, AskKeeps
<1>4. ASSUME NEW page \in Nat, Turn(page) PROVE IInv'
  <2> DEFINE next == [app EXCEPT !.page = page]
  <2>1. KeysTaken /\ app.view = "reading" /\ Ask("extend", next, page, 0) BY <1>4 DEF Turn
  <2>2. /\ next \in Reader /\ next.view = "reading" /\ next.page = page
        /\ next.book = app.book /\ next.layout = app.layout
    BY <1>1, <2>1 DEF Reader
  <2> HIDE DEF next
  <2> QED BY <2>1, <2>2, AskKeeps
<1>5. ASSUME NextPage PROVE IInv'
  <2>1. app.page \in Nat /\ app.pages \in Nat \ {0} BY <1>1 DEF Reader
  <2>2. (IF app.page + 1 < app.pages THEN app.page + 1 ELSE app.pages - 1) \in Nat BY <2>1
  <2> QED BY <1>4, <1>5, <2>2 DEF NextPage
<1>6. ASSUME PreviousPage PROVE IInv'
  <2>1. app.page - 1 \in Nat BY <1>1, <1>6 DEF PreviousPage, Reader
  <2> QED BY <1>4, <1>6, <2>1 DEF PreviousPage
<1>7. ASSUME OpenChapters PROVE IInv'
  <2> DEFINE next == [app EXCEPT !.view = "chapters"]
  <2>1. KeysTaken /\ app.view = "reading" /\ Ask("chapters", next, app.page, 0)
    BY <1>7 DEF OpenChapters
  <2>2. /\ next \in Reader /\ next.view = "chapters" /\ app.page \in Nat
        /\ next.book = app.book /\ next.layout = app.layout
    BY <1>1 DEF Reader
  <2> HIDE DEF next
  <2> QED BY <2>1, <2>2, AskKeeps
<1>8. ASSUME BackToReading PROVE IInv'
  <2> DEFINE next == [app EXCEPT !.view = "reading"]
  <2>1. KeysTaken /\ app.view = "chapters" /\ Ask("extend", next, app.page, 0)
    BY <1>8 DEF BackToReading
  <2>2. /\ next \in Reader /\ next.view = "reading" /\ app.page \in Nat /\ next.page = app.page
        /\ next.book = app.book /\ next.layout = app.layout
    BY <1>1 DEF Reader
  <2> HIDE DEF next
  <2> QED BY <2>1, <2>2, AskKeeps
<1>9. ASSUME NEW c \in DOMAIN Lines[app.book][app.layout.size], PickChapter(c) PROVE IInv'
  <2>1. PICK page \in {0, ChapterStart([book |-> app.book, layout |-> app.layout], c)},
             kind \in {"jump", "extend"} :
          Ask(kind, [app EXCEPT !.view = "reading", !.page = page], page, c)
    BY <1>9 DEF PickChapter
  <2>2. app.book \in Books /\ app.layout \in Layouts /\ app.layout.size \in Sizes
    BY <1>1, BooksAssumption DEF Reader
  <2>3. [book |-> app.book, layout |-> app.layout] \in Edition BY <2>2 DEF Edition
  <2>4. page \in Nat BY <2>1, <2>3, ChapterStartIsPage
  <2>5. c \in Nat
    <3>1. Lines[app.book][app.layout.size] \in Seq(Nat \ {0}) BY <2>2, BooksAssumption
    <3> QED BY <1>9, <3>1
  <2> DEFINE next == [app EXCEPT !.view = "reading", !.page = page]
  <2>6. KeysTaken /\ app.view = "chapters" BY <1>9 DEF PickChapter
  <2>7. /\ next \in Reader /\ next.view = "reading" /\ next.page = page
        /\ next.book = app.book /\ next.layout = app.layout
    BY <1>1, <2>4 DEF Reader
  <2>8. Ask(kind, next, page, c) BY <2>1
  <2> HIDE DEF next
  <2> QED BY <2>1, <2>4, <2>5, <2>6, <2>7, <2>8, AskKeeps
<1> QED BY <1>2, <1>3, <1>5, <1>6, <1>7, <1>8, <1>9

\* The keys that ask for nothing.
LEMMA AwayKeeps ==
  ASSUME IInv, GoHome \/ \E L \in Layouts : SetLayout(L)
  PROVE  IInv'
<1>1. /\ TypeOK /\ SlotsCut /\ AskedFits /\ StoreFits /\ StoreTrue /\ MapTrue
      /\ app \in Reader
  BY DEF IInv, TypeOK
<1>2. /\ KeysTaken /\ UNCHANGED <<card, store, asked, job, left>>
      /\ app' \in Reader /\ app'.view = "home" /\ app.view # "chapters"
      /\ app'.book = app.book /\ app'.page = app.page
  <2>1. CASE GoHome BY <1>1, <2>1 DEF GoHome, Reader
  <2>2. CASE \E L \in Layouts : SetLayout(L) BY <1>1, <2>2 DEF SetLayout, Reader
  <2> QED BY <2>1, <2>2
<1>3. job = None /\ ~Opening BY <1>2 DEF KeysTaken
<1>4. TypeOK' BY <1>1, <1>2 DEF TypeOK
<1>5. SlotsCut' /\ StoreTrue' /\ MapTrue'
  BY <1>1, <1>2 DEF SlotsCut, StoreTrue, StoreHolds, MapTrue, RowsTrue, MapOf, Mixed
<1>6. AskedFits' BY <1>1, <1>2, <1>3 DEF AskedFits, Opening
<1>7. StoreFits' BY <1>1, <1>2 DEF StoreFits, Of, Opening
<1>8. JobFits' /\ PageShown' BY <1>2, <1>3 DEF JobFits, PageShown, Settled
<1> QED BY <1>4, <1>5, <1>6, <1>7, <1>8 DEF IInv
-----------------------------------------------------------------------------
(* Commands served.                                                        *)

\* The page the app ends at is in the section of the page asked for.
LEMMA AnswerShows ==
  ASSUME app \in Reader, NEW st \in Store, NEW b \in Books, NEW L \in Layouts, NEW page \in Nat,
         NEW restored \in BOOLEAN, Answer(st, b, page, restored), app.book = b,
         ~restored => app.page = page, st.index = Ed(b, L), st.pages <= Total(b, L)
  PROVE  SectionFor(Sections[b][L], Lesser(app'.page, Total(b, L) - 1))
           = SectionFor(Sections[b][L], page)
<1> DEFINE recs == Sections[b][L]
           total == Total(b, L)
<1>1. Follows(recs) /\ total \in Nat \ {0} /\ total = PagesOf(recs) BY TableFacts DEF Total
<1> HIDE DEF recs
<1>2. SectionFor(recs, Lesser(page, total - 1)) = SectionFor(recs, page)
  BY <1>1, SectionForPage
<1>3. Advertised(st) = total BY AdvertisedFacts DEF Ed
<1>4. CASE restored
  <2>1. app'.page = page BY <1>4, AnswerFacts
  <2> QED BY <1>2, <2>1 DEF recs
<1>5. CASE ~restored
  <2>1. app'.page = Lesser(page, total - 1) BY <1>3, <1>5, AnswerFacts
  <2> HIDE DEF total
  <2>2. Lesser(Lesser(page, total - 1), total - 1) = Lesser(page, total - 1)
    BY <1>1 DEF Lesser
  <2> QED BY <1>2, <2>1, <2>2 DEF recs, total
<1> QED BY <1>4, <1>5

\* The section of the page asked for, or a leftover in its place, shows the page.
LEMMA HoldsShows ==
  ASSUME app \in Reader, NEW st \in Store, NEW b \in Books, NEW L \in Layouts, NEW page \in Nat,
         NEW restored \in BOOLEAN, Answer(st, b, page, restored), app.book = b,
         ~restored => app.page = page, st.index = Ed(b, L),
         HoldsSection(st, b, L, SectionFor(Sections[b][L], page)), ~st.holdsToc
  PROVE  Shows(b, L)'
<1> DEFINE k == SectionFor(Sections[b][L], page)
<1>1. /\ k \in DOMAIN Sections[b][L] /\ st.start = Sections[b][L][k].start
      /\ st.pages = PagesIn(st.text, L)
      /\ st.text = Texts[b][L][k] \/ OtherCut(st.text, b, L, k)
  BY DEF HoldsSection
<1>2. store' = st BY DEF Answer
<1>3. CASE st.text = Texts[b][L][k]
  <2> HIDE DEF k
  <2>1. st.pages <= Total(b, L) BY <1>1, <1>3, TableFacts, PagesWithinTotal
  <2>2. SectionFor(Sections[b][L], Lesser(app'.page, Total(b, L) - 1)) = k
    BY <2>1, AnswerShows DEF k
  <2>3. HoldsSection(st, b, L, k) BY DEF k
  <2> QED BY <1>2, <2>2, <2>3 DEF Shows
<1>4. CASE OtherCut(st.text, b, L, k)
  <2>1. SectionFor(Sections[b][L], st.start) = k
    <3> HIDE DEF k
    <3> QED BY <1>1, StartsItself
  <2> HIDE DEF k
  <2>2. Leftover(b, L)' BY <1>2, <1>4, <2>1 DEF Leftover
  <2> QED BY <2>2 DEF Shows
<1> QED BY <1>1, <1>3, <1>4

\* A load keeps the invariant, for a page turned, a book opened or a jump.
LEMMA LoadKeeps ==
  ASSUME IInv, job = None, asked # None, asked.kind # "chapters",
         NEW st \in Store, st.layout = asked.layout, RowsTrue(st), NEW page \in Nat, NEW restored \in BOOLEAN,
         asked.kind = "jump" => restored,
         ~restored => page = asked.page /\ asked.page = app.page,
         Load(st, asked.book, page, restored)
  PROVE  IInv'
<1>1. /\ TypeOK /\ SlotsCut /\ AskedFits /\ app \in Reader /\ asked \in Command
  BY DEF IInv, TypeOK
<1>2. PICK b \in Books, L \in Layouts : b = asked.book /\ L = asked.layout
  BY <1>1 DEF Command
<1>3. /\ card' \in CardType /\ SlotsCut' /\ card'.toc = card.toc /\ left' \in 0 .. MaxMishaps
      /\ \/ Loaded(L, b, page, restored)
         \/ LoadFailed(L, b, page, restored)
         \/ BuildBegins(L, b, page, restored)
  BY <1>1, <1>2, LoadFacts
<1>4. /\ app.book = b
      /\ app.view # "home" => app.layout = L
  BY <1>1, <1>2 DEF AskedFits
<1>5. CASE Loaded(L, b, page, restored)
  <2>1. /\ Answer(store', b, page, restored) /\ job' = None
        /\ store' \in Store /\ store'.status = "ready" /\ store'.book = b /\ store'.layout = L
        /\ store'.index = Ed(b, L) /\ ~store'.holdsToc
        /\ HoldsSection(store', b, L, SectionFor(Sections[b][L], page))
        /\ RowsTrue(store') /\ (card.toc[b] = "whole" => MapOf(store', Ed(b, L)))
    BY <1>5 DEF Loaded
  <2>2. /\ asked' = None /\ app' \in Reader /\ app'.view = app.view /\ app'.book = app.book
        /\ app'.layout = app.layout
    BY <1>1, <2>1, AnswerFacts
  <2>3. TypeOK' BY <1>3, <2>1, <2>2 DEF TypeOK, CardType
  <2>4. AskedFits' /\ JobFits' BY <2>1, <2>2 DEF AskedFits, JobFits
  <2>5. StoreFits' BY <1>4, <2>1, <2>2 DEF StoreFits, Of, Opening
  <2>6. StoreTrue'
    <3>1. SectionFor(Sections[b][L], page) \in DOMAIN Sections[b][L]
      BY <2>1 DEF HoldsSection
    <3> QED BY <1>1, <2>1, <3>1 DEF StoreTrue, StoreHolds
  <2>7. MapTrue' BY <1>3, <2>1 DEF MapTrue
  <2>8. PageShown'
    <3>1. Shows(b, L)' BY <1>1, <1>4, <1>2, <2>1, HoldsShows
    <3> QED BY <1>4, <2>1, <2>2, <3>1 DEF PageShown, Settled
  <2> QED BY <1>3, <2>3, <2>4, <2>5, <2>6, <2>7, <2>8 DEF IInv
<1>6. CASE LoadFailed(L, b, page, restored)
  <2>1. /\ Answer(store', b, page, restored) /\ job' = None
        /\ store' \in Store /\ store'.status = "error" /\ store'.layout = L
        /\ store'.index = None /\ RowsTrue(store')
    BY <1>6 DEF LoadFailed
  <2>2. /\ asked' = None /\ app' \in Reader /\ app'.view = app.view /\ app'.book = app.book
        /\ app'.layout = app.layout
    BY <1>1, <2>1, <1>2, AnswerFacts
  <2>3. TypeOK' BY <1>3, <2>1, <2>2 DEF TypeOK, CardType
  <2>4. AskedFits' /\ JobFits' BY <2>1, <2>2 DEF AskedFits, JobFits
  <2>5. StoreFits' BY <1>4, <2>1, <2>2 DEF StoreFits, Of, Opening
  <2>6. StoreTrue' /\ MapTrue' /\ PageShown' BY <2>1 DEF StoreTrue, MapTrue, PageShown
  <2> QED BY <1>3, <2>3, <2>4, <2>5, <2>6 DEF IInv
<1>7. CASE BuildBegins(L, b, page, restored)
  <2>1. /\ card' = card /\ app' = app /\ asked' = asked
        /\ store' \in Store /\ store'.status = "loading" /\ store'.book = None
        /\ store'.layout = L /\ store'.index \in {None, Ed(b, L)} /\ RowsTrue(store')
        /\ job' = [book |-> b, page |-> page, restored |-> restored, next |-> 0]
    BY <1>7 DEF BuildBegins
  <2>2. job' \in Build /\ job' # None
    <3>1. job' \in Build BY <1>2, <2>1, BoundsAssumption DEF Build
    <3> QED BY <3>1, NoneAssumption
  <2>3. TypeOK' BY <1>1, <1>3, <2>1, <2>2 DEF TypeOK
  <2>4. AskedFits' BY <1>1, <2>1 DEF AskedFits
  <2>5. JobFits'
    <3>1. Len(Texts[b][L]) \in Nat BY <1>1, TextsAreSequences
    <3>2. job'.book = b /\ job'.page = page /\ job'.restored = restored /\ job'.next = 0
      BY <2>1
    <3>3. Built' = Texts[b][L] BY <2>1, <3>2 DEF Built
    <3>4. job'.next <= Len(Built') + 2 /\ job'.next # Len(Built') + 2 BY <3>1, <3>2, <3>3
    <3> QED BY <1>2, <2>1, <3>2, <3>4 DEF JobFits
  <2>6. StoreFits' BY <1>4, <1>2, <2>1, <2>2 DEF StoreFits, Of, Opening
  <2>7. StoreTrue' /\ MapTrue' /\ PageShown' BY <2>1 DEF StoreTrue, MapTrue, PageShown
  <2> QED BY <1>3, <2>3, <2>4, <2>5, <2>6, <2>7 DEF IInv
<1> QED BY <1>3, <1>5, <1>6, <1>7
\* A page that the section in memory has, or a load.
LEMMA ServePageKeeps == ASSUME IInv, ServePage PROVE IInv'
<1> USE DEF IInv
<1>1. /\ TypeOK /\ app \in Reader /\ asked \in Command /\ store \in Store
      /\ job = None /\ asked # None /\ asked.kind \in {"open", "extend"}
  BY DEF TypeOK, ServePage
<1>2. PICK b \in Books, L \in Layouts, page \in Nat :
        b = asked.book /\ L = asked.layout /\ page = asked.page
  BY <1>1 DEF Command
<1>3. PICK restored \in BOOLEAN : restored = Resumed BY <1>1 DEF Resumed
<1>4. ~restored => page = asked.page /\ asked.page = app.page
  BY <1>1, <1>2, <1>3 DEF Resumed, AskedFits
<1> DEFINE st == Adopt(store, L)
<1>5. st \in Store /\ st.layout = L /\ RowsTrue(st)
  <2>1. st \in Store /\ st.layout = L /\ SameMap(st, store) BY <1>1, AdoptFacts
  <2> HIDE DEF st
  <2> QED BY <2>1 DEF MapTrue, SameMap, RowsTrue
<1>6. IF Covers(st, b, page)
      THEN Answer(st, b, page, restored) /\ UNCHANGED <<card, job, left>>
      ELSE Load(st, b, page, restored)
  BY <1>2, <1>3 DEF ServePage
<1>7. CASE ~Covers(st, b, page)
  <2>1. Load(st, asked.book, page, restored) BY <1>2, <1>6, <1>7
  <2> HIDE DEF st, IInv
  <2> QED BY <1>1, <1>2, <1>4, <1>5, <2>1, LoadKeeps
<1>8. CASE Covers(st, b, page)
  <2>1. /\ st.book = b /\ st.status = "ready" /\ ~st.holdsToc /\ st.pages > 0
        /\ page \in st.start .. st.start + st.count - 1
    BY <1>8 DEF Covers
  <2>2. st = store /\ store.layout = L
    <3>1. 0 \in Nat /\ ~(0 > 0) OBVIOUS
    <3>2. store.layout = L
      <4> HIDE DEF st
      <4>1. store.layout # L => st.pages = 0 BY <1>1, AdoptFacts DEF st
      <4> QED BY <2>1, <3>1, <4>1
    <3> QED BY <1>1, <3>2, AdoptFacts
  <2>3. Answer(store, b, page, restored) /\ UNCHANGED <<card, job, left>>
    BY <1>6, <1>8, <2>2
  <2>4. /\ store.status = "ready" /\ store.book = b /\ ~store.holdsToc /\ store.pages > 0
        /\ page \in store.start .. store.start + store.count - 1
    BY <2>1, <2>2
  <2> HIDE DEF st
  <2>5. StoreHolds BY <1>1, <2>4 DEF StoreTrue
  <2>6. store.index = Ed(b, L) BY <2>2, <2>4, <2>5 DEF StoreHolds
  <2>7. /\ asked' = None /\ store' = store /\ app' \in Reader /\ app'.view = app.view
        /\ app'.book = app.book /\ app'.layout = app.layout
    BY <1>1, <2>3, AnswerFacts
  <2>8. TypeOK' BY <1>1, <2>3, <2>7 DEF TypeOK
  <2>9. SlotsCut' /\ StoreTrue' /\ MapTrue'
    BY <2>3, <2>7 DEF SlotsCut, StoreTrue, StoreHolds, MapTrue, RowsTrue, MapOf, Mixed
  <2>10. AskedFits' /\ JobFits' BY <1>1, <2>3, <2>7 DEF AskedFits, JobFits
  <2>11. app.book = b /\ (app.view # "home" => app.layout = L)
    BY <1>1, <1>2 DEF AskedFits
  <2>12. StoreFits' BY <1>1, <2>2, <2>4, <2>6, <2>7, <2>11 DEF StoreFits, Of, Opening
  <2>13. Shows(b, L)'
    <3>1. CASE \E k \in DOMAIN Sections[b][L] : HoldsSection(store, b, L, k)
      <4>1. PICK k \in DOMAIN Sections[b][L] : HoldsSection(store, b, L, k) BY <3>1
      <4>2. /\ store.start = Sections[b][L][k].start /\ store.pages = PagesIn(store.text, L)
            /\ store.count = store.pages
            /\ store.text = Texts[b][L][k] \/ OtherCut(store.text, b, L, k)
        BY <4>1 DEF HoldsSection
      <4>3. CASE store.text = Texts[b][L][k]
        <5>1. page \in PageRange(Sections[b][L][k])
          BY <2>4, <4>2, <4>3, TableFacts DEF PageRange
        <5>2. Follows(Sections[b][L]) /\ DOMAIN Sections[b][L] = 1 .. Len(Sections[b][L])
          BY TableFacts
        <5>3. SectionFor(Sections[b][L], page) = k BY <5>1, <5>2, SectionOfPage
        <5> QED BY <1>1, <1>4, <2>3, <2>4, <2>6, <2>11, <4>1, <5>3, HoldsShows
      <4>4. CASE OtherCut(store.text, b, L, k)
        <5>1. SectionFor(Sections[b][L], store.start) = k BY <4>2, StartsItself
        <5>2. Leftover(b, L)' BY <2>7, <4>4, <5>1 DEF Leftover
        <5> QED BY <5>2 DEF Shows
      <4> QED BY <4>2, <4>3, <4>4
    <3>2. CASE store.text = TocBytes BY <2>4, <2>7, <3>2 DEF Shows
    <3>3. CASE store.text = Blank /\ store.pages = 0 BY <2>4, <3>3
    <3>4. CASE Mixed(b, L)
      <4>1. Mixed(b, L)' BY <2>3, <3>4 DEF Mixed
      <4> QED BY <4>1 DEF Shows
    <3> QED BY <2>2, <2>4, <2>5, <3>1, <3>2, <3>3, <3>4 DEF StoreHolds
  <2>14. PageShown' BY <2>2, <2>4, <2>7, <2>11, <2>13 DEF PageShown, Settled
  <2> QED BY <2>8, <2>9, <2>10, <2>12, <2>14
<1> QED BY <1>7, <1>8

\* The chapter list takes the place of the text.
LEMMA ServeChaptersKeeps == ASSUME IInv, ServeChapters PROVE IInv'
<1>1. /\ TypeOK /\ SlotsCut /\ AskedFits /\ StoreFits /\ StoreTrue /\ MapTrue
      /\ app \in Reader /\ asked \in Command /\ store \in Store
      /\ job = None /\ asked # None /\ asked.kind = "chapters"
  BY DEF IInv, TypeOK, ServeChapters
<1>2. PICK b \in Books, L \in Layouts, page \in Nat :
        b = asked.book /\ L = asked.layout /\ page = asked.page
  BY <1>1 DEF Command
<1>3. /\ app.book = b /\ app.layout = L /\ app.view = "chapters"
  BY <1>1, <1>2 DEF AskedFits
<1>4. card.toc[b] \in TocFile BY <1>1 DEF TypeOK
<1>5. PICK st \in {store, ReadToc(store, b)} : Answer(st, b, page, FALSE)
  BY <1>2 DEF ServeChapters
<1>6. left' \in 0 .. MaxMishaps /\ UNCHANGED <<card, job>>
  <2>1. Done \/ Fault BY DEF ServeChapters
  <2>2. UNCHANGED <<card, job>> BY DEF ServeChapters
  <2>3. left \in 0 .. MaxMishaps BY <1>1 DEF TypeOK
  <2> QED BY <2>1, <2>2, <2>3, BoundsAssumption DEF Done, Fault
<1>7. /\ st \in Store /\ st.book = store.book /\ st.status = store.status
      /\ st.layout = store.layout /\ st.index = store.index /\ SameMap(st, store)
      /\ st = store \/ st.text = TocBytes
  BY <1>1, <1>4, ReadTocFacts DEF SameMap
<1>8. /\ asked' = None /\ store' = st /\ app' \in Reader /\ app'.view = "chapters"
      /\ app'.book = b /\ app'.layout = L
  BY <1>1, <1>3, <1>5, <1>7, AnswerFacts
<1>9. TypeOK' BY <1>1, <1>6, <1>7, <1>8 DEF TypeOK
<1>10. SlotsCut' BY <1>1, <1>6 DEF SlotsCut
<1>11. AskedFits' /\ JobFits' /\ PageShown'
  BY <1>1, <1>6, <1>8 DEF AskedFits, JobFits, PageShown, Settled
<1>12. StoreFits' BY <1>1, <1>2, <1>3, <1>6, <1>7, <1>8 DEF StoreFits, Of, Opening
<1>13. StoreTrue'
  <2>1. Mixed(store.book, store.layout) => Mixed(store.book, store.layout)'
    BY <1>6, <1>7, <1>8 DEF Mixed
  <2> QED BY <1>1, <1>6, <1>7, <1>8, <2>1 DEF StoreTrue, StoreHolds
<1>14. MapTrue' BY <1>1, <1>6, <1>7, <1>8 DEF MapTrue, SameMap, RowsTrue, MapOf
<1> QED BY <1>9, <1>10, <1>11, <1>12, <1>13, <1>14 DEF IInv

\* The page a jump goes to.
LEMMA TargetIsPage ==
  ASSUME NEW st \in Store, NEW c
  PROVE  /\ Target(st, c) \in Nat
         /\ st.holdsToc => Target(st, c) = ChapterStart(st.index, c)
<1>1. ChapterStart(st.index, c) \in Nat BY ChapterStartIsPage DEF Store
<1> QED BY <1>1 DEF Target

\* A jump loads the target, looked up in the index that is there beforehand.
LEMMA JumpLoads ==
  ASSUME TypeOK, ServeJump
  PROVE  \E st \in Store :
           /\ job = None /\ asked \in Command /\ asked.kind = "jump"
           /\ st.layout = asked.layout /\ st.index = store.index /\ SameMap(st, store)
           /\ store.holdsToc \/ card.toc[asked.book] = "whole" => st.holdsToc
           /\ Load(st, asked.book, Target(st, asked.chapter), TRUE)
<1>1. /\ asked \in Command /\ store \in Store /\ job = None /\ asked.kind = "jump"
      /\ asked.book \in Books /\ asked.layout \in Layouts /\ card.toc[asked.book] \in TocFile
  BY DEF TypeOK, ServeJump, Command
<1> DEFINE st == Adopt(store, asked.layout)
           listed == IF st.holdsToc THEN st ELSE ReadToc(st, asked.book)
<1>2. st \in Store /\ st.layout = asked.layout /\ st.index = store.index
      /\ st.holdsToc = store.holdsToc /\ SameMap(st, store)
  BY <1>1, AdoptFacts
<1>3. Load(listed, asked.book, Target(listed, asked.chapter), TRUE) BY DEF ServeJump
<1> HIDE DEF st
<1>4. /\ listed \in Store /\ listed.layout = asked.layout /\ listed.index = store.index
      /\ SameMap(listed, store)
      /\ store.holdsToc \/ card.toc[asked.book] = "whole" => listed.holdsToc
  BY <1>1, <1>2, ReadTocFacts DEF SameMap
<1> HIDE DEF listed
<1> QED BY <1>1, <1>3, <1>4

\* A jump is a load of the target.
LEMMA ServeJumpKeeps == ASSUME IInv, ServeJump PROVE IInv'
<1>1. TypeOK BY DEF IInv
<1>2. PICK st \in Store :
        /\ job = None /\ asked \in Command /\ asked.kind = "jump"
        /\ st.layout = asked.layout /\ SameMap(st, store)
        /\ Load(st, asked.book, Target(st, asked.chapter), TRUE)
  BY <1>1, JumpLoads
<1>3. asked # None BY <1>2, NoneAssumption
<1>4. Target(st, asked.chapter) \in Nat BY TargetIsPage
<1>5. RowsTrue(st) BY <1>2 DEF IInv, MapTrue, SameMap, RowsTrue
<1> QED BY <1>2, <1>3, <1>4, <1>5, LoadKeeps
-----------------------------------------------------------------------------
(* The build.                                                              *)

\* What holds during a build.
LEMMA BuildFacts ==
  ASSUME IInv, Building
  PROVE  /\ job \in Build /\ store \in Store /\ asked \in Command /\ app \in Reader
         /\ card \in CardType /\ SlotsCut /\ left \in 0 .. MaxMishaps /\ MaxMishaps \in Nat
         /\ job.book \in Books /\ store.layout \in Layouts
         /\ job.next \in Nat /\ job.page \in Nat /\ job.restored \in BOOLEAN
         /\ app.book = job.book
         /\ app.view # "home" => app.layout = store.layout
         /\ Len(Built) \in Nat \ {0} /\ Len(Built) <= MaxSections /\ MaxSections \in Nat
         /\ DOMAIN Built = 1 .. Len(Built)
         /\ \A k \in DOMAIN Built : Built[k] \in Text /\ k \in Slots
<1>1. /\ job \in Build /\ store \in Store /\ asked \in Command /\ app \in Reader
      /\ card \in CardType /\ SlotsCut /\ left \in 0 .. MaxMishaps /\ MaxMishaps \in Nat
      /\ MaxSections \in Nat \ {0}
  BY BoundsAssumption DEF IInv, TypeOK, CardType, Building, JobFits
<1>2. /\ job.book \in Books /\ store.layout \in Layouts
      /\ job.next \in Nat /\ job.page \in Nat /\ job.restored \in BOOLEAN
  BY <1>1 DEF Build, Store
<1>3. app.book = job.book /\ (app.view # "home" => app.layout = store.layout)
  BY DEF IInv, JobFits, AskedFits, Building
<1>4. Built \in Seq(Piece(job.book, store.layout.size)) /\ Len(Built) \in 1 .. MaxSections
  BY <1>2, TextsAreSequences DEF Built
<1>5. DOMAIN Built = 1 .. Len(Built) BY <1>4
<1>6. \A k \in DOMAIN Built : Built[k] \in Text /\ k \in Slots
  BY <1>2, TableFacts DEF Built
<1> HIDE DEF Built
<1>7. Len(Built) \in Nat \ {0} /\ Len(Built) <= MaxSections BY <1>1, <1>4
<1> QED BY <1>1, <1>2, <1>3, <1>5, <1>6, <1>7

\* A step of the build leaves the command, and the store as a build has it.
LEMMA StepKeeps ==
  ASSUME IInv, Building, Step, UNCHANGED <<app, asked>>, Done \/ Fault,
         card' \in CardType, SlotsCut', job.next <= Len(Built) + 1,
         \/ store' = store /\ job.next <= Len(Built)
         \/ store' = [store EXCEPT !.index = Ed(job.book, store.layout),
                                   !.text = Blank, !.pages = 0]
  PROVE  IInv'
<1>1. /\ job \in Build /\ store \in Store /\ app \in Reader /\ left \in 0 .. MaxMishaps
      /\ MaxMishaps \in Nat /\ job.book \in Books /\ store.layout \in Layouts /\ job.next \in Nat
      /\ Len(Built) \in Nat \ {0} /\ Len(Built) <= MaxSections /\ MaxSections \in Nat
  BY BuildFacts
<1>2. /\ job' \in Build /\ job'.book = job.book /\ job'.next = job.next + 1
      /\ job'.page = job.page /\ job'.restored = job.restored
  <2>1. job.next + 1 \in 0 .. MaxSections + 2 BY <1>1
  <2>2. job' = [job EXCEPT !.next = job.next + 1] BY DEF Step
  <2> QED BY <1>1, <2>1, <2>2 DEF Build
<1>3. job' # None BY <1>2, NoneAssumption
<1>4. /\ store' \in Store /\ store'.layout = store.layout /\ store'.status = store.status
      /\ store'.book = store.book /\ SameMap(store', store)
      /\ store'.index \in {store.index, Ed(job.book, store.layout)}
      /\ job.next = Len(Built) + 1 =>
           /\ store'.index = Ed(job.book, store.layout)
           /\ store'.text = Blank /\ store'.pages = 0
  <2>1. CASE store' = store /\ job.next <= Len(Built) BY <1>1, <2>1 DEF SameMap
  <2>2. CASE store' = [store EXCEPT !.index = Ed(job.book, store.layout),
                                    !.text = Blank, !.pages = 0]
    <3>1. Ed(job.book, store.layout) \in Edition BY <1>1 DEF Ed, Edition
    <3> QED BY <1>1, <2>2, <3>1 DEF Store, SameMap
  <2> QED BY <2>1, <2>2
<1>5. left' \in 0 .. MaxMishaps BY <1>1 DEF Done, Fault
<1>6. TypeOK' BY <1>2, <1>4, <1>5 DEF IInv, TypeOK, CardType
<1>7. AskedFits' BY DEF IInv, AskedFits
<1>8. JobFits /\ job # None BY DEF IInv, Building
<1>9. JobFits'
  <2>1. Built' = Built BY <1>2, <1>4 DEF Built
  <2>2. job'.next <= Len(Built') + 2 BY <1>1, <1>2, <2>1
  <2>3. job'.next = Len(Built') + 2 => job.next = Len(Built) + 1 BY <1>1, <1>2, <2>1
  <2> HIDE DEF Built
  <2> QED BY <1>2, <1>4, <1>8, <2>2, <2>3 DEF JobFits
<1>10. StoreFits' BY <1>2, <1>3, <1>4, <1>8 DEF IInv, AskedFits, JobFits, StoreFits, Of, Opening
<1>11. StoreTrue' /\ MapTrue' /\ PageShown'
  BY <1>3, <1>4 DEF IInv, StoreTrue, MapTrue, SameMap, RowsTrue, PageShown, Settled
<1>12. SlotsCut' OBVIOUS
<1> QED BY <1>6, <1>7, <1>9, <1>10, <1>11, <1>12 DEF IInv

\* The chapter list, a section or the index is written.
LEMMA BuildStepKeeps == ASSUME IInv, BuildToc \/ BuildSection \/ BuildIndex PROVE IInv'
<1>1. Building BY DEF BuildToc, BuildSection, BuildIndex
<1>2. /\ job \in Build /\ store \in Store /\ card \in CardType /\ SlotsCut
      /\ job.book \in Books /\ store.layout \in Layouts /\ job.next \in Nat
      /\ Len(Built) \in Nat \ {0} /\ DOMAIN Built = 1 .. Len(Built)
      /\ \A k \in DOMAIN Built : Built[k] \in Text /\ k \in Slots
  BY <1>1, BuildFacts
<1>3. ASSUME card' \in CardType, card'.section = card.section PROVE SlotsCut'
  BY <1>2, <1>3 DEF SlotsCut
<1>4. CASE BuildToc
  <2>1. /\ Step /\ UNCHANGED <<store, app, asked>> /\ (Done \/ Fault) /\ job.next <= Len(Built)
    BY <1>2, <1>4 DEF BuildToc
  <2>2. card' \in CardType /\ card'.section = card.section
    <3>1. \/ \E t \in TocFile : card' = [card EXCEPT !.toc[job.book] = t]
          \/ card' = card
      BY <1>4 DEF BuildToc, TocFile
    <3> QED BY <1>2, <3>1 DEF CardType
  <2>3. SlotsCut' BY <1>3, <2>2
  <2>4. job.next <= Len(Built) + 1 BY <1>2, <2>1
  <2> QED BY <1>1, <2>1, <2>2, <2>3, <2>4, StepKeeps
<1>5. CASE BuildSection
  <2>1. /\ Step /\ UNCHANGED <<store, app, asked>>
        /\ (Done \/ Fault) /\ job.next \in DOMAIN Built
    BY <1>5 DEF BuildSection
  <2>2. \/ PutSection([layout |-> store.layout, text |-> Built[job.next]])
        \/ PutSection(Torn) \/ UNCHANGED card
    BY <1>5 DEF BuildSection
  <2>3. job.next \in Slots /\ Built[job.next] \in Text /\ job.next <= Len(Built) BY <1>2, <2>1
  <2>4. card' \in CardType /\ SlotsCut'
    <3> DEFINE new == [layout |-> store.layout, text |-> Built[job.next]]
    <3>1. CASE PutSection(new)
      <4>1. new \in SectionFile BY <1>2, <2>3 DEF SectionFile
      <4>2. new.layout = store.layout /\ new.text = Texts[job.book][store.layout][job.next]
        BY DEF Built
      <4>3. job.next \in DOMAIN Texts[job.book][store.layout] BY <2>1 DEF Built
      <4> HIDE DEF new
      <4>4. FileCut(new, job.book, job.next) BY <1>2, <4>2, <4>3 DEF FileCut
      <4>5. card' = [card EXCEPT !.section[job.book][job.next] = new] BY <3>1 DEF PutSection
      <4> QED BY <1>2, <2>3, <4>1, <4>4, <4>5, PutFacts
    <3>2. CASE PutSection(Torn)
      <4>1. Torn \in Lost /\ FileCut(Torn, job.book, job.next) BY DEF FileCut, Lost
      <4>2. card' = [card EXCEPT !.section[job.book][job.next] = Torn] BY <3>2 DEF PutSection
      <4> QED BY <1>2, <2>3, <4>1, <4>2, PutFacts
    <3>3. CASE UNCHANGED card BY <1>2, <1>3, <3>3
    <3> QED BY <2>2, <3>1, <3>2, <3>3
  <2>5. job.next <= Len(Built) + 1 BY <1>2, <2>3
  <2> QED BY <1>1, <2>1, <2>3, <2>4, <2>5, StepKeeps
<1>6. CASE BuildIndex
  <2>1. /\ Step /\ UNCHANGED <<app, asked>> /\ (Done \/ Fault) /\ job.next = Len(Built) + 1
        /\ store' = [store EXCEPT !.index = Ed(job.book, store.layout),
                                  !.text = Blank, !.pages = 0]
    BY <1>6 DEF BuildIndex, Ed
  <2>2. card' \in CardType /\ card'.section = card.section
    <3>1. \/ \E f \in Layouts \union Lost : card' = [card EXCEPT !.index[job.book] = f]
          \/ card' = card
      BY <1>2, <1>6 DEF BuildIndex, PutIndex, Lost
    <3> QED BY <1>2, <3>1 DEF CardType
  <2>3. SlotsCut' BY <1>3, <2>2
  <2>4. job.next <= Len(Built) + 1 BY <1>2, <2>1
  <2> QED BY <1>1, <2>1, <2>2, <2>3, <2>4, StepKeeps
<1> QED BY <1>4, <1>5, <1>6

\* The EPUB cannot be read on: an error is shown.
LEMMA BuildFailsKeeps == ASSUME IInv, BuildFails PROVE IInv'
<1>1. Building /\ Fault /\ job' = None /\ UNCHANGED card BY DEF BuildFails
<1>2. PICK b \in Books, L \in Layouts, page \in Nat, restored \in BOOLEAN :
        b = job.book /\ L = store.layout /\ page = job.page /\ restored = job.restored
  BY <1>1, BuildFacts
<1>3. /\ store \in Store /\ app \in Reader /\ left \in 0 .. MaxMishaps /\ MaxMishaps \in Nat
      /\ app.book = b /\ (app.view # "home" => app.layout = L)
      /\ store.index \in {None, Ed(b, L)}
  BY <1>1, <1>2, BuildFacts DEF IInv, JobFits, Building
<1> DEFINE blank == [store EXCEPT !.text = Blank, !.pages = 0]
           st == Finish(blank, b, "error")
<1>4. /\ blank \in Store /\ blank.layout = L /\ blank.index = store.index
      /\ SameMap(blank, store)
  BY <1>2, <1>3 DEF Store, SameMap
<1>5. /\ st \in Store /\ st.status = "error" /\ st.layout = L /\ st.index = store.index
      /\ RowsTrue(st)
  <2> HIDE DEF blank
  <2> QED BY <1>4 DEF Finish, Store, IInv, MapTrue, SameMap, RowsTrue
<1>6. Answer(st, b, page, restored) BY <1>2 DEF BuildFails
<1> HIDE DEF st
<1>7. /\ asked' = None /\ store' = st /\ app' \in Reader /\ app'.view = app.view
      /\ app'.book = app.book /\ app'.layout = app.layout
  BY <1>3, <1>5, <1>6, AnswerFacts
<1>8. TypeOK' BY <1>1, <1>3, <1>5, <1>7 DEF IInv, TypeOK, Fault
<1>9. SlotsCut' BY <1>1 DEF IInv, SlotsCut
<1>10. AskedFits' /\ JobFits' BY <1>1, <1>7 DEF AskedFits, JobFits
<1>11. StoreFits' BY <1>1, <1>3, <1>5, <1>7 DEF StoreFits, Of, Opening
<1>12. StoreTrue' /\ MapTrue' /\ PageShown' BY <1>5, <1>7 DEF StoreTrue, MapTrue, PageShown
<1> QED BY <1>8, <1>9, <1>10, <1>11, <1>12 DEF IInv
\* The section of the page is loaded at the end of a build, or the store stays
\* blank because its file is not of this edition, or the cache is mixed.
LEMMA PublishKeeps == ASSUME IInv, PublishBook PROVE IInv'
<1>1. Building /\ job' = None /\ job.next = Len(Built) + 2 BY DEF PublishBook
<1>2. PICK b \in Books, L \in Layouts, page \in Nat, restored \in BOOLEAN :
        b = job.book /\ L = store.layout /\ page = job.page /\ restored = job.restored
  BY <1>1, BuildFacts
<1>3. /\ store \in Store /\ app \in Reader /\ card \in CardType /\ SlotsCut
      /\ left \in 0 .. MaxMishaps
      /\ app.book = b /\ (app.view # "home" => app.layout = L)
  BY <1>1, <1>2, BuildFacts
<1>4. /\ store.index = Ed(b, L) /\ store.text = Blank /\ store.pages = 0
      /\ ~restored => app.page = page
  BY <1>1, <1>2 DEF IInv, JobFits, Building
<1> DEFINE recs == Sections[b][L]
           asksFor == Lesser(page, PagesOf(recs) - 1)
           k == SectionFor(recs, asksFor)
           file == card.section[b][k]
           loaded == LoadSection(store, file, recs[k])
           st == IF loaded.hit THEN loaded.store
                 ELSE [loaded.store EXCEPT !.start = recs[1].start, !.count = recs[1].pages]
<1>5. /\ Follows(recs) /\ DOMAIN recs = 1 .. Len(recs) /\ DOMAIN recs \subseteq Slots
      /\ PagesOf(recs) = Total(b, L) /\ Total(b, L) \in Nat \ {0}
  BY TableFacts DEF Total
<1>6. /\ WriteBack(b, k, st, loaded.hit) \/ (Written(b, k, st, loaded.hit) /\ Fault)
      /\ \E t \in Track(st, b) \union TrackFails(st, b) :
           Answer(Finish(t, b, "ready"), b, page, restored)
  BY <1>2 DEF PublishBook, Ready
<1> HIDE DEF recs
<1>7. k \in DOMAIN recs /\ k \in Slots /\ k = SectionFor(recs, page)
  BY <1>5, SectionForPage
<1>8. file \in SectionFile \union Lost /\ FileCut(file, b, k)
  BY <1>3, <1>7 DEF CardType, SlotsCut
<1> HIDE DEF k
<1>9. /\ loaded.hit \in BOOLEAN /\ loaded.store \in Store
      /\ loaded.store.layout = L /\ loaded.store.index = Ed(b, L)
      /\ SameMap(loaded.store, store)
      /\ loaded.hit => /\ HoldsSection(loaded.store, b, L, k) /\ ~loaded.store.holdsToc
                       /\ Accepts(file, recs[k], L)
      /\ ~loaded.hit => \/ loaded.store = store /\ ~Accepts(file, recs[k], L)
                        \/ file \notin Lost /\ OtherCut(file.text, b, L, k)
  <2>1. k \in DOMAIN Sections[b][store.layout] /\ recs[k] = Sections[b][store.layout][k]
    BY <1>2, <1>7 DEF recs
  <2>2. loaded = LoadSection(store, file, recs[k]) OBVIOUS
  <2> HIDE DEF loaded, file
  <2> QED BY <1>2, <1>3, <1>4, <1>8, <2>1, <2>2, LoadSectionFacts
<1>10. /\ st \in Store /\ st.layout = L /\ st.index = Ed(b, L) /\ RowsTrue(st)
       /\ loaded.hit => st = loaded.store
       /\ ~loaded.hit => st.text = loaded.store.text /\ st.pages = loaded.store.pages
  <2>1. recs[1].start \in Nat /\ recs[1].pages \in Nat
    <3>1. Len(recs) \in Nat \ {0} BY <1>5, FollowsFacts
    <3>2. 1 \in 1 .. Len(recs) BY <3>1
    <3> QED BY <1>5, <3>2, FollowsFacts
  <2>2. RowsTrue(loaded.store) BY <1>9 DEF IInv, MapTrue, SameMap, RowsTrue
  <2> HIDE DEF loaded
  <2> QED BY <1>9, <2>1, <2>2 DEF Store, RowsTrue
<1> HIDE DEF st
<1>11. /\ card' \in CardType /\ SlotsCut' /\ left' \in 0 .. MaxMishaps /\ card'.toc = card.toc
       /\ ~loaded.hit => card' = card
  <2>1. loaded.hit => Accepts(card.section[b][k], Sections[b][st.layout][k], st.layout)
    BY <1>9, <1>10 DEF recs
  <2>2. k \in DOMAIN Sections[b][st.layout] BY <1>7, <1>10 DEF recs
  <2> HIDE DEF loaded
  <2> QED BY <1>3, <1>6, <1>9, <1>10, <2>1, <2>2, WriteBackFacts
<1> HIDE DEF loaded
<1>12. PICK tracked \in Track(st, b) \union TrackFails(st, b) :
         Answer(Finish(tracked, b, "ready"), b, page, restored)
  BY <1>6
<1> DEFINE done == Finish(tracked, b, "ready")
<1>13. /\ done \in Store /\ done.layout = L /\ done.index = Ed(b, L) /\ done.book = b
       /\ done.status = "ready" /\ done.text = st.text /\ done.pages = st.pages
       /\ done.start = st.start /\ done.count = st.count /\ done.holdsToc = st.holdsToc
       /\ RowsTrue(done) /\ (card.toc[b] = "whole" => MapOf(done, Ed(b, L)))
  <2>1. /\ tracked \in Store /\ tracked.layout = L /\ tracked.index = Ed(b, L)
        /\ tracked.text = st.text /\ tracked.pages = st.pages /\ tracked.start = st.start
        /\ tracked.count = st.count /\ tracked.holdsToc = st.holdsToc
        /\ RowsTrue(tracked) /\ (card.toc[b] = "whole" => MapOf(tracked, Ed(b, L)))
    BY <1>10, TrackFacts DEF Ed
  <2> HIDE DEF file, asksFor
  <2>2. /\ done \in Store /\ done.book = b /\ done.status = "ready"
        /\ done.layout = tracked.layout /\ done.index = tracked.index
        /\ done.text = tracked.text /\ done.pages = tracked.pages /\ done.start = tracked.start
        /\ done.count = tracked.count /\ done.holdsToc = tracked.holdsToc
        /\ done.map = tracked.map /\ done.rows = tracked.rows /\ done.unread = tracked.unread
    BY <2>1 DEF Finish, Store
  <2> HIDE DEF done
  <2> QED BY <2>1, <2>2 DEF RowsTrue, MapOf
<1> HIDE DEF done
<1>14. /\ asked' = None /\ store' = done /\ app' \in Reader /\ app'.view = app.view
       /\ app'.book = app.book /\ app'.layout = app.layout
  BY <1>3, <1>12, <1>13, AnswerFacts DEF done
<1>15. TypeOK' BY <1>1, <1>11, <1>13, <1>14 DEF TypeOK, CardType
<1>16. AskedFits' /\ JobFits' BY <1>1, <1>14 DEF AskedFits, JobFits
<1>17. StoreFits' BY <1>1, <1>3, <1>13, <1>14 DEF StoreFits, Of, Opening
<1>18. MapTrue' BY <1>1, <1>11, <1>13, <1>14 DEF MapTrue
<1>19. \/ loaded.hit /\ HoldsSection(done, b, L, k) /\ ~done.holdsToc
       \/ /\ ~Accepts(card'.section[b][k], recs[k], L)
          /\ done.text = Blank /\ done.pages = 0
       \/ Mixed(b, L)'
  <2>1. CASE loaded.hit
    <3>1. HoldsSection(done, b, L, k) BY <1>9, <1>10, <1>13, <2>1 DEF HoldsSection
    <3> QED BY <1>9, <1>10, <1>13, <2>1, <3>1
  <2>2. CASE ~loaded.hit /\ loaded.store = store /\ ~Accepts(file, recs[k], L)
    BY <1>4, <1>10, <1>11, <1>13, <2>2
  <2>3. CASE ~loaded.hit /\ file \notin Lost /\ OtherCut(file.text, b, L, k)
    <3>1. k \in DOMAIN Texts[b][L] BY <1>7, TableFacts DEF recs
    <3>2. Mixed(b, L)' BY <1>11, <2>3, <3>1 DEF Mixed
    <3> QED BY <3>2
  <2> QED BY <1>9, <2>1, <2>2, <2>3
<1>20. StoreTrue'
  <2>1. CASE HoldsSection(done, b, L, k)
    BY <1>2, <1>7, <1>13, <1>14, <2>1 DEF StoreTrue, StoreHolds, recs
  <2>2. CASE done.text = Blank /\ done.pages = 0
    BY <1>2, <1>13, <1>14, <2>2 DEF StoreTrue, StoreHolds
  <2>3. CASE Mixed(b, L)'
    <3>1. Mixed(store.book, store.layout)' BY <1>13, <1>14, <2>3 DEF Mixed
    <3> QED BY <1>2, <1>13, <1>14, <3>1 DEF StoreTrue, StoreHolds
  <2> QED BY <1>19, <2>1, <2>2, <2>3
<1>21. PageShown'
  <2>1. CASE HoldsSection(done, b, L, k) /\ ~done.holdsToc
    <3>1. HoldsSection(done, b, L, SectionFor(Sections[b][L], page)) BY <1>7, <2>1 DEF recs
    <3>2. Shows(b, L)' BY <1>3, <1>4, <1>12, <1>13, <2>1, <3>1, HoldsShows DEF done
    <3> QED BY <1>3, <1>13, <1>14, <3>2 DEF PageShown, Settled
  <2>2. CASE ~Accepts(card'.section[b][k], recs[k], L) /\ done.text = Blank /\ done.pages = 0
    <3>1. done.pages <= Total(b, L) BY <1>5, <2>2
    <3>2. SectionFor(Sections[b][L], Lesser(app'.page, Total(b, L) - 1)) = k
      BY <1>3, <1>4, <1>7, <1>12, <1>13, <3>1, AnswerShows DEF recs, done
    <3>3. Shows(b, L)' BY <1>14, <2>2, <3>2 DEF Shows, recs
    <3> QED BY <1>3, <1>13, <1>14, <3>3 DEF PageShown, Settled
  <2>3. CASE Mixed(b, L)'
    <3>1. Shows(b, L)' BY <2>3 DEF Shows
    <3> QED BY <1>3, <1>13, <1>14, <3>1 DEF PageShown, Settled
  <2> QED BY <1>19, <2>1, <2>2, <2>3
<1> QED BY <1>11, <1>15, <1>16, <1>17, <1>18, <1>20, <1>21 DEF IInv
-----------------------------------------------------------------------------
(* The catalog scan and the loss of power.                                 *)

\* The scan takes the index and the list, the sections stay.
LEMMA SweepKeeps == ASSUME IInv, NEW b \in Books, Sweep(b) PROVE IInv'
<1>1. /\ card \in CardType /\ UNCHANGED <<store, app, asked, job, left>>
      /\ card' = [card EXCEPT !.index[b] = Absent, !.toc[b] = "absent"]
  BY DEF IInv, TypeOK, CardType, Sweep
<1>2. /\ card' \in CardType /\ card'.section = card.section
      /\ \A c \in Books : card'.toc[c] = "whole" => card.toc[c] = "whole"
  BY <1>1 DEF CardType, Lost, TocFile
<1>3. TypeOK' BY <1>1, <1>2 DEF IInv, TypeOK, CardType
<1>4. SlotsCut' BY <1>2 DEF IInv, SlotsCut
<1>5. AskedFits' /\ StoreFits' BY <1>1 DEF IInv, AskedFits, StoreFits, Of, Opening
<1>6. JobFits' BY <1>1 DEF IInv, JobFits, Built
<1>7. StoreTrue' BY <1>1, <1>2 DEF IInv, StoreTrue, StoreHolds, Mixed
<1>8. MapTrue'
  <2> SUFFICES ASSUME store'.status = "ready" /\ job' = None /\ card'.toc[store'.book] = "whole"
               PROVE  MapOf(store, Ed(store.book, store.layout))
    BY <1>1 DEF IInv, MapTrue, MapOf, RowsTrue
  <2>1. store.book \in Books BY <1>1 DEF IInv, StoreTrue, StoreHolds
  <2>2. card.toc[store.book] = "whole" BY <1>1, <1>2, <2>1
  <2> QED BY <1>1, <2>2 DEF IInv, MapTrue
<1>9. PageShown' BY <1>1, <1>2 DEF IInv, PageShown, Settled, Shows, Leftover, Mixed
<1> QED BY <1>3, <1>4, <1>5, <1>6, <1>7, <1>8, <1>9 DEF IInv

\* Power is lost, in a build or not.
LEMMA PowerCutKeeps == ASSUME IInv, PowerCut PROVE IInv'
<1>1. /\ card \in CardType /\ SlotsCut /\ app \in Reader /\ left \in 0 .. MaxMishaps
      /\ MaxMishaps \in Nat
  BY BoundsAssumption DEF IInv, TypeOK, CardType
<1>2. PICK L \in Layouts : /\ app' = [app EXCEPT !.view = "home", !.layout = L, !.pages = 1]
                           /\ store' = EmptyStore(L)
  BY DEF PowerCut
<1>3. /\ app' \in Reader /\ app'.view = "home"
      /\ store' \in Store /\ store'.status = "empty" /\ RowsTrue(store')
      /\ asked' = None /\ job' = None
      /\ left' \in 0 .. MaxMishaps
  <2>1. app' \in Reader /\ app'.view = "home"
    <3> DEFINE next == [app EXCEPT !.view = "home", !.layout = L, !.pages = 1]
    <3>1. 1 \in Nat \ {0} OBVIOUS
    <3>2. next \in Reader /\ next.view = "home" BY <1>1, <3>1 DEF Reader
    <3>3. app' = next BY <1>2
    <3> HIDE DEF next
    <3> QED BY <3>2, <3>3
  <2>2. store' \in Store /\ store'.status = "empty" /\ RowsTrue(store')
    BY <1>2 DEF Store, EmptyStore, RowsTrue
  <2>3. asked' = None /\ job' = None /\ Fault BY DEF PowerCut
  <2>4. left' \in 0 .. MaxMishaps BY <1>1, <2>3 DEF Fault
  <2> QED BY <2>1, <2>2, <2>3, <2>4
<1>4. card' \in CardType /\ SlotsCut'
  <2>1. card' \in CardAfterCut BY DEF PowerCut
  <2>2. CASE card' = card BY <1>1, <2>2 DEF SlotsCut
  <2>3. CASE card' # card
    <3>1. Building BY <2>1, <2>3 DEF CardAfterCut, Building
    <3>2. job.book \in Books /\ \A k \in DOMAIN Built : k \in Slots BY <3>1, BuildFacts
    <3>3. CASE \E t \in TocFile : card' = [card EXCEPT !.toc[job.book] = t]
      <4>1. card' \in CardType /\ card'.section = card.section BY <1>1, <3>3 DEF CardType
      <4> QED BY <1>1, <4>1 DEF SlotsCut
    <3>4. CASE /\ job.next \in DOMAIN Built
               /\ card' = [card EXCEPT !.section[job.book][job.next] = Torn]
      <4>1. Torn \in Lost /\ FileCut(Torn, job.book, job.next) BY DEF FileCut, Lost
      <4>2. job.next \in Slots BY <3>2, <3>4
      <4> QED BY <1>1, <3>2, <3>4, <4>1, <4>2, PutFacts
    <3>5. CASE card' = PutIndex(Torn)
      <4>1. card' \in CardType /\ card'.section = card.section
        BY <1>1, <3>5 DEF CardType, PutIndex, Lost
      <4> QED BY <1>1, <4>1 DEF SlotsCut
    <3> QED BY <2>1, <2>3, <3>3, <3>4, <3>5 DEF CardAfterCut, TocFile
  <2> QED BY <2>2, <2>3
<1>5. TypeOK' BY <1>3, <1>4 DEF TypeOK, CardType
<1>6. AskedFits' /\ JobFits' /\ StoreFits' BY <1>3 DEF AskedFits, JobFits, StoreFits
<1>7. StoreTrue' /\ MapTrue' /\ PageShown' BY <1>3 DEF StoreTrue, MapTrue, PageShown
<1> QED BY <1>4, <1>5, <1>6, <1>7 DEF IInv

\* Nothing happens.
LEMMA StutterKeeps == ASSUME IInv, UNCHANGED vars PROVE IInv'
<1>1. UNCHANGED <<card, store, app, asked, job, left>> BY DEF vars
<1>2. TypeOK' /\ SlotsCut' BY <1>1 DEF IInv, TypeOK, SlotsCut
<1>3. AskedFits' /\ StoreFits' BY <1>1 DEF IInv, AskedFits, StoreFits, Of, Opening
<1>4. JobFits' BY <1>1 DEF IInv, JobFits, Built
<1>5. StoreTrue' /\ MapTrue' BY <1>1 DEF IInv, StoreTrue, StoreHolds, MapTrue, RowsTrue, MapOf, Mixed
<1>6. PageShown' BY <1>1 DEF IInv, PageShown, Settled, Shows, Leftover, Mixed
<1> QED BY <1>2, <1>3, <1>4, <1>5, <1>6 DEF IInv

\* Every step keeps the invariant.
LEMMA StepIInv == IInv /\ [Next]_vars => IInv'
<1> SUFFICES ASSUME IInv, [Next]_vars PROVE IInv' OBVIOUS
<1>1. CASE \/ \E b \in Books, place \in Places : Open(b, place)
           \/ Read \/ NextPage \/ PreviousPage \/ OpenChapters \/ BackToReading
           \/ \E c \in DOMAIN Lines[app.book][app.layout.size] : PickChapter(c)
  BY <1>1, KeyKeeps
<1>2. CASE GoHome \/ \E L \in Layouts : SetLayout(L) BY <1>2, AwayKeeps
<1>3. CASE ServePage BY <1>3, ServePageKeeps
<1>4. CASE ServeChapters BY <1>4, ServeChaptersKeeps
<1>5. CASE ServeJump BY <1>5, ServeJumpKeeps
<1>6. CASE BuildToc \/ BuildSection \/ BuildIndex BY <1>6, BuildStepKeeps
<1>7. CASE PublishBook BY <1>7, PublishKeeps
<1>8. CASE BuildFails BY <1>8, BuildFailsKeeps
<1>9. CASE \E b \in Books : Sweep(b) BY <1>9, SweepKeeps
<1>10. CASE PowerCut BY <1>10, PowerCutKeeps
<1>11. CASE UNCHANGED vars BY <1>11, StutterKeeps
<1> QED
  BY <1>1, <1>2, <1>3, <1>4, <1>5, <1>6, <1>7, <1>8, <1>9, <1>10, <1>11 DEF Next

\* The invariant holds always.
LEMMA Invariance == Spec => []IInv
<1>1. IInv /\ [Next]_vars => IInv' BY StepIInv
<1> QED BY <1>1, InitIInv, PTL DEF Spec
-----------------------------------------------------------------------------
(* What the display shows.                                                 *)

\* Every state of the card, the store, the app and the build is of its type:
\* a build never runs past its last section.
THEOREM TypeCorrect == Spec => []TypeOK
<1>1. IInv => TypeOK BY DEF IInv
<1> QED BY <1>1, Invariance, PTL

\* Whatever was interrupted, failed to be written or was laid out otherwise,
\* the page on the screen is the page asked for, leftovers of another spacing
\* and a chapter list cut in its body aside (try_load_v2_book_cache,
\* load_v2_section_by_global_page, draw_sd_reader_page).
THEOREM PageShownIsTrue == Spec => []PageIsTrue
<1>1. IInv => PageIsTrue
  <2> SUFFICES ASSUME IInv, Shown, ~Mixed(app.book, app.layout), ~Leftover(app.book, app.layout)
               PROVE  PageIsShown(app.book, app.layout)
    BY DEF PageIsTrue
  <2>1. /\ app \in Reader /\ store \in Store
        /\ Settled /\ store.status # "error" /\ ~Garbled
    BY DEF IInv, TypeOK, Shown
  <2>2. PICK b \in Books, L \in Layouts : b = app.book /\ L = app.layout BY <2>1 DEF Reader
  <2>3. store.status = "ready"
    BY <2>1 DEF IInv, StoreFits, Of, Settled, Opening
  <2>4. store.book = b /\ store.layout = L /\ Shows(b, L)
    BY <2>1, <2>2, <2>3 DEF IInv, PageShown
  <2> DEFINE recs == Sections[b][L]
             page == Lesser(app.page, Total(b, L) - 1)
             k == SectionFor(recs, page)
  <2>5. /\ Follows(recs) /\ DOMAIN recs = 1 .. Len(recs)
        /\ PagesOf(recs) = Total(b, L) /\ Total(b, L) \in Nat \ {0} /\ app.page \in Nat
    BY <2>1, TableFacts DEF Total, Reader
  <2>6. PageIsShown(b, L) <=>
          \/ Drawn /\ store.text \in Text /\ DrawnPage = BookPage(b, L, page)
          \/ ~Accepts(card.section[b][k], recs[k], L) /\ store.text = Blank
    BY DEF PageIsShown
  <2>7. \/ HoldsSection(store, b, L, k) /\ ~store.holdsToc
        \/ store.text = TocBytes /\ ~store.holdsToc
        \/ store.text = Blank /\ ~Accepts(card.section[b][k], recs[k], L)
    BY <2>2, <2>4 DEF Shows
  <2>8. CASE HoldsSection(store, b, L, k) /\ ~store.holdsToc
    <3>1. Drawn BY <2>2, <2>3, <2>4, <2>8 DEF Drawn
    <3>2. /\ k \in DOMAIN recs /\ store.start = recs[k].start /\ store.text \in Text
          /\ store.pages = PagesIn(store.text, L) /\ store.count = store.pages
          /\ store.text = Texts[b][L][k] \/ OtherCut(store.text, b, L, k)
      BY <2>8 DEF HoldsSection
    <3>3. store.text = Texts[b][L][k]
      <4>1. SectionFor(recs, store.start) = k
        <5> HIDE DEF k
        <5> QED BY <3>2, StartsItself
      <4> QED BY <2>2, <3>2, <4>1 DEF Leftover
    <3>4. /\ recs[k].start \in Nat /\ recs[k].pages \in Nat \ {0}
          /\ store.count = recs[k].pages
      <4> HIDE DEF k
      <4> QED BY <3>2, <3>3, TableFacts, PagesWithinTotal
    <3>5. page \in PageRange(recs[k])
      <4> HIDE DEF recs
      <4> QED BY <2>5, SectionForPage
    <3> DEFINE start == recs[k].start
               local == IF page < store.start THEN 0
                        ELSE Lesser(page - store.start, store.count - 1)
    <3>6. page \in start .. start + recs[k].pages - 1 BY <3>5 DEF PageRange
    <3>7. DrawnPage = PageOf(store.text, L, local) BY <2>2, <2>4 DEF DrawnPage
    <3>8. BookPage(b, L, page) = PageOf(Texts[b][L][k], L, page - start) BY DEF BookPage
    <3> HIDE DEF page, k
    <3>9. local = page - start BY <3>2, <3>4, <3>6 DEF Lesser
    <3> HIDE DEF local, start
    <3> QED BY <2>2, <2>6, <3>1, <3>2, <3>3, <3>7, <3>8, <3>9
  <2>9. CASE store.text = TocBytes /\ ~store.holdsToc BY <2>1, <2>9 DEF Garbled
  <2>10. CASE store.text = Blank /\ ~Accepts(card.section[b][k], recs[k], L)
    BY <2>2, <2>6, <2>10
  <2> QED BY <2>7, <2>8, <2>9, <2>10
<1> QED BY <1>1, Invariance, PTL

\* The chapter map in memory, its entries and its token, is that of the book and
\* layout on the screen, unless the chapter list is not on the card whole or one
\* failed to be read since (refresh_chapter_tracking, load_v2_toc_page_map).
THEOREM MapFollowsBook == Spec => []MapIsTheBooks
<1>1. IInv => MapIsTheBooks
  BY DEF IInv, MapIsTheBooks, MapTrue, MapOf, Settled, Drawn, Ed
<1> QED BY <1>1, Invariance, PTL

\* A jump goes to the page the chosen chapter begins on, looked up before the
\* section takes the place of the chapter list (display.rs:750).
THEOREM JumpFindsChapter == Spec => JumpLands
<1>1. ASSUME IInv,
             asked # None, asked.kind = "jump", ServeJump,
             store.holdsToc \/ card.toc[asked.book] = "whole", store.index # None
      PROVE  LET page == IF job' = None THEN app'.page ELSE job'.page
                 recs == Sections[asked.book][asked.layout]
                 k    == SectionFor(recs, page)
             IN \/ asked.chapter \notin {recs[i].spine : i \in DOMAIN recs}
                \/ recs[k].start = page /\ recs[k].spine = asked.chapter
  <2>1. TypeOK /\ SlotsCut /\ app \in Reader BY <1>1 DEF IInv, TypeOK
  <2>2. PICK st \in Store :
          /\ job = None /\ asked \in Command
          /\ st.layout = asked.layout /\ st.index = store.index /\ RowsTrue(st)
          /\ store.holdsToc \/ card.toc[asked.book] = "whole" => st.holdsToc
          /\ Load(st, asked.book, Target(st, asked.chapter), TRUE)
    BY <1>1, <2>1, JumpLoads DEF IInv, MapTrue, SameMap, RowsTrue
  <2>3. PICK b \in Books, L \in Layouts, c \in Nat :
          b = asked.book /\ L = asked.layout /\ c = asked.chapter
    BY <2>2 DEF Command
  <2> DEFINE recs == Sections[b][L]
             target == Target(st, c)
             page == IF job' = None THEN app'.page ELSE job'.page
  <2>4. st.index = Ed(b, L)
    BY <1>1, <2>2, <2>3 DEF IInv, StoreFits, Of, Opening
  <2>5. target = FirstOf(recs, c)
    <3>1. st.holdsToc BY <1>1, <2>2
    <3>2. target = ChapterStart(st.index, c) BY <3>1, TargetIsPage
    <3> QED BY <1>1, <2>2, <2>4, <3>2 DEF ChapterStart, Ed
  <2>6. target \in Nat BY TargetIsPage
  <2> HIDE DEF target
  <2>7. Load(st, b, target, TRUE) BY <2>2, <2>3 DEF target
  <2>8. \/ Loaded(L, b, target, TRUE)
        \/ LoadFailed(L, b, target, TRUE)
        \/ BuildBegins(L, b, target, TRUE)
    BY <2>1, <2>2, <2>3, <2>6, <2>7, LoadFacts
  <2>9. app.book = b BY <1>1, <2>3 DEF IInv, AskedFits
  <2>10. page = target
    <3>1. CASE Loaded(L, b, target, TRUE) \/ LoadFailed(L, b, target, TRUE)
      <4>1. /\ Answer(store', b, target, TRUE) /\ store' \in Store /\ job' = job
        BY <3>1 DEF Loaded, LoadFailed
      <4>2. app'.page = target BY <2>1, <2>6, <2>9, <4>1, AnswerFacts
      <4> QED BY <2>2, <4>1, <4>2
    <3>2. CASE BuildBegins(L, b, target, TRUE)
      <4>1. job' = [book |-> b, page |-> target, restored |-> TRUE, next |-> 0]
        BY <3>2 DEF BuildBegins
      <4>2. job' \in Build BY <2>6, <4>1, BoundsAssumption DEF Build
      <4>3. job' # None BY <4>2, NoneAssumption
      <4> QED BY <4>1, <4>3
    <3> QED BY <2>8, <3>1, <3>2
  <2> HIDE DEF page
  <2>11. Follows(recs) BY TableFacts
  <2> HIDE DEF recs
  <2>12. c \in {recs[i].spine : i \in DOMAIN recs} =>
           LET k == SectionFor(recs, page)
           IN  recs[k].start = page /\ recs[k].spine = c
    BY <2>5, <2>10, <2>11, FirstOfChapter
  <2> QED BY <2>3, <2>12 DEF recs, page
<1>2. Spec => []IInv BY Invariance
<1> DEFINE A == /\ asked # None /\ asked.kind = "jump" /\ ServeJump
                /\ store.holdsToc \/ card.toc[asked.book] = "whole"
                /\ store.index # None
                => LET page == IF job' = None THEN app'.page ELSE job'.page
                       recs == Sections[asked.book][asked.layout]
                       k    == SectionFor(recs, page)
                   IN \/ asked.chapter \notin {recs[i].spine : i \in DOMAIN recs}
                      \/ recs[k].start = page /\ recs[k].spine = asked.chapter
<1>3. IInv => A BY <1>1
<1>4. IInv /\ [Next]_vars => [A]_vars BY <1>3
<1>5. JumpLands <=> [][A]_vars BY DEF JumpLands
<1> HIDE DEF A
<1> QED BY <1>2, <1>4, <1>5, PTL DEF Spec
=============================================================================
