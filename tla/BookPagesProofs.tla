--------------------------- MODULE BookPagesProofs ---------------------------
(***************************************************************************)
(* The tables of a book's cache, for books of any length: what the builder *)
(* cuts a chapter into, and what the records of an index say of it.  The   *)
(* model computes the page counts with a recursive function and joins the  *)
(* chapters with a fold, so these facts are inductions.  An induction is   *)
(* done here on a set: the numbers for which a fact fails would have a     *)
(* least one.                                                              *)
(***************************************************************************)
EXTENDS BookCache, WellFoundedInduction, TLAPS

(* Induction on a set of numbers.                                          *)

Smaller == {pair \in Nat \X Nat : pair[1] < pair[2]}

\* A set of numbers has a least one.
LEMMA Least ==
  ASSUME NEW T, T \subseteq Nat, T # {}
  PROVE  \E x \in T : \A y \in T : x <= y
<1>1. IsWellFoundedOn(Smaller, Nat) BY NatLessThanWellFounded, Zenon DEF OpToRel, Smaller
<1>2. PICK x \in T : \A y \in T : ~ (<<y, x>> \in Smaller)
  BY <1>1, WFMin
<1>3. \A y \in T : ~(y < x) BY <1>2 DEF Smaller
<1> QED BY <1>3

\* A set that 0 is in and that each number takes the next one into.
LEMMA Climb ==
  ASSUME NEW n \in Nat, NEW S, 0 \in S, \A i \in 0 .. n : i < n /\ i \in S => i + 1 \in S
  PROVE  0 .. n \subseteq S
<1> DEFINE T == (0..n) \ S
<1> SUFFICES ASSUME T # {} PROVE FALSE OBVIOUS
<1>1. T \subseteq Nat OBVIOUS
<1> HIDE DEF T
<1>2. PICK x \in T : \A y \in T : x <= y BY <1>1, Least
<1> USE DEF T
<1>3. x # 0 /\ x - 1 \in 0..n /\ x - 1 < n OBVIOUS
<1>4. x - 1 \in S BY <1>2, <1>3
<1> QED BY <1>3, <1>4

-----------------------------------------------------------------------------
(* Lines, pages and sections.                                              *)

\* What a division of whole numbers yields.
LEMMA Quotient ==
  ASSUME NEW i \in Nat, NEW j \in Nat \ {0}
  PROVE  i \div j \in Nat /\ (i >= j => i \div j >= 1)
OBVIOUS

\* Something takes a page at least.
LEMMA CeilPositive ==
  ASSUME NEW i \in Nat \ {0}, NEW j \in Nat \ {0}
  PROVE  Ceil(i, j) \in Nat \ {0}
<1>1. i + j - 1 \in Nat /\ i + j - 1 >= j OBVIOUS
<1>2. (i + j - 1) \div j \in Nat /\ (i + j - 1) \div j >= 1 BY <1>1, Quotient
<1> QED BY <1>2 DEF Ceil

\* A full section has a line at least: the builder gets on with the chapter.
LEMMA CutPositive ==
  ASSUME NEW L \in Layouts PROVE CutAt(L) \in Nat \ {0}
<1>1. Rows[L] \in Nat \ {0} /\ Arena \in Nat \ {0} BY BooksAssumption, BoundsAssumption
<1>2. CASE Arena > Rows[L]
  <2>1. Arena - 1 \in Nat /\ Arena - 1 >= Rows[L] BY <1>1, <1>2
  <2> DEFINE q == (Arena - 1) \div Rows[L]
  <2>2. q \in Nat /\ q >= 1 BY <1>1, <2>1, Quotient
  <2> HIDE DEF q
  <2>3. q * Rows[L] \in Nat \ {0} BY <1>1, <2>2
  <2> QED BY <1>2, <2>3 DEF CutAt, q
<1>3. CASE ~(Arena > Rows[L]) BY <1>1, <1>3 DEF CutAt
<1> QED BY <1>2, <1>3

\* A part of a chapter: of a line at least.
Piece(b, z) ==
  {t \in [book : {b}, size : {z}, spine : Nat, from : Nat, to : Nat] : t.from <= t.to}

\* A chapter is cut into one section at least, none of them empty.
LEMMA ChapterPieces ==
  ASSUME NEW b \in Books, NEW L \in Layouts, NEW c \in DOMAIN Lines[b][L.size]
  PROVE  ChapterTexts(b, L, c) \in Seq(Piece(b, L.size)) \ {<<>>}
<1> DEFINE lines == Lines[b][L.size][c]
           C == CutAt(L)
           full == IF lines < Arena THEN 0 ELSE (lines - Arena) \div C + 1
           cut(i) == [book |-> b, size |-> L.size, spine |-> c,
                      from |-> (i - 1) * C + 1, to |-> i * C]
           cuts == [i \in 1 .. full |-> cut(i)]
           rest == [book |-> b, size |-> L.size, spine |-> c,
                    from |-> full * C + 1, to |-> lines]
<1>1. lines \in Nat \ {0} /\ c \in Nat
  <2>1. L.size \in Sizes BY BooksAssumption
  <2>2. Lines[b][L.size] \in Seq(Nat \ {0}) BY <2>1, BooksAssumption
  <2> QED BY <2>2
<1>2. C \in Nat \ {0} BY CutPositive
<1>3. Arena \in Nat \ {0} BY BoundsAssumption
<1>4. ChapterTexts(b, L, c) = IF full * C < lines THEN Append(cuts, rest) ELSE cuts
  BY DEF ChapterTexts
<1> HIDE DEF lines, C
<1>5. full \in Nat
  <2>1. CASE lines < Arena BY <2>1
  <2>2. CASE ~(lines < Arena)
    <3>1. lines - Arena \in Nat BY <1>1, <1>3, <2>2
    <3>2. (lines - Arena) \div C \in Nat BY <1>2, <3>1, Quotient
    <3> QED BY <3>2, <2>2
  <2> QED BY <2>1, <2>2
<1>6. lines >= Arena => full >= 1
  <2> SUFFICES ASSUME lines >= Arena PROVE full >= 1 OBVIOUS
  <2>1. lines - Arena \in Nat /\ ~(lines < Arena) BY <1>1, <1>3
  <2>2. (lines - Arena) \div C \in Nat BY <1>2, <2>1, Quotient
  <2> QED BY <2>1, <2>2
<1>7. full = 0 => full * C < lines BY <1>1, <1>2
<1>8. full * C \in Nat BY <1>2, <1>5
<1>9. \A i \in 1 .. full : cut(i) \in Piece(b, L.size)
  <2> SUFFICES ASSUME NEW i \in 1 .. full PROVE cut(i) \in Piece(b, L.size) OBVIOUS
  <2> HIDE DEF full
  <2>1. i \in Nat \ {0} /\ i - 1 \in Nat BY <1>5
  <2>2. (i - 1) * C \in Nat /\ i * C \in Nat BY <1>2, <2>1
  <2>3. i * C = (i - 1) * C + C BY <1>2, <2>1
  <2>4. (i - 1) * C + 1 <= i * C BY <1>2, <2>2, <2>3
  <2> QED BY <1>1, <2>2, <2>4 DEF Piece
<1> HIDE DEF full
<1>10. cuts \in Seq(Piece(b, L.size)) /\ Len(cuts) = full
  <2> HIDE DEF cut
  <2> QED BY <1>5, <1>9
<1> HIDE DEF cuts, cut
<1>11. CASE full * C < lines
  <2>1. rest \in Piece(b, L.size) BY <1>1, <1>8, <1>11 DEF Piece
  <2> QED BY <1>4, <1>10, <1>11, <2>1
<1>12. CASE ~(full * C < lines)
  <2>1. cuts # <<>> BY <1>7, <1>10, <1>12
  <2> QED BY <1>4, <1>10, <1>12, <2>1
<1> QED BY <1>11, <1>12

\* The function FlattenSeq chooses is there: it can be extended by a sequence.
LEMMA FlattenDefined ==
  ASSUME NEW ss, Len(ss) \in Nat \ {0}
  PROVE  \E f : /\ f = [i \in 1 .. Len(ss) |-> IF i = 1 THEN ss[i] ELSE f[i - 1] \o ss[i]]
                /\ FlattenSeq(ss) = f[Len(ss)]
<1> DEFINE n == Len(ss)
           Good(f, m) == f = [i \in 1 .. m |-> IF i = 1 THEN ss[i] ELSE f[i - 1] \o ss[i]]
           S == {m \in 0 .. n : \E f : Good(f, m)}
<1>1. 0 \in S
  <2>1. Good([i \in 1 .. 0 |-> 0], 0) OBVIOUS
  <2>2. \E f : Good(f, 0) BY <2>1, Zenon
  <2> HIDE DEF Good
  <2> QED BY <2>2
<1>2. \A m \in 0 .. n : m < n /\ m \in S => m + 1 \in S
  <2> SUFFICES ASSUME NEW m \in 0 .. n, m < n, m \in S PROVE m + 1 \in S OBVIOUS
  <2>1. PICK f : Good(f, m) OBVIOUS
  <2> DEFINE last == IF m + 1 = 1 THEN ss[m + 1] ELSE f[m] \o ss[m + 1]
             g == [i \in 1 .. m + 1 |-> IF i <= m THEN f[i] ELSE last]
  <2> HIDE DEF last
  <2>2. \A i \in 1 .. m : g[i] = f[i] OBVIOUS
  <2>3. g[m + 1] = last OBVIOUS
  <2>4. \A i \in 1 .. m : f[i] = IF i = 1 THEN ss[i] ELSE f[i - 1] \o ss[i] BY <2>1
  <2>5. \A i \in 1 .. m + 1 : g[i] = IF i = 1 THEN ss[i] ELSE g[i - 1] \o ss[i]
    <3> HIDE DEF g
    <3>1. SUFFICES ASSUME NEW i \in 1 .. m + 1
                   PROVE  g[i] = IF i = 1 THEN ss[i] ELSE g[i - 1] \o ss[i]
      OBVIOUS
    <3>2. CASE i = m + 1
      <4>1. CASE m = 0 BY <2>3, <3>2, <4>1 DEF last
      <4>2. CASE m # 0
        <5>1. m \in 1 .. m /\ i # 1 /\ i - 1 = m /\ m + 1 # 1 BY <3>2, <4>2
        <5>2. g[m] = f[m] BY <5>1, <2>2
        <5> QED BY <2>3, <3>2, <5>1, <5>2 DEF last
      <4> QED BY <4>1, <4>2
    <3>3. CASE i # m + 1
      <4>1. i \in 1 .. m BY <3>3
      <4>2. CASE i = 1 BY <2>2, <2>4, <4>1, <4>2
      <4>3. CASE i # 1
        <5>1. i - 1 \in 1 .. m BY <4>1, <4>3
        <5> QED BY <2>2, <2>4, <4>1, <4>3, <5>1
      <4> QED BY <4>2, <4>3
    <3> QED BY <3>2, <3>3
  <2>6. g = [i \in 1 .. m + 1 |-> g[i]] OBVIOUS
  <2> HIDE DEF g
  <2>7. Good(g, m + 1) BY <2>5, <2>6
  <2>8. m + 1 \in 0 .. n OBVIOUS
  <2> QED BY <2>7, <2>8
<1> HIDE DEF S
<1>3. n \in Nat /\ n \in 0 .. n OBVIOUS
<1>4. n \in S BY <1>1, <1>2, <1>3, Climb
<1>5. \E f : Good(f, n) BY <1>4 DEF S
<1> DEFINE F == CHOOSE f : Good(f, n)
<1>6. Good(F, n) BY <1>5
<1>7. FlattenSeq(ss) = F[n] BY DEF FlattenSeq
<1> QED BY <1>6, <1>7

\* Sequences that are not empty are joined to one.
LEMMA FlattenPieces ==
  ASSUME NEW T, NEW ss \in Seq(Seq(T) \ {<<>>}), ss # <<>>
  PROVE  FlattenSeq(ss) \in Seq(T) \ {<<>>}
<1> DEFINE n == Len(ss)
<1>1. n \in Nat \ {0} OBVIOUS
<1>2. PICK f : /\ f = [i \in 1 .. n |-> IF i = 1 THEN ss[i] ELSE f[i - 1] \o ss[i]]
               /\ FlattenSeq(ss) = f[n]
  BY <1>1, FlattenDefined
<1>3. \A i \in 1 .. n : ss[i] \in Seq(T) \ {<<>>} OBVIOUS
<1> HIDE DEF n
<1> DEFINE S == {i \in 0 .. n : i # 0 => f[i] \in Seq(T) \ {<<>>}}
<1>4. \A i \in 1 .. n : f[i] = IF i = 1 THEN ss[i] ELSE f[i - 1] \o ss[i] BY <1>2
<1>5. \A i \in 0 .. n : i < n /\ i \in S => i + 1 \in S
  <2> SUFFICES ASSUME NEW i \in 0 .. n, i < n, i \in S PROVE i + 1 \in S OBVIOUS
  <2>1. i + 1 \in 1 .. n /\ i + 1 - 1 = i BY <1>1
  <2>2. ss[i + 1] \in Seq(T) \ {<<>>} BY <1>3, <2>1
  <2>3. f[i + 1] = IF i + 1 = 1 THEN ss[i + 1] ELSE f[i] \o ss[i + 1] BY <1>4, <2>1
  <2>4. f[i + 1] \in Seq(T) \ {<<>>}
    <3>1. CASE i = 0 BY <2>2, <2>3, <3>1
    <3>2. CASE i # 0
      <4>1. f[i] \in Seq(T) \ {<<>>} BY <3>2
      <4>2. f[i + 1] = f[i] \o ss[i + 1]
        <5>1. i + 1 # 1 BY <1>1, <3>2
        <5> QED BY <2>3, <5>1
      <4>3. Len(f[i] \o ss[i + 1]) = Len(f[i]) + Len(ss[i + 1]) BY <2>2, <4>1
      <4>4. Len(f[i]) # 0 /\ Len(ss[i + 1]) # 0 BY <2>2, <4>1
      <4>5. f[i] \o ss[i + 1] \in Seq(T) BY <2>2, <4>1
      <4>6. Len(f[i]) \in Nat /\ Len(ss[i + 1]) \in Nat BY <2>2, <4>1
      <4>7. Len(f[i] \o ss[i + 1]) # 0
        <5> DEFINE x == Len(f[i])
                   y == Len(ss[i + 1])
                   w == Len(f[i] \o ss[i + 1])
        <5> HIDE DEF x, y, w
        <5>1. w = x + y /\ x # 0 /\ x \in Nat /\ y \in Nat BY <4>3, <4>4, <4>6 DEF x, y, w
        <5>2. w # 0 BY <5>1
        <5> QED BY <5>2 DEF w
      <4> QED BY <4>2, <4>5, <4>7
    <3> QED BY <3>1, <3>2
  <2> QED BY <2>1, <2>4
<1>6. 0 \in S BY <1>1
<1> HIDE DEF S
<1>7. n \in Nat /\ n \in 0 .. n /\ n # 0 BY <1>1
<1>8. n \in S BY <1>5, <1>6, <1>7, Climb
<1> QED BY <1>2, <1>7, <1>8 DEF S

\* A book has one section at least, and no more than a table holds.
LEMMA TextsAreSequences ==
  ASSUME NEW b \in Books, NEW L \in Layouts
  PROVE  /\ Texts[b][L] \in Seq(Piece(b, L.size))
         /\ Len(Texts[b][L]) \in 1 .. MaxSections
<1> DEFINE z == L.size
           all == [c \in DOMAIN Lines[b][z] |-> ChapterTexts(b, L, c)]
           flat == FlattenSeq(all)
<1>1. Lines[b][z] \in Seq(Nat \ {0}) /\ Lines[b][z] # <<>>
  <2>1. z \in Sizes BY BooksAssumption
  <2> HIDE DEF z
  <2> QED BY <2>1, BooksAssumption
<1>2. \A c \in DOMAIN Lines[b][z] : ChapterTexts(b, L, c) \in Seq(Piece(b, z)) \ {<<>>}
  BY ChapterPieces
<1>3. all \in Seq(Seq(Piece(b, z)) \ {<<>>}) /\ all # <<>>
  <2> HIDE DEF z
  <2>1. DOMAIN Lines[b][z] = 1 .. Len(Lines[b][z]) /\ Len(Lines[b][z]) \in Nat \ {0} BY <1>1
  <2>2. all \in [1 .. Len(Lines[b][z]) -> Seq(Piece(b, z)) \ {<<>>}] BY <1>2, <2>1
  <2>3. DOMAIN all = DOMAIN Lines[b][z] /\ DOMAIN all # {}
    <3>1. 1 \in 1 .. Len(Lines[b][z]) BY <2>1
    <3> QED BY <2>1, <3>1
  <2> QED BY <2>1, <2>2, <2>3
<1> HIDE DEF all
<1>4. flat \in Seq(Piece(b, z)) \ {<<>>} BY <1>3, FlattenPieces
<1>5. Texts[b][L] = SubSeq(flat, 1, Lesser(Len(flat), MaxSections)) BY DEF Texts, all
<1> HIDE DEF flat
<1>6. MaxSections \in Nat \ {0} BY BoundsAssumption
<1>7. Len(flat) \in Nat \ {0} BY <1>4
<1>8. Lesser(Len(flat), MaxSections) \in 1 .. MaxSections
      /\ Lesser(Len(flat), MaxSections) <= Len(flat)
  BY <1>6, <1>7 DEF Lesser
<1> QED BY <1>4, <1>5, <1>7, <1>8

\* Every section has a page.
LEMMA PagesInPositive ==
  ASSUME NEW b, NEW z, NEW text \in Piece(b, z), NEW L \in Layouts
  PROVE  PagesIn(text, L) \in Nat \ {0}
<1>1. text.from \in Nat /\ text.to \in Nat /\ text.from <= text.to BY DEF Piece
<1>2. text.to - text.from + 1 \in Nat \ {0} BY <1>1
<1>3. Rows[L] \in Nat \ {0} BY BooksAssumption
<1> QED BY <1>2, <1>3, CeilPositive DEF PagesIn

\* The function that counts the pages before a section is there.
LEMMA RecordsDefined ==
  ASSUME NEW texts, NEW L, Len(texts) \in Nat
  PROVE  \E page :
           /\ page = [k \in 0 .. Len(texts) |->
                        IF k = 0 THEN 0 ELSE page[k - 1] + PagesIn(texts[k], L)]
           /\ Records(texts, L) =
                [k \in DOMAIN texts |-> [spine |-> texts[k].spine, start |-> page[k - 1],
                                         pages |-> page[k] - page[k - 1]]]
<1> DEFINE n == Len(texts)
           Good(f, m) == f = [k \in 0 .. m |->
                                IF k = 0 THEN 0 ELSE f[k - 1] + PagesIn(texts[k], L)]
           S == {m \in 0 .. n : \E f : Good(f, m)}
<1>1. 0 \in S
  <2> DEFINE f == [k \in 0 .. 0 |-> 0]
  <2>1. Good(f, 0)
    <3>1. \A k \in 0 .. 0 : f[k] = IF k = 0 THEN 0 ELSE f[k - 1] + PagesIn(texts[k], L)
      OBVIOUS
    <3> QED BY <3>1
  <2>2. \E g : Good(g, 0) BY <2>1, Zenon
  <2> HIDE DEF Good
  <2> QED BY <2>2
<1>2. \A m \in 0 .. n : m < n /\ m \in S => m + 1 \in S
  <2> SUFFICES ASSUME NEW m \in 0 .. n, m < n, m \in S PROVE m + 1 \in S OBVIOUS
  <2>1. PICK f : Good(f, m) OBVIOUS
  <2> DEFINE last == f[m] + PagesIn(texts[m + 1], L)
             g == [k \in 0 .. m + 1 |-> IF k <= m THEN f[k] ELSE last]
  <2>2. \A k \in 0 .. m : f[k] = IF k = 0 THEN 0 ELSE f[k - 1] + PagesIn(texts[k], L) BY <2>1
  <2> HIDE DEF last, Good
  <2>3. \A k \in 0 .. m : g[k] = f[k] OBVIOUS
  <2>4. g[m + 1] = last OBVIOUS
  <2>5. g = [k \in 0 .. m + 1 |-> g[k]] OBVIOUS
  <2> HIDE DEF g
  <2>6. \A k \in 0 .. m + 1 : g[k] = IF k = 0 THEN 0 ELSE g[k - 1] + PagesIn(texts[k], L)
    <3>1. SUFFICES ASSUME NEW k \in 0 .. m + 1
                   PROVE  g[k] = IF k = 0 THEN 0 ELSE g[k - 1] + PagesIn(texts[k], L)
      OBVIOUS
    <3>2. CASE k = m + 1
      <4>1. k # 0 /\ k - 1 = m /\ m \in 0 .. m BY <3>2
      <4> QED BY <2>3, <2>4, <3>2, <4>1 DEF last
    <3>3. CASE k # m + 1
      <4>1. k \in 0 .. m BY <3>3
      <4>2. CASE k = 0 BY <2>2, <2>3, <4>1, <4>2
      <4>3. CASE k # 0
        <5>1. k - 1 \in 0 .. m BY <4>1, <4>3
        <5> QED BY <2>2, <2>3, <4>1, <4>3, <5>1
      <4> QED BY <4>2, <4>3
    <3> QED BY <3>2, <3>3
  <2>7. Good(g, m + 1) BY <2>5, <2>6 DEF Good
  <2>8. m + 1 \in 0 .. n OBVIOUS
  <2> QED BY <2>7, <2>8
<1> HIDE DEF S
<1>3. n \in Nat /\ n \in 0 .. n OBVIOUS
<1>4. n \in S BY <1>1, <1>2, <1>3, Climb
<1>5. \E f : Good(f, n) BY <1>4 DEF S
<1> DEFINE F == CHOOSE f : Good(f, n)
<1>6. Good(F, n) BY <1>5
<1>7. Records(texts, L) = [k \in DOMAIN texts |-> [spine |-> texts[k].spine, start |-> F[k - 1],
                                                   pages |-> F[k] - F[k - 1]]]
  BY DEF Records
<1> QED BY <1>6, <1>7

-----------------------------------------------------------------------------
(* The records of an index.                                                *)

\* The sections follow each other without a gap, from page 0.
Follows(recs) ==
  /\ recs \in Seq([spine : Nat, start : Nat, pages : Nat \ {0}]) /\ recs # <<>>
  /\ recs[1].start = 0
  /\ \A k \in 1 .. Len(recs) - 1 : recs[k + 1].start = recs[k].start + recs[k].pages

\* The types of such records, one by one.
LEMMA FollowsFacts ==
  ASSUME NEW recs, Follows(recs)
  PROVE  /\ Len(recs) \in Nat \ {0} /\ DOMAIN recs = 1 .. Len(recs)
         /\ \A i \in 1 .. Len(recs) : /\ recs[i].start \in Nat /\ recs[i].pages \in Nat \ {0}
                                      /\ recs[i].spine \in Nat
<1> DEFINE R == [spine : Nat, start : Nat, pages : Nat \ {0}]
<1>1. recs \in Seq(R) /\ recs # <<>> BY DEF Follows
<1> HIDE DEF R
<1>2. Len(recs) \in Nat \ {0} /\ DOMAIN recs = 1 .. Len(recs) BY <1>1
<1>3. \A i \in 1 .. Len(recs) : recs[i] \in R BY <1>1
<1> QED BY <1>2, <1>3 DEF R

\* The index of a book lists its sections in order, each with the chapter and the
\* pages of its text (flush_section).
LEMMA SectionsFollow ==
  ASSUME NEW b \in Books, NEW L \in Layouts
  PROVE  /\ Follows(Sections[b][L])
         /\ Len(Sections[b][L]) = Len(Texts[b][L])
         /\ \A k \in 1 .. Len(Texts[b][L]) :
              /\ Sections[b][L][k].spine = Texts[b][L][k].spine
              /\ Sections[b][L][k].pages = PagesIn(Texts[b][L][k], L)
<1> DEFINE texts == Texts[b][L]
           n == Len(texts)
           recs == Sections[b][L]
<1>1. texts \in Seq(Piece(b, L.size)) /\ n \in 1 .. MaxSections BY TextsAreSequences
<1>2. n \in Nat \ {0}
  <2> HIDE DEF n
  <2> QED BY <1>1, BoundsAssumption
<1>3. recs = Records(texts, L) BY DEF Sections
<1> HIDE DEF texts, recs
<1>4. PICK page :
        /\ page = [k \in 0 .. n |-> IF k = 0 THEN 0 ELSE page[k - 1] + PagesIn(texts[k], L)]
        /\ Records(texts, L) =
             [k \in DOMAIN texts |-> [spine |-> texts[k].spine, start |-> page[k - 1],
                                      pages |-> page[k] - page[k - 1]]]
  <2> HIDE DEF texts
  <2>1. Len(texts) \in Nat BY <1>2
  <2> QED BY <2>1, RecordsDefined
<1>5. DOMAIN texts = 1 .. n BY <1>1
<1>6. \A k \in 1 .. n : texts[k] \in Piece(b, L.size) BY <1>1, <1>5
<1>7. \A k \in 1 .. n : PagesIn(texts[k], L) \in Nat \ {0} BY <1>6, PagesInPositive
<1>8. \A k \in 1 .. n : texts[k].spine \in Nat BY <1>6 DEF Piece
<1> HIDE DEF n
<1>9. \A k \in 0 .. n : page[k] = IF k = 0 THEN 0 ELSE page[k - 1] + PagesIn(texts[k], L)
  BY <1>4
<1> DEFINE S == {k \in 0 .. n : page[k] \in Nat}
<1>10. 0 .. n \subseteq S
  <2>1. 0 \in S BY <1>2, <1>9
  <2>2. \A k \in 0 .. n : k < n /\ k \in S => k + 1 \in S
    <3> SUFFICES ASSUME NEW k \in 0 .. n, k < n, k \in S PROVE k + 1 \in S OBVIOUS
    <3>1. k + 1 \in 1 .. n /\ k + 1 # 0 /\ k + 1 - 1 = k /\ k + 1 \in 0 .. n BY <1>2
    <3>2. page[k + 1] = page[k] + PagesIn(texts[k + 1], L) BY <1>9, <3>1
    <3>3. PagesIn(texts[k + 1], L) \in Nat BY <1>7, <3>1
    <3> QED BY <3>1, <3>2, <3>3
  <2>3. n \in Nat BY <1>2
  <2> HIDE DEF S
  <2> QED BY <2>1, <2>2, <2>3, Climb
<1>11. \A k \in 1 .. n : k - 1 \in 0 .. n /\ k \in 0 .. n /\ k # 0 BY <1>2
<1>12. \A k \in 1 .. n : page[k - 1] \in Nat /\ page[k] \in Nat BY <1>10, <1>11
<1>13. \A k \in 1 .. n : page[k] = page[k - 1] + PagesIn(texts[k], L) BY <1>9, <1>11
<1>14. recs = [k \in 1 .. n |-> [spine |-> texts[k].spine, start |-> page[k - 1],
                                 pages |-> page[k] - page[k - 1]]]
  BY <1>3, <1>4, <1>5
<1>15. \A k \in 1 .. n : /\ recs[k].spine = texts[k].spine
                         /\ recs[k].start = page[k - 1]
                         /\ recs[k].pages = page[k] - page[k - 1]
  BY <1>14
<1>16. \A k \in 1 .. n : recs[k].pages = PagesIn(texts[k], L) BY <1>7, <1>12, <1>13, <1>15
<1>17. recs \in [1 .. n -> [spine : Nat, start : Nat, pages : Nat \ {0}]]
  <2>1. \A k \in 1 .. n :
          [spine |-> texts[k].spine, start |-> page[k - 1], pages |-> page[k] - page[k - 1]]
            \in [spine : Nat, start : Nat, pages : Nat \ {0}]
    <3> TAKE k \in 1 .. n
    <3>1. page[k] - page[k - 1] \in Nat \ {0} BY <1>7, <1>15, <1>16
    <3> QED BY <1>8, <1>12, <3>1
  <2> QED BY <1>14, <2>1
<1>18. recs \in Seq([spine : Nat, start : Nat, pages : Nat \ {0}]) /\ Len(recs) = n
  <2> DEFINE R == [spine : Nat, start : Nat, pages : Nat \ {0}]
  <2> HIDE DEF R
  <2>1. recs \in [1 .. n -> R] BY <1>17 DEF R
  <2>2. recs \in Seq(R) /\ Len(recs) = n BY <1>2, <2>1
  <2> QED BY <2>2 DEF R
<1>19. recs[1].start = 0
  <2>1. 1 \in 1 .. n /\ 1 - 1 = 0 /\ 0 \in 0 .. n BY <1>2
  <2> QED BY <1>9, <1>15, <2>1
<1>20. \A k \in 1 .. n - 1 : recs[k + 1].start = recs[k].start + recs[k].pages
  <2> TAKE k \in 1 .. n - 1
  <2>1. k \in 1 .. n /\ k + 1 \in 1 .. n /\ k + 1 - 1 = k BY <1>2
  <2>2. recs[k + 1].start = page[k] BY <1>15, <2>1
  <2> QED BY <1>12, <1>15, <2>1, <2>2
<1>21. recs # <<>> BY <1>2, <1>18
<1>22. Follows(recs) BY <1>18, <1>19, <1>20, <1>21 DEF Follows
<1> QED BY <1>15, <1>16, <1>18, <1>22 DEF n, texts, recs

PageRange(rec) == rec.start .. rec.start + rec.pages - 1

\* A section begins where all before it have ended.
LEMMA LaterStartsLater ==
  ASSUME NEW recs, Follows(recs), NEW j \in 1 .. Len(recs), NEW k \in 1 .. Len(recs), j < k
  PROVE  recs[j].start + recs[j].pages <= recs[k].start
<1> DEFINE n == Len(recs)
           S == {i \in 0 .. n : j < i => recs[j].start + recs[j].pages <= recs[i].start}
<1>1. n \in Nat /\ \A i \in 1 .. n : recs[i].start \in Nat /\ recs[i].pages \in Nat
  BY FollowsFacts
<1>2. \A i \in 1 .. n - 1 : recs[i + 1].start = recs[i].start + recs[i].pages BY DEF Follows
<1> HIDE DEF n
<1>3. 0 \in S BY <1>1 DEF n
<1>4. \A i \in 0 .. n : i < n /\ i \in S => i + 1 \in S
  <2> SUFFICES ASSUME NEW i \in 0 .. n, i < n, i \in S, j < i + 1
               PROVE  recs[j].start + recs[j].pages <= recs[i + 1].start
    BY <1>1
  <2>1. i \in 1 .. n - 1 /\ i \in 1 .. n /\ i + 1 \in 1 .. n BY <1>1 DEF n
  <2>2. recs[i + 1].start = recs[i].start + recs[i].pages BY <1>2, <2>1
  <2>3. CASE j = i BY <1>1, <2>1, <2>2, <2>3
  <2>4. CASE j # i
    <3>1. j < i BY <2>1, <2>4 DEF n
    <3>2. recs[j].start + recs[j].pages <= recs[i].start BY <3>1
    <3>3. recs[i].start \in Nat /\ recs[i].pages \in Nat /\ recs[j].start + recs[j].pages \in Nat
      BY <1>1, <2>1 DEF n
    <3> QED BY <2>2, <3>2, <3>3
  <2> QED BY <2>3, <2>4
<1> HIDE DEF S
<1>5. 0 .. n \subseteq S BY <1>1, <1>3, <1>4, Climb
<1>6. k \in 0 .. n BY <1>1 DEF n
<1> QED BY <1>5, <1>6 DEF S

\* A page in a section is in no other.
LEMMA SectionOfPage ==
  ASSUME NEW recs, Follows(recs), NEW k \in 1 .. Len(recs), NEW page \in PageRange(recs[k])
  PROVE  SectionFor(recs, page) = k
<1>1. Len(recs) \in Nat /\ DOMAIN recs = 1 .. Len(recs)
      /\ \A i \in 1 .. Len(recs) : recs[i].start \in Nat /\ recs[i].pages \in Nat
  BY FollowsFacts
<1> DEFINE on == {i \in DOMAIN recs : page \in recs[i].start .. recs[i].start + recs[i].pages - 1}
<1>2. k \in on BY <1>1 DEF PageRange
<1>3. \A i \in on : i = k
  <2> SUFFICES ASSUME NEW i \in on, i # k PROVE FALSE OBVIOUS
  <2>1. i \in 1 .. Len(recs) /\ page \in recs[i].start .. recs[i].start + recs[i].pages - 1 BY <1>1
  <2>2. page \in recs[k].start .. recs[k].start + recs[k].pages - 1 BY DEF PageRange
  <2>3. CASE i < k
    <3>1. recs[i].start + recs[i].pages <= recs[k].start BY <2>1, <2>3, LaterStartsLater
    <3> QED BY <1>1, <2>1, <2>2, <3>1
  <2>4. CASE k < i
    <3>1. recs[k].start + recs[k].pages <= recs[i].start BY <2>1, <2>4, LaterStartsLater
    <3> QED BY <1>1, <2>1, <2>2, <3>1
  <2> QED BY <1>1, <2>1, <2>3, <2>4
<1> HIDE DEF on
<1>4. on # {} /\ (CHOOSE i \in on : TRUE) = k BY <1>2, <1>3
<1>5. SectionFor(recs, page) = IF on = {} THEN Len(recs) ELSE CHOOSE i \in on : TRUE
  BY DEF SectionFor, on
<1> QED BY <1>4, <1>5

\* The pages of a book end with its last section.
LEMMA PagesOfCounts ==
  ASSUME NEW recs, Follows(recs)
  PROVE  /\ PagesOf(recs) = recs[Len(recs)].start + recs[Len(recs)].pages
         /\ PagesOf(recs) \in Nat \ {0}
<1>1. Len(recs) \in 1 .. Len(recs) /\ Len(recs) \in Nat BY FollowsFacts
<1>2. recs[Len(recs)].start \in Nat /\ recs[Len(recs)].pages \in Nat \ {0}
  BY <1>1, FollowsFacts
<1>3. Last(recs) = recs[Len(recs)] BY DEF Last
<1> QED BY <1>2, <1>3 DEF PagesOf

\* A page before the end is in a section.
LEMMA EveryPageHasSection ==
  ASSUME NEW recs, Follows(recs), NEW page \in Nat, page < PagesOf(recs)
  PROVE  \E k \in 1 .. Len(recs) : page \in PageRange(recs[k])
<1> DEFINE n == Len(recs)
           S == {i \in 0 .. n : i # 0 /\ page < recs[i].start + recs[i].pages =>
                                  \E k \in 1 .. n : page \in PageRange(recs[k])}
<1>1. n \in Nat \ {0} /\ \A i \in 1 .. n : recs[i].start \in Nat /\ recs[i].pages \in Nat
  BY FollowsFacts
<1>2. \A i \in 1 .. n - 1 : recs[i + 1].start = recs[i].start + recs[i].pages BY DEF Follows
<1>3. recs[1].start = 0 BY DEF Follows
<1>4. page < recs[n].start + recs[n].pages BY PagesOfCounts
<1> HIDE DEF n
<1>5. 0 \in S BY <1>1
<1>6. \A i \in 0 .. n : i < n /\ i \in S => i + 1 \in S
  <2> SUFFICES ASSUME NEW i \in 0 .. n, i < n, i \in S,
                      page < recs[i + 1].start + recs[i + 1].pages
               PROVE  \E k \in 1 .. n : page \in PageRange(recs[k])
    BY <1>1
  <2>1. i + 1 \in 1 .. n BY <1>1
  <2>2. CASE page >= recs[i + 1].start
    <3>1. page \in PageRange(recs[i + 1]) BY <1>1, <2>1, <2>2 DEF PageRange
    <3> QED BY <2>1, <3>1
  <2>3. CASE ~(page >= recs[i + 1].start)
    <3>1. i # 0 BY <1>3, <2>3
    <3>2. i \in 1 .. n - 1 /\ i \in 1 .. n BY <1>1, <3>1
    <3>3. recs[i + 1].start = recs[i].start + recs[i].pages BY <1>2, <3>2
    <3>4. page < recs[i].start + recs[i].pages BY <1>1, <2>3, <3>2, <3>3
    <3> QED BY <3>1, <3>4
  <2> QED BY <2>2, <2>3
<1> HIDE DEF S
<1>7. 0 .. n \subseteq S BY <1>1, <1>5, <1>6, Climb
<1>8. n \in 0 .. n /\ n # 0 BY <1>1
<1> QED BY <1>4, <1>7, <1>8 DEF n, S

\* The section looked up holds the page, or the last one if that is past the end.
LEMMA SectionForPage ==
  ASSUME NEW recs, Follows(recs), NEW page \in Nat
  PROVE  /\ SectionFor(recs, page) \in 1 .. Len(recs)
         /\ Lesser(page, PagesOf(recs) - 1) \in PageRange(recs[SectionFor(recs, page)])
         /\ SectionFor(recs, Lesser(page, PagesOf(recs) - 1)) = SectionFor(recs, page)
<1>1. /\ PagesOf(recs) = recs[Len(recs)].start + recs[Len(recs)].pages
      /\ PagesOf(recs) \in Nat \ {0}
  BY PagesOfCounts
<1>2. Len(recs) \in 1 .. Len(recs) /\ DOMAIN recs = 1 .. Len(recs)
      /\ \A i \in 1 .. Len(recs) : recs[i].start \in Nat /\ recs[i].pages \in Nat \ {0}
  BY FollowsFacts
<1>3. CASE page < PagesOf(recs)
  <2>1. PICK k \in 1 .. Len(recs) : page \in PageRange(recs[k])
    BY <1>3, EveryPageHasSection
  <2>2. SectionFor(recs, page) = k BY <2>1, SectionOfPage
  <2>3. Lesser(page, PagesOf(recs) - 1) = page BY <1>1, <1>3 DEF Lesser
  <2> QED BY <2>1, <2>2, <2>3
<1>4. CASE ~(page < PagesOf(recs))
  <2> DEFINE n == Len(recs)
             last == Lesser(page, PagesOf(recs) - 1)
             on == {k \in DOMAIN recs : page \in recs[k].start .. recs[k].start + recs[k].pages - 1}
  <2>1. last = PagesOf(recs) - 1 BY <1>1, <1>4 DEF Lesser
  <2>2. last \in PageRange(recs[n]) BY <1>1, <1>2, <2>1 DEF PageRange
  <2>3. SectionFor(recs, last) = n BY <1>2, <2>2, SectionOfPage
  <2>4. on = {}
    <3> SUFFICES ASSUME NEW k \in 1 .. n,
                        page \in recs[k].start .. recs[k].start + recs[k].pages - 1
                 PROVE  FALSE
      BY <1>2
    <3>1. CASE k = n BY <1>1, <1>2, <1>4, <3>1
    <3>2. CASE k # n
      <4>1. n \in Nat /\ k \in 1 .. n BY FollowsFacts
      <4>2. k < n BY <3>2, <4>1
      <4>3. recs[k].start + recs[k].pages <= recs[n].start BY <1>2, <4>2, LaterStartsLater
      <4> QED BY <1>1, <1>2, <1>4, <4>3
    <3> QED BY <3>1, <3>2
  <2>5. SectionFor(recs, page) = n BY <2>4 DEF SectionFor
  <2> QED BY <1>2, <2>2, <2>3, <2>5
<1> QED BY <1>3, <1>4

\* The first page of a chapter is one that a section of the chapter begins with.
LEMMA FirstOfChapter ==
  ASSUME NEW recs, Follows(recs), NEW c
  PROVE  /\ FirstOf(recs, c) \in Nat
         /\ c \in {recs[i].spine : i \in DOMAIN recs} =>
              LET k == SectionFor(recs, FirstOf(recs, c))
              IN  recs[k].start = FirstOf(recs, c) /\ recs[k].spine = c
<1>1. DOMAIN recs = 1 .. Len(recs) /\ Len(recs) \in Nat
      /\ \A i \in 1 .. Len(recs) : recs[i].start \in Nat /\ recs[i].pages \in Nat \ {0}
  BY FollowsFacts
<1> DEFINE of == {k \in DOMAIN recs : recs[k].spine = c}
           first == CHOOSE k \in of : \A j \in of : k <= j
<1>2. FirstOf(recs, c) = IF of = {} THEN 0 ELSE recs[first].start BY DEF FirstOf
<1>3. CASE of = {}
  <2>1. c \notin {recs[i].spine : i \in DOMAIN recs} BY <1>3
  <2> QED BY <1>2, <1>3, <2>1
<1>4. CASE of # {}
  <2>1. of \subseteq Nat BY <1>1
  <2>2. \E k \in of : \A j \in of : k <= j
    <3> HIDE DEF of
    <3> QED BY <1>4, <2>1, Least
  <2>3. first \in of BY <2>2
  <2> HIDE DEF first
  <2>4. first \in 1 .. Len(recs) /\ recs[first].spine = c BY <1>1, <2>3
  <2>5. FirstOf(recs, c) = recs[first].start BY <1>2, <1>4
  <2>6. recs[first].start \in PageRange(recs[first]) BY <1>1, <2>4 DEF PageRange
  <2>7. SectionFor(recs, recs[first].start) = first BY <2>4, <2>6, SectionOfPage
  <2> QED BY <1>1, <2>4, <2>5, <2>7
<1> QED BY <1>3, <1>4

\* Every page of a book is in exactly one section of its index, for books of any
\* length and any layout: a page is never looked for in two files or in none
\* (section_for_global_page).
THEOREM PagesAreTiled ==
  ASSUME NEW b \in Books, NEW L \in Layouts, NEW page \in Nat, page < Total(b, L)
  PROVE  \E k \in DOMAIN Sections[b][L] :
           /\ page \in PageRange(Sections[b][L][k])
           /\ \A j \in DOMAIN Sections[b][L] : page \in PageRange(Sections[b][L][j]) => j = k
<1> DEFINE recs == Sections[b][L]
<1>1. Follows(recs) /\ DOMAIN recs = 1 .. Len(recs) BY SectionsFollow, FollowsFacts
<1>2. page < PagesOf(recs) BY DEF Total
<1> HIDE DEF recs
<1>3. PICK k \in 1 .. Len(recs) : page \in PageRange(recs[k])
  BY <1>1, <1>2, EveryPageHasSection
<1>4. \A j \in 1 .. Len(recs) : page \in PageRange(recs[j]) => j = k
  BY <1>1, <1>3, SectionOfPage
<1> QED BY <1>1, <1>3, <1>4 DEF recs
=============================================================================
