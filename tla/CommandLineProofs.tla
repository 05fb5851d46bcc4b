--------------------------- MODULE CommandLineProofs ---------------------------
(***************************************************************************)
(* The safety of the command line and of the preparation of documents, for  *)
(* every document, size and overlap of chunks, answer, folder and           *)
(* notebooks: a document is uploaded whole, its preparation leaves nothing  *)
(* behind, its deck is sound, a merge has the rows of all files, and a      *)
(* command that says it has succeeded has.                                  *)
(***************************************************************************)
EXTENDS CommandLine, FiniteSetTheorems, NaturalsInduction, TLAPS

--------------------------------------------------------------------------------
(* Arithmetic.                                                              *)

LEMMA Quotient ==
  ASSUME NEW a \in Nat, NEW s \in Nat \ {0}
  PROVE  /\ a \div s \in Nat
         /\ (a \div s) * s <= a
         /\ a < (a \div s) * s + s
OBVIOUS

LEMMA Products ==
  ASSUME NEW x \in Nat, NEW y \in Nat, NEW s \in Nat \ {0}, x < y
  PROVE  x * s + s <= y * s
OBVIOUS

LEMMA Successor ==
  ASSUME NEW x \in Nat, NEW s \in Nat
  PROVE  (x + 1) * s = x * s + s
OBVIOUS

--------------------------------------------------------------------------------
(* Pages.                                                                   *)

LEMMA SizeFacts ==
  /\ Size \in Nat \ {0} /\ Overlap \in Nat /\ Overlap < Size
  /\ Size - Overlap \in Nat \ {0} /\ Threshold \in Nat
BY PlannerAssumption, PreparationAssumption

Holds(pages, p) == \E j \in DOMAIN pages : pages[j] = p

LEMMA PagesFacts ==
  ASSUME NEW from \in Nat, NEW to \in Nat
  PROVE  /\ Pages(from, to) \in Seq(Nat)
         /\ Len(Pages(from, to)) = Less(to, from)
         /\ \A j \in 1 .. Less(to, from) : Pages(from, to)[j] = from + j - 1
         /\ \A p \in Nat : from <= p /\ p < to => Holds(Pages(from, to), p)
<1>1. Less(to, from) \in Nat
  BY DEF Less
<1>2. /\ Pages(from, to) \in Seq(Nat)
      /\ Len(Pages(from, to)) = Less(to, from) /\ DOMAIN Pages(from, to) = 1 .. Less(to, from)
      /\ \A j \in 1 .. Less(to, from) : Pages(from, to)[j] = from + j - 1
  BY <1>1 DEF Pages
<1>3. ASSUME NEW p \in Nat, from <= p, p < to
      PROVE  Holds(Pages(from, to), p)
  <2>1. p - from + 1 \in 1 .. Less(to, from) /\ from + (p - from + 1) - 1 = p
    BY <1>3 DEF Less
  <2>. QED
    BY <2>1, <1>2 DEF Holds
<1>. QED
  BY <1>2, <1>3

LEMMA JoinHolds ==
  ASSUME NEW a \in Seq(Nat), NEW b \in Seq(Nat)
  PROVE  /\ a \o b \in Seq(Nat) /\ Len(a \o b) = Len(a) + Len(b)
         /\ \A p : Holds(a, p) \/ Holds(b, p) => Holds(a \o b, p)
<1>1. a \o b \in Seq(Nat) /\ Len(a \o b) = Len(a) + Len(b)
  OBVIOUS
<1>2. \A j \in 1 .. Len(a) : j \in DOMAIN (a \o b) /\ (a \o b)[j] = a[j]
  OBVIOUS
<1>3. \A j \in 1 .. Len(b) : Len(a) + j \in DOMAIN (a \o b) /\ (a \o b)[Len(a) + j] = b[j]
  OBVIOUS
<1>4. ASSUME NEW p, Holds(a, p) \/ Holds(b, p)
      PROVE  Holds(a \o b, p)
  <2>1. CASE Holds(a, p)
    <3>1. PICK j \in 1 .. Len(a) : a[j] = p
      BY <2>1 DEF Holds
    <3>. QED
      BY <1>2, <3>1 DEF Holds
  <2>2. CASE Holds(b, p)
    <3>1. PICK j \in 1 .. Len(b) : b[j] = p
      BY <2>2 DEF Holds
    <3>. QED
      BY <1>3, <3>1 DEF Holds
  <2>. QED
    BY <1>4, <2>1, <2>2
<1>. QED
  BY <1>1, <1>4

--------------------------------------------------------------------------------
(* Chunks of one size.                                                      *)

Stride   == Size - Overlap
Start(i) == (i - 1) * Stride

(* There are as many as it takes to come to the last page.                  *)
LEMMA CountFacts ==
  ASSUME NEW total \in Nat \ {0}
  PROVE  /\ FixedCount(total) \in Nat \ {0}
         /\ FixedCount(total) > 1 => Start(FixedCount(total)) + Overlap < total
         /\ Start(FixedCount(total)) + Size >= total
<1>. DEFINE a == Less(total, Overlap)
            c == (a + Stride - 1) \div Stride
<1>1. Stride \in Nat \ {0} /\ Size = Stride + Overlap /\ Overlap \in Nat
  BY SizeFacts DEF Stride
<1>2. /\ a \in Nat /\ a <= total /\ total <= a + Overlap
      /\ a > 0 => a + Overlap = total
  BY <1>1 DEF Less
<1>. HIDE DEF a
<1>3. /\ c \in Nat
      /\ c * Stride <= a + Stride - 1
      /\ a + Stride - 1 < c * Stride + Stride
  <2>1. a + Stride - 1 \in Nat
    BY <1>1, <1>2
  <2>. QED
    BY <1>1, <2>1, Quotient
<1>. HIDE DEF c
<1>4. FixedCount(total) = Least(Greatest(1, c), total)
  BY DEF FixedCount, Stride, a, c
<1>5. c <= total
  <2>1. c > 0 => (c - 1) * Stride + Stride = c * Stride
    BY <1>1, <1>3
  <2>2. c > 0 => c - 1 <= (c - 1) * Stride
    BY <1>1, <1>3
  <2>. QED
    BY <1>1, <1>2, <1>3, <2>1, <2>2
<1>6. FixedCount(total) = IF c > 1 THEN c ELSE 1
  BY <1>3, <1>4, <1>5 DEF Least, Greatest
<1>7. Start(1) = 0
  BY <1>1 DEF Start
<1>8. c > 1 => Start(c) + Stride = c * Stride
  BY <1>1, <1>3 DEF Start
<1>9. c > 1 => Start(c) \in Nat
  BY <1>1, <1>3 DEF Start
<1>10. c > 1 => Start(c) + Overlap < total /\ Start(c) + Size >= total
  <2>. SUFFICES ASSUME c > 1 PROVE Start(c) + Overlap < total /\ Start(c) + Size >= total
    OBVIOUS
  <2>1. Start(c) < a /\ a <= Start(c) + Stride
    BY <1>1, <1>2, <1>3, <1>8, <1>9
  <2>. QED
    BY <1>1, <1>2, <1>9, <2>1
<1>11. c <= 1 => 0 + Size >= total
  <2>. SUFFICES ASSUME c <= 1 PROVE Size >= total
    BY <1>1
  <2>1. c * Stride <= Stride
    BY <1>1, <1>3
  <2>2. a <= Stride
    <3>1. c * Stride \in Nat
      BY <1>1, <1>3
    <3>. QED
      BY <1>1, <1>2, <1>3, <2>1, <3>1
  <2>. QED
    BY <1>1, <1>2, <2>2
<1>. QED
  BY <1>3, <1>6, <1>7, <1>10, <1>11

(* The pages of the i-th.                                                   *)
LEMMA FixedFacts ==
  ASSUME NEW total \in Nat \ {0}, NEW i \in 1 .. FixedCount(total)
  PROVE  /\ Start(i) \in Nat /\ Start(i) < total
         /\ i > 1 => Start(i) = Start(i - 1) + Stride /\ Start(i) + Overlap < total
         /\ FixedChunks(total)[i].pages = Pages(Start(i), Least(Start(i) + Size, total))
<1>1. /\ Stride \in Nat \ {0} /\ Overlap \in Nat /\ FixedCount(total) \in Nat \ {0}
      /\ FixedCount(total) > 1 => Start(FixedCount(total)) + Overlap < total
  BY SizeFacts, CountFacts DEF Stride
<1>2. Start(i) \in Nat /\ (i > 1 => Start(i) = Start(i - 1) + Stride) /\ (i = 1 => Start(i) = 0)
  BY <1>1 DEF Start
<1>3. Start(i) <= Start(FixedCount(total)) /\ Start(FixedCount(total)) \in Nat
  BY <1>1 DEF Start
<1>4. i > 1 => Start(i) + Overlap < total
  BY <1>1, <1>2, <1>3
<1>5. FixedChunks(total)[i].pages = Pages(Start(i), Least(Start(i) + Size, total))
  BY DEF FixedChunks, Start, Stride
<1>. QED
  BY <1>1, <1>2, <1>4, <1>5

(* No page is left out.                                                     *)
LEMMA FixedCovers ==
  ASSUME NEW total \in Nat \ {0}, NEW p \in Nat, p < total
  PROVE  \E i \in 1 .. FixedCount(total) : Holds(FixedChunks(total)[i].pages, p)
<1>. DEFINE n == FixedCount(total)
            q == p \div Stride
            i == IF q < n THEN q + 1 ELSE n
<1>1. /\ Stride \in Nat \ {0} /\ Size = Stride + Overlap /\ Overlap \in Nat
      /\ n \in Nat \ {0} /\ Start(n) + Size >= total
  BY SizeFacts, CountFacts DEF Stride
<1>2. q \in Nat /\ q * Stride <= p /\ p < q * Stride + Stride
  BY <1>1, Quotient
<1>. HIDE DEF q, n
<1>3. i \in 1 .. n
  BY <1>1, <1>2
<1>4. Start(i) \in Nat
  BY <1>3, FixedFacts DEF n
<1>5. Start(i) <= p /\ p < Start(i) + Size
  <2>1. CASE q < n
    <3>1. Start(i) = q * Stride
      BY <1>1, <1>2, <2>1 DEF Start
    <3>. QED
      BY <1>1, <1>2, <1>4, <3>1
  <2>2. CASE ~ (q < n)
    <3>1. Start(n) <= q * Stride /\ q * Stride \in Nat
      BY <1>1, <1>2, <2>2 DEF Start
    <3>. QED
      BY <1>1, <1>2, <1>4, <2>2, <3>1
  <2>. QED
    BY <2>1, <2>2
<1>6. FixedChunks(total)[i].pages = Pages(Start(i), Least(Start(i) + Size, total))
  BY <1>3, FixedFacts DEF n
<1>7. /\ Least(Start(i) + Size, total) \in Nat
      /\ p < Least(Start(i) + Size, total)
  BY <1>1, <1>4, <1>5 DEF Least
<1>8. Holds(Pages(Start(i), Least(Start(i) + Size, total)), p)
  BY <1>4, <1>5, <1>7, PagesFacts
<1>. HIDE DEF i
<1>. QED
  BY <1>3, <1>6, <1>8 DEF n

(* None is too long, and they advance.                                      *)
LEMMA FixedFit ==
  ASSUME NEW total \in Nat \ {0}, NEW i \in 1 .. FixedCount(total)
  PROVE  LET pages  == FixedChunks(total)[i].pages
             before == FixedChunks(total)[i - 1].pages
         IN /\ pages \in Seq(Nat) /\ Len(pages) <= Size
            /\ i > 1 => /\ pages[1] = before[1] + Size - Overlap
                        /\ pages[Len(pages)] > before[Len(before)]
<1>. DEFINE To(j) == Least(Start(j) + Size, total)
            P(j)  == FixedChunks(total)[j].pages
<1>0. Size \in Nat \ {0} /\ Overlap \in Nat /\ Stride = Size - Overlap /\ Stride \in Nat \ {0}
  BY SizeFacts DEF Stride
<1>1. ASSUME NEW j \in 1 .. FixedCount(total)
      PROVE  /\ P(j) \in Seq(Nat) /\ Len(P(j)) \in 1 .. Size
             /\ P(j)[1] = Start(j) /\ P(j)[Len(P(j))] = To(j) - 1
  <2>1. /\ Start(j) \in Nat /\ Start(j) < total
        /\ P(j) = Pages(Start(j), To(j))
    BY FixedFacts
  <2>2. To(j) \in Nat /\ Start(j) < To(j) /\ To(j) <= Start(j) + Size
    BY <1>0, <2>1 DEF Least
  <2>. HIDE DEF To, P
  <2>3. Less(To(j), Start(j)) = To(j) - Start(j) /\ To(j) - Start(j) \in 1 .. Size
    BY <1>0, <2>1, <2>2 DEF Less
  <2>4. /\ P(j) \in Seq(Nat) /\ Len(P(j)) = To(j) - Start(j)
        /\ \A k \in 1 .. (To(j) - Start(j)) : P(j)[k] = Start(j) + k - 1
    BY <2>1, <2>2, <2>3, PagesFacts
  <2>. QED
    BY <2>1, <2>2, <2>3, <2>4
<1>2. ASSUME i > 1
      PROVE  P(i)[1] = P(i - 1)[1] + Size - Overlap /\ P(i)[Len(P(i))] > P(i - 1)[Len(P(i - 1))]
  <2>1. i - 1 \in 1 .. FixedCount(total)
    BY <1>2, CountFacts
  <2>2. /\ Start(i) = Start(i - 1) + Stride /\ Start(i) + Overlap < total
        /\ Start(i) \in Nat /\ Start(i - 1) \in Nat
    BY <1>2, <2>1, FixedFacts
  <2>3. To(i - 1) < To(i)
    BY <1>0, <2>2 DEF Least
  <2>4. To(i - 1) \in Nat /\ To(i) \in Nat
    BY <1>0, <2>2 DEF Least
  <2>. HIDE DEF P, To
  <2>5. P(i)[1] = Start(i) /\ P(i)[Len(P(i))] = To(i) - 1
    BY <1>1
  <2>6. P(i - 1)[1] = Start(i - 1) /\ P(i - 1)[Len(P(i - 1))] = To(i - 1) - 1
    BY <1>1, <2>1
  <2>7. P(i)[1] = P(i - 1)[1] + Size - Overlap
    BY <1>0, <2>2, <2>5, <2>6
  <2>8. P(i)[Len(P(i))] > P(i - 1)[Len(P(i - 1))]
    BY <2>3, <2>4, <2>5, <2>6
  <2>. QED
    BY <2>7, <2>8
<1>. HIDE DEF P
<1>3. P(i) \in Seq(Nat) /\ Len(P(i)) <= Size
  BY <1>0, <1>1
<1>. QED
  BY <1>2, <1>3 DEF P

--------------------------------------------------------------------------------
(* Chapters are well formed, however many bookmarks there are.              *)

Bookmark == [page : Nat, title : STRING]
Outlines == Seq(Bookmark)
Extent   == [from : Nat, to : Nat, title : STRING]

LEMMA ChapterTyped ==
  ASSUME NEW outlines \in Outlines, NEW total \in Nat, NEW i \in 1 .. Len(outlines)
  PROVE  Chapter(outlines, total, i) \in Extent
<1>1. \A j \in 1 .. Len(outlines) :
        outlines[j].page \in Nat /\ outlines[j].title \in STRING
  <2>1. \A j \in 1 .. Len(outlines) : outlines[j] \in Bookmark
    BY DEF Outlines
  <2>. QED
    BY <2>1 DEF Bookmark
<1>2. outlines[i].page \in 1 .. total => outlines[i].page - 1 \in Nat
  BY <1>1
<1>3. i < Len(outlines) /\ outlines[i + 1].page \in 1 .. total => outlines[i + 1].page - 1 \in Nat
  BY <1>1
<1>. QED
  BY <1>1, <1>2, <1>3 DEF Chapter, Extent, Outlines

(* The equation of the recursive function.                                  *)
Chaptered(f, outlines, total, i) ==
  IF i = 0 THEN << >>
  ELSE LET chapter == Chapter(outlines, total, i) IN
       IF chapter.from < chapter.to THEN Append(f[i - 1], chapter) ELSE f[i - 1]

SolvesUpTo(f, outlines, total, k) == f = [i \in 0 .. k |-> Chaptered(f, outlines, total, i)]

LEMMA LeastOf ==
  ASSUME NEW T, T \subseteq Nat, T # {}
  PROVE  \E m \in T : \A n \in T : m <= n
<1>1. PICK m \in T : \A n \in T : ~ (<<n, m>> \in OpToRel(<, Nat))
  BY WFMin, NatLessThanWellFounded
<1>2. \A n \in T : ~ (n < m)
  BY <1>1 DEF OpToRel
<1>. QED
  BY <1>2

LEMMA OneMore ==
  ASSUME NEW outlines, NEW total, NEW m \in Nat \ {0},
         NEW f, SolvesUpTo(f, outlines, total, m - 1)
  PROVE  \E g : SolvesUpTo(g, outlines, total, m)
<1>. DEFINE last == Chaptered(f, outlines, total, m)
            g == [i \in 0 .. m |-> IF i < m THEN f[i] ELSE last]
<1>1. \A i \in 0 .. m - 1 : f[i] = Chaptered(f, outlines, total, i)
  BY DEF SolvesUpTo
<1>2. \A i \in 0 .. m : Chaptered(g, outlines, total, i) = Chaptered(f, outlines, total, i)
  <2>. HIDE DEF last
  <2>1. \A i \in 0 .. m : i # 0 => g[i - 1] = f[i - 1]
    OBVIOUS
  <2>. HIDE DEF g
  <2>. QED
    BY <2>1 DEF Chaptered
<1>3. \A i \in 0 .. m : g[i] = Chaptered(f, outlines, total, i)
  <2>1. \A i \in 0 .. m : i < m => g[i] = Chaptered(f, outlines, total, i)
    <3>. HIDE DEF last
    <3>1. \A i \in 0 .. m : i < m => i \in 0 .. m - 1 /\ g[i] = f[i]
      OBVIOUS
    <3>. HIDE DEF g
    <3>. QED
      BY <1>1, <3>1
  <2>2. g[m] = last
    <3>. HIDE DEF last
    <3>. QED
      OBVIOUS
  <2>3. \A i \in 0 .. m : i < m \/ i = m
    OBVIOUS
  <2>. HIDE DEF g
  <2>. QED
    BY <2>1, <2>2, <2>3
<1>4. g = [i \in 0 .. m |-> g[i]]
  <2>. HIDE DEF last
  <2>. QED
    OBVIOUS
<1>. HIDE DEF g
<1>5. g = [i \in 0 .. m |-> Chaptered(g, outlines, total, i)]
  BY <1>2, <1>3, <1>4
<1>. QED
  BY <1>5 DEF SolvesUpTo

LEMMA ChaptersExist ==
  ASSUME NEW outlines, NEW total, NEW n \in Nat
  PROVE  \E f : SolvesUpTo(f, outlines, total, n)
<1>. DEFINE Bad == {k \in Nat : ~ \E f : SolvesUpTo(f, outlines, total, k)}
<1>1. SUFFICES ASSUME Bad # {} PROVE FALSE
  OBVIOUS
<1>2. PICK m \in Bad : \A k \in Bad : m <= k
  <2>. HIDE DEF Bad
  <2>1. Bad \subseteq Nat
    BY DEF Bad
  <2>. QED
    BY <1>1, <2>1, LeastOf
<1>3. CASE m = 0
  <2>. DEFINE f == [i \in 0 .. 0 |-> << >>]
  <2>1. f = [i \in 0 .. 0 |-> Chaptered(f, outlines, total, i)]
    BY DEF Chaptered
  <2>. QED
    BY <1>2, <1>3, <2>1 DEF SolvesUpTo
<1>4. CASE m # 0
  <2>1. m - 1 \in Nat /\ m - 1 \notin Bad
    BY <1>2, <1>4
  <2>2. PICK f : SolvesUpTo(f, outlines, total, m - 1)
    BY <2>1
  <2>. QED
    BY <1>2, <1>4, <2>2, OneMore
<1>. QED
  BY <1>3, <1>4

LEMMA ChaptersTyped ==
  ASSUME NEW outlines \in Outlines, NEW total \in Nat
  PROVE  Chapters(outlines, total) \in Seq(Extent)
<1>. DEFINE f == ChaptersUpTo(outlines, total)
            Bad == {k \in 0 .. Len(outlines) : f[k] \notin Seq(Extent)}
<1>0. Len(outlines) \in Nat
  BY DEF Outlines
<1>1. SolvesUpTo(f, outlines, total, Len(outlines))
  <2>1. f = CHOOSE g : SolvesUpTo(g, outlines, total, Len(outlines))
    BY DEF ChaptersUpTo, SolvesUpTo, Chaptered
  <2>. QED
    BY <1>0, <2>1, ChaptersExist
<1>. HIDE DEF f
<1>2. \A i \in 0 .. Len(outlines) : f[i] = Chaptered(f, outlines, total, i)
  BY <1>1 DEF SolvesUpTo
<1>3. Bad = {}
  <2>1. SUFFICES ASSUME Bad # {} PROVE FALSE
    OBVIOUS
  <2>2. PICK k \in Bad : \A other \in Bad : k <= other
    <3>. HIDE DEF Bad
    <3>1. Bad \subseteq Nat
      BY <1>0 DEF Bad
    <3>. QED
      BY <2>1, <3>1, LeastOf
  <2>3. k \in 0 .. Len(outlines) /\ f[k] \notin Seq(Extent)
    OBVIOUS
  <2>4. CASE k = 0
    <3>1. f[0] = Chaptered(f, outlines, total, 0)
      BY <1>2, <2>3, <2>4
    <3>2. f[0] = << >>
      BY <3>1 DEF Chaptered
    <3>. QED
      BY <2>3, <2>4, <3>2
  <2>5. CASE k # 0
    <3>1. k \in 1 .. Len(outlines) /\ k - 1 \in 0 .. Len(outlines) /\ k - 1 < k
      BY <1>0, <2>3, <2>5
    <3>2. f[k - 1] \in Seq(Extent)
      BY <1>0, <2>2, <2>3, <3>1
    <3>3. Chapter(outlines, total, k) \in Extent
      BY <3>1, ChapterTyped
    <3>4. Append(f[k - 1], Chapter(outlines, total, k)) \in Seq(Extent)
      BY <3>2, <3>3
    <3>. QED
      BY <1>2, <2>3, <2>5, <3>2, <3>4 DEF Chaptered
  <2>. QED
    BY <2>4, <2>5
<1>. QED
  BY <1>0, <1>3 DEF Chapters, f

--------------------------------------------------------------------------------
(* The planner.  Along the chapters: what was passed is in the chunks, or   *)
(* in the current one, which will be kept; and a chunk is too long only for *)
(* a chapter that is.                                                       *)

Chunk == [pages : Seq(Nat), titles : SUBSET STRING]

PlanState ==
  [total : Nat, chapters : Seq(Extent), next : Nat \ {0}, chunks : Seq(Chunk),
   current : Chunk, relevant : BOOLEAN, count : Nat, end : Nat, retain : BOOLEAN]

Fits(chapters, pages) ==
  \/ Len(pages) <= Size
  \/ \E j \in DOMAIN chapters : Len(pages) <= chapters[j].to - chapters[j].from

Wanted(chapter, p) == chapter.title \notin SkipTitle /\ chapter.from <= p /\ p < chapter.to

Among(chunks, p) == \E k \in DOMAIN chunks : Holds(chunks[k].pages, p)

Taken(q, p) == Among(q.chunks, p) \/ (q.relevant /\ Holds(q.current.pages, p))

Passed(q) ==
  \A i \in DOMAIN q.chapters, p \in Nat :
    i < q.next /\ Wanted(q.chapters[i], p) /\ p < q.total => Taken(q, p)

CutOK(q) ==
  /\ q \in PlanState /\ q.retain = FALSE
  /\ Len(q.current.pages) = q.count
  /\ q.relevant => Fits(q.chapters, q.current.pages)
  /\ \A k \in DOMAIN q.chunks : Fits(q.chapters, q.chunks[k].pages)
  /\ Passed(q)

(* What is pushed when the current chunk is complete.                       *)
LEMMA CompletedFacts ==
  ASSUME CutOK(plan)
  PROVE  /\ Completed \in Seq(Chunk)
         /\ \A k \in DOMAIN Completed : Fits(plan.chapters, Completed[k].pages)
         /\ \A p \in Nat : Taken(plan, p) => Among(Completed, p)
<1>1. plan.chunks \in Seq(Chunk) /\ plan.current \in Chunk /\ plan.relevant \in BOOLEAN
  BY DEF CutOK, PlanState
<1>2. CASE plan.relevant
  <2>1. /\ Completed = Append(plan.chunks, plan.current) /\ Completed \in Seq(Chunk)
        /\ Len(Completed) = Len(plan.chunks) + 1
        /\ Completed[Len(plan.chunks) + 1] = plan.current
        /\ \A k \in 1 .. Len(plan.chunks) : Completed[k] = plan.chunks[k]
    BY <1>1, <1>2 DEF Completed
  <2>2. \A k \in DOMAIN Completed : k \in 1 .. Len(plan.chunks) \/ k = Len(plan.chunks) + 1
    BY <1>1, <2>1
  <2>3. \A k \in DOMAIN Completed : Fits(plan.chapters, Completed[k].pages)
    BY <1>1, <1>2, <2>1, <2>2 DEF CutOK
  <2>4. ASSUME NEW p \in Nat, Taken(plan, p)
        PROVE  Among(Completed, p)
    <3>1. CASE Among(plan.chunks, p)
      <4>1. PICK k \in 1 .. Len(plan.chunks) : Holds(plan.chunks[k].pages, p)
        BY <1>1, <3>1 DEF Among
      <4>2. k \in DOMAIN Completed /\ Completed[k] = plan.chunks[k]
        BY <1>1, <2>1
      <4>. QED
        BY <4>1, <4>2 DEF Among
    <3>2. CASE Holds(plan.current.pages, p)
      <4>1. Len(plan.chunks) + 1 \in DOMAIN Completed
        BY <1>1, <2>1
      <4>. QED
        BY <2>1, <3>2, <4>1 DEF Among
    <3>. QED
      BY <2>4, <3>1, <3>2 DEF Taken
  <2>. QED
    BY <2>1, <2>3, <2>4
<1>3. CASE ~ plan.relevant
  BY <1>1, <1>3 DEF Completed, CutOK, Taken
<1>. QED
  BY <1>2, <1>3

LEMMA ReplacedPlan ==
  ASSUME NEW q \in PlanState, NEW chunks \in Seq(Chunk), NEW current \in Chunk,
         NEW relevant \in BOOLEAN, NEW count \in Nat, NEW end \in Nat
  PROVE  [q EXCEPT !.chunks = chunks, !.current = current, !.relevant = relevant,
                   !.count = count, !.end = end] \in PlanState
BY DEF PlanState

LEMMA RolledOverKeeps ==
  ASSUME CutOK(plan), NEW start \in Nat
  PROVE  /\ CutOK(RolledOver(start))
         /\ RolledOver(start).count = 0
         /\ RolledOver(start).next = plan.next
         /\ RolledOver(start).chapters = plan.chapters
         /\ RolledOver(start).total = plan.total
<1>. DEFINE new == RolledOver(start)
<1>1. plan \in PlanState /\ plan.retain = FALSE
  BY DEF CutOK
<1>2. Completed \in Seq(Chunk)
  BY CompletedFacts
<1>3. [NoChunk EXCEPT !.pages = @] = NoChunk /\ NoChunk \in Chunk
      /\ NoChunk.pages = << >>
  BY DEF NoChunk, Chunk
<1>4. new = [plan EXCEPT !.chunks = Completed, !.current = NoChunk, !.relevant = FALSE,
                         !.count = 0, !.end = start]
  BY <1>1, <1>3 DEF RolledOver
<1>5. new \in PlanState
  <2>1. NoChunk \in Chunk
    BY <1>3
  <2>. HIDE DEF new
  <2>. QED
    BY <1>1, <1>2, <1>4, <2>1, ReplacedPlan
<1>6. /\ new.chunks = Completed /\ new.current = NoChunk /\ new.relevant = FALSE
      /\ new.count = 0 /\ new.next = plan.next /\ new.chapters = plan.chapters
      /\ new.total = plan.total /\ new.retain = FALSE
  BY <1>1, <1>4 DEF PlanState
<1>. HIDE DEF new
<1>7. \A p \in Nat : Taken(plan, p) => Taken(new, p)
  BY <1>6, CompletedFacts DEF Taken
<1>8. Passed(new)
  BY <1>6, <1>7 DEF Passed, CutOK
<1>9. Len(new.current.pages) = new.count
  BY <1>3, <1>6
<1>10. \A k \in DOMAIN new.chunks : Fits(new.chapters, new.chunks[k].pages)
  BY <1>6, CompletedFacts
<1>11. CutOK(new)
  BY <1>5, <1>6, <1>8, <1>9, <1>10 DEF CutOK
<1>. QED
  BY <1>6, <1>11 DEF new

Extension(q, next, current, relevant, count, end) ==
  [q EXCEPT !.next = next, !.current = current, !.relevant = relevant,
            !.count = count, !.end = end]

LEMMA Extended ==
  ASSUME NEW q \in PlanState, NEW current \in Chunk, NEW relevant \in BOOLEAN,
         NEW next \in Nat \ {0}, NEW count \in Nat, NEW end \in Nat,
         NEW new, new = Extension(q, next, current, relevant, count, end)
  PROVE  /\ new \in PlanState /\ new.next = next /\ new.current = current
         /\ new.chapters = q.chapters /\ new.total = q.total /\ new.chunks = q.chunks
         /\ new.retain = q.retain /\ new.relevant = relevant /\ new.count = count
BY DEF PlanState, Extension

Covered(c, pages, titles) == [c EXCEPT !.pages = pages, !.titles = titles]

LEMMA ExtendedChunk ==
  ASSUME NEW c \in Chunk, NEW pages \in Seq(Nat), NEW titles \in SUBSET STRING
  PROVE  /\ Covered(c, pages, titles) \in Chunk
         /\ Covered(c, pages, titles).pages = pages
BY DEF Chunk, Covered

(* A chapter is put where it fits.                                          *)
IsCut(q, start, stop) ==
  /\ start = Least(q.chapters[q.next].from, q.total)
  /\ stop = Least(Greatest(q.chapters[q.next].to, start), q.total)

Pushed(q, start, stop) ==
  [q EXCEPT !.next = @ + 1,
            !.current.pages = @ \o Pages(start, stop),
            !.current.titles = @ \cup {q.chapters[q.next].title},
            !.relevant = Relevant(q, q.chapters[q.next].title),
            !.count = @ + (stop - start),
            !.end = Greatest(@, stop)]

LEMMA ChapterKeeps ==
  ASSUME NEW b, CutOK(b), b.next <= Len(b.chapters),
         NEW start, NEW stop, IsCut(b, start, stop),
         b.count = 0 \/ b.count + (stop - start) <= Size,
         NEW new, new = Pushed(b, start, stop)
  PROVE  CutOK(new) /\ new.total = b.total /\ new.chapters = b.chapters
<1>. DEFINE chapter == b.chapters[b.next]
<1>1. /\ b \in PlanState /\ b.chapters \in Seq(Extent) /\ b.next \in 1 .. Len(b.chapters)
      /\ b.current \in Chunk /\ b.current.pages \in Seq(Nat) /\ b.total \in Nat
      /\ b.chunks \in Seq(Chunk) /\ b.relevant \in BOOLEAN /\ b.count \in Nat /\ b.end \in Nat
      /\ Len(b.current.pages) = b.count
  BY DEF CutOK, PlanState, Chunk
<1>2. chapter \in Extent
  BY <1>1
<1>3. chapter.from \in Nat /\ chapter.to \in Nat /\ chapter.title \in STRING
  BY <1>2 DEF Extent
<1>. HIDE DEF chapter
<1>4. PICK from \in Nat, to \in Nat, total \in Nat :
        /\ from = chapter.from /\ to = chapter.to /\ total = b.total
        /\ start = Least(from, total) /\ stop = Least(Greatest(to, start), total)
  BY <1>1, <1>3 DEF chapter, IsCut
<1>5. /\ start \in Nat /\ stop \in Nat /\ start <= stop /\ stop - start \in Nat
      /\ stop - start <= to - from \/ stop - start = 0
      /\ \A p \in Nat : from <= p /\ p < to /\ p < total => start <= p /\ p < stop
  <2>1. start \in Nat /\ start = IF from < total THEN from ELSE total
    BY <1>4 DEF Least
  <2>2. stop \in Nat /\ stop = IF (IF to > start THEN to ELSE start) < total
                                THEN (IF to > start THEN to ELSE start) ELSE total
    BY <1>4, <2>1 DEF Least, Greatest
  <2>3. start <= stop
    BY <2>1, <2>2
  <2>4. stop - start \in Nat
    BY <2>1, <2>2, <2>3
  <2>5. stop - start <= to - from \/ stop - start = 0
    BY <2>1, <2>2
  <2>6. \A p \in Nat : from <= p /\ p < to /\ p < total => start <= p /\ p < stop
    BY <2>1, <2>2
  <2>. QED
    BY <2>1, <2>2, <2>3, <2>4, <2>5, <2>6
<1>6. stop - start <= chapter.to - chapter.from \/ stop - start = 0
  BY <1>4, <1>5
<1>. DEFINE pages == b.current.pages \o Pages(start, stop)
<1>7. /\ Pages(start, stop) \in Seq(Nat) /\ Len(Pages(start, stop)) = stop - start
      /\ \A p \in Nat : start <= p /\ p < stop => Holds(Pages(start, stop), p)
  <2>1. Less(stop, start) = stop - start
    BY <1>5 DEF Less
  <2>. QED
    BY <1>5, <2>1, PagesFacts
<1>8. /\ pages \in Seq(Nat) /\ Len(pages) = b.count + (stop - start)
      /\ \A p : Holds(b.current.pages, p) \/ Holds(Pages(start, stop), p) => Holds(pages, p)
  BY <1>1, <1>7, JoinHolds
<1>. HIDE DEF pages
<1>. DEFINE titles  == b.current.titles \cup {chapter.title}
            current == Covered(b.current, pages, titles)
<1>9. titles \in SUBSET STRING
  BY <1>1, <1>3 DEF Chunk
<1>. HIDE DEF titles
<1>10. current \in Chunk /\ current.pages = pages
  BY <1>1, <1>8, <1>9, ExtendedChunk
<1>. HIDE DEF current
<1>. DEFINE relevant == Relevant(b, chapter.title)
<1>11. new = Extension(b, b.next + 1, current, relevant, b.count + (stop - start),
                       Greatest(b.end, stop))
  BY <1>1 DEF Pushed, Extension, Covered, chapter, pages, titles, current
<1>12. /\ Greatest(b.end, stop) \in Nat /\ b.count + (stop - start) \in Nat
       /\ b.next + 1 \in Nat \ {0}
  <2>1. b.end \in Nat /\ b.count \in Nat /\ b.next \in Nat
    BY <1>1
  <2>2. Greatest(b.end, stop) \in Nat
    BY <1>5, <2>1 DEF Greatest
  <2>. QED
    BY <1>5, <2>1, <2>2
<1>13. relevant \in BOOLEAN /\ (relevant <=> b.relevant \/ chapter.title \notin SkipTitle)
  BY <1>1 DEF Relevant
<1>. HIDE DEF relevant
<1>14. /\ new \in PlanState
       /\ new.next = b.next + 1 /\ new.current = current /\ new.chapters = b.chapters
       /\ new.total = b.total /\ new.chunks = b.chunks /\ new.retain = b.retain
       /\ new.relevant = relevant /\ new.count = b.count + (stop - start)
  <2>1. b \in PlanState /\ current \in Chunk /\ relevant \in BOOLEAN
    BY <1>1, <1>10, <1>13
  <2>2. PICK next \in Nat \ {0}, count \in Nat, end \in Nat :
          next = b.next + 1 /\ count = b.count + (stop - start) /\ end = Greatest(b.end, stop)
    BY <1>12
  <2>3. new = Extension(b, next, current, relevant, count, end)
    BY <1>11, <2>2
  <2>4. /\ new \in PlanState /\ new.next = next /\ new.current = current
        /\ new.chapters = b.chapters /\ new.total = b.total /\ new.chunks = b.chunks
        /\ new.retain = b.retain /\ new.relevant = relevant /\ new.count = count
    BY <2>1, <2>3, Extended
  <2>. QED
    BY <2>2, <2>4
<1>15. Fits(b.chapters, pages)
  <2>1. CASE b.count = 0
    <3>1. Len(pages) = stop - start
      BY <1>5, <1>8, <2>1
    <3>2. CASE stop - start = 0
      BY <3>1, <3>2, SizeFacts DEF Fits
    <3>3. CASE stop - start <= chapter.to - chapter.from
      BY <1>1, <3>1, <3>3 DEF Fits, chapter
    <3>. QED
      BY <1>6, <3>2, <3>3
  <2>2. CASE b.count + (stop - start) <= Size
    BY <1>8, <2>2 DEF Fits
  <2>. QED
    BY <2>1, <2>2
<1>16. \A p \in Nat : Taken(b, p) => Taken(new, p)
  BY <1>8, <1>10, <1>13, <1>14 DEF Taken
<1>17. ASSUME NEW p \in Nat, Wanted(chapter, p), p < b.total
       PROVE  Taken(new, p)
  <2>1. start <= p /\ p < stop
    <3>1. chapter.from <= p /\ p < chapter.to
      BY <1>17 DEF Wanted
    <3>. QED
      BY <1>4, <1>5, <1>17, <3>1
  <2>2. Holds(pages, p)
    BY <1>7, <1>8, <2>1
  <2>. QED
    BY <1>10, <1>13, <1>14, <1>17, <2>2 DEF Taken, Wanted
<1>18. Passed(new)
  <2>. SUFFICES ASSUME NEW i \in DOMAIN new.chapters, NEW p \in Nat,
                       i < new.next, Wanted(new.chapters[i], p), p < new.total
                PROVE  Taken(new, p)
    BY DEF Passed
  <2>1. i \in DOMAIN b.chapters /\ i \in Nat /\ (i < b.next \/ i = b.next)
    BY <1>1, <1>14
  <2>2. CASE i < b.next
    BY <1>14, <1>16, <2>1, <2>2 DEF CutOK, Passed
  <2>3. CASE i = b.next
    BY <1>14, <1>17, <2>3 DEF chapter
  <2>. QED
    BY <2>1, <2>2, <2>3
<1>19. \A k \in DOMAIN new.chunks : Fits(new.chapters, new.chunks[k].pages)
  BY <1>14 DEF CutOK
<1>20. new.retain = FALSE
  BY <1>14 DEF CutOK
<1>. QED
  BY <1>8, <1>10, <1>13, <1>14, <1>15, <1>18, <1>19, <1>20 DEF CutOK

LEMMA PushKeeps ==
  ASSUME CutOK(plan), PushChapter
  PROVE  /\ CutOK(plan') /\ plan'.total = plan.total
         /\ plan'.chapters = plan.chapters
<1>. DEFINE chapter == plan.chapters[plan.next]
            start == Least(chapter.from, plan.total)
            stop == Least(Greatest(chapter.to, start), plan.total)
<1>. DEFINE base == IF Full(stop - start) THEN RolledOver(start) ELSE plan
<1>1. /\ plan.chapters \in Seq(Extent) /\ plan.next \in 1 .. Len(plan.chapters)
      /\ plan.total \in Nat /\ plan.count \in Nat
  BY DEF CutOK, PlanState, PushChapter
<1>2. chapter \in Extent
  BY <1>1
<1>3. chapter.from \in Nat /\ chapter.to \in Nat
  BY <1>2 DEF Extent
<1>4. start \in Nat /\ stop \in Nat /\ stop - start \in Nat
  BY <1>1, <1>3 DEF Least, Greatest
<1>5. plan' = [base EXCEPT
         !.next = @ + 1,
         !.current.pages = @ \o Pages(start, stop),
         !.current.titles = @ \cup {chapter.title},
         !.relevant = Relevant(base, chapter.title),
         !.count = @ + (stop - start),
         !.end = Greatest(@, stop)]
  BY DEF PushChapter
<1>6. CutOK(base) /\ base.chapters = plan.chapters /\ base.next = plan.next
      /\ base.total = plan.total
  BY <1>4, RolledOverKeeps
<1>7. base.count = 0 \/ base.count + (stop - start) <= Size
  BY <1>1, <1>4, RolledOverKeeps, SizeFacts DEF Full
<1>8. PICK b : b = base
  OBVIOUS
<1>9. plan' = Pushed(b, start, stop) /\ IsCut(b, start, stop)
  <2>. HIDE DEF base
  <2>. QED
    BY <1>5, <1>6, <1>8 DEF Pushed, IsCut
<1>. HIDE DEF base, chapter, start, stop
<1>10. /\ CutOK(b) /\ b.next <= Len(b.chapters)
       /\ b.count = 0 \/ b.count + (stop - start) <= Size
       /\ b.chapters = plan.chapters /\ b.total = plan.total
  BY <1>1, <1>6, <1>7, <1>8
<1>. QED
  BY <1>9, <1>10, ChapterKeeps

--------------------------------------------------------------------------------
(* The preparation.                                                         *)

PrepPlace == {"idle", "staging", "convert", "check", "publishing", "copying", "describe",
              "planning", "write", "ready", "held", "over"}

PrepState == [pc : PrepPlace, source : Source \cup {NoSource}, files : Seq(Seq(Nat)),
              unfinished : BOOLEAN]

GroupState == [alive : SUBSET {"leader", "helper"}, pipes : SUBSET {"leader", "helper"},
               status : {"none", "success", "warnings", "error"}]

ThreadState == [busy : {"none", "stage", "publish", "copy"}, alone : SUBSET {"stage", "publish", "copy"}]

PrepTyped ==
  /\ prep \in PrepState /\ group \in GroupState /\ thread \in ThreadState
  /\ dirs \subseteq {"presentation", "conversion", "pdf"}
  /\ prep.pc \notin {"idle", "held", "over"} => prep.source \in Source

(* What a preparation waits for.                                            *)
WorkAt(pc) ==
  IF pc = "staging" THEN "stage" ELSE IF pc = "publishing" THEN "publish"
  ELSE IF pc = "copying" THEN "copy" ELSE "none"

(* No program runs but the one that is waited for, and what is left of a    *)
(* preparation that has ended is removed by a thread that still runs.       *)
LeftOK ==
  /\ prep.pc \notin Running => group = NoGroup
  /\ thread.busy = WorkAt(prep.pc)
  /\ prep.pc \in {"ready", "held"} => dirs = {"pdf"}
  /\ prep.pc = "over" =>
       dirs \subseteq (IF prep.unfinished THEN {"presentation"} ELSE {})
                        \cup (IF "publish" \in thread.alone THEN {"conversion"} ELSE {})

(* The files that are written are those of the plan, from the first on.     *)
FilesAre(files, chunks) ==
  /\ files \in Seq(Seq(Nat)) /\ Len(files) <= Len(chunks)
  /\ \A k \in 1 .. Len(files) : files[k] = chunks[k].pages

PlanOK(q) ==
  /\ q.chapters = << >> => q.chunks = FixedChunks(q.total)
  /\ q.chapters # << >> => CutOK(q)

WholeOK ==
  /\ prep.pc \in {"planning", "write"} \/ (prep.pc = "ready" /\ prep.source.total > Threshold) =>
       /\ prep.source.total > Threshold
       /\ plan.total = prep.source.total /\ PlanOK(plan)
       /\ plan.chapters = << >> => plan.next = 1
  /\ prep.pc = "write" => Planned /\ FilesAre(prep.files, Chunks) /\ Len(prep.files) < Len(Chunks)
  /\ prep.pc = "ready" =>
       IF prep.source.total > Threshold
       THEN Planned /\ FilesAre(prep.files, Chunks) /\ Len(prep.files) = Len(Chunks)
       ELSE prep.files = << Pages(0, prep.source.total) >>

PrepInv == PrepTyped /\ LeftOK /\ WholeOK

LEMMA SourceTyped ==
  ASSUME NEW source \in Source
  PROVE  /\ source.kind \in {"pdf", "pptx"} /\ source.total \in Nat
         /\ source.outlines \in Outlines
BY DEF Source, Outlines, Bookmark

LEMMA PrepTotal ==
  ASSUME PrepTyped
  PROVE  /\ prep.source.total \in Nat /\ prep.pc \in PrepPlace
         /\ prep.files \in Seq(Seq(Nat)) /\ prep.unfinished \in BOOLEAN
BY SourceTyped DEF PrepTyped, PrepState, NoSource

LEMMA GoFacts ==
  ASSUME NEW pc \in PrepPlace, prep \in PrepState, Go(pc)
  PROVE  /\ prep' \in PrepState /\ prep'.pc = pc /\ prep'.source = prep.source
         /\ prep'.files = prep.files /\ prep'.unfinished = prep.unfinished
BY DEF PrepState, Go

LEMMA NoPrepFacts == NoPrep \in PrepState /\ NoPrep.unfinished = FALSE
BY DEF PrepState, NoPrep, NoSource, PrepPlace

LEMMA OverFacts ==
  ASSUME NEW unfinished \in BOOLEAN, NEW pc \in {"over", "held", "idle"},
         prep' = [NoPrep EXCEPT !.pc = pc, !.unfinished = unfinished]
  PROVE  /\ prep' \in PrepState /\ prep'.pc = pc /\ prep'.unfinished = unfinished
<1>1. pc \in PrepPlace
  BY DEF PrepPlace
<1>. QED
  BY <1>1, NoPrepFacts DEF PrepState

LEMMA OverWhole ==
  ASSUME prep'.pc \notin {"planning", "write", "ready"}
  PROVE  WholeOK'
BY DEF WholeOK

LEMMA WholeStays ==
  ASSUME WholeOK, UNCHANGED <<plan, prep>>
  PROVE  WholeOK'
BY DEF WholeOK, Planned, Chunks, Completed

LEMMA FailsKeeps ==
  ASSUME PrepTyped, Fails, group' = NoGroup, thread' \in ThreadState, thread'.busy = "none"
  PROVE  PrepInv'
<1>1. /\ prep' \in PrepState /\ prep'.pc = "over" /\ dirs' = {}
  BY NoPrepFacts DEF Fails, PrepState, PrepPlace
<1>2. group' \in GroupState
  BY DEF GroupState, NoGroup
<1>3. PrepTyped'
  BY <1>1, <1>2 DEF PrepTyped
<1>4. LeftOK'
  BY <1>1 DEF LeftOK, WorkAt, Running
<1>. QED
  BY <1>1, <1>3, <1>4, OverWhole DEF PrepInv

LEMMA DiscardKeeps ==
  ASSUME PrepInv, prep.pc \in {"ready", "held", "over"}, Discard, UNCHANGED <<group, thread>>
  PROVE  PrepInv'
<1>1. /\ prep' \in PrepState /\ prep'.pc = "idle" /\ dirs' = {}
  BY DEF Discard, PrepState, NoPrep, NoSource, PrepPlace
<1>2. PrepTyped'
  BY <1>1 DEF PrepInv, PrepTyped
<1>3. LeftOK'
  BY <1>1 DEF PrepInv, LeftOK, WorkAt, Running
<1>. QED
  BY <1>1, <1>2, <1>3, OverWhole DEF PrepInv

LEMMA PrepareKeeps ==
  ASSUME PrepInv, NEW source \in Source, Prepare(source)
  PROVE  PrepInv'
<1>1. /\ prep' \in PrepState /\ prep'.source \in Source
      /\ prep'.pc = IF source.kind = "pptx" THEN "staging" ELSE "copying"
  BY NoPrepFacts DEF Prepare, PrepState, PrepPlace
<1>2. /\ thread' \in ThreadState
      /\ thread'.busy = IF source.kind = "pptx" THEN "stage" ELSE "copy"
  BY DEF Prepare, Starts, ThreadState, PrepInv, PrepTyped
<1>3. /\ dirs' \subseteq {"presentation", "conversion", "pdf"} /\ group' = group
      /\ group = NoGroup
  BY DEF Prepare, PrepInv, PrepTyped, LeftOK, At, Running
<1>4. PrepTyped'
  BY <1>1, <1>2, <1>3 DEF PrepInv, PrepTyped
<1>5. LeftOK'
  BY <1>1, <1>2, <1>3 DEF LeftOK, WorkAt
<1>. QED
  BY <1>1, <1>4, <1>5, OverWhole DEF PrepInv

LEMMA DroppedKeeps ==
  ASSUME PrepInv, Dropped
  PROVE  PrepInv'
<1>. DEFINE unfinished == thread.busy \in {"stage", "publish"}
<1>1. unfinished \in BOOLEAN /\ prep' = [NoPrep EXCEPT !.pc = "over", !.unfinished = unfinished]
  BY DEF Dropped
<1>2. prep' \in PrepState /\ prep'.pc = "over" /\ prep'.unfinished = unfinished
  BY <1>1, OverFacts
<1>3. group' = NoGroup /\ group' \in GroupState
  BY DEF Dropped, Killed, NoGroup, GroupState
<1>4. /\ thread' \in ThreadState /\ thread'.busy = "none"
      /\ thread.busy = "publish" => "publish" \in thread'.alone
  BY DEF Dropped, Leaves, ThreadState, PrepInv, PrepTyped
<1>5. dirs' \subseteq (IF unfinished THEN {"presentation"} ELSE {})
                        \cup (IF thread.busy = "publish" THEN {"conversion"} ELSE {})
  <2>1. CASE thread.busy \in {"stage", "publish"}
    BY <2>1 DEF Dropped, Busy
  <2>2. CASE thread.busy \notin {"stage", "publish"}
    BY <2>2 DEF Dropped, Busy
  <2>. QED
    BY <2>1, <2>2
<1>6. dirs' \subseteq {"presentation", "conversion", "pdf"}
  BY <1>5
<1>7. PrepTyped'
  BY <1>2, <1>3, <1>4, <1>6 DEF PrepTyped
<1>8. LeftOK'
  BY <1>2, <1>3, <1>4, <1>5 DEF LeftOK, WorkAt
<1>. QED
  BY <1>2, <1>7, <1>8, OverWhole DEF PrepInv

LEMMA ThreadEndsAloneKeeps ==
  ASSUME PrepInv, ThreadEndsAlone
  PROVE  PrepInv'
<1>1. PICK work \in thread.alone :
        /\ thread' = [thread EXCEPT !.alone = @ \ {work}]
        /\ dirs' = dirs \ IF work = "publish" THEN {"conversion"} ELSE {}
  BY DEF ThreadEndsAlone
<1>2. UNCHANGED <<plan, prep, group>>
  BY DEF ThreadEndsAlone
<1>3. thread' \in ThreadState /\ thread'.busy = thread.busy /\ thread'.alone = thread.alone \ {work}
  BY <1>1 DEF ThreadState, PrepInv, PrepTyped
<1>4. PrepTyped'
  BY <1>1, <1>2, <1>3 DEF PrepInv, PrepTyped
<1>5. LeftOK'
  <2>1. prep.pc \in {"ready", "held"} => dirs' = {"pdf"}
    BY <1>1 DEF PrepInv, LeftOK
  <2>2. prep.pc = "over" =>
          dirs' \subseteq (IF prep.unfinished THEN {"presentation"} ELSE {})
                           \cup (IF "publish" \in thread'.alone THEN {"conversion"} ELSE {})
    BY <1>1, <1>3 DEF PrepInv, LeftOK
  <2>. QED
    BY <1>2, <1>3, <2>1, <2>2 DEF PrepInv, LeftOK
<1>. QED
  BY <1>2, <1>4, <1>5, WholeStays DEF PrepInv

LEMMA StartsFacts ==
  ASSUME thread \in ThreadState, NEW work \in {"none", "stage", "publish", "copy"}, Starts(work)
  PROVE  thread' \in ThreadState /\ thread'.busy = work /\ thread'.alone = thread.alone
BY DEF ThreadState, Starts

(* A step to a place where nothing is said of the files.                    *)
LEMMA StepKeeps ==
  ASSUME PrepInv, NEW pc \in {"staging", "convert", "check", "publishing", "copying", "describe"},
         Go(pc), prep.pc \notin {"idle", "held", "over"},
         thread' \in ThreadState, thread'.busy = WorkAt(pc),
         group' \in GroupState, pc \notin Running => group' = NoGroup,
         dirs' \subseteq {"presentation", "conversion", "pdf"}
  PROVE  PrepInv'
<1>1. /\ prep' \in PrepState /\ prep'.pc = pc /\ prep'.source = prep.source
  BY GoFacts DEF PrepInv, PrepTyped, PrepPlace
<1>2. PrepTyped'
  BY <1>1 DEF PrepInv, PrepTyped
<1>3. LeftOK'
  BY <1>1 DEF LeftOK
<1>. QED
  BY <1>1, <1>2, <1>3, OverWhole DEF PrepInv

LEMMA NoGroupFacts == NoGroup \in GroupState /\ NoGroup.alive = {}
BY DEF NoGroup, GroupState

LEMMA ThreadStepKeeps ==
  ASSUME PrepInv, ThreadFails \/ Staged \/ Published \/ Copied
  PROVE  PrepInv'
<1>1. prep.pc \in PrepPlace /\ thread.busy = WorkAt(prep.pc)
  BY PrepTotal DEF PrepInv, LeftOK
<1>2. thread.busy # "none" => prep.pc \in {"staging", "publishing", "copying"} /\ group = NoGroup
  BY <1>1 DEF WorkAt, PrepInv, LeftOK, Running
<1>3. CASE ThreadFails
  <2>1. thread' \in ThreadState /\ thread'.busy = "none"
    BY <1>3, StartsFacts DEF ThreadFails, PrepInv, PrepTyped
  <2>2. group' = NoGroup
    BY <1>2, <1>3 DEF ThreadFails, Busy
  <2>. QED
    BY <1>3, <2>1, <2>2, FailsKeeps DEF ThreadFails, PrepInv
<1>4. CASE Staged
  <2>1. thread' \in ThreadState /\ thread'.busy = "none"
    BY <1>4, StartsFacts DEF Staged, PrepInv, PrepTyped
  <2>2. /\ dirs' \subseteq {"presentation", "conversion", "pdf"}
        /\ group' \in GroupState /\ Go("convert")
        /\ prep.pc \in {"staging", "publishing", "copying"}
    BY <1>2, <1>4 DEF Staged, Busy, PrepInv, PrepTyped
  <2>. QED
    BY <2>1, <2>2, StepKeeps DEF WorkAt, Running
<1>5. CASE Published
  <2>1. thread' \in ThreadState /\ thread'.busy = "copy"
    BY <1>5, StartsFacts DEF Published, PrepInv, PrepTyped
  <2>2. /\ dirs' \subseteq {"presentation", "conversion", "pdf"}
        /\ group' = NoGroup /\ Go("copying")
        /\ prep.pc \in {"staging", "publishing", "copying"}
    BY <1>2, <1>5 DEF Published, Busy, PrepInv, PrepTyped
  <2>. QED
    BY <2>1, <2>2, StepKeeps, NoGroupFacts DEF WorkAt
<1>6. CASE Copied
  <2>1. thread' \in ThreadState /\ thread'.busy = "none"
    BY <1>6, StartsFacts DEF Copied, PrepInv, PrepTyped
  <2>2. /\ dirs' \subseteq {"presentation", "conversion", "pdf"}
        /\ group' \in GroupState /\ Go("describe")
        /\ prep.pc \in {"staging", "publishing", "copying"}
    BY <1>2, <1>6 DEF Copied, Busy, PrepInv, PrepTyped
  <2>. QED
    BY <2>1, <2>2, StepKeeps DEF WorkAt, Running
<1>. QED
  BY <1>3, <1>4, <1>5, <1>6

(* A step of the program that runs.                                         *)
LEMMA GroupKeeps ==
  ASSUME PrepInv, prep.pc \in Running, group' \in GroupState, UNCHANGED <<plan, prep, thread, dirs>>
  PROVE  PrepInv'
<1>1. PrepTyped'
  BY DEF PrepInv, PrepTyped
<1>2. LeftOK'
  BY DEF PrepInv, LeftOK
<1>. QED
  BY <1>1, <1>2, WholeStays DEF PrepInv

LEMMA ProgramKeeps ==
  ASSUME PrepInv, Spawn \/ Fork \/ \E m \in group.alive : Exits(m)
  PROVE  PrepInv'
<1>1. group \in GroupState /\ (group # NoGroup => prep.pc \in Running)
  BY DEF PrepInv, PrepTyped, LeftOK
<1>2. CASE Spawn
  <2>1. group' \in GroupState
    BY <1>2 DEF Spawn, GroupState
  <2>. QED
    BY <1>2, <2>1, GroupKeeps DEF Spawn
<1>3. CASE Fork
  <2>1. group' \in GroupState
    <3>1. PICK kept \in {{}, {"helper"}} :
            group' = [group EXCEPT !.alive = @ \cup {"helper"}, !.pipes = @ \cup kept]
      BY <1>3 DEF Fork
    <3>2. kept \subseteq {"helper"}
      OBVIOUS
    <3>. QED
      BY <1>1, <3>1, <3>2 DEF GroupState
  <2>2. prep.pc \in Running
    BY <1>3 DEF Fork, At, Running
  <2>. QED
    BY <1>3, <2>1, <2>2, GroupKeeps DEF Fork
<1>4. CASE \E m \in group.alive : Exits(m)
  <2>1. PICK m \in group.alive : Exits(m)
    BY <1>4
  <2>2. PICK status \in IF m = "leader" THEN {"success", "warnings", "error"} ELSE {group.status} :
          group' = [alive |-> group.alive \ {m}, pipes |-> group.pipes \ {m}, status |-> status]
    BY <2>1 DEF Exits
  <2>3. group' \in GroupState
    BY <1>1, <2>2 DEF GroupState
  <2>4. prep.pc \in Running
    BY <1>1, <2>1, NoGroupFacts
  <2>. QED
    BY <2>1, <2>3, <2>4, GroupKeeps DEF Exits
<1>. QED
  BY <1>2, <1>3, <1>4

LEMMA AbortKeeps ==
  ASSUME PrepInv, RunFails \/ TimesOut
  PROVE  PrepInv'
<1>1. group' = NoGroup /\ Fails
  BY DEF RunFails, TimesOut, Killed
<1>2. thread' \in ThreadState /\ thread'.busy = "none"
  <2>1. CASE RunFails
    BY <2>1 DEF RunFails, PrepInv, PrepTyped, LeftOK, WorkAt, Running
  <2>2. CASE TimesOut
    BY <2>2 DEF TimesOut, Leaves, ThreadState, PrepInv, PrepTyped
  <2>. QED
    BY <2>1, <2>2
<1>. QED
  BY <1>1, <1>2, FailsKeeps DEF PrepInv

LEMMA ConversionKeeps ==
  ASSUME PrepInv, Converted \/ Checked
  PROVE  PrepInv'
<1>1. CASE Converted
  <2>1. /\ Go("check") /\ group' = NoGroup /\ UNCHANGED <<thread, dirs>> /\ prep.pc = "convert"
    BY <1>1 DEF Converted, Succeeds, Killed, At
  <2>2. thread' \in ThreadState /\ thread'.busy = "none"
    BY <2>1 DEF PrepInv, PrepTyped, LeftOK, WorkAt
  <2>3. dirs' \subseteq {"presentation", "conversion", "pdf"}
    BY <2>1 DEF PrepInv, PrepTyped
  <2>. QED
    BY <2>1, <2>2, <2>3, StepKeeps, NoGroupFacts DEF WorkAt, Running
<1>2. CASE Checked
  <2>1. /\ Go("publishing") /\ group' = NoGroup /\ Starts("publish") /\ dirs' = dirs
        /\ prep.pc = "check"
    BY <1>2 DEF Checked, Succeeds, Killed, At
  <2>2. thread' \in ThreadState /\ thread'.busy = "publish"
    BY <2>1, StartsFacts DEF PrepInv, PrepTyped
  <2>3. dirs' \subseteq {"presentation", "conversion", "pdf"}
    BY <2>1 DEF PrepInv, PrepTyped
  <2>. QED
    BY <2>1, <2>2, <2>3, StepKeeps, NoGroupFacts DEF WorkAt, Running
<1>. QED
  BY <1>1, <1>2

(* The chapters of a PDF that is too long, or the pieces of one size.       *)
LEMMA PlanBegins ==
  ASSUME NEW total \in Nat, NEW chapters \in Seq(Extent), BeginPlan(total, chapters, FALSE)
  PROVE  /\ plan'.total = total /\ PlanOK(plan')
         /\ plan'.chapters = << >> => plan'.next = 1
<1>1. CASE chapters = << >>
  <2>1. plan' = [NoPlan EXCEPT !.total = total, !.chunks = FixedChunks(total)]
    BY <1>1 DEF BeginPlan
  <2>2. /\ plan'.total = total /\ plan'.chapters = << >> /\ plan'.next = 1
        /\ plan'.chunks = FixedChunks(total)
    BY <2>1 DEF NoPlan
  <2>. QED
    BY <2>2 DEF PlanOK
<1>2. CASE chapters # << >>
  <2>. DEFINE prefix == Least(chapters[1].from, total)
              pages == Pages(0, prefix)
              current == [NoChunk EXCEPT !.pages = pages]
  <2>1. prefix \in Nat
    <3>1. chapters[1] \in Extent
      BY <1>2
    <3>. QED
      BY <3>1 DEF Extent, Least
  <2>2. pages \in Seq(Nat) /\ Len(pages) = prefix
    <3>1. Less(prefix, 0) = prefix
      BY <2>1 DEF Less
    <3>. QED
      BY <2>1, <3>1, PagesFacts
  <2>3. plan' = [NoPlan EXCEPT !.total = total, !.chapters = chapters, !.retain = FALSE,
                               !.current.pages = pages, !.count = prefix, !.end = prefix]
    BY <1>2 DEF BeginPlan, NewPlan
  <2>. HIDE DEF prefix, pages
  <2>4. current \in Chunk /\ current.pages = pages
    BY <2>2 DEF NoChunk, Chunk
  <2>5. plan' = [total |-> total, chapters |-> chapters, next |-> 1, chunks |-> << >>,
                 current |-> current, relevant |-> FALSE, count |-> prefix, end |-> prefix,
                 retain |-> FALSE]
    BY <2>3 DEF NoPlan
  <2>. HIDE DEF current
  <2>6. /\ plan' \in PlanState /\ plan'.retain = FALSE /\ plan'.total = total
        /\ plan'.chapters = chapters /\ plan'.current = current /\ plan'.count = prefix
        /\ plan'.relevant = FALSE /\ plan'.chunks = << >> /\ plan'.next = 1
    BY <2>1, <2>4, <2>5 DEF PlanState
  <2>7. Passed(plan')
    BY <2>6 DEF Passed
  <2>8. CutOK(plan')
    BY <2>2, <2>4, <2>6, <2>7 DEF CutOK
  <2>. QED
    BY <1>2, <2>6, <2>8 DEF PlanOK
<1>. QED
  BY <1>1, <1>2

(* A step at a program's end, which leads to planning, writing or readiness. *)
LEMMA PlaceKeeps ==
  ASSUME PrepInv, prep.pc \in {"describe", "planning", "write"}, prep' \in PrepState,
         prep'.pc \in {"planning", "write", "ready"}, prep'.source = prep.source,
         thread' = thread, dirs' = IF prep'.pc = "ready" THEN {"pdf"} ELSE dirs,
         group' = NoGroup
  PROVE  PrepTyped' /\ LeftOK'
<1>1. PrepTyped'
  BY NoGroupFacts DEF PrepInv, PrepTyped
<1>2. thread.busy = "none"
  BY DEF PrepInv, LeftOK, WorkAt
<1>3. LeftOK'
  BY <1>2 DEF LeftOK, WorkAt, Running
<1>. QED
  BY <1>1, <1>3

LEMMA DescribedKeeps ==
  ASSUME PrepInv, Described
  PROVE  PrepInv'
<1>1. /\ prep.pc = "describe" /\ group' = NoGroup /\ thread' = thread
      /\ prep \in PrepState /\ prep.source \in Source
  BY DEF Described, Succeeds, Killed, At, PrepInv, PrepTyped
<1>2. prep.source.total \in Nat /\ prep.source.outlines \in Outlines /\ Threshold \in Nat
  BY <1>1, SourceTyped, SizeFacts
<1>3. CASE prep.source.total <= Threshold
  <2>. DEFINE files == << Pages(0, prep.source.total) >>
  <2>1. prep' = [prep EXCEPT !.pc = "ready", !.files = files] /\ dirs' = {"pdf"}
    BY <1>3 DEF Described
  <2>2. files \in Seq(Seq(Nat))
    <3>1. Pages(0, prep.source.total) \in Seq(Nat)
      BY <1>2, PagesFacts
    <3>. QED
      BY <3>1
  <2>. HIDE DEF files
  <2>3. /\ prep' \in PrepState /\ prep'.pc = "ready" /\ prep'.source = prep.source
        /\ prep'.files = files
    BY <1>1, <2>1, <2>2 DEF PrepState, PrepPlace
  <2>4. PrepTyped' /\ LeftOK'
    BY <1>1, <2>1, <2>3, PlaceKeeps
  <2>5. ~ (prep.source.total > Threshold)
    BY <1>2, <1>3
  <2>6. WholeOK'
    BY <2>3, <2>5 DEF WholeOK, files
  <2>. QED
    BY <2>4, <2>6 DEF PrepInv
<1>4. CASE ~ (prep.source.total <= Threshold)
  <2>. DEFINE chapters == Chapters(prep.source.outlines, prep.source.total)
  <2>1. /\ Go("planning") /\ dirs' = dirs
        /\ BeginPlan(prep.source.total, chapters, FALSE)
    BY <1>4 DEF Described
  <2>2. chapters \in Seq(Extent)
    BY <1>2, ChaptersTyped
  <2>3. /\ prep' \in PrepState /\ prep'.pc = "planning" /\ prep'.source = prep.source
    BY <1>1, <2>1, GoFacts DEF PrepPlace
  <2>4. PrepTyped' /\ LeftOK'
    BY <1>1, <2>1, <2>3, PlaceKeeps
  <2>. HIDE DEF chapters
  <2>5. /\ plan'.total = prep.source.total /\ PlanOK(plan')
        /\ plan'.chapters = << >> => plan'.next = 1
    BY <1>2, <2>1, <2>2, PlanBegins
  <2>6. prep.source.total > Threshold
    BY <1>2, <1>4
  <2>7. WholeOK'
    BY <2>3, <2>5, <2>6 DEF WholeOK
  <2>. QED
    BY <2>4, <2>7 DEF PrepInv
<1>. QED
  BY <1>3, <1>4

LEMMA PlansKeeps ==
  ASSUME PrepInv, Plans
  PROVE  PrepInv'
<1>1. prep.pc = "planning" /\ PushChapter /\ UNCHANGED <<prep, group, thread, dirs>>
  BY DEF Plans, At
<1>2. /\ prep.source.total > Threshold /\ plan.total = prep.source.total /\ PlanOK(plan)
      /\ plan.chapters = << >> => plan.next = 1
  BY <1>1 DEF PrepInv, WholeOK
<1>3. plan.chapters # << >> /\ CutOK(plan)
  BY <1>1, <1>2 DEF PushChapter, PlanOK
<1>4. CutOK(plan') /\ plan'.total = plan.total /\ plan'.chapters = plan.chapters
  BY <1>1, <1>3, PushKeeps
<1>5. WholeOK'
  BY <1>1, <1>2, <1>3, <1>4 DEF WholeOK, PlanOK
<1>6. PrepTyped' /\ LeftOK'
  BY <1>1 DEF PrepInv, PrepTyped, LeftOK
<1>. QED
  BY <1>5, <1>6 DEF PrepInv

(* The chunks to be written.                                                *)
LEMMA ChunksTyped ==
  ASSUME PlanOK(plan), plan.total \in Nat \ {0}
  PROVE  /\ Len(Chunks) \in Nat /\ DOMAIN Chunks = 1 .. Len(Chunks)
         /\ \A k \in 1 .. Len(Chunks) : Chunks[k].pages \in Seq(Nat)
<1>1. CASE plan.chapters = << >>
  <2>1. Chunks = FixedChunks(plan.total)
    BY <1>1 DEF Chunks, PlanOK
  <2>2. FixedCount(plan.total) \in Nat
    BY CountFacts
  <2>3. /\ Len(FixedChunks(plan.total)) = FixedCount(plan.total)
        /\ DOMAIN FixedChunks(plan.total) = 1 .. FixedCount(plan.total)
    BY <2>2 DEF FixedChunks
  <2>. QED
    BY <2>1, <2>2, <2>3, FixedFit
<1>2. CASE plan.chapters # << >>
  <2>1. Chunks = Completed /\ Completed \in Seq(Chunk)
    BY <1>2, CompletedFacts DEF Chunks, PlanOK
  <2>2. \A k \in 1 .. Len(Chunks) : Chunks[k] \in Chunk
    BY <2>1
  <2>. QED
    BY <2>1, <2>2 DEF Chunk
<1>. QED
  BY <1>1, <1>2

LEMMA WritesKeeps ==
  ASSUME PrepInv, prep.pc \in {"planning", "write"}, NEW files, FilesAre(files, Chunks),
         Planned, Writes(files), thread' = thread, group' = NoGroup, plan' = plan
  PROVE  PrepInv'
<1>1. /\ prep.source.total > Threshold
      /\ plan.total = prep.source.total /\ PlanOK(plan)
      /\ plan.chapters = << >> => plan.next = 1
  BY DEF PrepInv, WholeOK
<1>2. prep \in PrepState /\ prep.source.total \in Nat /\ Threshold \in Nat /\ plan.total \in Nat \ {0}
  BY <1>1, PrepTotal, SizeFacts DEF PrepInv, PrepTyped
<1>3. Len(Chunks) \in Nat
  BY <1>1, <1>2, ChunksTyped
<1>4. Len(files) \in Nat /\ Len(files) <= Len(Chunks) /\ files \in Seq(Seq(Nat))
  BY DEF FilesAre
<1>5. /\ prep' \in PrepState /\ prep'.files = files /\ prep'.source = prep.source
      /\ prep'.pc = IF Len(files) = Len(Chunks) THEN "ready" ELSE "write"
      /\ dirs' = IF prep'.pc = "ready" THEN {"pdf"} ELSE dirs
  <2>1. CASE Len(files) = Len(Chunks)
    BY <1>2, <1>4, <2>1 DEF Writes, PrepState, PrepPlace
  <2>2. CASE Len(files) # Len(Chunks)
    BY <1>2, <1>4, <2>2 DEF Writes, PrepState, PrepPlace
  <2>. QED
    BY <2>1, <2>2
<1>6. PrepTyped' /\ LeftOK'
  BY <1>5, PlaceKeeps
<1>7. Chunks' = Chunks /\ Planned' = Planned
  BY DEF Chunks, Completed, Planned
<1>8. WholeOK'
  <2>1. CASE Len(files) = Len(Chunks)
    BY <1>1, <1>5, <1>7, <2>1 DEF WholeOK
  <2>2. CASE Len(files) # Len(Chunks)
    <3>1. Len(files) < Len(Chunks)
      BY <1>3, <1>4, <2>2
    <3>. QED
      BY <1>1, <1>5, <1>7, <2>2, <3>1 DEF WholeOK
  <2>. QED
    BY <2>1, <2>2
<1>. QED
  BY <1>6, <1>8 DEF PrepInv

LEMMA WritingKeeps ==
  ASSUME PrepInv, BeginWriting \/ Written
  PROVE  PrepInv'
<1>. SUFFICES ASSUME prep.pc \in {"planning", "write"} PROVE PrepInv'
  BY DEF BeginWriting, Written, Succeeds, At
<1>1. /\ prep.source.total > Threshold
      /\ plan.total = prep.source.total /\ PlanOK(plan)
  BY DEF PrepInv, WholeOK
<1>2. prep.source.total \in Nat /\ Threshold \in Nat /\ plan.total \in Nat \ {0}
  BY <1>1, PrepTotal, SizeFacts DEF PrepInv
<1>3. /\ Len(Chunks) \in Nat
      /\ \A k \in 1 .. Len(Chunks) : Chunks[k].pages \in Seq(Nat)
  BY <1>1, <1>2, ChunksTyped
<1>4. CASE BeginWriting
  <2>1. /\ Planned /\ Writes(<< >>) /\ UNCHANGED <<plan, group, thread>> /\ prep.pc = "planning"
    BY <1>4 DEF BeginWriting, At
  <2>2. FilesAre(<< >>, Chunks)
    BY <1>3 DEF FilesAre
  <2>3. group' = NoGroup
    BY <2>1 DEF PrepInv, LeftOK, Running
  <2>. QED
    BY <2>1, <2>2, <2>3, WritesKeeps
<1>5. CASE Written
  <2>. DEFINE n == Len(prep.files) + 1
              files == Append(prep.files, Chunks[n].pages)
  <2>1. /\ prep.pc = "write" /\ group' = NoGroup /\ Writes(files) /\ UNCHANGED <<plan, thread>>
    BY <1>5 DEF Written, Succeeds, Killed, At
  <2>2. Planned /\ FilesAre(prep.files, Chunks) /\ Len(prep.files) < Len(Chunks)
    BY <2>1 DEF PrepInv, WholeOK
  <2>3. n \in 1 .. Len(Chunks) /\ prep.files \in Seq(Seq(Nat))
    BY <1>3, <2>2 DEF FilesAre
  <2>4. Chunks[n].pages \in Seq(Nat)
    BY <1>3, <2>3
  <2>5. /\ files \in Seq(Seq(Nat)) /\ Len(files) = n /\ files[n] = Chunks[n].pages
        /\ \A k \in 1 .. Len(prep.files) : files[k] = prep.files[k]
        /\ \A k \in 1 .. n : k \in 1 .. Len(prep.files) \/ k = n
    BY <2>3, <2>4
  <2>. HIDE DEF files
  <2>6. FilesAre(files, Chunks)
    <3>1. \A k \in 1 .. Len(prep.files) : prep.files[k] = Chunks[k].pages
      BY <2>2 DEF FilesAre
    <3>. HIDE DEF n
    <3>2. \A k \in 1 .. n : files[k] = Chunks[k].pages
      BY <2>5, <3>1
    <3>. QED
      BY <1>3, <2>3, <2>5, <3>2 DEF FilesAre
  <2>. QED
    BY <2>1, <2>2, <2>6, WritesKeeps
<1>. QED
  BY <1>4, <1>5

LEMMA PrepStepKeeps ==
  ASSUME PrepInv, PrepStep
  PROVE  PrepInv'
BY ThreadEndsAloneKeeps, ThreadStepKeeps, ProgramKeeps, AbortKeeps, ConversionKeeps,
   DescribedKeeps, PlansKeeps, WritingKeeps DEF PrepStep

LEMMA InFiles ==
  ASSUME NEW files, NEW i \in DOMAIN files, NEW p, Holds(files[i], p)
  PROVE  p \in PagesOf(files)
BY DEF Holds, PagesOf

(* What is ready is whole, and no file is too long.                         *)
LEMMA WholeFacts ==
  ASSUME PrepInv, At("ready")
  PROVE  PagesCovered /\ ChunksFit
<1>. DEFINE total == prep.source.total
<1>1. total \in Nat /\ prep.files \in Seq(Seq(Nat)) /\ Threshold \in Nat
  BY PrepTotal, SizeFacts DEF PrepInv
<1>2. CASE ~ (total > Threshold)
  <2>1. prep.files = << Pages(0, total) >>
    BY <1>2 DEF PrepInv, WholeOK, At
  <2>2. ASSUME NEW p \in 0 .. total - 1
        PROVE  p \in PagesOf(prep.files)
    <3>1. Holds(Pages(0, total), p)
      <4>1. PICK pages : pages = total
        OBVIOUS
      <4>. HIDE DEF total
      <4>2. 0 \in Nat /\ pages \in Nat /\ p \in Nat /\ 0 <= p /\ p < pages
        BY <1>1, <4>1
      <4>3. Holds(Pages(0, pages), p)
        BY <4>2, PagesFacts
      <4>. QED
        BY <4>1, <4>3
    <3>2. 1 \in DOMAIN prep.files /\ prep.files[1] = Pages(0, total)
      BY <2>1
    <3>. QED
      BY <3>1, <3>2, InFiles
  <2>. QED
    BY <1>2, <2>2 DEF PagesCovered, ChunksFit
<1>3. CASE total > Threshold
  <2>1. /\ plan.total = total /\ PlanOK(plan) /\ Planned
        /\ FilesAre(prep.files, Chunks) /\ Len(prep.files) = Len(Chunks)
    BY <1>3 DEF PrepInv, WholeOK, At
  <2>2. total \in Nat \ {0}
    BY <1>1, <1>3
  <2>3. /\ DOMAIN prep.files = 1 .. Len(Chunks) /\ DOMAIN Chunks = 1 .. Len(Chunks)
        /\ Len(Chunks) \in Nat
        /\ \A k \in 1 .. Len(Chunks) : prep.files[k] = Chunks[k].pages
    <3>1. DOMAIN prep.files = 1 .. Len(prep.files)
      BY <1>1
    <3>. QED
      BY <2>1, <2>2, <3>1, ChunksTyped DEF FilesAre
  <2>. HIDE DEF total
  <2>4. CASE plan.chapters = << >>
    <3>1. Chunks = FixedChunks(total) /\ DOMAIN Chunks = 1 .. FixedCount(total)
      BY <2>1, <2>4 DEF Chunks, PlanOK, FixedChunks
    <3>2. \A i \in DOMAIN prep.files : prep.files[i] = FixedChunks(total)[i].pages
      BY <2>3, <3>1
    <3>3. ASSUME NEW p \in 0 .. total - 1
          PROVE  p \in PagesOf(prep.files)
      <4>1. PICK i \in 1 .. FixedCount(total) : Holds(FixedChunks(total)[i].pages, p)
        BY <2>2, FixedCovers
      <4>2. i \in DOMAIN prep.files /\ prep.files[i] = FixedChunks(total)[i].pages
        BY <2>3, <3>1, <3>2
      <4>. QED
        BY <4>1, <4>2, InFiles
    <3>4. ASSUME NEW i \in DOMAIN prep.files
          PROVE  /\ Len(prep.files[i]) <= Size
                 /\ i > 1 =>
                      /\ prep.files[i][1] = prep.files[i - 1][1] + Size - Overlap
                      /\ prep.files[i][Len(prep.files[i])] > prep.files[i - 1][Len(prep.files[i - 1])]
      <4>1. i \in 1 .. FixedCount(total) /\ (i > 1 => i - 1 \in DOMAIN prep.files)
        <5>1. i \in 1 .. Len(Chunks) /\ Len(Chunks) \in Nat
          BY <2>3
        <5>2. i > 1 => i - 1 \in 1 .. Len(Chunks)
          BY <5>1
        <5>. QED
          BY <2>3, <3>1, <5>1, <5>2
      <4>. DEFINE pages(k) == FixedChunks(total)[k].pages
      <4>2. /\ Len(pages(i)) <= Size
            /\ i > 1 => /\ pages(i)[1] = pages(i - 1)[1] + Size - Overlap
                        /\ pages(i)[Len(pages(i))] > pages(i - 1)[Len(pages(i - 1))]
        BY <2>2, <4>1, FixedFit
      <4>3. prep.files[i] = pages(i) /\ (i > 1 => prep.files[i - 1] = pages(i - 1))
        BY <3>2, <4>1
      <4>. HIDE DEF pages
      <4>. QED
        BY <4>2, <4>3
    <3>5. PagesCovered
      BY <3>3 DEF PagesCovered, total
    <3>6. ChunksFit
      BY <3>4 DEF ChunksFit
    <3>. QED
      BY <3>5, <3>6
  <2>5. CASE plan.chapters # << >>
    <3>1. /\ CutOK(plan) /\ Chunks = Completed /\ plan.next > Len(plan.chapters)
          /\ plan.chapters \in Seq(Extent) /\ plan.next \in Nat
      BY <2>1, <2>5 DEF Chunks, PlanOK, Planned, CutOK, PlanState
    <3>2. ASSUME NEW p \in 0 .. total - 1, NEW i \in DOMAIN plan.chapters,
                 p \in plan.chapters[i].from .. plan.chapters[i].to - 1,
                 plan.chapters[i].title \notin SkipTitle
          PROVE  p \in PagesOf(prep.files)
      <4>1. plan.chapters[i] \in Extent /\ i \in Nat /\ i < plan.next
        BY <3>1
      <4>2. p \in Nat /\ p < plan.total
        BY <2>1, <2>2
      <4>3. Wanted(plan.chapters[i], p)
        BY <3>2, <4>1, <4>2 DEF Wanted, Extent
      <4>4. Among(Completed, p)
        BY <3>1, <4>1, <4>2, <4>3, CompletedFacts DEF CutOK, Passed
      <4>5. PICK k \in DOMAIN Completed : Holds(Completed[k].pages, p)
        BY <4>4 DEF Among
      <4>6. k \in DOMAIN prep.files /\ prep.files[k] = Completed[k].pages
        BY <2>3, <3>1, <4>5
      <4>. QED
        BY <4>5, <4>6, InFiles
    <3>3. PagesCovered
      BY <2>5, <3>2 DEF PagesCovered, total
    <3>4. \A i \in DOMAIN prep.files : Fits(plan.chapters, prep.files[i])
      BY <2>3, <3>1, CompletedFacts
    <3>5. ChunksFit
      BY <2>5, <3>4 DEF ChunksFit, Fits
    <3>. QED
      BY <3>3, <3>5
  <2>. QED
    BY <2>4, <2>5
<1>. QED
  BY <1>2, <1>3

LEMMA LeftFacts ==
  ASSUME PrepInv
  PROVE  NothingLeftBehind
BY NoGroupFacts DEF PrepInv, LeftOK, NothingLeftBehind, At, NoThread

--------------------------------------------------------------------------------
(* Commands.                                                                *)

DocFields == {"pc", "total", "parts", "artifacts", "lost", "kept", "quality"}
RunFields == {"name", "exit", "todo", "single", "reports", "listed", "merge"}

Fielded(record, fields) == record = [f \in fields |-> record[f]]

Report(files) == [outcome : {"failed", "skipped", "completed"}, artifacts : SUBSET files]

(* A document is in work while its command is, and holds the preparation.   *)
DocOK ==
  /\ Fielded(doc, DocFields)
  /\ doc.pc \in {"none", "prepare", "chunk", "export"}
  /\ doc.pc # "none" => run.exit = "none" /\ run.name \in Generating
  /\ doc.pc \in {"chunk", "export"} => prep.pc = "held"
  /\ doc.artifacts \subseteq DOMAIN folder

(* What is reported is there; only a failure can be without the whole deck. *)
ReportsOK ==
  /\ run.reports \in Seq(Report(DOMAIN folder))
  /\ \A d \in DOMAIN run.reports :
       run.reports[d].outcome = "completed" => <<d, 0>> \in run.reports[d].artifacts
  /\ run.name \notin Generating \cup {"stopped"} => run.reports = << >>

(* What was to be deleted and is not is still to be done.                   *)
Waits(todo, n) == \E i \in DOMAIN todo : todo[i] = n

NotebooksOK ==
  /\ remote \subseteq Notebook /\ pending \subseteq Notebook
  /\ pending # {} => run.exit = "none" /\ run.name \in Generating \cup {"stopped"}
  /\ run.name # "cleanup" /\ run.exit = "none" => run.listed = {}
  /\ run.name = "cleanup" /\ run.exit = "none" =>
       /\ run.todo \in Seq(Notebook)
       /\ \A n \in run.listed \cap remote : Waits(run.todo, n)

RunOK ==
  /\ Fielded(run, RunFields)
  /\ run.name \in Generating \cup {"stopped"} /\ run.exit = "none" => run.todo \in Seq(Source)
  /\ run.exit = "success" =>
       /\ run.listed \cap remote = {}
       /\ \A d \in DOMAIN run.reports : run.reports[d].outcome # "failed"

CommandInv == PrepInv /\ DocOK /\ ReportsOK /\ NotebooksOK /\ RunOK

LEMMA PrepSame ==
  ASSUME PrepInv, UNCHANGED prepVars
  PROVE  PrepInv'
<1>1. UNCHANGED <<plan, prep, group, thread, dirs>>
  BY DEF prepVars
<1>2. PrepTyped' /\ LeftOK'
  BY <1>1 DEF PrepInv, PrepTyped, LeftOK
<1>. QED
  BY <1>1, <1>2, WholeStays DEF PrepInv

(* The fields of a record that is changed.                                  *)
LEMMA DocChanges ==
  ASSUME NEW d, Fielded(d, DocFields)
  PROVE  /\ \A name : LET new == [d EXCEPT !.artifacts = @ \cup {name}] IN
              Fielded(new, DocFields) /\ new.pc = d.pc /\ new.artifacts = d.artifacts \cup {name}
         /\ LET new == [d EXCEPT !.lost = TRUE] IN
              Fielded(new, DocFields) /\ new.pc = d.pc /\ new.artifacts = d.artifacts
BY DEF Fielded, DocFields

LEMMA RunEnds ==
  ASSUME Fielded(run, RunFields), NEW code, Ends(code)
  PROVE  /\ Fielded(run', RunFields) /\ run'.exit = code /\ run'.name = run.name
         /\ run'.todo = run.todo /\ run'.reports = run.reports /\ run'.listed = run.listed
BY DEF Fielded, RunFields, Ends

LEMMA NoDocumentFacts ==
  /\ Fielded(NoDocument, DocFields) /\ NoDocument.pc = "none" /\ NoDocument.artifacts = {}
BY DEF Fielded, DocFields, NoDocument

LEMMA NoCommandFacts ==
  /\ Fielded(NoCommand, RunFields) /\ NoCommand.name = "none" /\ NoCommand.exit = "none"
  /\ NoCommand.todo = << >> /\ NoCommand.reports = << >> /\ NoCommand.listed = {}
BY DEF Fielded, RunFields, NoCommand

LEMMA ReportsGrow ==
  ASSUME NEW files, NEW more, files \subseteq more, NEW reports \in Seq(Report(files))
  PROVE  reports \in Seq(Report(more))
<1>1. Report(files) \subseteq Report(more)
  BY DEF Report
<1>2. \A i \in 1 .. Len(reports) : reports[i] \in Report(more)
  BY <1>1
<1>. QED
  BY <1>2

LEMMA ReportsFacts ==
  ASSUME ReportsOK
  PROVE  /\ run.reports \in Seq(Report(DOMAIN folder)) /\ Len(run.reports) \in Nat
         /\ DOMAIN run.reports = 1 .. Len(run.reports)
         /\ \A d \in DOMAIN run.reports : run.reports[d] \in Report(DOMAIN folder)
BY DEF ReportsOK

(* A command begins, or another may: nothing is in work.                    *)
LEMMA BeginsKeeps ==
  ASSUME CommandInv, run.name = "none" \/ run.exit # "none",
         UNCHANGED <<doc, folder, remote, pending, prepVars>>,
         Fielded(run', RunFields), run'.exit # "success", run'.reports = << >>,
         run'.name # "cleanup" /\ run'.exit = "none" => run'.listed = {},
         run'.name \in Generating /\ run'.exit = "none" => run'.todo \in Seq(Source),
         run'.name = "stopped" => run'.exit # "none",
         run'.name = "cleanup" /\ run'.exit = "none" =>
           /\ run'.todo \in Seq(Notebook)
           /\ \A n \in run'.listed \cap remote : Waits(run'.todo, n)
  PROVE  CommandInv'
<1>1. doc.pc = "none" /\ pending = {}
  BY DEF CommandInv, DocOK, NotebooksOK, Generating
<1>2. PrepInv'
  BY PrepSame DEF CommandInv
<1>3. DocOK'
  BY <1>1 DEF CommandInv, DocOK
<1>4. ReportsOK'
  BY DEF ReportsOK
<1>5. NotebooksOK'
  BY <1>1 DEF CommandInv, NotebooksOK
<1>6. RunOK'
  BY DEF RunOK
<1>. QED
  BY <1>2, <1>3, <1>4, <1>5, <1>6 DEF CommandInv

LEMMA RefusedKeeps ==
  ASSUME CommandInv, Refused \/ NextCommand
  PROVE  CommandInv'
<1>1. CASE Refused
  <2>1. PICK code \in {"usage", "failure"} :
          run' = [NoCommand EXCEPT !.name = Head(script), !.exit = code]
    BY <1>1 DEF Refused, Begun
  <2>2. Fielded(run', RunFields) /\ run'.exit = code /\ run'.reports = << >>
    BY <2>1 DEF NoCommand, Fielded, RunFields
  <2>. QED
    BY <1>1, <2>2, BeginsKeeps DEF Refused
<1>2. CASE NextCommand
  BY <1>2, NoCommandFacts, BeginsKeeps DEF NextCommand, Generating
<1>. QED
  BY <1>1, <1>2

LEMMA GenerateBeginsKeeps ==
  ASSUME CommandInv, NEW name \in Generating, GenerateBegins(name)
  PROVE  CommandInv'
<1>1. PICK batch \in Batches, single \in BOOLEAN :
        run' = [NoCommand EXCEPT !.name = name, !.todo = batch, !.single = single]
  BY DEF GenerateBegins, Begun
<1>2. /\ Fielded(run', RunFields) /\ run'.exit = "none" /\ run'.reports = << >>
      /\ run'.name = name /\ run'.todo = batch /\ run'.listed = {}
  BY <1>1 DEF NoCommand, Fielded, RunFields
<1>3. batch \in Seq(Source)
  BY CommandAssumption
<1>. QED
  BY <1>2, <1>3, BeginsKeeps DEF GenerateBegins, Given, Generating

LEMMA MergeBeginsKeeps ==
  ASSUME CommandInv, MergeBegins
  PROVE  CommandInv'
<1>. DEFINE bad == Others = {} \/ (\E n \in Others : ~ folder[n].regular)
            code == IF bad THEN "failure" ELSE "none"
<1>1. PICK merge : run' = [NoCommand EXCEPT !.name = "merge", !.merge = merge,
                                           !.exit = IF bad THEN "failure" ELSE @]
  BY DEF MergeBegins, Begun
<1>2. code \in {"none", "failure"} /\ (bad => code = "failure") /\ (~ bad => code = "none")
  OBVIOUS
<1>. HIDE DEF bad, code
<1>3. run' = [NoCommand EXCEPT !.name = "merge", !.exit = code, !.merge = merge]
  BY <1>1, <1>2 DEF NoCommand
<1>4. /\ Fielded(run', RunFields) /\ run'.exit = code /\ run'.reports = << >>
      /\ run'.name = "merge" /\ run'.listed = {}
  BY <1>3 DEF NoCommand, Fielded, RunFields
<1>. QED
  BY <1>2, <1>4, BeginsKeeps DEF MergeBegins, Given, Generating

(* All that is listed is put in a sequence.                                 *)
LEMMA Sequenced ==
  ASSUME NEW S, IsFiniteSet(S)
  PROVE  SetToSeq(S) \in Seq(S) /\ \A n \in S : Waits(SetToSeq(S), n)
<1>. DEFINE k == Cardinality(S)
            s == SetToSeq(S)
<1>1. k \in Nat /\ ExistsBijection(1 .. k, S)
  BY FS_CardinalityType
<1>2. PICK f \in Bijection(1 .. k, S) : TRUE
  BY <1>1 DEF ExistsBijection
<1>3. \E g \in [1 .. k -> S] : IsInjective(g)
  BY <1>2 DEF Bijection, Injection, IsInjective
<1>4. s \in [1 .. k -> S] /\ IsInjective(s)
  BY <1>3 DEF SetToSeq
<1>. HIDE DEF s
<1>5. s \in Injection(1 .. k, S)
  BY <1>4 DEF Injection, IsInjective
<1>6. IsFiniteSet(1 .. k) /\ Cardinality(1 .. k) = k
  BY <1>1, FS_Interval
<1>7. s \in Surjection(1 .. k, S)
  BY <1>5, <1>6, FS_Injection DEF k
<1>8. s \in Seq(S) /\ DOMAIN s = 1 .. k
  BY <1>1, <1>4
<1>9. \A n \in S : \E i \in 1 .. k : s[i] = n
  BY <1>7 DEF Surjection
<1>. QED
  BY <1>8, <1>9 DEF Waits, s

LEMMA CleanupBeginsKeeps ==
  ASSUME CommandInv, CleanupBegins
  PROVE  CommandInv'
<1>. DEFINE todo == SetToSeq(remote)
<1>1. run' = [NoCommand EXCEPT !.name = "cleanup", !.listed = remote, !.todo = todo]
  BY DEF CleanupBegins, Begun
<1>2. todo \in Seq(remote) /\ \A n \in remote : Waits(todo, n)
  <2>1. IsFiniteSet(remote)
    BY CommandAssumption, FS_Subset DEF CommandInv, NotebooksOK
  <2>. QED
    BY <2>1, Sequenced
<1>3. todo \in Seq(Notebook)
  <2>1. remote \subseteq Notebook
    BY DEF CommandInv, NotebooksOK
  <2>. HIDE DEF todo
  <2>. QED
    BY <1>2, <2>1
<1>. HIDE DEF todo
<1>4. /\ Fielded(run', RunFields) /\ run'.exit = "none" /\ run'.reports = << >>
      /\ run'.name = "cleanup" /\ run'.todo = todo /\ run'.listed = remote
  BY <1>1 DEF NoCommand, Fielded, RunFields
<1>. QED
  BY <1>2, <1>3, <1>4, BeginsKeeps DEF CleanupBegins, Given, Generating

LEMMA PrepareNextKeeps ==
  ASSUME CommandInv, PrepareNext
  PROVE  CommandInv'
<1>1. /\ run.name \in Generating /\ run.exit = "none" /\ run.todo \in Seq(Source)
      /\ run.todo # << >>
  BY DEF PrepareNext, Active, CommandInv, RunOK
<1>2. Head(run.todo) \in Source /\ Tail(run.todo) \in Seq(Source)
  BY <1>1
<1>3. PrepInv'
  BY <1>2, PrepareKeeps DEF PrepareNext, CommandInv
<1>4. /\ Fielded(run', RunFields) /\ run'.name = run.name /\ run'.exit = run.exit
      /\ run'.todo = Tail(run.todo) /\ run'.reports = run.reports /\ run'.listed = run.listed
  BY DEF PrepareNext, CommandInv, RunOK, Fielded, RunFields
<1>5. Fielded(doc', DocFields) /\ doc'.pc = "prepare" /\ doc'.artifacts = {}
  BY DEF PrepareNext, NoDocument, Fielded, DocFields
<1>6. UNCHANGED <<folder, remote, pending>>
  BY DEF PrepareNext
<1>7. DocOK'
  BY <1>1, <1>4, <1>5, <1>6 DEF DocOK
<1>8. ReportsOK'
  BY <1>4, <1>6 DEF CommandInv, ReportsOK
<1>9. NotebooksOK'
  BY <1>1, <1>4, <1>6 DEF CommandInv, NotebooksOK, Generating
<1>10. RunOK'
  BY <1>1, <1>2, <1>4 DEF RunOK
<1>. QED
  BY <1>3, <1>7, <1>8, <1>9, <1>10 DEF CommandInv

LEMMA PreparesKeeps ==
  ASSUME CommandInv, Prepares
  PROVE  CommandInv'
<1>1. PrepStep /\ UNCHANGED <<script, run, doc, folder, remote, pending>>
  BY DEF Prepares
<1>2. PrepInv'
  BY <1>1, PrepStepKeeps DEF CommandInv
<1>3. doc.pc \in {"chunk", "export"} => prep'.pc = "held"
  <2>. SUFFICES ASSUME doc.pc \in {"chunk", "export"} PROVE prep'.pc = "held"
    OBVIOUS
  <2>1. prep.pc = "held" /\ thread.busy = "none" /\ group = NoGroup
    BY DEF CommandInv, DocOK, PrepInv, LeftOK, WorkAt, Running
  <2>2. PrepStep => ThreadEndsAlone
    BY <2>1, NoGroupFacts
    DEF PrepStep, ThreadFails, Staged, Published, Copied, Spawn, Fork, RunFails, TimesOut,
        Converted, Checked, Described, Plans, BeginWriting, Written, Succeeds, At, Busy, Running
  <2>. QED
    BY <1>1, <2>1, <2>2 DEF ThreadEndsAlone
<1>4. DocOK'
  BY <1>1, <1>3 DEF CommandInv, DocOK
<1>5. ReportsOK'
  BY <1>1 DEF CommandInv, ReportsOK
<1>6. NotebooksOK'
  BY <1>1 DEF CommandInv, NotebooksOK
<1>7. RunOK'
  BY <1>1 DEF CommandInv, RunOK
<1>. QED
  BY <1>2, <1>4, <1>5, <1>6, <1>7 DEF CommandInv

(* A document is done with: it is reported, and the next one may begin.     *)
LEMMA ReportedKeeps ==
  ASSUME CommandInv, doc.pc # "none", PrepInv',
         NEW outcome \in {"failed", "skipped", "completed"}, NEW artifacts,
         Reported(outcome, artifacts),
         DOMAIN folder \subseteq DOMAIN folder', artifacts \subseteq DOMAIN folder',
         outcome = "completed" => <<Index, 0>> \in artifacts,
         remote' \subseteq Notebook, pending' \subseteq Notebook
  PROVE  CommandInv'
<1>. DEFINE report == [outcome |-> outcome, artifacts |-> artifacts]
            reports == Append(run.reports, report)
<1>1. run' = [run EXCEPT !.reports = reports] /\ doc' = NoDocument
  BY DEF Reported
<1>2. run.exit = "none" /\ run.name \in Generating
  BY DEF CommandInv, DocOK
<1>. HIDE DEF reports
<1>3. /\ Fielded(run', RunFields) /\ run'.name = run.name /\ run'.exit = run.exit
      /\ run'.todo = run.todo /\ run'.reports = reports /\ run'.listed = run.listed
  BY <1>1 DEF CommandInv, RunOK, Fielded, RunFields
<1>4. report \in Report(DOMAIN folder')
  BY DEF Report
<1>5. run.reports \in Seq(Report(DOMAIN folder'))
  BY ReportsFacts, ReportsGrow DEF CommandInv
<1>6. /\ reports \in Seq(Report(DOMAIN folder')) /\ DOMAIN reports = 1 .. Index
      /\ reports[Index] = report
      /\ \A d \in DOMAIN run.reports : reports[d] = run.reports[d]
      /\ \A d \in 1 .. Index : d \in DOMAIN run.reports \/ d = Index
  <2>. HIDE DEF report
  <2>. QED
    BY <1>4, <1>5 DEF reports, Index
<1>7. DocOK'
  BY <1>1, NoDocumentFacts DEF DocOK
<1>8. \A d \in DOMAIN reports :
        reports[d].outcome = "completed" => <<d, 0>> \in reports[d].artifacts
  <2>1. \A d \in DOMAIN run.reports :
          reports[d].outcome = "completed" => <<d, 0>> \in reports[d].artifacts
    BY <1>6 DEF CommandInv, ReportsOK
  <2>2. reports[Index].outcome = "completed" => <<Index, 0>> \in reports[Index].artifacts
    BY <1>6
  <2>. QED
    BY <1>6, <2>1, <2>2
<1>9. ReportsOK'
  BY <1>2, <1>3, <1>6, <1>8 DEF ReportsOK
<1>10. NotebooksOK'
  BY <1>2, <1>3 DEF CommandInv, NotebooksOK, Generating
<1>11. RunOK'
  BY <1>2, <1>3 DEF CommandInv, RunOK
<1>. QED
  BY <1>7, <1>9, <1>10, <1>11 DEF CommandInv

LEMMA NotebooksFacts ==
  ASSUME CommandInv
  PROVE  remote \subseteq Notebook /\ pending \subseteq Notebook
BY DEF CommandInv, NotebooksOK

LEMMA ClosesFacts ==
  ASSUME CommandInv, Closes
  PROVE  remote' \subseteq Notebook /\ pending' \subseteq Notebook
<1>1. CASE UNCHANGED <<remote, pending>>
  BY <1>1, NotebooksFacts
<1>2. CASE Notebook # remote
  <2>1. \E n \in Notebook : n \notin remote
    BY <1>2, NotebooksFacts
  <2>2. PICK n \in Notebook : remote' \subseteq remote \cup {n} /\ pending' \subseteq pending \cup {n}
    BY <2>1 DEF Closes
  <2>. QED
    BY <2>2, NotebooksFacts
<1>. QED
  BY <1>1, <1>2 DEF Closes

LEMMA PutsFacts ==
  ASSUME NEW name, NEW rows, Puts(name, rows)
  PROVE  DOMAIN folder' = DOMAIN folder \cup {name}
BY DEF Puts

LEMMA HeldFacts ==
  ASSUME CommandInv, doc.pc \in {"chunk", "export"}
  PROVE  prep.pc = "held" /\ run.exit = "none" /\ run.name \in Generating
BY DEF CommandInv, DocOK

LEMMA PreparedKeeps ==
  ASSUME CommandInv, Prepared
  PROVE  CommandInv'
<1>1. /\ doc.pc = "prepare" /\ plan' = NoPlan
      /\ UNCHANGED <<script, folder, remote, pending, group, thread>>
  BY DEF Prepared
<1>2. run.name \in Generating /\ run.exit = "none"
  BY <1>1 DEF CommandInv, DocOK
<1>3. CASE prep.pc \in {"over", "ready"} /\ Discard /\ Reported("failed", {})
  <2>1. PrepInv'
    BY <1>1, <1>3, DiscardKeeps DEF CommandInv
  <2>. QED
    BY <1>1, <1>3, <2>1, NotebooksFacts, ReportedKeeps
<1>4. CASE prep.pc \in {"over", "ready"} /\ Discard /\ Reported("skipped", {})
  <2>1. PrepInv'
    BY <1>1, <1>4, DiscardKeeps DEF CommandInv
  <2>. QED
    BY <1>1, <1>4, <2>1, NotebooksFacts, ReportedKeeps
<1>5. CASE /\ prep.pc = "ready" /\ prep' = [NoPrep EXCEPT !.pc = "held"]
           /\ doc' = [NoDocument EXCEPT !.pc = "chunk", !.total = Len(prep.files)]
           /\ UNCHANGED <<run, dirs>>
  <2>1. prep' \in PrepState /\ prep'.pc = "held"
    BY <1>5, NoPrepFacts DEF PrepState, PrepPlace
  <2>2. PrepTyped'
    BY <1>1, <1>5, <2>1 DEF CommandInv, PrepInv, PrepTyped
  <2>3. LeftOK'
    BY <1>1, <1>5, <2>1 DEF CommandInv, PrepInv, LeftOK, WorkAt, Running
  <2>4. PrepInv'
    BY <2>1, <2>2, <2>3, OverWhole DEF PrepInv
  <2>5. Fielded(doc', DocFields) /\ doc'.pc = "chunk" /\ doc'.artifacts = {}
    BY <1>5 DEF NoDocument, Fielded, DocFields
  <2>6. DocOK'
    BY <1>1, <1>2, <1>5, <2>1, <2>5 DEF DocOK
  <2>7. ReportsOK' /\ NotebooksOK' /\ RunOK'
    BY <1>1, <1>5 DEF CommandInv, ReportsOK, NotebooksOK, RunOK
  <2>. QED
    BY <2>4, <2>6, <2>7 DEF CommandInv
<1>. QED
  BY <1>3, <1>4, <1>5 DEF Prepared, At

(* The document goes on, with more files at most.                           *)
LEMMA DocumentGoesOn ==
  ASSUME CommandInv, doc.pc \in {"chunk", "export"}, UNCHANGED <<script, run, prepVars>>,
         Fielded(doc', DocFields), doc'.pc \in {"chunk", "export"},
         DOMAIN folder \subseteq DOMAIN folder', doc'.artifacts \subseteq DOMAIN folder',
         remote' \subseteq Notebook, pending' \subseteq Notebook
  PROVE  CommandInv'
<1>1. prep.pc = "held" /\ run.exit = "none" /\ run.name \in Generating
  BY HeldFacts
<1>2. PrepInv' /\ prep' = prep
  BY PrepSame DEF CommandInv, prepVars
<1>3. DocOK'
  BY <1>1, <1>2 DEF DocOK
<1>4. run.reports \in Seq(Report(DOMAIN folder'))
  BY ReportsFacts, ReportsGrow DEF CommandInv
<1>5. ReportsOK'
  BY <1>4 DEF CommandInv, ReportsOK
<1>6. NotebooksOK'
  BY <1>1 DEF CommandInv, NotebooksOK, Generating
<1>7. RunOK'
  BY <1>1 DEF CommandInv, RunOK
<1>. QED
  BY <1>2, <1>3, <1>5, <1>6, <1>7 DEF CommandInv

LEMMA ChunkGeneratedKeeps ==
  ASSUME CommandInv, ChunkGenerated
  PROVE  CommandInv'
<1>1. doc.pc = "chunk" /\ Closes /\ UNCHANGED <<script, run, prepVars>>
  BY DEF ChunkGenerated
<1>2. PICK part, name, d :
        /\ d = [doc EXCEPT !.parts = Append(@, part)]
        /\ Exports(name, part, d) \/ (doc' = d /\ UNCHANGED folder)
  <2>1. PICK answer \in Answers :
          LET converted == ConvertedDeck(answer, run.single)
              part == IF doc.total = 1 THEN Deduplicated(converted) ELSE converted
              d == [doc EXCEPT !.parts = Append(@, part)]
          IN IF doc.total > 1 /\ part # << >>
             THEN Exports(<<Index, Len(d.parts)>>, part, d)
             ELSE doc' = d /\ UNCHANGED folder
    BY DEF ChunkGenerated
  <2>. DEFINE part == IF doc.total = 1 THEN Deduplicated(ConvertedDeck(answer, run.single))
                      ELSE ConvertedDeck(answer, run.single)
              d == [doc EXCEPT !.parts = Append(@, part)]
  <2>2. PICK name : name = <<Index, Len(d.parts)>>
    OBVIOUS
  <2>3. Exports(name, part, d) \/ (doc' = d /\ UNCHANGED folder)
    BY <2>1, <2>2
  <2>. QED
    BY <2>3
<1>3. Fielded(d, DocFields) /\ d.pc = "chunk" /\ d.artifacts = doc.artifacts
  <2>1. Fielded(doc, DocFields)
    BY DEF CommandInv, DocOK
  <2>. QED
    BY <1>1, <1>2, <2>1 DEF Fielded, DocFields
<1>4. doc.artifacts \subseteq DOMAIN folder
  BY DEF CommandInv, DocOK
<1>5. /\ Fielded(doc', DocFields) /\ doc'.pc = "chunk"
      /\ DOMAIN folder \subseteq DOMAIN folder' /\ doc'.artifacts \subseteq DOMAIN folder'
  <2>1. CASE doc' = d /\ UNCHANGED folder
    BY <1>3, <1>4, <2>1
  <2>2. CASE Puts(name, Rows(part)) /\ doc' = [d EXCEPT !.artifacts = @ \cup {name}]
    <3>1. DOMAIN folder' = DOMAIN folder \cup {name}
      BY <2>2, PutsFacts
    <3>2. Fielded(doc', DocFields) /\ doc'.pc = d.pc /\ doc'.artifacts = d.artifacts \cup {name}
      BY <1>3, <2>2, DocChanges
    <3>. QED
      BY <1>3, <1>4, <3>1, <3>2
  <2>3. CASE UNCHANGED folder /\ doc' = [d EXCEPT !.lost = TRUE]
    <3>1. Fielded(doc', DocFields) /\ doc'.pc = d.pc /\ doc'.artifacts = d.artifacts
      BY <1>3, <2>3, DocChanges
    <3>. QED
      BY <1>3, <1>4, <2>3, <3>1
  <2>. QED
    BY <1>2, <2>1, <2>2, <2>3 DEF Exports
<1>. QED
  BY <1>1, <1>5, ClosesFacts, DocumentGoesOn

LEMMA ChunkFailsKeeps ==
  ASSUME CommandInv, ChunkFails
  PROVE  CommandInv'
<1>1. /\ doc.pc = "chunk" /\ Closes /\ Discard /\ Reported("failed", doc.artifacts)
      /\ UNCHANGED <<script, folder, plan, group, thread>>
  BY DEF ChunkFails
<1>2. PrepInv'
  BY <1>1, HeldFacts, DiscardKeeps DEF CommandInv
<1>3. doc.artifacts \subseteq DOMAIN folder
  BY DEF CommandInv, DocOK
<1>. QED
  BY <1>1, <1>2, <1>3, ClosesFacts, ReportedKeeps

LEMMA CombinedKeeps ==
  ASSUME CommandInv, Combined
  PROVE  CommandInv'
<1>1. doc.pc = "chunk" /\ UNCHANGED <<script, run, folder, remote, pending, prepVars>>
  BY DEF Combined
<1>2. PICK kept, quality :
        doc' = [doc EXCEPT !.pc = "export", !.kept = kept, !.quality = quality]
  BY DEF Combined
<1>3. Fielded(doc', DocFields) /\ doc'.pc = "export" /\ doc'.artifacts = doc.artifacts
  <2>1. Fielded(doc, DocFields)
    BY DEF CommandInv, DocOK
  <2>. QED
    BY <1>2, <2>1 DEF Fielded, DocFields
<1>4. doc.artifacts \subseteq DOMAIN folder
  BY DEF CommandInv, DocOK
<1>. QED
  BY <1>1, <1>3, <1>4, NotebooksFacts, DocumentGoesOn

LEMMA ExportedKeeps ==
  ASSUME CommandInv, Exported
  PROVE  CommandInv'
<1>1. /\ doc.pc = "export" /\ Discard
      /\ UNCHANGED <<script, remote, pending, plan, group, thread>>
  BY DEF Exported
<1>2. PrepInv'
  BY <1>1, HeldFacts, DiscardKeeps DEF CommandInv
<1>3. doc.artifacts \subseteq DOMAIN folder
  BY DEF CommandInv, DocOK
<1>4. CASE Reported("failed", doc.artifacts) /\ UNCHANGED folder
  BY <1>1, <1>2, <1>3, <1>4, NotebooksFacts, ReportedKeeps
<1>5. CASE /\ Puts(<<Index, 0>>, Rows(doc.kept))
           /\ Reported(IF doc.lost THEN "failed" ELSE "completed", doc.artifacts \cup {<<Index, 0>>})
  <2>1. PICK outcome \in {"failed", "completed"} :
          outcome = IF doc.lost THEN "failed" ELSE "completed"
    OBVIOUS
  <2>2. PICK artifacts : artifacts = doc.artifacts \cup {<<Index, 0>>}
    OBVIOUS
  <2>3. Reported(outcome, artifacts)
    BY <1>5, <2>1, <2>2
  <2>4. DOMAIN folder' = DOMAIN folder \cup {<<Index, 0>>}
    BY <1>5, PutsFacts
  <2>5. /\ DOMAIN folder \subseteq DOMAIN folder' /\ artifacts \subseteq DOMAIN folder'
        /\ <<Index, 0>> \in artifacts
    BY <1>3, <2>2, <2>4
  <2>. QED
    BY <1>1, <1>2, <2>3, <2>5, NotebooksFacts, ReportedKeeps
<1>. QED
  BY <1>4, <1>5 DEF Exported

(* The worker is told to stop.                                              *)
LEMMA StoppedKeeps ==
  ASSUME CommandInv, Stopped
  PROVE  CommandInv'
<1>1. /\ run.name = "job" /\ run.exit = "none" /\ doc' = NoDocument
      /\ run' = [run EXCEPT !.name = "stopped", !.todo = << >>]
      /\ UNCHANGED <<script, folder>>
  BY DEF Stopped, Active
<1>2. /\ Fielded(run', RunFields) /\ run'.name = "stopped" /\ run'.exit = "none"
      /\ run'.todo = << >> /\ run'.reports = run.reports /\ run'.listed = run.listed
  <2>1. Fielded(run, RunFields)
    BY DEF CommandInv, RunOK
  <2>. QED
    BY <1>1, <2>1 DEF Fielded, RunFields
<1>3. PrepInv' /\ remote' \subseteq Notebook /\ pending' \subseteq Notebook
  <2>1. CASE Dropped /\ UNCHANGED <<remote, pending>>
    BY <2>1, DroppedKeeps, NotebooksFacts DEF CommandInv
  <2>2. CASE doc.pc = "chunk" /\ Closes /\ Discard /\ UNCHANGED <<plan, group, thread>>
    BY <2>2, HeldFacts, DiscardKeeps, ClosesFacts DEF CommandInv
  <2>. QED
    BY <2>1, <2>2 DEF Stopped
<1>4. DocOK'
  BY <1>1, NoDocumentFacts DEF DocOK
<1>5. ReportsOK'
  BY <1>1, <1>2 DEF CommandInv, ReportsOK
<1>6. NotebooksOK'
  BY <1>1, <1>2, <1>3 DEF CommandInv, NotebooksOK, Generating
<1>7. RunOK'
  BY <1>2 DEF RunOK
<1>. QED
  BY <1>3, <1>4, <1>5, <1>6, <1>7 DEF CommandInv

(* A command ends.                                                          *)
LEMMA EndingKeeps ==
  ASSUME CommandInv, run.exit = "none", doc.pc = "none",
         NEW code \in {"success", "failure"}, NEW listed,
         run' = [run EXCEPT !.exit = code, !.listed = listed],
         doc' = doc, UNCHANGED prepVars,
         DOMAIN folder \subseteq DOMAIN folder', remote' \subseteq remote, pending' = {},
         code = "success" =>
           /\ listed \cap remote' = {}
           /\ \A d \in DOMAIN run.reports : run.reports[d].outcome # "failed"
  PROVE  CommandInv'
<1>1. /\ Fielded(run', RunFields) /\ run'.name = run.name /\ run'.exit = code
      /\ run'.todo = run.todo /\ run'.reports = run.reports /\ run'.listed = listed
  <2>1. Fielded(run, RunFields)
    BY DEF CommandInv, RunOK
  <2>. QED
    BY <2>1 DEF Fielded, RunFields
<1>2. PrepInv'
  BY PrepSame DEF CommandInv
<1>3. DocOK'
  BY DEF CommandInv, DocOK
<1>4. run.reports \in Seq(Report(DOMAIN folder'))
  BY ReportsFacts, ReportsGrow DEF CommandInv
<1>5. ReportsOK'
  BY <1>1, <1>4 DEF CommandInv, ReportsOK
<1>6. NotebooksOK'
  BY <1>1 DEF CommandInv, NotebooksOK
<1>7. RunOK'
  BY <1>1 DEF RunOK
<1>. QED
  BY <1>2, <1>3, <1>5, <1>6, <1>7 DEF CommandInv

LEMMA FinishKeeps ==
  ASSUME CommandInv, Finish
  PROVE  CommandInv'
<1>1. PICK gone \in SUBSET pending, told \in BOOLEAN :
        /\ told => gone = pending
        /\ remote' = remote \ gone /\ pending' = {}
        /\ run' = [run EXCEPT !.exit = Code(told), !.listed = pending]
  BY DEF Finish
<1>2. /\ run.exit = "none" /\ doc.pc = "none" /\ UNCHANGED <<doc, folder>> /\ UNCHANGED prepVars
  BY NoDocumentFacts DEF Finish, Active
<1>3. PICK code \in {"success", "failure"} :
        code = Code(told) /\ (code = "success" => told /\ ~ Failed)
  BY DEF Code
<1>4. code = "success" =>
        /\ pending \cap remote' = {}
        /\ \A d \in DOMAIN run.reports : run.reports[d].outcome # "failed"
  BY <1>1, <1>3 DEF Failed
<1>. QED
  BY <1>1, <1>2, <1>3, <1>4, EndingKeeps

(* So do merge and cleanup.                                                 *)
LEMMA EndsKeeps ==
  ASSUME CommandInv, run.name \in {"merge", "cleanup"}, run.exit = "none",
         NEW code \in {"success", "failure"}, Ends(code), doc' = doc, pending' = pending,
         UNCHANGED prepVars, DOMAIN folder \subseteq DOMAIN folder', remote' \subseteq remote,
         code = "success" /\ run.name = "cleanup" => run.todo = << >>
  PROVE  CommandInv'
<1>1. doc.pc = "none" /\ pending = {} /\ run.reports = << >>
  BY DEF CommandInv, DocOK, NotebooksOK, ReportsOK, Generating
<1>2. PICK listed : listed = run.listed /\ run' = [run EXCEPT !.exit = code, !.listed = listed]
  <2>1. Fielded(run, RunFields)
    BY DEF CommandInv, RunOK
  <2>. QED
    BY <2>1 DEF Fielded, RunFields, Ends
<1>3. code = "success" => listed \cap remote' = {}
  BY <1>2 DEF CommandInv, NotebooksOK, Waits
<1>4. \A d \in DOMAIN run.reports : run.reports[d].outcome # "failed"
  BY <1>1
<1>5. run' = [run EXCEPT !.exit = code, !.listed = listed] /\ pending' = {}
  BY <1>1, <1>2
<1>. QED
  BY <1>1, <1>3, <1>4, <1>5, EndingKeeps

LEMMA MergeStepKeeps ==
  ASSUME CommandInv, MergeRecord \/ MergeSource \/ MergeEnds
  PROVE  CommandInv'
<1>1. /\ run.name = "merge" /\ run.exit = "none" /\ UNCHANGED <<doc, remote, pending>>
      /\ UNCHANGED prepVars
  BY DEF MergeRecord, MergeSource, MergeEnds, Active
<1>2. CASE Ends("success") \/ Ends("failure")
  <2>1. DOMAIN folder \subseteq DOMAIN folder'
    <3>1. CASE Puts(Merged, run.merge.out)
      BY <3>1, PutsFacts
    <3>2. CASE UNCHANGED folder
      BY <3>2
    <3>. QED
      BY <3>1, <3>2 DEF MergeRecord, MergeSource, MergeEnds
  <2>. QED
    BY <1>1, <1>2, <2>1, EndsKeeps
<1>3. CASE \E read : run' = [run EXCEPT !.merge = read] /\ UNCHANGED folder
  <2>1. PICK read : run' = [run EXCEPT !.merge = read] /\ UNCHANGED folder
    BY <1>3
  <2>2. /\ Fielded(run', RunFields) /\ run'.name = run.name /\ run'.exit = run.exit
        /\ run'.todo = run.todo /\ run'.reports = run.reports /\ run'.listed = run.listed
    <3>1. Fielded(run, RunFields)
      BY DEF CommandInv, RunOK
    <3>. QED
      BY <2>1, <3>1 DEF Fielded, RunFields
  <2>3. PrepInv' /\ prep' = prep
    BY <1>1, PrepSame DEF CommandInv, prepVars
  <2>4. DocOK'
    BY <1>1, <2>1, <2>2, <2>3 DEF CommandInv, DocOK
  <2>5. ReportsOK'
    BY <2>1, <2>2 DEF CommandInv, ReportsOK
  <2>6. NotebooksOK'
    BY <1>1, <2>2 DEF CommandInv, NotebooksOK
  <2>7. RunOK'
    BY <1>1, <2>2 DEF CommandInv, RunOK, Generating
  <2>. QED
    BY <2>3, <2>4, <2>5, <2>6, <2>7 DEF CommandInv
<1>. QED
  BY <1>2, <1>3 DEF MergeRecord, MergeSource, MergeEnds

LEMMA CleanupStepKeeps ==
  ASSUME CommandInv, DeleteNext \/ CleanupEnds \/ OthersCreate
  PROVE  CommandInv'
<1>1. /\ run.name = "cleanup" /\ run.exit = "none" /\ UNCHANGED <<doc, folder, pending>>
      /\ UNCHANGED prepVars
  BY DEF DeleteNext, CleanupEnds, OthersCreate, Active
<1>2. CASE CleanupEnds
  BY <1>1, <1>2, EndsKeeps DEF CleanupEnds
<1>3. CASE Ends("failure") /\ remote' \subseteq remote
  BY <1>1, <1>3, EndsKeeps
<1>4. /\ run.todo \in Seq(Notebook) /\ remote \subseteq Notebook
      /\ \A n \in run.listed \cap remote : Waits(run.todo, n)
      /\ Fielded(run, RunFields)
  BY <1>1 DEF CommandInv, NotebooksOK, RunOK
<1>5. PrepInv' /\ prep' = prep
  BY <1>1, PrepSame DEF CommandInv, prepVars
<1>6. DocOK' /\ doc.pc = "none"
  BY <1>1, <1>5 DEF CommandInv, DocOK, Generating
<1>7. CASE /\ run.todo # << >> /\ remote' = remote \ {Head(run.todo)}
           /\ run' = [run EXCEPT !.todo = Tail(@)]
  <2>1. /\ Fielded(run', RunFields) /\ run'.name = run.name /\ run'.exit = run.exit
        /\ run'.todo = Tail(run.todo) /\ run'.reports = run.reports /\ run'.listed = run.listed
    BY <1>4, <1>7 DEF Fielded, RunFields
  <2>2. \A n \in run.listed \cap remote' : Waits(run'.todo, n)
    <3>. SUFFICES ASSUME NEW n \in run.listed \cap remote, n # Head(run.todo)
                  PROVE  Waits(Tail(run.todo), n)
      BY <1>7, <2>1
    <3>1. PICK i \in 1 .. Len(run.todo) : run.todo[i] = n
      BY <1>4 DEF Waits
    <3>2. i # 1 /\ i - 1 \in 1 .. Len(Tail(run.todo)) /\ Tail(run.todo)[i - 1] = n
      BY <1>4, <1>7, <3>1
    <3>3. Tail(run.todo) \in Seq(Notebook)
      BY <1>4, <1>7
    <3>4. DOMAIN Tail(run.todo) = 1 .. Len(Tail(run.todo))
      BY <3>3
    <3>. QED
      BY <3>2, <3>4 DEF Waits
  <2>3. run'.todo \in Seq(Notebook)
    BY <1>4, <1>7, <2>1
  <2>4. ReportsOK'
    BY <1>1, <2>1 DEF CommandInv, ReportsOK
  <2>5. NotebooksOK'
    BY <1>1, <1>7, <2>1, <2>2, <2>3 DEF CommandInv, NotebooksOK
  <2>6. RunOK'
    BY <1>1, <2>1 DEF RunOK, Generating
  <2>. QED
    BY <1>5, <1>6, <2>4, <2>5, <2>6 DEF CommandInv
<1>8. CASE OthersCreate
  <2>1. PICK n \in Notebook \ (remote \cup run.listed) : remote' = remote \cup {n} /\ run' = run
    BY <1>8 DEF OthersCreate
  <2>2. ReportsOK'
    BY <1>1, <2>1 DEF CommandInv, ReportsOK
  <2>3. NotebooksOK'
    BY <1>1, <1>4, <2>1 DEF CommandInv, NotebooksOK
  <2>4. RunOK'
    BY <1>1, <2>1 DEF CommandInv, RunOK
  <2>. QED
    BY <1>5, <1>6, <2>2, <2>3, <2>4 DEF CommandInv
<1>. QED
  BY <1>2, <1>3, <1>7, <1>8 DEF DeleteNext

LEMMA NextKeeps ==
  ASSUME CommandInv, [Next]_commandVars
  PROVE  CommandInv'
<1>1. CASE UNCHANGED commandVars
  <2>1. UNCHANGED <<script, run, doc, folder, remote, pending>> /\ UNCHANGED prepVars
    BY <1>1 DEF commandVars
  <2>2. PrepInv' /\ prep' = prep
    BY <2>1, PrepSame DEF CommandInv, prepVars
  <2>3. DocOK' /\ ReportsOK' /\ NotebooksOK' /\ RunOK'
    BY <2>1, <2>2 DEF CommandInv, DocOK, ReportsOK, NotebooksOK, RunOK
  <2>. QED
    BY <2>2, <2>3 DEF CommandInv
<1>2. CASE Next
  BY <1>2, RefusedKeeps, GenerateBeginsKeeps, PrepareNextKeeps, PreparesKeeps, PreparedKeeps,
     ChunkGeneratedKeeps, ChunkFailsKeeps, CombinedKeeps, ExportedKeeps, StoppedKeeps,
     FinishKeeps, MergeBeginsKeeps, MergeStepKeeps, CleanupBeginsKeeps, CleanupStepKeeps
  DEF Next, Generating
<1>. QED
  BY <1>1, <1>2

LEMMA InitHolds ==
  ASSUME Init
  PROVE  CommandInv
<1>1. /\ prep = NoPrep /\ group = NoGroup /\ thread = NoThread /\ dirs = {} /\ prep.pc = "idle"
  BY DEF Init, PrepInit, NoPrep
<1>2. PrepTyped
  BY <1>1, NoPrepFacts, NoGroupFacts DEF PrepTyped, NoThread, ThreadState
<1>3. LeftOK
  BY <1>1 DEF LeftOK, NoThread, WorkAt
<1>4. WholeOK
  BY <1>1 DEF WholeOK
<1>5. run = NoCommand /\ doc = NoDocument /\ pending = {} /\ remote \subseteq Notebook
  BY CommandAssumption DEF Init
<1>6. DocOK
  BY <1>5, NoDocumentFacts DEF DocOK
<1>7. ReportsOK /\ NotebooksOK /\ RunOK
  BY <1>5, NoCommandFacts DEF ReportsOK, NotebooksOK, RunOK, Generating
<1>. QED
  BY <1>2, <1>3, <1>4, <1>6, <1>7 DEF CommandInv, PrepInv

LEMMA HonestFacts ==
  ASSUME CommandInv
  PROVE  ExitIsHonest
<1>. SUFFICES ASSUME run.exit # "none"
              PROVE  /\ pending = {}
                     /\ run.exit = "success" =>
                          /\ run.listed \cap remote = {}
                          /\ \A d \in DOMAIN run.reports :
                               /\ run.reports[d].artifacts \subseteq DOMAIN folder
                               /\ \/ run.reports[d].outcome = "skipped"
                                  \/ /\ run.reports[d].outcome = "completed"
                                     /\ <<d, 0>> \in run.reports[d].artifacts
  BY DEF ExitIsHonest
<1>1. pending = {}
  BY DEF CommandInv, NotebooksOK
<1>2. ASSUME run.exit = "success"
      PROVE  /\ run.listed \cap remote = {}
             /\ \A d \in DOMAIN run.reports : run.reports[d].outcome # "failed"
  BY <1>2 DEF CommandInv, RunOK
<1>3. \A d \in DOMAIN run.reports :
        /\ run.reports[d].outcome \in {"failed", "skipped", "completed"}
        /\ run.reports[d].artifacts \subseteq DOMAIN folder
        /\ run.reports[d].outcome = "completed" => <<d, 0>> \in run.reports[d].artifacts
  <2>1. \A d \in DOMAIN run.reports : run.reports[d] \in Report(DOMAIN folder)
    BY ReportsFacts DEF CommandInv
  <2>. QED
    BY <2>1 DEF Report, CommandInv, ReportsOK
<1>. QED
  BY <1>1, <1>2, <1>3

--------------------------------------------------------------------------------
(* Of a set of places, the least and the number of each.  An item is picked *)
(* for each place, in their order.                                          *)
LEMMA MinFacts ==
  ASSUME NEW T, T \subseteq Nat, T # {}
  PROVE  Min(T) \in T /\ \A n \in T : Min(T) <= n
BY LeastOf DEF Min

LEMMA GreatestOf ==
  ASSUME NEW n \in Nat, NEW T, T \subseteq 0 .. n, T # {}
  PROVE  \E m \in T : \A k \in T : k <= m
<1>. DEFINE Below == {n - k : k \in T}
<1>1. \A k \in T : n - k \in Nat
  OBVIOUS
<1>2. Below \subseteq Nat /\ Below # {}
  BY <1>1
<1>3. PICK d \in Below : \A e \in Below : d <= e
  BY <1>2, LeastOf
<1>4. PICK m \in T : d = n - m
  BY <1>3
<1>5. \A k \in T : n - m <= n - k
  BY <1>3, <1>4
<1>6. \A k \in T : k <= m
  BY <1>5
<1>. QED
  BY <1>6

LEMMA MaxFacts ==
  ASSUME NEW n \in Nat, NEW T, T \subseteq 0 .. n, T # {}
  PROVE  Max(T) \in T /\ \A k \in T : k <= Max(T)
<1>1. \E m \in T : \A k \in T : m >= k
  BY GreatestOf
<1>. QED
  BY <1>1 DEF Max

(* The places of a sequence and their ranks.                                *)
Place(places, k) == CHOOSE i \in places : Rank(places, i) = k

LEMMA RankFacts ==
  ASSUME NEW n \in Nat, NEW places, places \subseteq 1 .. n
  PROVE  /\ IsFiniteSet(places) /\ Cardinality(places) \in Nat
         /\ \A i \in places : Rank(places, i) \in 1 .. Cardinality(places)
         /\ \A i, j \in places : i < j => Rank(places, i) < Rank(places, j)
         /\ \A k \in 1 .. Cardinality(places) : \E i \in places : Rank(places, i) = k
<1>. DEFINE upTo(m) == {k \in places : k <= m}
            c == Cardinality(places)
            r == [i \in places |-> Rank(places, i)]
<1>1. IsFiniteSet(places) /\ c \in Nat
  <2>1. IsFiniteSet(1 .. n)
    BY FS_Interval
  <2>. QED
    BY <2>1, FS_Subset, FS_CardinalityType
<1>2. \A i \in places : IsFiniteSet(upTo(i)) /\ Rank(places, i) \in Nat
  <2>1. \A i \in places : upTo(i) \subseteq places
    OBVIOUS
  <2>2. \A i \in places : IsFiniteSet(upTo(i))
    BY <1>1, <2>1, FS_Subset
  <2>. QED
    BY <2>2, FS_CardinalityType DEF Rank
<1>3. \A i \in places : Rank(places, i) <= c
  <2>1. \A i \in places : upTo(i) \subseteq places
    OBVIOUS
  <2>. QED
    BY <1>1, <2>1, FS_Subset DEF Rank
<1>4. \A i \in places : Rank(places, i) # 0
  <2>1. \A i \in places : i \in upTo(i)
    OBVIOUS
  <2>. QED
    BY <1>2, <2>1, FS_EmptySet DEF Rank
<1>5. \A i, j \in places : i < j => Rank(places, i) < Rank(places, j)
  <2>. SUFFICES ASSUME NEW i \in places, NEW j \in places, i < j
                PROVE  Rank(places, i) < Rank(places, j)
    OBVIOUS
  <2>0. /\ i \in Nat /\ j \in Nat /\ \A k \in places : k \in Nat
    OBVIOUS
  <2>1. upTo(i) \subseteq upTo(j) /\ j \in upTo(j) /\ j \notin upTo(i)
    <3>1. \A k \in places : k <= i => k <= j
      BY <2>0
    <3>2. j <= j /\ ~ (j <= i)
      BY <2>0
    <3>. QED
      BY <3>1, <3>2
  <2>2. upTo(i) # upTo(j)
    BY <2>1
  <2>. QED
    BY <1>2, <2>1, <2>2, FS_Subset DEF Rank
<1>6. \A i \in places : Rank(places, i) \in 1 .. c
  <2>. SUFFICES ASSUME NEW i \in places
                PROVE  Rank(places, i) \in 1 .. c
    OBVIOUS
  <2>1. Rank(places, i) \in Nat /\ Rank(places, i) <= c /\ Rank(places, i) # 0
    BY <1>2, <1>3, <1>4
  <2>. HIDE DEF c
  <2>. QED
    BY <1>1, <2>1
<1>7. r \in [places -> 1 .. c]
  BY <1>6
<1>8. \A i, j \in places : r[i] = r[j] => i = j
  <2>. SUFFICES ASSUME NEW i \in places, NEW j \in places, i # j
                PROVE  Rank(places, i) # Rank(places, j)
    OBVIOUS
  <2>1. i \in Nat /\ j \in Nat
    OBVIOUS
  <2>2. Rank(places, i) \in Nat /\ Rank(places, j) \in Nat
    BY <1>2
  <2>3. i < j => Rank(places, i) < Rank(places, j)
    BY <1>5
  <2>4. j < i => Rank(places, j) < Rank(places, i)
    BY <1>5
  <2>. QED
    BY <2>1, <2>2, <2>3, <2>4
<1>9. r \in Injection(places, 1 .. c)
  <2>. HIDE DEF r
  <2>. QED
    BY <1>7, <1>8 DEF Injection, IsInjective
<1>10. IsFiniteSet(1 .. c) /\ Cardinality(1 .. c) = c
  BY <1>1, FS_Interval
<1>11. r \in Surjection(places, 1 .. c)
  BY <1>1, <1>9, <1>10, FS_Injection
<1>12. \A k \in 1 .. c : \E i \in places : r[i] = k
  BY <1>11 DEF Surjection
<1>. QED
  BY <1>1, <1>5, <1>6, <1>12

LEMMA PlaceFacts ==
  ASSUME NEW n \in Nat, NEW places, places \subseteq 1 .. n
  PROVE  /\ Cardinality(places) \in Nat
         /\ \A k \in 1 .. Cardinality(places) :
              Place(places, k) \in places /\ Rank(places, Place(places, k)) = k
         /\ \A i, k \in 1 .. Cardinality(places) : i < k => Place(places, i) < Place(places, k)
         /\ \A i \in places : /\ Rank(places, i) \in 1 .. Cardinality(places)
                              /\ Place(places, Rank(places, i)) = i
<1>1. \A k \in 1 .. Cardinality(places) :
        Place(places, k) \in places /\ Rank(places, Place(places, k)) = k
  BY RankFacts DEF Place
<1>2. ASSUME NEW i \in 1 .. Cardinality(places), NEW k \in 1 .. Cardinality(places), i < k
      PROVE  Place(places, i) < Place(places, k)
  <2>. DEFINE a == Place(places, i)
              b == Place(places, k)
  <2>1. a \in places /\ b \in places /\ Rank(places, a) = i /\ Rank(places, b) = k
    BY <1>1
  <2>. HIDE DEF a, b
  <2>2. a \in Nat /\ b \in Nat /\ i \in Nat /\ k \in Nat
    BY <2>1
  <2>3. a # b
    BY <1>2, <2>1, <2>2
  <2>4. b < a => Rank(places, b) < Rank(places, a)
    BY <2>1, RankFacts
  <2>5. ~ (b < a)
    BY <1>2, <2>1, <2>2, <2>4
  <2>6. a < b
    BY <2>2, <2>3, <2>5
  <2>. QED
    BY <2>6 DEF a, b
<1>3. \A i \in places : /\ Rank(places, i) \in 1 .. Cardinality(places)
                        /\ Place(places, Rank(places, i)) = i
  <2>. SUFFICES ASSUME NEW i \in places
                PROVE  /\ Rank(places, i) \in 1 .. Cardinality(places)
                       /\ Place(places, Rank(places, i)) = i
    OBVIOUS
  <2>1. Rank(places, i) \in 1 .. Cardinality(places)
    BY RankFacts
  <2>2. \A j \in places : Rank(places, i) = Rank(places, j) => j = i
    <3>. SUFFICES ASSUME NEW j \in places, j # i
                  PROVE  Rank(places, i) # Rank(places, j)
      OBVIOUS
    <3>1. i \in Nat /\ j \in Nat
      OBVIOUS
    <3>2. Rank(places, i) \in 1 .. Cardinality(places) /\ Rank(places, j) \in 1 .. Cardinality(places)
      BY RankFacts
    <3>3. i < j => Rank(places, i) < Rank(places, j)
      BY RankFacts
    <3>4. j < i => Rank(places, j) < Rank(places, i)
      BY RankFacts
    <3>. QED
      BY <3>1, <3>2, <3>3, <3>4
  <2>. QED
    BY <1>1, <2>1, <2>2
<1>. QED
  BY <1>1, <1>2, <1>3, RankFacts

LEMMA PickedFacts ==
  ASSUME NEW items, NEW n \in Nat, DOMAIN items = 1 .. n, NEW places, places \subseteq 1 .. n
  PROVE  /\ Cardinality(places) \in Nat
         /\ Len(Picked(items, places)) = Cardinality(places)
         /\ DOMAIN Picked(items, places) = 1 .. Cardinality(places)
         /\ \A k \in 1 .. Cardinality(places) :
              Picked(items, places)[k] = items[Place(places, k)]
         /\ \A S : items \in Seq(S) => Picked(items, places) \in Seq(S)
<1>. DEFINE c == Cardinality(places)
            picked == Picked(items, places)
<1>1. c \in Nat /\ \A k \in 1 .. c : Place(places, k) \in places
  BY PlaceFacts
<1>2. picked = [k \in 1 .. c |-> items[Place(places, k)]]
  BY DEF Picked, Place
<1>3. \A S : items \in Seq(S) => \A k \in 1 .. c : items[Place(places, k)] \in S
  <2>. SUFFICES ASSUME NEW S, items \in Seq(S), NEW k \in 1 .. c
                PROVE  items[Place(places, k)] \in S
    OBVIOUS
  <2>1. Place(places, k) \in DOMAIN items
    BY <1>1
  <2>. QED
    BY <2>1
<1>. HIDE DEF picked
<1>4. Len(picked) = c /\ DOMAIN picked = 1 .. c
  BY <1>1, <1>2
<1>5. \A S : items \in Seq(S) => picked \in Seq(S)
  BY <1>1, <1>2, <1>3
<1>. QED
  BY <1>1, <1>2, <1>4, <1>5 DEF picked

--------------------------------------------------------------------------------
(* A sequence of sequences put together: FlattenSeq is a fold, which is a   *)
(* recursive function, and its steps are found by the least counterexample. *)
Joined(f, seqs, i) == IF i = 1 THEN seqs[i] ELSE f[i - 1] \o seqs[i]

JoinedUpTo(f, seqs, k) ==
  /\ f = [i \in 1 .. Len(seqs) |-> f[i]]
  /\ \A i \in 1 .. Len(seqs) : i <= k => f[i] = Joined(f, seqs, i)

LEMMA JoinsExist ==
  ASSUME NEW seqs, Len(seqs) \in Nat, NEW k \in Nat
  PROVE  \E f : JoinedUpTo(f, seqs, k)
<1>. DEFINE Bad == {m \in Nat : ~ \E f : JoinedUpTo(f, seqs, m)}
<1>1. SUFFICES ASSUME Bad # {} PROVE FALSE
  OBVIOUS
<1>2. PICK m \in Bad : \A n \in Bad : m <= n
  <2>. HIDE DEF Bad
  <2>1. Bad \subseteq Nat
    BY DEF Bad
  <2>. QED
    BY <1>1, <2>1, LeastOf
<1>3. m \in Nat /\ ~ \E f : JoinedUpTo(f, seqs, m)
  OBVIOUS
<1>4. CASE m = 0
  <2>. DEFINE f == [i \in 1 .. Len(seqs) |-> << >>]
  <2>1. JoinedUpTo(f, seqs, 0)
    BY DEF JoinedUpTo
  <2>. QED
    BY <1>3, <1>4, <2>1
<1>5. CASE m # 0
  <2>1. m - 1 \in Nat /\ m - 1 \notin Bad
    BY <1>2, <1>3, <1>5
  <2>2. PICK f : JoinedUpTo(f, seqs, m - 1)
    BY <2>1
  <2>. DEFINE g == [i \in 1 .. Len(seqs) |-> Joined(f, seqs, i)]
  <2>3. \A i \in 1 .. Len(seqs) : i <= m - 1 => g[i] = f[i]
    BY <2>2 DEF JoinedUpTo
  <2>4. \A i \in 1 .. Len(seqs) : i <= m => Joined(g, seqs, i) = Joined(f, seqs, i)
    <3>. SUFFICES ASSUME NEW i \in 1 .. Len(seqs), i <= m
                  PROVE  Joined(g, seqs, i) = Joined(f, seqs, i)
      OBVIOUS
    <3>1. CASE i = 1
      BY <3>1 DEF Joined
    <3>2. CASE i # 1
      <4>1. i - 1 \in 1 .. Len(seqs) /\ i - 1 <= m - 1
        BY <1>3, <3>2
      <4>2. g[i - 1] = f[i - 1]
        BY <2>3, <4>1
      <4>. HIDE DEF g
      <4>. QED
        BY <4>2 DEF Joined
    <3>. QED
      BY <3>1, <3>2
  <2>5. JoinedUpTo(g, seqs, m)
    BY <2>4 DEF JoinedUpTo
  <2>. QED
    BY <1>3, <2>5
<1>. QED
  BY <1>4, <1>5

(* What is put together has the type of its parts.                          *)
LEMMA FlattenTyped ==
  ASSUME NEW S, NEW seqs \in Seq(Seq(S))
  PROVE  FlattenSeq(seqs) \in Seq(S)
<1>1. CASE Len(seqs) = 0
  <2>1. seqs = << >>
    BY <1>1
  <2>. QED
    BY <1>1, <2>1 DEF FlattenSeq
<1>2. CASE Len(seqs) # 0
  <2>. DEFINE n == Len(seqs)
              f == CHOOSE f : f = [i \in 1 .. n |-> Joined(f, seqs, i)]
  <2>1. n \in Nat /\ n >= 1 /\ \A i \in 1 .. n : seqs[i] \in Seq(S)
    BY <1>2
  <2>2. FlattenSeq(seqs) = f[n]
    BY <1>2 DEF FlattenSeq, Joined
  <2>3. \E g : g = [i \in 1 .. n |-> Joined(g, seqs, i)]
    <3>1. PICK g : JoinedUpTo(g, seqs, n)
      BY <2>1, JoinsExist
    <3>2. \A i \in 1 .. n : g[i] = Joined(g, seqs, i)
      BY <2>1, <3>1 DEF JoinedUpTo
    <3>3. g = [i \in 1 .. n |-> g[i]]
      BY <3>1 DEF JoinedUpTo
    <3>4. g = [i \in 1 .. n |-> Joined(g, seqs, i)]
      BY <3>2, <3>3
    <3>. QED
      BY <3>4
  <2>4. f = [i \in 1 .. n |-> Joined(f, seqs, i)]
    BY <2>3
  <2>. HIDE DEF f
  <2>5. \A i \in 1 .. n : f[i] = Joined(f, seqs, i)
    BY <2>4
  <2>. DEFINE Bad == {i \in 1 .. n : f[i] \notin Seq(S)}
  <2>6. Bad = {}
    <3>1. SUFFICES ASSUME Bad # {} PROVE FALSE
      OBVIOUS
    <3>2. PICK k \in Bad : \A j \in Bad : k <= j
      <4>. HIDE DEF Bad
      <4>1. Bad \subseteq Nat
        BY <2>1 DEF Bad
      <4>. QED
        BY <3>1, <4>1, LeastOf
    <3>3. k \in 1 .. n /\ f[k] \notin Seq(S)
      OBVIOUS
    <3>4. CASE k = 1
      BY <2>1, <2>5, <3>3, <3>4 DEF Joined
    <3>5. CASE k # 1
      <4>1. k - 1 \in 1 .. n /\ k - 1 < k
        BY <2>1, <3>3, <3>5
      <4>2. f[k - 1] \in Seq(S)
        BY <2>1, <3>2, <3>3, <4>1
      <4>3. f[k] = f[k - 1] \o seqs[k]
        BY <2>5, <3>3, <3>5 DEF Joined
      <4>. QED
        BY <2>1, <3>3, <4>2, <4>3
    <3>. QED
      BY <3>4, <3>5
  <2>7. \A i \in 1 .. n : f[i] \in Seq(S)
    BY <2>6
  <2>8. n \in 1 .. n
    BY <2>1
  <2>. QED
    BY <2>2, <2>7, <2>8
<1>. QED
  BY <1>1, <1>2

--------------------------------------------------------------------------------
(* The cards that are retained: each of the others has a twin among those   *)
(* retained before it, and they have none.                                  *)
Retains(f, cards, n) ==
  IF n = 0 THEN {}
  ELSE LET before == f[n - 1] IN
       IF \E i \in before : cards[i].front \in Twins[cards[n].front] THEN before
       ELSE before \cup {n}

RetainsUpTo(f, cards, k) ==
  /\ f = [i \in 0 .. Len(cards) |-> f[i]]
  /\ \A i \in 0 .. Len(cards) : i <= k => f[i] = Retains(f, cards, i)

LEMMA RetainsExist ==
  ASSUME NEW cards, Len(cards) \in Nat, NEW k \in Nat
  PROVE  \E f : RetainsUpTo(f, cards, k)
<1>. DEFINE Bad == {m \in Nat : ~ \E f : RetainsUpTo(f, cards, m)}
<1>1. SUFFICES ASSUME Bad # {} PROVE FALSE
  OBVIOUS
<1>2. PICK m \in Bad : \A n \in Bad : m <= n
  <2>. HIDE DEF Bad
  <2>1. Bad \subseteq Nat
    BY DEF Bad
  <2>. QED
    BY <1>1, <2>1, LeastOf
<1>3. m \in Nat /\ ~ \E f : RetainsUpTo(f, cards, m)
  OBVIOUS
<1>4. CASE m = 0
  <2>. DEFINE f == [i \in 0 .. Len(cards) |-> {}]
  <2>1. \A i \in 0 .. Len(cards) : i <= 0 => f[i] = Retains(f, cards, i)
    BY DEF Retains
  <2>2. f = [i \in 0 .. Len(cards) |-> f[i]]
    OBVIOUS
  <2>. HIDE DEF f
  <2>3. RetainsUpTo(f, cards, 0)
    BY <2>1, <2>2 DEF RetainsUpTo
  <2>. QED
    BY <1>3, <1>4, <2>3
<1>5. CASE m # 0
  <2>1. m - 1 \in Nat /\ m - 1 \notin Bad
    BY <1>2, <1>3, <1>5
  <2>2. PICK f : RetainsUpTo(f, cards, m - 1)
    BY <2>1
  <2>. DEFINE g == [i \in 0 .. Len(cards) |-> Retains(f, cards, i)]
  <2>3. \A i \in 0 .. Len(cards) : i <= m - 1 => g[i] = f[i]
    BY <2>2 DEF RetainsUpTo
  <2>4. \A i \in 0 .. Len(cards) : g[i] = Retains(f, cards, i)
    OBVIOUS
  <2>5. g = [i \in 0 .. Len(cards) |-> g[i]]
    OBVIOUS
  <2>. HIDE DEF g
  <2>6. \A i \in 0 .. Len(cards) : i <= m => Retains(g, cards, i) = Retains(f, cards, i)
    <3>. SUFFICES ASSUME NEW i \in 0 .. Len(cards), i <= m
                  PROVE  Retains(g, cards, i) = Retains(f, cards, i)
      OBVIOUS
    <3>1. CASE i = 0
      BY <3>1 DEF Retains
    <3>2. CASE i # 0
      <4>1. i - 1 \in 0 .. Len(cards) /\ i - 1 <= m - 1
        BY <1>3, <3>2
      <4>2. g[i - 1] = f[i - 1]
        BY <2>3, <4>1
      <4>. QED
        BY <4>2 DEF Retains
    <3>. QED
      BY <3>1, <3>2
  <2>7. RetainsUpTo(g, cards, m)
    BY <2>4, <2>5, <2>6 DEF RetainsUpTo
  <2>. QED
    BY <1>3, <2>7
<1>. QED
  BY <1>4, <1>5

Twin(cards, i, j) == cards[i].front \in Twins[cards[j].front]

LEMMA RetainedFacts ==
  ASSUME NEW cards, Len(cards) \in Nat
  PROVE  LET places == Retained(cards) IN
         /\ places \subseteq 1 .. Len(cards)
         /\ \A i, j \in places : i < j => ~ Twin(cards, i, j)
         /\ \A j \in 1 .. Len(cards) : j \notin places => \E i \in places : i < j /\ Twin(cards, i, j)
<1>. DEFINE n == Len(cards)
            f == CHOOSE f : f = [i \in 0 .. n |-> Retains(f, cards, i)]
<1>1. Retained(cards) = f[n]
  BY DEF Retained, Retains
<1>2. \E g : g = [i \in 0 .. n |-> Retains(g, cards, i)]
  <2>1. PICK g : RetainsUpTo(g, cards, n)
    BY RetainsExist
  <2>2. \A i \in 0 .. n : g[i] = Retains(g, cards, i)
    BY <2>1 DEF RetainsUpTo
  <2>3. g = [i \in 0 .. n |-> g[i]]
    BY <2>1 DEF RetainsUpTo
  <2>4. g = [i \in 0 .. n |-> Retains(g, cards, i)]
    BY <2>2, <2>3
  <2>. QED
    BY <2>4
<1>3. f = [i \in 0 .. n |-> Retains(f, cards, i)]
  BY <1>2
<1>. HIDE DEF f
<1>4. \A i \in 0 .. n : f[i] = Retains(f, cards, i)
  BY <1>3
<1>. DEFINE Sound(k, places) ==
              /\ places \subseteq 1 .. k
              /\ \A i, j \in places : i < j => ~ Twin(cards, i, j)
              /\ \A j \in 1 .. k : j \notin places => \E i \in places : i < j /\ Twin(cards, i, j)
            Bad == {k \in 0 .. n : ~ Sound(k, f[k])}
<1>5. Bad = {}
  <2>1. SUFFICES ASSUME Bad # {} PROVE FALSE
    OBVIOUS
  <2>2. PICK k \in Bad : \A j \in Bad : k <= j
    <3>. HIDE DEF Bad
    <3>1. Bad \subseteq Nat
      BY DEF Bad
    <3>. QED
      BY <2>1, <3>1, LeastOf
  <2>3. k \in 0 .. n /\ ~ Sound(k, f[k])
    OBVIOUS
  <2>4. CASE k = 0
    <3>1. f[0] = {}
      BY <1>4, <2>3, <2>4 DEF Retains
    <3>2. Sound(0, {})
      OBVIOUS
    <3>. QED
      BY <2>3, <2>4, <3>1, <3>2
  <2>5. CASE k # 0
    <3>. DEFINE before == f[k - 1]
    <3>1. k - 1 \in 0 .. n /\ k \in Nat
      BY <2>3, <2>5
    <3>2. Sound(k - 1, before)
      <4>1. k - 1 \notin Bad
        BY <2>2, <2>3, <3>1
      <4>. QED
        BY <3>1, <4>1
    <3>3. /\ before \subseteq 1 .. k - 1
          /\ \A i, j \in before : i < j => ~ Twin(cards, i, j)
          /\ \A j \in 1 .. k - 1 : j \notin before => \E i \in before : i < j /\ Twin(cards, i, j)
      BY <3>2
    <3>4. f[k] = IF \E i \in before : Twin(cards, i, k) THEN before ELSE before \cup {k}
      BY <1>4, <2>3, <2>5 DEF Retains, Twin
    <3>. HIDE DEF before
    <3>5. \A j \in 1 .. k : j = k \/ j \in 1 .. k - 1
      BY <3>1
    <3>6. \A i \in before : i < k /\ i \in 1 .. k
      BY <3>1, <3>3
    <3>7. CASE \E i \in before : Twin(cards, i, k)
      <4>1. f[k] = before
        BY <3>4, <3>7
      <4>2. Sound(k, before)
        BY <3>3, <3>5, <3>6, <3>7
      <4>. QED
        BY <2>3, <4>1, <4>2
    <3>8. CASE ~ \E i \in before : Twin(cards, i, k)
      <4>1. f[k] = before \cup {k}
        BY <3>4, <3>8
      <4>2. before \cup {k} \subseteq 1 .. k
        BY <3>1, <3>6
      <4>3. \A i, j \in before \cup {k} : i < j => ~ Twin(cards, i, j)
        <5>1. \A j \in before : ~ (k < j)
          BY <3>1, <3>6
        <5>2. ~ (k < k)
          BY <3>1
        <5>. QED
          BY <3>3, <3>8, <5>1, <5>2
      <4>4. \A j \in 1 .. k : j \notin before \cup {k} =>
              \E i \in before \cup {k} : i < j /\ Twin(cards, i, j)
        BY <3>3, <3>5
      <4>. QED
        BY <2>3, <4>1, <4>2, <4>3, <4>4
    <3>. QED
      BY <3>7, <3>8
  <2>. QED
    BY <2>4, <2>5
<1>6. Sound(n, f[n])
  <2>1. n \in 0 .. n
    OBVIOUS
  <2>. HIDE DEF Sound
  <2>. QED
    BY <1>5, <2>1
<1>. QED
  BY <1>1, <1>6

--------------------------------------------------------------------------------
(* A text matches itself from its first word to its last.                   *)
LEMMA RangeFacts ==
  ASSUME NEW left, NEW right, Len(left) \in Nat, Len(right) \in Nat,
         NEW range \in Ranges(left, right)
  PROVE  /\ range[1] \in 1 .. Len(left) + 1 /\ range[2] \in 1 .. Len(left) + 1
         /\ range[3] \in 1 .. Len(right) + 1 /\ range[4] \in 1 .. Len(right) + 1
BY DEF Ranges

LEMMA InRanges ==
  ASSUME NEW left, NEW right,
         NEW a \in 1 .. Len(left) + 1, NEW b \in 1 .. Len(left) + 1,
         NEW c \in 1 .. Len(right) + 1, NEW d \in 1 .. Len(right) + 1
  PROVE  << a, b, c, d >> \in Ranges(left, right)
BY DEF Ranges

LEMMA LongestFacts ==
  ASSUME NEW left, NEW right, Len(left) \in Nat, Len(right) \in Nat,
         NEW range \in Ranges(left, right)
  PROVE  LET size == LongestRun(left, right, range)
             i == FirstLeft(left, right, range, size)
             j == FirstRight(left, right, range, size, i)
         IN /\ size \in 0 .. Len(left)
            /\ \A a \in range[1] .. range[2] - 1, b \in range[3] .. range[4] - 1,
                  n \in 1 .. Len(left) : Agree(left, right, range, a, b, n) => n <= size
            /\ size # 0 => /\ i \in range[1] .. range[2] - 1 /\ j \in range[3] .. range[4] - 1
                           /\ Agree(left, right, range, i, j, size)
                           /\ \A a \in range[1] .. range[2] - 1, b \in range[3] .. range[4] - 1 :
                                Agree(left, right, range, a, b, size) => i <= a
                           /\ \A b \in range[3] .. range[4] - 1 :
                                Agree(left, right, range, i, b, size) => j <= b
<1>. DEFINE size == LongestRun(left, right, range)
            lefts == range[1] .. range[2] - 1
            rights == range[3] .. range[4] - 1
            found == {n \in 1 .. Len(left) :
                        \E a \in lefts, b \in rights : Agree(left, right, range, a, b, n)}
            sizes == {0} \cup found
            firsts == {a \in lefts : \E b \in rights : Agree(left, right, range, a, b, size)}
            i == FirstLeft(left, right, range, size)
            seconds == {b \in rights : Agree(left, right, range, i, b, size)}
            j == FirstRight(left, right, range, size, i)
<1>1. lefts \subseteq Nat /\ rights \subseteq Nat
  BY RangeFacts
<1>2. size = Max(sizes)
  BY DEF LongestRun
<1>3. sizes \subseteq 0 .. Len(left) /\ sizes # {}
  OBVIOUS
<1>4. size \in sizes /\ \A n \in sizes : n <= size
  <2>. HIDE DEF sizes, size
  <2>. QED
    BY <1>2, <1>3, MaxFacts
<1>5. i = Min(firsts)
  BY DEF FirstLeft
<1>6. j = Min(seconds)
  BY DEF FirstRight
<1>. HIDE DEF size, i, j
<1>7. size \in 0 .. Len(left)
  BY <1>3, <1>4
<1>8. \A a \in lefts, b \in rights, n \in 1 .. Len(left) :
        Agree(left, right, range, a, b, n) => n <= size
  BY <1>4
<1>9. ASSUME size # 0
      PROVE  /\ i \in lefts /\ j \in rights /\ Agree(left, right, range, i, j, size)
             /\ \A a \in lefts, b \in rights : Agree(left, right, range, a, b, size) => i <= a
             /\ \A b \in rights : Agree(left, right, range, i, b, size) => j <= b
  <2>1. size \in found
    BY <1>4, <1>9
  <2>2. firsts # {} /\ firsts \subseteq Nat
    BY <1>1, <2>1
  <2>3. i \in firsts /\ \A a \in firsts : i <= a
    <3>. HIDE DEF firsts
    <3>. QED
      BY <1>5, <2>2, MinFacts
  <2>4. seconds # {} /\ seconds \subseteq Nat
    BY <1>1, <2>3
  <2>5. j \in seconds /\ \A b \in seconds : j <= b
    <3>. HIDE DEF seconds
    <3>. QED
      BY <1>6, <2>4, MinFacts
  <2>. QED
    BY <2>3, <2>5
<1>. QED
  BY <1>7, <1>8, <1>9 DEF size, i, j

MatchedAt(f, left, right, range) ==
  LET size == LongestRun(left, right, range)
      i == FirstLeft(left, right, range, size)
      j == FirstRight(left, right, range, size, i)
  IN IF size = 0 THEN 0
     ELSE size + f[<< range[1], i, range[3], j >>]
               + f[<< i + size, range[2], j + size, range[4] >>]

MatchedUpTo(f, left, right, k) ==
  /\ f = [range \in Ranges(left, right) |-> f[range]]
  /\ \A range \in Ranges(left, right) :
       range[2] <= range[1] + k => f[range] = MatchedAt(f, left, right, range)

LEMMA NothingMatches ==
  ASSUME NEW left, NEW right, Len(left) \in Nat, Len(right) \in Nat, NEW f,
         NEW range \in Ranges(left, right), range[2] <= range[1]
  PROVE  MatchedAt(f, left, right, range) = 0
<1>. DEFINE size == LongestRun(left, right, range)
<1>1. range[1] .. range[2] - 1 = {}
  BY RangeFacts
<1>2. size = 0
  BY <1>1, LongestFacts
<1>. QED
  BY <1>2 DEF MatchedAt

LEMMA RunFits ==
  ASSUME NEW a \in Nat \ {0}, NEW b \in Nat, NEW last \in Nat, b <= last + 1,
         NEW i \in a .. b - 1, NEW size \in Nat \ {0}, i + size <= b
  PROVE  i \in 1 .. last + 1 /\ i + size \in 1 .. last + 1
OBVIOUS

LEMMA RunCuts ==
  ASSUME NEW a \in Nat, NEW b \in Nat, NEW m \in Nat \ {0}, b <= a + m,
         NEW i \in a .. b - 1, NEW size \in Nat \ {0}
  PROVE  i <= a + (m - 1) /\ b <= (i + size) + (m - 1)
OBVIOUS

LEMMA MatchedMore ==
  ASSUME NEW left, NEW right, Len(left) \in Nat, Len(right) \in Nat, NEW m \in Nat \ {0},
         NEW f, MatchedUpTo(f, left, right, m - 1)
  PROVE  \E g : MatchedUpTo(g, left, right, m)
<1>. DEFINE g == [range \in Ranges(left, right) |-> MatchedAt(f, left, right, range)]
<1>1. \A range \in Ranges(left, right) : range[2] <= range[1] + (m - 1) => g[range] = f[range]
  BY DEF MatchedUpTo
<1>2. \A range \in Ranges(left, right) : g[range] = MatchedAt(f, left, right, range)
  OBVIOUS
<1>3. g = [range \in Ranges(left, right) |-> g[range]]
  OBVIOUS
<1>. HIDE DEF g
<1>4. ASSUME NEW range \in Ranges(left, right), range[2] <= range[1] + m
      PROVE  MatchedAt(g, left, right, range) = MatchedAt(f, left, right, range)
  <2>. DEFINE size == LongestRun(left, right, range)
              i == FirstLeft(left, right, range, size)
              j == FirstRight(left, right, range, size, i)
              before == << range[1], i, range[3], j >>
              after == << i + size, range[2], j + size, range[4] >>
  <2>1. CASE size = 0
    BY <2>1 DEF MatchedAt
  <2>2. CASE size # 0
    <3>1. /\ size \in 1 .. Len(left)
          /\ i \in range[1] .. range[2] - 1 /\ j \in range[3] .. range[4] - 1
          /\ Agree(left, right, range, i, j, size)
      BY <2>2, LongestFacts
    <3>2. i + size <= range[2] /\ j + size <= range[4]
      BY <3>1 DEF Agree
    <3>3. /\ range[1] \in 1 .. Len(left) + 1 /\ range[2] \in 1 .. Len(left) + 1
          /\ range[3] \in 1 .. Len(right) + 1 /\ range[4] \in 1 .. Len(right) + 1
      BY RangeFacts
    <3>. HIDE DEF size, i, j
    <3>4. /\ range[1] \in Nat \ {0} /\ range[2] \in Nat /\ range[2] <= Len(left) + 1
          /\ range[3] \in Nat \ {0} /\ range[4] \in Nat /\ range[4] <= Len(right) + 1
          /\ size \in Nat \ {0}
      <4>1. size \in Nat \ {0}
        BY <3>1
      <4>2. /\ range[1] \in Nat \ {0} /\ range[2] \in Nat /\ range[2] <= Len(left) + 1
            /\ range[3] \in Nat \ {0} /\ range[4] \in Nat /\ range[4] <= Len(right) + 1
        BY <3>3
      <4>. QED
        BY <4>1, <4>2
    <3>5. /\ i \in 1 .. Len(left) + 1 /\ j \in 1 .. Len(right) + 1
          /\ i + size \in 1 .. Len(left) + 1 /\ j + size \in 1 .. Len(right) + 1
      BY <3>1, <3>2, <3>4, RunFits
    <3>6. before \in Ranges(left, right) /\ after \in Ranges(left, right)
      BY <3>3, <3>5, InRanges
    <3>7. i <= range[1] + (m - 1) /\ range[2] <= (i + size) + (m - 1)
      BY <1>4, <3>1, <3>4, RunCuts
    <3>8. /\ before[1] = range[1] /\ before[2] = i
          /\ after[1] = i + size /\ after[2] = range[2]
      OBVIOUS
    <3>9. g[before] = f[before] /\ g[after] = f[after]
      <4>. HIDE DEF before, after
      <4>. QED
        BY <1>1, <3>6, <3>7, <3>8
    <3>. QED
      BY <3>9 DEF MatchedAt, size, i, j
  <2>. QED
    BY <2>1, <2>2
<1>5. MatchedUpTo(g, left, right, m)
  BY <1>2, <1>3, <1>4 DEF MatchedUpTo
<1>. QED
  BY <1>5

LEMMA MatchedExist ==
  ASSUME NEW left, NEW right, Len(left) \in Nat, Len(right) \in Nat, NEW k \in Nat
  PROVE  \E f : MatchedUpTo(f, left, right, k)
<1>. DEFINE Bad == {m \in Nat : ~ \E f : MatchedUpTo(f, left, right, m)}
<1>1. SUFFICES ASSUME Bad # {} PROVE FALSE
  OBVIOUS
<1>2. PICK m \in Bad : \A n \in Bad : m <= n
  <2>. HIDE DEF Bad
  <2>1. Bad \subseteq Nat
    BY DEF Bad
  <2>. QED
    BY <1>1, <2>1, LeastOf
<1>3. m \in Nat /\ ~ \E f : MatchedUpTo(f, left, right, m)
  OBVIOUS
<1>4. CASE m = 0
  <2>. DEFINE f == [range \in Ranges(left, right) |-> 0]
  <2>1. \A range \in Ranges(left, right) : f[range] = 0
    OBVIOUS
  <2>2. f = [range \in Ranges(left, right) |-> f[range]]
    OBVIOUS
  <2>. HIDE DEF f
  <2>3. \A range \in Ranges(left, right) :
          range[2] <= range[1] + 0 => MatchedAt(f, left, right, range) = 0
    BY NothingMatches, RangeFacts
  <2>4. MatchedUpTo(f, left, right, 0)
    BY <2>1, <2>2, <2>3 DEF MatchedUpTo
  <2>. QED
    BY <1>3, <1>4, <2>4
<1>5. CASE m # 0
  <2>1. m - 1 \in Nat /\ m - 1 \notin Bad
    BY <1>2, <1>3, <1>5
  <2>2. PICK f : MatchedUpTo(f, left, right, m - 1)
    BY <2>1
  <2>. QED
    BY <1>3, <1>5, <2>2, MatchedMore
<1>. QED
  BY <1>4, <1>5

LEMMA MatchesItself ==
  ASSUME NEW text, Len(text) \in Nat
  PROVE  Matches(text, text) = Len(text)
<1>. DEFINE n == Len(text)
            D == Ranges(text, text)
            f == CHOOSE f : f = [range \in D |-> MatchedAt(f, text, text, range)]
            whole == << 1, n + 1, 1, n + 1 >>
            start == << 1, 1, 1, 1 >>
            stop == << n + 1, n + 1, n + 1, n + 1 >>
<1>1. Matches(text, text) = f[whole]
  BY DEF Matches, MatchedAt
<1>2. \E g : g = [range \in D |-> MatchedAt(g, text, text, range)]
  <2>1. PICK g : MatchedUpTo(g, text, text, n)
    BY MatchedExist
  <2>2. \A range \in D : range[2] <= range[1] + n
    BY RangeFacts
  <2>3. \A range \in D : g[range] = MatchedAt(g, text, text, range)
    BY <2>1, <2>2 DEF MatchedUpTo
  <2>4. g = [range \in D |-> g[range]]
    BY <2>1 DEF MatchedUpTo
  <2>5. g = [range \in D |-> MatchedAt(g, text, text, range)]
    BY <2>3, <2>4
  <2>. QED
    BY <2>5
<1>3. f = [range \in D |-> MatchedAt(f, text, text, range)]
  BY <1>2
<1>. HIDE DEF f
<1>4. \A range \in D : f[range] = MatchedAt(f, text, text, range)
  BY <1>3
<1>5. whole \in D /\ start \in D /\ stop \in D
  BY InRanges
<1>6. /\ whole[1] = 1 /\ whole[2] = n + 1 /\ whole[3] = 1 /\ whole[4] = n + 1
      /\ start[1] = 1 /\ start[2] = 1 /\ stop[1] = n + 1 /\ stop[2] = n + 1
  OBVIOUS
<1>. HIDE DEF D, whole, start, stop
<1>7. f[start] = 0 /\ f[stop] = 0
  BY <1>4, <1>5, <1>6, NothingMatches DEF D
<1>8. CASE n = 0
  <2>1. f[whole] = 0
    BY <1>4, <1>5, <1>6, <1>8, NothingMatches DEF D
  <2>. QED
    BY <1>1, <1>8, <2>1
<1>9. CASE n # 0
  <2>. DEFINE size == LongestRun(text, text, whole)
              i == FirstLeft(text, text, whole, size)
              j == FirstRight(text, text, whole, size, i)
  <2>1. Agree(text, text, whole, 1, 1, n)
    BY <1>6 DEF Agree
  <2>2. /\ size \in 0 .. n
        /\ \A a, b \in 1 .. n : Agree(text, text, whole, a, b, n) => n <= size
        /\ size # 0 => /\ i \in 1 .. n /\ j \in 1 .. n
                       /\ Agree(text, text, whole, i, j, size)
    <3>. DEFINE lefts == whole[1] .. whole[2] - 1
                rights == whole[3] .. whole[4] - 1
    <3>1. lefts = 1 .. n /\ rights = 1 .. n /\ n \in 1 .. n
      BY <1>6, <1>9
    <3>2. /\ size \in 0 .. n
          /\ \A a \in lefts, b \in rights, k \in 1 .. n :
               Agree(text, text, whole, a, b, k) => k <= size
          /\ size # 0 => i \in lefts /\ j \in rights /\ Agree(text, text, whole, i, j, size)
      BY <1>5, LongestFacts DEF D
    <3>. HIDE DEF lefts, rights, size, i, j
    <3>. QED
      BY <3>1, <3>2
  <2>. HIDE DEF size, i, j
  <2>3. size = n
    BY <1>9, <2>1, <2>2
  <2>4. i = 1 /\ j = 1
    BY <1>6, <1>9, <2>2, <2>3 DEF Agree
  <2>5. f[whole] = size + f[<< whole[1], i, whole[3], j >>]
                        + f[<< i + size, whole[2], j + size, whole[4] >>]
    BY <1>4, <1>5, <1>9, <2>3 DEF MatchedAt, size, i, j
  <2>6. << whole[1], i, whole[3], j >> = start
    BY <1>6, <2>4 DEF start
  <2>7. << i + size, whole[2], j + size, whole[4] >> = stop
    BY <1>6, <2>3, <2>4 DEF stop
  <2>. QED
    BY <1>1, <1>7, <2>3, <2>5, <2>6, <2>7
<1>. QED
  BY <1>8, <1>9

LEMMA SimilarToItself ==
  ASSUME NEW text, Len(text) \in Nat
  PROVE  Similar(text, text)
BY MatchesItself DEF Similar

--------------------------------------------------------------------------------
(* Of a sequence, some items.                                               *)
LEMMA PickedSeq ==
  ASSUME NEW S, NEW s \in Seq(S), NEW places, places \subseteq 1 .. Len(s)
  PROVE  /\ Cardinality(places) \in Nat
         /\ Len(Picked(s, places)) = Cardinality(places)
         /\ DOMAIN Picked(s, places) = 1 .. Cardinality(places)
         /\ \A k \in 1 .. Cardinality(places) :
              /\ Picked(s, places)[k] = s[Place(places, k)]
              /\ Place(places, k) \in places
         /\ Picked(s, places) \in Seq(S)
<1>. DEFINE n == Len(s)
<1>1. n \in Nat /\ DOMAIN s = 1 .. n
  OBVIOUS
<1>2. \A k \in 1 .. Cardinality(places) : Place(places, k) \in places
  BY <1>1, PlaceFacts
<1>. SUFFICES /\ Cardinality(places) \in Nat
              /\ Len(Picked(s, places)) = Cardinality(places)
              /\ DOMAIN Picked(s, places) = 1 .. Cardinality(places)
              /\ \A k \in 1 .. Cardinality(places) : Picked(s, places)[k] = s[Place(places, k)]
              /\ \A T : s \in Seq(T) => Picked(s, places) \in Seq(T)
  BY <1>2
<1>3. places \subseteq 1 .. n
  OBVIOUS
<1>. HIDE DEF n
<1>. QED
  BY ONLY <1>1, <1>3, PickedFacts

(* Cards stay cards.                                                        *)
Words == Seq(STRING)
Faces == Seq(Piece)

LEMMA ShownTyped ==
  ASSUME NEW words \in Words
  PROVE  Shown(words) \in Faces
<1>1. [words |-> words, cloze |-> 0] \in Piece
  BY DEF Piece, Words
<1>. QED
  BY <1>1 DEF Shown, Faces

LEMMA HiddenTyped ==
  ASSUME NEW words \in Words, NEW k \in 0 .. 3
  PROVE  Hidden(words, k) \in Faces
<1>1. [words |-> words, cloze |-> k] \in Piece
  BY DEF Piece, Words
<1>. QED
  BY <1>1 DEF Hidden, Faces

LEMMA FrontFacts ==
  ASSUME NEW front \in Faces
  PROVE  /\ Len(front) \in Nat /\ DOMAIN front = 1 .. Len(front)
         /\ \A i \in DOMAIN front : /\ front[i] \in Piece /\ front[i].words \in Words
                                    /\ front[i].cloze \in 0 .. 3
<1>1. Len(front) \in Nat /\ DOMAIN front = 1 .. Len(front)
  BY DEF Faces
<1>2. ASSUME NEW i \in DOMAIN front
      PROVE  front[i] \in Piece
  BY DEF Faces
<1>3. \A piece \in Piece : piece.words \in Words /\ piece.cloze \in 0 .. 3
  BY DEF Piece, Words
<1>. QED
  BY <1>1, <1>2, <1>3

LEMMA WordsTyped ==
  ASSUME NEW front \in Faces
  PROVE  WordsOf(front) \in Words
<1>1. [i \in DOMAIN front |-> front[i].words] \in Seq(Seq(STRING))
  BY FrontFacts DEF Words
<1>. QED
  BY <1>1, FlattenTyped DEF WordsOf, Words

LEMMA WiderSeq ==
  ASSUME NEW A, NEW B, A \subseteq B, NEW s \in Seq(A)
  PROVE  s \in Seq(B)
<1>1. Len(s) \in Nat /\ \A i \in 1 .. Len(s) : s[i] \in B
  OBVIOUS
<1>2. s = [i \in 1 .. Len(s) |-> s[i]]
  OBVIOUS
<1>. QED
  BY <1>1, <1>2

(* What a text is made of.                                                  *)
Symbols == STRING \cup {End, Begin[1], Begin[2], Begin[3]}

LEMMA TextTyped ==
  ASSUME NEW front \in Faces
  PROVE  Text(front) \in Seq(Symbols)
<1>. DEFINE text(i) == IF front[i].cloze = 0 THEN front[i].words
                       ELSE << Begin[front[i].cloze] >> \o front[i].words \o << End >>
<1>1. ASSUME NEW i \in DOMAIN front
      PROVE  text(i) \in Seq(Symbols)
  <2>1. front[i].words \in Words /\ front[i].cloze \in 0 .. 3
    BY FrontFacts
  <2>2. CASE front[i].cloze = 0
    <3>1. STRING \subseteq Symbols
      BY DEF Symbols
    <3>. QED
      BY <2>1, <2>2, <3>1, WiderSeq DEF Words
  <2>3. CASE front[i].cloze # 0
    <3>1. front[i].cloze \in 1 .. 3
      BY <2>1, <2>3
    <3>2. << Begin[front[i].cloze] >> \in Seq(Symbols) /\ << End >> \in Seq(Symbols)
      <4>1. Begin[front[i].cloze] \in Symbols /\ End \in Symbols
        BY <3>1 DEF Symbols
      <4>. QED
        BY <4>1
    <3>3. front[i].words \in Seq(Symbols)
      <4>1. STRING \subseteq Symbols
        BY DEF Symbols
      <4>. QED
        BY <2>1, <4>1, WiderSeq DEF Words
    <3>4. << Begin[front[i].cloze] >> \o front[i].words \o << End >> \in Seq(Symbols)
      BY <3>2, <3>3
    <3>. QED
      BY <2>3, <3>4
  <2>. QED
    BY <2>2, <2>3
<1>. HIDE DEF text
<1>2. [i \in DOMAIN front |-> text(i)] \in Seq(Seq(Symbols))
  BY <1>1, FrontFacts
<1>3. FlattenSeq([i \in DOMAIN front |-> text(i)]) \in Seq(Symbols)
  BY <1>2, FlattenTyped
<1>. QED
  BY <1>3 DEF Text, text

LEMMA TwinOfItself ==
  ASSUME NEW front \in Faces, front \in Fronts
  PROVE  front \in Twins[front]
<1>1. Len(Text(front)) \in Nat
  <2>1. Text(front) \in Seq(Symbols)
    BY TextTyped
  <2>. QED
    BY <2>1
<1>2. Similar(Text(front), Text(front))
  BY <1>1, SimilarToItself
<1>. QED
  BY <1>2 DEF Twins

--------------------------------------------------------------------------------
(* Deletions: whatever becomes of a card, its front is made of pieces; and  *)
(* if only one deletion is wanted, one stays that hides what matters.       *)
LEMMA ShortAnswerTyped ==
  ASSUME NEW question \in Words, NEW answer \in Words
  PROVE  ShortAnswer(question, answer) \in Faces
<1>1. Len(question) > 1 => Tail(question) \in Words
  BY DEF Words
<1>2. Shown(question) \in Faces /\ (Len(question) > 1 => Shown(Tail(question)) \in Faces)
  BY <1>1, ShownTyped
<1>3. Hidden(answer, 1) \in Faces
  BY HiddenTyped
<1>4. << >> \in Faces
  BY DEF Faces
<1>5. \A f, g \in Faces : f \o g \in Faces
  BY DEF Faces
<1>. QED
  BY <1>2, <1>3, <1>4, <1>5 DEF ShortAnswer

LEMMA FlattenFronts ==
  ASSUME NEW n \in Nat, NEW fronts, fronts = [i \in 1 .. n |-> fronts[i]],
         \A i \in 1 .. n : fronts[i] \in Faces
  PROVE  FlattenSeq(fronts) \in Faces
<1>1. fronts \in Seq(Faces)
  BY DEF Faces
<1>. QED
  BY <1>1, FlattenTyped DEF Faces

LEMMA ShortSentenceTyped ==
  ASSUME NEW words \in Words
  PROVE  ShortSentence(words) \in Faces
<1>. DEFINE matters == {i \in DOMAIN words : words[i] \notin Trivial}
            at == IF matters = {} THEN Len(words) \div 2 + 1 ELSE Min(matters)
            part(i) == IF i = at /\ i \in matters THEN Hidden(<< words[i] >>, 1)
                       ELSE Shown(<< words[i] >>)
            parts == [i \in DOMAIN words |-> part(i)]
<1>1. Len(words) \in Nat /\ DOMAIN words = 1 .. Len(words)
  BY DEF Words
<1>2. \A i \in DOMAIN words : << words[i] >> \in Words
  BY DEF Words
<1>3. \A i \in DOMAIN words : part(i) \in Faces
  BY <1>2, ShownTyped, HiddenTyped
<1>4. ShortSentence(words) = FlattenSeq(parts)
  BY DEF ShortSentence
<1>. HIDE DEF part
<1>5. /\ parts = [i \in 1 .. Len(words) |-> parts[i]]
      /\ \A i \in 1 .. Len(words) : parts[i] \in Faces
  BY <1>1, <1>3
<1>. HIDE DEF parts
<1>. QED
  BY <1>1, <1>4, <1>5, FlattenFronts

LEMMA LongSentenceTyped ==
  ASSUME NEW words \in Words
  PROVE  LongSentence(words) \in Faces
<1>. DEFINE before(i) == Cardinality({j \in 1 .. i : words[j] \in Keyword})
            part(i) == IF words[i] \in Keyword /\ before(i) <= 3
                       THEN Hidden(<< words[i] >>, before(i)) ELSE Shown(<< words[i] >>)
            parts == [i \in DOMAIN words |-> part(i)]
<1>1. Len(words) \in Nat /\ DOMAIN words = 1 .. Len(words)
  BY DEF Words
<1>2. \A i \in DOMAIN words : << words[i] >> \in Words
  BY DEF Words
<1>3. \A i \in DOMAIN words : before(i) \in Nat
  <2>. SUFFICES ASSUME NEW i \in DOMAIN words PROVE before(i) \in Nat
    OBVIOUS
  <2>1. i \in Nat
    BY <1>1
  <2>2. IsFiniteSet(1 .. i)
    BY <2>1, FS_Interval
  <2>3. IsFiniteSet({j \in 1 .. i : words[j] \in Keyword})
    BY <2>2, FS_Subset
  <2>. QED
    BY <2>3, FS_CardinalityType
<1>. HIDE DEF before
<1>4. \A i \in DOMAIN words : part(i) \in Faces
  <2>. SUFFICES ASSUME NEW i \in DOMAIN words PROVE part(i) \in Faces
    OBVIOUS
  <2>1. before(i) <= 3 => before(i) \in 0 .. 3
    BY <1>3
  <2>. QED
    BY <1>2, <2>1, ShownTyped, HiddenTyped
<1>5. LongSentence(words) = FlattenSeq(parts)
  BY DEF LongSentence, before
<1>. HIDE DEF part
<1>6. /\ parts = [i \in 1 .. Len(words) |-> parts[i]]
      /\ \A i \in 1 .. Len(words) : parts[i] \in Faces
  BY <1>1, <1>4
<1>. HIDE DEF parts
<1>. QED
  BY <1>1, <1>5, <1>6, FlattenFronts

LEMMA SubSeqTyped ==
  ASSUME NEW words \in Words, NEW a \in Nat \ {0}, NEW b \in Nat, b <= Len(words)
  PROVE  SubSeq(words, a, b) \in Words
BY DEF Words

LEMMA OneOfSeveralTyped ==
  ASSUME NEW words \in Words, Len(words) > 1, NEW k \in 0 .. 3
  PROVE  OneOfSeveral(words, k) \in Faces
<1>. DEFINE verbs == {i \in 1 .. Len(words) - 1 : words[i] \in Verb}
            at == Important(words)
<1>1. Len(words) \in Nat
  BY DEF Words
<1>2. at \in 1 .. Len(words)
  <2>1. verbs \subseteq Nat
    OBVIOUS
  <2>2. verbs # {} => Min(verbs) \in verbs
    <3>. HIDE DEF verbs
    <3>. QED
      BY <2>1, MinFacts
  <2>3. verbs # {} => Min(verbs) \in 1 .. Len(words)
    BY <1>1, <2>2
  <2>. QED
    BY <1>1, <2>3 DEF Important
<1>. HIDE DEF at
<1>3. at \in Nat \ {0} /\ at - 1 \in Nat /\ at - 1 <= Len(words)
  BY <1>1, <1>2
<1>4. SubSeq(words, 1, at - 1) \in Words /\ SubSeq(words, at, Len(words)) \in Words
  BY <1>1, <1>3, SubSeqTyped
<1>5. Shown(SubSeq(words, 1, at - 1)) \in Faces /\ Hidden(SubSeq(words, at, Len(words)), k) \in Faces
  BY <1>4, ShownTyped, HiddenTyped
<1>6. \A f, g \in Faces : f \o g \in Faces
  BY DEF Faces
<1>. QED
  BY <1>5, <1>6 DEF OneOfSeveral, From, at

LEMMA CreateClozeTyped ==
  ASSUME NEW question \in Words, NEW back \in Seq(Words)
  PROVE  CreateCloze(question, back) \in Faces
<1>. DEFINE answer == FlattenSeq(back)
            places == {i \in DOMAIN back : i <= 3 /\ Len(back[i]) > 1}
            long == Picked(back, places)
            parts == [k \in DOMAIN long |-> OneOfSeveral(long[k], k)]
<1>1. answer \in Words /\ Len(answer) \in Nat
  BY FlattenTyped DEF Words
<1>2. FlattenSeq(parts) \in Faces
  <2>. DEFINE c == Cardinality(places)
  <2>1. Len(back) \in Nat /\ DOMAIN back = 1 .. Len(back) /\ places \subseteq 1 .. Len(back)
    OBVIOUS
  <2>2. /\ c \in Nat /\ DOMAIN long = 1 .. c
        /\ \A k \in 1 .. c : long[k] = back[Place(places, k)] /\ Place(places, k) \in places
    <3>. HIDE DEF places
    <3>1. c \in Nat /\ DOMAIN long = 1 .. c /\ \A k \in 1 .. c : long[k] = back[Place(places, k)]
      BY <2>1, PickedSeq
    <3>2. \A k \in 1 .. c : Place(places, k) \in places
      BY <2>1, PlaceFacts
    <3>. QED
      BY <3>1, <3>2
  <2>3. c <= 3
    <3>1. places \subseteq 1 .. 3
      BY <2>1
    <3>2. IsFiniteSet(1 .. 3) /\ Cardinality(1 .. 3) = 3
      <4>1. IsFiniteSet(1 .. 3) /\ Cardinality(1 .. 3) = IF 1 > 3 THEN 0 ELSE 3 - 1 + 1
        BY FS_Interval, 3 \in Int, 1 \in Int, Zenon
      <4>. QED
        BY <4>1
    <3>. HIDE DEF places
    <3>. QED
      BY <3>1, <3>2, FS_Subset
  <2>4. \A k \in 1 .. c : long[k] \in Words /\ Len(long[k]) > 1
    BY <2>2
  <2>5. \A k \in 1 .. c : k \in 0 .. 3
    BY <2>2, <2>3
  <2>. HIDE DEF long
  <2>6. \A k \in 1 .. c : OneOfSeveral(long[k], k) \in Faces
    BY <2>4, <2>5, OneOfSeveralTyped
  <2>7. parts = [k \in 1 .. c |-> OneOfSeveral(long[k], k)]
    BY <2>2
  <2>8. parts = [k \in 1 .. c |-> parts[k]] /\ \A k \in 1 .. c : parts[k] \in Faces
    BY <2>6, <2>7
  <2>. HIDE DEF parts, c
  <2>. QED
    BY <2>2, <2>8, FlattenFronts
<1>3. ShortAnswer(question, answer) \in Faces
  BY <1>1, ShortAnswerTyped
<1>4. ShortSentence(answer) \in Faces /\ LongSentence(answer) \in Faces
  BY <1>1, ShortSentenceTyped, LongSentenceTyped
<1>5. CreateCloze(question, back) =
        CASE Len(answer) <= 3 -> ShortAnswer(question, answer)
          [] Len(answer) > 3 /\ Len(back) = 1 ->
               IF Len(answer) <= 5 THEN ShortSentence(answer) ELSE LongSentence(answer)
          [] OTHER -> FlattenSeq(parts)
  BY DEF CreateCloze
<1>. HIDE DEF answer, parts
<1>6. CASE Len(answer) <= 3
  <2>1. ~ (Len(answer) > 3)
    BY <1>1, <1>6
  <2>. QED
    BY <1>3, <1>5, <1>6, <2>1
<1>7. CASE ~ (Len(answer) <= 3) /\ Len(answer) > 3 /\ Len(back) = 1
  BY <1>4, <1>5, <1>7
<1>8. CASE ~ (Len(answer) <= 3) /\ ~ (Len(answer) > 3 /\ Len(back) = 1)
  BY <1>2, <1>5, <1>8
<1>. QED
  BY <1>6, <1>7, <1>8

LEMMA LimitedTyped ==
  ASSUME NEW front \in Faces
  PROVE  /\ Limited(front) \in Faces
         /\ Clozes(Limited(front)) # {} => Cardinality(Clozes(Limited(front))) = 1
<1>. DEFINE good == {i \in Clozes(front) : Meaningful(front[i].words)}
            piece(i) == [front[i] EXCEPT !.cloze = IF good # {} /\ i = Min(good) THEN 1 ELSE 0]
            limited == [i \in DOMAIN front |-> piece(i)]
<1>1. Limited(front) = limited
  BY DEF Limited
<1>2. Len(front) \in Nat /\ DOMAIN front = 1 .. Len(front)
  BY FrontFacts
<1>3. \A i \in DOMAIN front :
        piece(i) \in Piece /\ (piece(i).cloze > 0 => i = Min(good))
  <2>. SUFFICES ASSUME NEW i \in DOMAIN front
                PROVE  piece(i) \in Piece /\ (piece(i).cloze > 0 => i = Min(good))
    OBVIOUS
  <2>1. front[i] \in Piece
    BY FrontFacts
  <2>. HIDE DEF good
  <2>. QED
    BY <2>1 DEF Piece
<1>. HIDE DEF piece
<1>4. limited \in Faces
  <2>1. limited = [i \in 1 .. Len(front) |-> piece(i)] /\ \A i \in 1 .. Len(front) : piece(i) \in Piece
    BY <1>2, <1>3
  <2>. HIDE DEF limited
  <2>. QED
    BY <1>2, <2>1 DEF Faces
<1>5. Clozes(limited) \subseteq {Min(good)}
  BY <1>3 DEF Clozes
<1>6. Clozes(limited) # {} => Clozes(limited) = {Min(good)}
  BY <1>5
<1>. QED
  BY <1>1, <1>4, <1>6, FS_Singleton

LEMMA ConvertedTyped ==
  ASSUME NEW card \in Card, NEW single \in BOOLEAN
  PROVE  LET converted == Converted1(card, single) IN
         /\ converted \in Card
         /\ single /\ Clozes(converted.front) # {} => Cardinality(Clozes(converted.front)) = 1
<1>. DEFINE front == IF Clozes(card.front) # {} THEN card.front
                     ELSE CreateCloze(WordsOf(card.front), card.back)
            new == IF single THEN Limited(front) ELSE front
<1>1. card.front \in Faces /\ card.back \in Seq(Words)
  BY DEF Card, Faces, Words
<1>2. front \in Faces
  BY <1>1, WordsTyped, CreateClozeTyped
<1>3. Converted1(card, single) = [card EXCEPT !.front = new]
  BY DEF Converted1
<1>. HIDE DEF front
<1>4. new \in Faces /\ (single /\ Clozes(new) # {} => Cardinality(Clozes(new)) = 1)
  BY <1>2, LimitedTyped
<1>. HIDE DEF new
<1>5. Converted1(card, single) \in Card /\ Converted1(card, single).front = new
  BY <1>3, <1>4 DEF Card, Faces
<1>. QED
  BY <1>4, <1>5

(* What a card of a deck is, where one deletion may be asked for.           *)
Good(single) == {card \in Card : /\ card.front \in Fronts /\ QualityValid(card.front)
                                 /\ single => Cardinality(Clozes(card.front)) = 1}

LEMMA ConvertedFacts ==
  ASSUME NEW answer \in Answers, NEW single \in BOOLEAN
  PROVE  ConvertedDeck(answer, single) \in Seq(Good(single))
<1>. DEFINE converted == [i \in DOMAIN answer |-> Converted1(answer[i], single)]
            places == {i \in DOMAIN converted : QualityValid(converted[i].front)}
            c == Cardinality(places)
            deck == ConvertedDeck(answer, single)
<1>1. answer \in Seq(Card) /\ Len(answer) \in Nat /\ DOMAIN answer = 1 .. Len(answer)
  BY DeckAssumption
<1>2. \A i \in DOMAIN answer : answer[i] \in Card
  BY <1>1
<1>3. converted \in Seq(Card) /\ Len(converted) = Len(answer) /\ DOMAIN converted = DOMAIN answer
  BY <1>1, <1>2, ConvertedTyped
<1>4. \A i \in DOMAIN converted : converted[i] = Converted1(answer[i], single)
  OBVIOUS
<1>5. deck = Picked(converted, places)
  BY DEF ConvertedDeck
<1>. HIDE DEF converted
<1>6. places \subseteq 1 .. Len(converted)
  BY <1>1, <1>3
<1>. HIDE DEF deck
<1>7. /\ c \in Nat /\ Len(deck) = c /\ DOMAIN deck = 1 .. c /\ deck \in Seq(Card)
      /\ \A k \in 1 .. c : deck[k] = converted[Place(places, k)] /\ Place(places, k) \in places
  <2>. HIDE DEF places
  <2>. QED
    BY <1>3, <1>5, <1>6, PickedSeq
<1>8. \A k \in 1 .. c : deck[k] \in Good(single)
  <2>. SUFFICES ASSUME NEW k \in 1 .. c PROVE deck[k] \in Good(single)
    OBVIOUS
  <2>. DEFINE i == Place(places, k)
  <2>1. i \in DOMAIN answer /\ QualityValid(converted[i].front) /\ deck[k] = converted[i]
    BY <1>3, <1>7
  <2>2. converted[i] = Converted1(answer[i], single) /\ answer[i] \in Card
    BY <1>2, <1>3, <1>4, <2>1
  <2>3. deck[k].front \in Fronts
    <3>1. deck[k] \in Range(deck)
      BY <1>7 DEF Range
    <3>. DEFINE of(a, s) == {card.front : card \in Range(ConvertedDeck(a, s))}
    <3>2. deck[k].front \in of(answer, single)
      BY <3>1 DEF deck
    <3>3. Fronts = UNION {of(a, s) : a \in Answers, s \in BOOLEAN}
      BY DEF Fronts
    <3>. HIDE DEF of
    <3>4. of(answer, single) \in {of(a, s) : a \in Answers, s \in BOOLEAN}
      OBVIOUS
    <3>. QED
      BY <3>2, <3>3, <3>4
  <2>. HIDE DEF i
  <2>4. deck[k] \in Card /\ (single /\ Clozes(deck[k].front) # {} => Cardinality(Clozes(deck[k].front)) = 1)
    BY <2>1, <2>2, ConvertedTyped
  <2>5. QualityValid(deck[k].front) /\ Clozes(deck[k].front) # {}
    BY <2>1 DEF QualityValid
  <2>. QED
    BY <2>3, <2>4, <2>5 DEF Good
<1>. HIDE DEF c
<1>9. deck = [k \in 1 .. c |-> deck[k]]
  BY <1>7
<1>. QED
  BY <1>7, <1>8, <1>9 DEF deck

LEMMA DeduplicatedFacts ==
  ASSUME NEW S, NEW cards \in Seq(S)
  PROVE  /\ Deduplicated(cards) \in Seq(S)
         /\ Len(Deduplicated(cards)) = Cardinality(Retained(cards))
         /\ DOMAIN Deduplicated(cards) = 1 .. Len(Deduplicated(cards))
         /\ \A k \in DOMAIN Deduplicated(cards) :
              /\ Place(Retained(cards), k) \in Retained(cards)
              /\ Deduplicated(cards)[k] = cards[Place(Retained(cards), k)]
<1>1. Len(cards) \in Nat /\ Retained(cards) \subseteq 1 .. Len(cards)
  BY RetainedFacts
<1>. QED
  BY <1>1, PickedSeq DEF Deduplicated

(* The order of pairs, and the first of some.                               *)
LEMMA PairOrder ==
  /\ \A p \in Nat \X Nat : ~ Before(p, p)
  /\ \A p, q \in Nat \X Nat : p = q \/ Before(p, q) \/ Before(q, p)
  /\ \A p, q, r \in Nat \X Nat : Before(p, q) /\ Before(q, r) => Before(p, r)
<1>1. \A p \in Nat \X Nat : ~ Before(p, p)
  BY DEF Before
<1>2. ASSUME NEW p \in Nat \X Nat, NEW q \in Nat \X Nat
      PROVE  p = q \/ Before(p, q) \/ Before(q, p)
  <2>1. p = << p[1], p[2] >> /\ q = << q[1], q[2] >>
    OBVIOUS
  <2>2. p[1] \in Nat /\ p[2] \in Nat /\ q[1] \in Nat /\ q[2] \in Nat
    OBVIOUS
  <2>3. (p[1] = q[1] /\ p[2] = q[2]) \/ Before(p, q) \/ Before(q, p)
    BY <2>2 DEF Before
  <2>. QED
    BY <2>1, <2>3
<1>3. ASSUME NEW p \in Nat \X Nat, NEW q \in Nat \X Nat, NEW r \in Nat \X Nat,
             Before(p, q), Before(q, r)
      PROVE  Before(p, r)
  BY <1>3 DEF Before
<1>. QED
  BY <1>1, <1>2, <1>3

LEMMA FirstPair ==
  ASSUME NEW T, T \subseteq Nat \X Nat, T # {}
  PROVE  \E p \in T : \A q \in T : q = p \/ Before(p, q)
<1>. DEFINE firsts == {p[1] : p \in T}
<1>1. firsts \subseteq Nat /\ firsts # {}
  OBVIOUS
<1>2. PICK a \in firsts : \A b \in firsts : a <= b
  <2>. HIDE DEF firsts
  <2>. QED
    BY <1>1, LeastOf
<1>. DEFINE seconds == {p[2] : p \in {q \in T : q[1] = a}}
<1>3. seconds \subseteq Nat /\ seconds # {}
  BY <1>2
<1>4. PICK b \in seconds : \A c \in seconds : b <= c
  <2>. HIDE DEF seconds
  <2>. QED
    BY <1>3, LeastOf
<1>5. PICK p \in T : p[1] = a /\ p[2] = b
  OBVIOUS
<1>6. ASSUME NEW q \in T PROVE q = p \/ Before(p, q)
  <2>1. p \in Nat \X Nat /\ q \in Nat \X Nat /\ a \in Nat /\ b \in Nat
    BY <1>1, <1>3
  <2>2. a <= q[1] /\ (q[1] = a => b <= q[2])
    BY <1>2, <1>4
  <2>3. ~ Before(q, p)
    BY <1>5, <2>1, <2>2 DEF Before
  <2>. QED
    BY <2>1, <2>3, PairOrder
<1>. QED
  BY <1>6

LEMMA PairsFacts ==
  ASSUME NEW n \in Nat
  PROVE  /\ IsFiniteSet(Pairs(n)) /\ Pairs(n) \subseteq Nat \X Nat
         /\ \A p \in Pairs(n) : p[1] \in 1 .. n /\ p[2] \in 1 .. n /\ p[1] < p[2]
<1>1. IsFiniteSet(1 .. n)
  BY FS_Interval
<1>2. IsFiniteSet((1 .. n) \X (1 .. n))
  BY <1>1, FS_Product
<1>3. Pairs(n) \subseteq (1 .. n) \X (1 .. n)
  BY DEF Pairs
<1>4. IsFiniteSet(Pairs(n))
  BY <1>2, <1>3, FS_Subset
<1>. QED
  BY <1>4 DEF Pairs

(* The first m of some pairs are m of them, or all there are.               *)
LEMMA SmallestFacts ==
  ASSUME NEW S, S \subseteq Nat \X Nat, IsFiniteSet(S)
  PROVE  /\ \A m : Smallest(m, S) \subseteq S
         /\ \A m \in Nat : m <= Cardinality(S) => Cardinality(Smallest(m, S)) = m
<1>. DEFINE under(p) == {q \in S : Before(q, p)}
            rank(p) == Cardinality(under(p))
            least(k) == {p \in S : rank(p) < k}
            Bad == {m \in Nat : m <= Cardinality(S) /\ Cardinality(least(m)) # m}
<1>1. \A m : Smallest(m, S) = least(m)
  BY DEF Smallest
<1>2. \A p : under(p) \subseteq S /\ IsFiniteSet(under(p)) /\ rank(p) \in Nat
  BY FS_Subset, FS_CardinalityType
<1>9. \A p \in S : rank(p) \in Nat
  BY <1>2
<1>3. \A k : least(k) \subseteq S /\ IsFiniteSet(least(k))
  BY FS_Subset
<1>4. Bad = {}
  <2>. SUFFICES ASSUME Bad # {} PROVE FALSE
    OBVIOUS
  <2>1. PICK k \in Bad : \A j \in Bad : k <= j
    <3>. HIDE DEF Bad
    <3>1. Bad \subseteq Nat
      BY DEF Bad
    <3>. QED
      BY <3>1, LeastOf
  <2>2. k \in Nat /\ k <= Cardinality(S) /\ Cardinality(least(k)) # k
    OBVIOUS
  <2>3. CASE k = 0
    <3>1. least(0) = {}
      <4>1. \A p \in S : ~ (rank(p) < 0)
        <5>. HIDE DEF rank
        <5>. QED
          BY <1>9
      <4>. HIDE DEF rank
      <4>. QED
        BY <4>1
    <3>. QED
      BY <2>2, <2>3, <3>1, FS_EmptySet
  <2>4. CASE k # 0
    <3>. DEFINE j == k - 1
                rest == S \ least(j)
    <3>1. j \in Nat /\ j < k /\ k = j + 1 /\ Cardinality(S) \in Nat
      BY <2>2, <2>4, FS_CardinalityType
    <3>2. Cardinality(least(j)) = j
      <4>1. j \notin Bad /\ j <= Cardinality(S)
        <5>. HIDE DEF Bad
        <5>. QED
          BY <2>1, <2>2, <3>1
      <4>. HIDE DEF least, j
      <4>. QED
        BY <3>1, <4>1
    <3>. HIDE DEF Bad, j
    <3>3. rest # {}
      <4>. HIDE DEF least
      <4>1. least(j) # S
        BY <2>2, <3>1, <3>2
      <4>. QED
        BY <1>3, <4>1
    <3>4. PICK p \in rest : \A q \in rest : q = p \/ Before(p, q)
      BY <3>3, FirstPair
    <3>. HIDE DEF rank
    <3>5. \A q \in S : q \in rest <=> j <= rank(q)
      BY <1>9, <3>1
    <3>. HIDE DEF rest
    <3>6. p \in S /\ \A q \in S : q \in rest \/ q \in least(j)
      BY DEF rest
    <3>7. \A q, r \in S : Before(q, r) => rank(q) < rank(r)
      <4>. SUFFICES ASSUME NEW q \in S, NEW r \in S, Before(q, r) PROVE rank(q) < rank(r)
        OBVIOUS
      <4>1. under(q) \subseteq under(r)
        BY PairOrder
      <4>2. q \in under(r) /\ q \notin under(q)
        BY PairOrder
      <4>3. Cardinality(under(q)) <= Cardinality(under(r)) /\ Cardinality(under(q)) # Cardinality(under(r))
        BY <1>2, <4>1, <4>2, FS_Subset
      <4>. QED
        BY <1>2, <4>3 DEF rank
    <3>8. under(p) = least(j)
      <4>1. \A q \in S : Before(q, p) => q \notin rest
        BY <3>4, <3>6, PairOrder
      <4>2. \A q \in S : q \in least(j) => rank(q) < j
        OBVIOUS
      <4>3. \A q \in S : q \in least(j) => Before(q, p)
        <5>. SUFFICES ASSUME NEW q \in S, q \in least(j) PROVE Before(q, p)
          OBVIOUS
        <5>1. rank(q) < j /\ j <= rank(p)
          BY <3>4, <3>5, <3>6, <4>2
        <5>2. ~ Before(p, q) /\ q # p
          BY <1>9, <3>1, <3>6, <3>7, <5>1
        <5>. QED
          BY <3>6, <5>2, PairOrder
      <4>4. least(j) \subseteq S
        BY <1>3
      <4>. HIDE DEF least
      <4>. QED
        BY <3>6, <4>1, <4>3, <4>4
    <3>9. rank(p) = j
      BY <3>2, <3>8 DEF rank
    <3>10. least(k) = least(j) \cup {p}
      <4>1. \A q \in S : rank(q) < k <=> rank(q) < j \/ q = p
        <5>. SUFFICES ASSUME NEW q \in S PROVE rank(q) < k <=> rank(q) < j \/ q = p
          OBVIOUS
        <5>1. rank(q) \in Nat /\ rank(p) \in Nat
          BY <1>9, <3>6
        <5>2. q # p /\ j <= rank(q) => j < rank(q)
          BY <3>4, <3>5, <3>6, <3>7, <3>9
        <5>. QED
          BY <3>1, <3>9, <5>1, <5>2
      <4>. QED
        BY <3>6, <4>1
    <3>11. p \notin least(j)
      BY <3>1, <3>9
    <3>. HIDE DEF least
    <3>. QED
      BY <1>3, <2>2, <3>1, <3>2, <3>10, <3>11, FS_AddElement
  <2>. QED
    BY <2>3, <2>4
<1>. HIDE DEF least
<1>. QED
  BY <1>1, <1>3, <1>4

(* The pairs that go are some that are alike, and unless it is said that    *)
(* the search was cut short they are all of them.                           *)
LEMMA AnalyzedFacts ==
  ASSUME NEW n \in Nat, NEW same, same \subseteq Pairs(n), NEW compared, compared \subseteq Pairs(n),
         NEW rows, rows = n \/ compared = {}
  PROVE  /\ Analyzed(same, compared, rows).pairs \subseteq same \cup compared
         /\ ~ Analyzed(same, compared, rows).truncated =>
              same \cup compared \subseteq Analyzed(same, compared, rows).pairs
<1>. DEFINE first == Smallest(MaxPairs, same)
            cut == Cardinality(same) > MaxPairs
            rest == compared \ first
            more == Smallest(MaxPairs - Cardinality(first), rest)
            all == IF cut THEN first ELSE first \cup more
            short == cut \/ (rows > 1 /\ Cardinality(all) = MaxPairs)
            a == Analyzed(same, compared, rows)
<1>1. a = [pairs |-> all, truncated |-> short]
  BY DEF Analyzed
<1>2. a.pairs = all /\ a.truncated = short
  <2>. HIDE DEF a, all, short
  <2>. QED
    BY <1>1
<1>3. MaxPairs \in Nat
  BY DeckAssumption
<1>4. /\ IsFiniteSet(same) /\ same \subseteq Nat \X Nat /\ Cardinality(same) \in Nat
      /\ IsFiniteSet(rest) /\ rest \subseteq Nat \X Nat /\ Cardinality(rest) \in Nat
  BY PairsFacts, FS_Subset, FS_CardinalityType
<1>5. first \subseteq same /\ rest \subseteq compared /\ more \subseteq rest
  BY <1>4, SmallestFacts
<1>. HIDE DEF a, first, more, rest
<1>6. a.pairs \subseteq same \cup compared
  BY <1>2, <1>5
<1>7. ASSUME ~ a.truncated PROVE same \cup compared \subseteq a.pairs
  <2>1. ~ cut /\ Cardinality(same) <= MaxPairs /\ (rows > 1 => Cardinality(all) # MaxPairs)
    <3>1. ~ short
      <4>. HIDE DEF short
      <4>. QED
        BY <1>2, <1>7
    <3>. HIDE DEF all
    <3>. QED
      BY <1>3, <1>4, <3>1
  <2>2. first = same
    <3>1. \A p \in same : Cardinality({q \in same : Before(q, p)}) < MaxPairs
      <4>. SUFFICES ASSUME NEW p \in same PROVE Cardinality({q \in same : Before(q, p)}) < MaxPairs
        OBVIOUS
      <4>. DEFINE under == {q \in same : Before(q, p)}
      <4>1. under \subseteq same /\ p \notin under
        BY <1>4, PairOrder
      <4>. HIDE DEF under
      <4>2. Cardinality(under) <= Cardinality(same) /\ Cardinality(under) # Cardinality(same)
            /\ Cardinality(under) \in Nat
        BY <1>4, <4>1, FS_Subset, FS_CardinalityType
      <4>3. Cardinality(under) < MaxPairs
        BY <1>3, <1>4, <2>1, <4>2
      <4>. QED
        BY <4>3 DEF under
    <3>. QED
      BY <3>1 DEF Smallest, first
  <2>3. all = same \cup more
    BY <2>1, <2>2
  <2>4. CASE compared = {}
    BY <1>2, <2>3, <2>4
  <2>5. CASE rows = n /\ ~ (n > 1)
    <3>1. Pairs(n) = {}
      BY <2>5, PairsFacts
    <3>. QED
      BY <1>2, <2>3, <3>1
  <2>6. CASE rows = n /\ n > 1
    <3>. DEFINE m == MaxPairs - Cardinality(first)
    <3>1. m \in Nat /\ m + Cardinality(same) = MaxPairs
      BY <1>3, <1>4, <2>1, <2>2
    <3>2. more = Smallest(m, rest)
      BY DEF more
    <3>. HIDE DEF m
    <3>3. Cardinality(rest) < m
      <4>. SUFFICES ASSUME m <= Cardinality(rest) PROVE FALSE
        BY <1>4, <3>1
      <4>1. Cardinality(more) = m
        BY <1>4, <3>1, <3>2, SmallestFacts
      <4>2. same \cap more = {} /\ IsFiniteSet(more)
        BY <1>4, <1>5, <2>2, FS_Subset DEF rest
      <4>3. Cardinality(same \cup more) = Cardinality(same) + m
        <5>1. Cardinality(same \cup more) =
                Cardinality(same) + Cardinality(more) - Cardinality(same \cap more)
          BY <1>4, <4>2, FS_Union
        <5>2. Cardinality(same \cap more) = 0
          BY <4>2, FS_EmptySet
        <5>. QED
          BY <1>4, <3>1, <4>1, <5>1, <5>2
      <4>4. Cardinality(all) # MaxPairs
        <5>. HIDE DEF all
        <5>. QED
          BY <2>1, <2>6
      <4>. HIDE DEF all
      <4>. QED
        BY <1>4, <2>3, <3>1, <4>3, <4>4
    <3>4. \A p \in rest : Cardinality({q \in rest : Before(q, p)}) < m
      <4>. SUFFICES ASSUME NEW p \in rest PROVE Cardinality({q \in rest : Before(q, p)}) < m
        OBVIOUS
      <4>. DEFINE under == {q \in rest : Before(q, p)}
      <4>1. under \subseteq rest
        OBVIOUS
      <4>. HIDE DEF under
      <4>2. Cardinality(under) <= Cardinality(rest) /\ Cardinality(under) \in Nat
        BY <1>4, <4>1, FS_Subset, FS_CardinalityType
      <4>3. Cardinality(under) < m
        BY <1>4, <3>1, <3>3, <4>2
      <4>. QED
        BY <4>3 DEF under
    <3>5. more = rest
      BY <3>2, <3>4 DEF Smallest
    <3>. QED
      BY <1>2, <2>2, <2>3, <3>5 DEF rest
  <2>. QED
    BY <2>4, <2>5, <2>6
<1>. QED
  BY <1>6, <1>7 DEF a

(* What is left of all the cards before pairs are looked for: no two are    *)
(* alike, none is there twice, and the others say nothing or repeat an      *)
(* earlier one.                                                             *)
Left(all, filters) ==
  LET unique == Deduplicated(all) IN
  IF filters THEN Picked(unique, {i \in DOMAIN unique : ~ TrivialCard(unique[i])}) ELSE unique

LeftAt(all, filters, cards, r) ==
  /\ \A i \in DOMAIN cards : r[i] \in Retained(all) /\ cards[i] = all[r[i]]
  /\ \A i, j \in DOMAIN cards : i < j => r[i] < r[j]
  /\ \A k \in Retained(all) : (\E i \in DOMAIN cards : r[i] = k) \/ (filters /\ TrivialCard(all[k]))

LEMMA LeftFrom ==
  ASSUME NEW S, NEW all \in Seq(S), NEW filters \in BOOLEAN
  PROVE  /\ Left(all, filters) \in Seq(S)
         /\ \E r : LeftAt(all, filters, Left(all, filters), r)
<1>. DEFINE unique == Deduplicated(all)
            R == Retained(all)
            T == {i \in DOMAIN unique : ~ TrivialCard(unique[i])}
            n == Cardinality(R)
            c == Cardinality(T)
<1>1. Len(all) \in Nat /\ R \subseteq 1 .. Len(all)
  BY RetainedFacts
<1>. HIDE DEF R
<1>2. /\ unique \in Seq(S) /\ Len(unique) = n /\ DOMAIN unique = 1 .. n /\ n \in Nat
      /\ \A k \in 1 .. n : unique[k] = all[Place(R, k)]
  BY <1>1, PickedSeq DEF Deduplicated, R
<1>3. /\ \A k \in 1 .. n : Place(R, k) \in R
      /\ \A i, k \in 1 .. n : i < k => Place(R, i) < Place(R, k)
      /\ \A i \in R : Rank(R, i) \in 1 .. n /\ Place(R, Rank(R, i)) = i
  BY <1>1, PlaceFacts
<1>. HIDE DEF unique
<1>4. T \subseteq 1 .. n
  BY <1>2
<1>5. /\ \A k \in 1 .. c : Place(T, k) \in T
      /\ \A i, k \in 1 .. c : i < k => Place(T, i) < Place(T, k)
      /\ \A i \in T : Rank(T, i) \in 1 .. c /\ Place(T, Rank(T, i)) = i
  <2>. HIDE DEF T
  <2>. QED
    BY <1>2, <1>4, PlaceFacts
<1>6. /\ Picked(unique, T) \in Seq(S) /\ DOMAIN Picked(unique, T) = 1 .. c
      /\ \A k \in 1 .. c : Picked(unique, T)[k] = unique[Place(T, k)]
  <2>. HIDE DEF T
  <2>. QED
    BY <1>2, <1>4, PickedSeq
<1>7. CASE filters
  <2>. DEFINE cards == Picked(unique, T)
              r == [k \in 1 .. c |-> Place(R, Place(T, k))]
  <2>1. Left(all, filters) = cards
    BY <1>7 DEF Left, unique
  <2>2. \A k \in 1 .. c : Place(T, k) \in 1 .. n
    BY <1>4, <1>5
  <2>3. \A k \in 1 .. c : r[k] = Place(R, Place(T, k))
    OBVIOUS
  <2>4. \A k \in 1 .. c : r[k] \in R /\ cards[k] = all[r[k]]
    BY <1>2, <1>3, <1>6, <2>2, <2>3
  <2>. HIDE DEF r
  <2>5. \A i, k \in 1 .. c : i < k => r[i] < r[k]
    BY <1>3, <1>5, <2>2, <2>3
  <2>6. ASSUME NEW k \in R PROVE (\E i \in 1 .. c : r[i] = k) \/ TrivialCard(all[k])
    <3>1. Rank(R, k) \in 1 .. n /\ unique[Rank(R, k)] = all[k] /\ Place(R, Rank(R, k)) = k
      BY <1>2, <1>3
    <3>2. CASE Rank(R, k) \in T
      <4>1. Rank(T, Rank(R, k)) \in 1 .. c /\ Place(T, Rank(T, Rank(R, k))) = Rank(R, k)
        BY <1>5, <3>2
      <4>. QED
        BY <2>3, <3>1, <4>1
    <3>3. CASE Rank(R, k) \notin T
      BY <1>2, <3>1, <3>3
    <3>. QED
      BY <3>2, <3>3
  <2>7. cards \in Seq(S) /\ DOMAIN cards = 1 .. c
    BY <1>6
  <2>. HIDE DEF cards, c
  <2>8. LeftAt(all, filters, cards, r)
    BY <1>7, <2>4, <2>5, <2>6, <2>7 DEF LeftAt, R
  <2>. QED
    BY <2>1, <2>7, <2>8
<1>8. CASE ~ filters
  <2>. DEFINE r == [k \in 1 .. n |-> Place(R, k)]
  <2>1. Left(all, filters) = unique
    BY <1>8 DEF Left, unique
  <2>2. \A k \in 1 .. n : r[k] = Place(R, k)
    OBVIOUS
  <2>. HIDE DEF r
  <2>3. /\ \A k \in 1 .. n : r[k] \in R /\ unique[k] = all[r[k]]
        /\ \A i, k \in 1 .. n : i < k => r[i] < r[k]
        /\ \A k \in R : \E i \in 1 .. n : r[i] = k
    BY <1>2, <1>3, <2>2
  <2>. HIDE DEF n
  <2>4. LeftAt(all, filters, unique, r)
    BY <1>2, <2>3 DEF LeftAt, R
  <2>. QED
    BY <1>2, <2>1, <2>4
<1>. QED
  BY <1>7, <1>8

PairedIn(cards, pairs, a, b) == \E p \in pairs : cards[p[1]] = b /\ cards[p[2]] = a

(* What is left of all the cards once the pairs are gone.                   *)
SoundlyLeft(single, all, filters, same, compared, rows) ==
  LET cards == Left(all, filters)
      analyzed == Analyzed(same, compared, rows)
      kept == Without(cards, analyzed.pairs)
      alike == same \cup compared
  IN /\ kept \in Seq(Good(single))
     /\ \A i \in DOMAIN kept : \A j \in 1 .. i - 1 :
          /\ kept[j].front \notin Twins[kept[i].front]
          /\ analyzed.truncated \/ ~ PairedIn(cards, alike, kept[i], kept[j])
     /\ \A i \in DOMAIN all :
          \/ \E j \in DOMAIN kept : kept[j] = all[i]
          \/ filters /\ TrivialCard(all[i])
          \/ \E j \in 1 .. i - 1 : \/ all[j].front \in Twins[all[i].front]
                                   \/ PairedIn(cards, alike, all[i], all[j])

LEMMA SoundDeck ==
  ASSUME NEW single \in BOOLEAN, NEW all \in Seq(Good(single)), NEW filters \in BOOLEAN,
         NEW same, same \subseteq Pairs(Len(Left(all, filters))),
         NEW compared, compared \subseteq Pairs(Len(Left(all, filters))),
         NEW rows, rows = Len(Left(all, filters)) \/ compared = {}
  PROVE  SoundlyLeft(single, all, filters, same, compared, rows)
<1>. DEFINE S == Good(single)
            cards == Left(all, filters)
            n == Len(cards)
            alike == same \cup compared
            analyzed == Analyzed(same, compared, rows)
            gone == analyzed.pairs
            short == analyzed.truncated
            T == {i \in DOMAIN cards : \A p \in gone : p[2] # i}
            c == Cardinality(T)
            kept == Without(cards, gone)
            R == Retained(all)
<1>1. /\ Len(all) \in Nat /\ R \subseteq 1 .. Len(all) /\ DOMAIN all = 1 .. Len(all)
      /\ \A i, j \in R : i < j => ~ Twin(all, i, j)
      /\ \A j \in 1 .. Len(all) : j \notin R => \E i \in R : i < j /\ Twin(all, i, j)
  BY RetainedFacts
<1>2. \A i \in 1 .. Len(all) : all[i] \in S
  OBVIOUS
<1>3. cards \in Seq(S) /\ n \in Nat /\ DOMAIN cards = 1 .. n
  BY LeftFrom
<1>4. PICK r : LeftAt(all, filters, cards, r)
  BY LeftFrom
<1>5. gone \subseteq alike /\ (~ short => alike \subseteq gone)
  BY <1>3, AnalyzedFacts
<1>6. \A p \in alike : p[1] \in 1 .. n /\ p[2] \in 1 .. n /\ p[1] < p[2]
  BY <1>3, PairsFacts
<1>. HIDE DEF S, cards, R, gone, alike, short
<1>7. /\ \A i \in 1 .. n : r[i] \in R /\ cards[i] = all[r[i]]
      /\ \A i, j \in 1 .. n : i < j => r[i] < r[j]
      /\ \A k \in R : (\E i \in 1 .. n : r[i] = k) \/ (filters /\ TrivialCard(all[k]))
  <2>1. \A i \in DOMAIN cards : r[i] \in R /\ cards[i] = all[r[i]]
    BY <1>4 DEF LeftAt, R
  <2>2. \A i, j \in DOMAIN cards : i < j => r[i] < r[j]
    BY <1>4 DEF LeftAt
  <2>3. \A k \in R : (\E i \in DOMAIN cards : r[i] = k) \/ (filters /\ TrivialCard(all[k]))
    BY <1>4 DEF LeftAt, R
  <2>. QED
    BY <1>3, <2>1, <2>2, <2>3
<1>. HIDE DEF n
<1>8. \A i, j \in 1 .. n : i < j => cards[i].front \notin Twins[cards[j].front]
  <2>. SUFFICES ASSUME NEW i \in 1 .. n, NEW j \in 1 .. n, i < j
                PROVE  cards[i].front \notin Twins[cards[j].front]
    OBVIOUS
  <2>1. r[i] \in R /\ r[j] \in R /\ r[i] < r[j] /\ cards[i] = all[r[i]] /\ cards[j] = all[r[j]]
    BY <1>7
  <2>2. ~ Twin(all, r[i], r[j])
    BY <1>1, <2>1
  <2>. QED
    BY <2>1, <2>2 DEF Twin
<1>9. \A i \in 1 .. n : cards[i] \in S /\ cards[i].front \in Twins[cards[i].front]
  <2>1. \A i \in 1 .. n : cards[i] \in S
    BY <1>1, <1>2, <1>7
  <2>2. \A card \in S : card.front \in Faces /\ card.front \in Fronts
    BY DEF S, Good, Card, Faces
  <2>. QED
    BY <2>1, <2>2, TwinOfItself
<1>10. \A i, j \in 1 .. n : i # j => cards[i] # cards[j]
  <2>. SUFFICES ASSUME NEW i \in 1 .. n, NEW j \in 1 .. n, i < j PROVE cards[i] # cards[j]
    BY <1>3
  <2>. QED
    BY <1>8, <1>9
<1>11. T \subseteq 1 .. n /\ \A i \in 1 .. n : i \in T <=> \A p \in gone : p[2] # i
  BY <1>3
<1>12. kept = Picked(cards, T)
  BY DEF Without
<1>. HIDE DEF T, kept
<1>13. /\ c \in Nat /\ DOMAIN kept = 1 .. c /\ kept \in Seq(S)
       /\ \A k \in 1 .. c : kept[k] = cards[Place(T, k)] /\ Place(T, k) \in T
  <2>1. T \subseteq 1 .. Len(cards)
    BY <1>11 DEF n
  <2>2. cards \in Seq(S)
    BY <1>3
  <2>3. /\ Cardinality(T) \in Nat /\ DOMAIN Picked(cards, T) = 1 .. Cardinality(T)
        /\ Picked(cards, T) \in Seq(S)
        /\ \A k \in 1 .. Cardinality(T) : /\ Picked(cards, T)[k] = cards[Place(T, k)]
                                          /\ Place(T, k) \in T
    BY ONLY <2>1, <2>2, PickedSeq
  <2>. QED
    BY <1>12, <2>3
<1>14. /\ \A i, k \in 1 .. c : i < k => Place(T, i) < Place(T, k)
       /\ \A i \in T : Rank(T, i) \in 1 .. c /\ Place(T, Rank(T, i)) = i
  BY <1>3, <1>11, PlaceFacts
<1>. HIDE DEF c
<1>15. \A i \in DOMAIN kept : \A j \in 1 .. i - 1 :
         /\ kept[j].front \notin Twins[kept[i].front]
         /\ short \/ ~ PairedIn(cards, alike, kept[i], kept[j])
  <2>. SUFFICES ASSUME NEW i \in 1 .. c, NEW j \in 1 .. i - 1
                PROVE  /\ kept[j].front \notin Twins[kept[i].front]
                       /\ short \/ ~ PairedIn(cards, alike, kept[i], kept[j])
    BY <1>13
  <2>. DEFINE u == Place(T, i)
              v == Place(T, j)
  <2>1. j \in 1 .. c /\ j < i
    BY <1>13
  <2>2. /\ u \in 1 .. n /\ v \in 1 .. n /\ v < u /\ u \in T
        /\ kept[i] = cards[u] /\ kept[j] = cards[v]
    BY <1>11, <1>13, <1>14, <2>1
  <2>. HIDE DEF u, v
  <2>3. kept[j].front \notin Twins[kept[i].front]
    BY <1>8, <2>2
  <2>4. ASSUME ~ short, NEW p \in alike, cards[p[1]] = kept[j], cards[p[2]] = kept[i]
        PROVE  FALSE
    <3>1. p[2] = u
      BY <1>6, <1>10, <2>2, <2>4
    <3>2. p \in gone
      BY <1>5, <2>4
    <3>. QED
      BY <1>11, <2>2, <3>1, <3>2
  <2>. QED
    BY <2>3, <2>4 DEF PairedIn
<1>16. \A i \in DOMAIN all :
         \/ \E j \in DOMAIN kept : kept[j] = all[i]
         \/ filters /\ TrivialCard(all[i])
         \/ \E j \in 1 .. i - 1 : \/ all[j].front \in Twins[all[i].front]
                                  \/ PairedIn(cards, alike, all[i], all[j])
  <2>. SUFFICES ASSUME NEW i \in 1 .. Len(all)
                PROVE  \/ \E j \in DOMAIN kept : kept[j] = all[i]
                       \/ filters /\ TrivialCard(all[i])
                       \/ \E j \in 1 .. i - 1 : \/ all[j].front \in Twins[all[i].front]
                                                \/ PairedIn(cards, alike, all[i], all[j])
    BY <1>1
  <2>1. CASE i \notin R
    <3>1. PICK j \in R : j < i /\ Twin(all, j, i)
      BY <1>1, <2>1
    <3>2. j \in 1 .. i - 1
      BY <1>1, <3>1
    <3>. QED
      BY <3>1, <3>2 DEF Twin
  <2>2. CASE i \in R /\ filters /\ TrivialCard(all[i])
    BY <2>2
  <2>3. CASE i \in R /\ ~ (filters /\ TrivialCard(all[i]))
    <3>1. PICK k \in 1 .. n : r[k] = i
      BY <1>7, <2>3
    <3>2. cards[k] = all[i]
      BY <1>7, <3>1
    <3>3. CASE k \in T
      <4>1. Rank(T, k) \in 1 .. c /\ kept[Rank(T, k)] = cards[k]
        BY <1>13, <1>14, <3>3
      <4>. QED
        BY <1>13, <3>2, <4>1
    <3>4. CASE k \notin T
      <4>1. PICK p \in gone : p[2] = k
        BY <1>11, <3>4
      <4>2. p \in alike /\ p[1] \in 1 .. n /\ p[1] < k
        BY <1>5, <1>6, <4>1
      <4>. DEFINE j == r[p[1]]
      <4>3. j \in R /\ j < i /\ cards[p[1]] = all[j]
        BY <1>7, <3>1, <4>2
      <4>. HIDE DEF j
      <4>4. j \in 1 .. i - 1
        BY <1>1, <4>3
      <4>5. PairedIn(cards, alike, all[i], all[j])
        BY <3>2, <4>1, <4>2, <4>3 DEF PairedIn
      <4>. QED
        BY <4>4, <4>5
    <3>. QED
      BY <3>3, <3>4
  <2>. QED
    BY <2>1, <2>2, <2>3
<1>. QED
  BY <1>13, <1>15, <1>16 DEF SoundlyLeft, S, cards, gone, alike, short, kept

--------------------------------------------------------------------------------
(* A deck in the making: the cards of every chunk pass, so the deck that is *)
(* put together of them is sound.                                           *)
DeckInv ==
  /\ run.single \in BOOLEAN
  /\ doc.pc \in {"chunk", "export"} => doc.parts \in Seq(Seq(Good(run.single)))
  /\ doc.pc = "export" => doc.kept \in Seq(Good(run.single))
  /\ DeckIsSound

LEMMA NothingInWork ==
  ASSUME CommandInv, run.name = "none" \/ run.exit # "none" \/ run.name \notin Generating
  PROVE  doc.pc = "none"
BY DEF CommandInv, DocOK, Generating

(* Nobody is asked again whether one deletion is wanted.                    *)
LEMMA SingleStays ==
  ASSUME CommandInv, Next, run.single \in BOOLEAN
  PROVE  /\ run'.single \in BOOLEAN
         /\ doc.pc = "none" \/ run'.single = run.single
<1>0. Fielded(run, RunFields)
  BY DEF CommandInv, RunOK
<1>1. CASE Refused
  <2>1. PICK code : run' = [NoCommand EXCEPT !.name = Head(script), !.exit = code]
    BY <1>1 DEF Refused, Begun
  <2>2. run'.single = FALSE
    BY <2>1 DEF NoCommand
  <2>. QED
    BY <1>1, <2>2, NothingInWork DEF Refused
<1>2. CASE NextCommand
  BY <1>2, NothingInWork DEF NextCommand, NoCommand
<1>3. CASE \E name \in Generating : GenerateBegins(name)
  <2>1. PICK name \in Generating : GenerateBegins(name)
    BY <1>3
  <2>2. PICK batch \in Batches, single \in BOOLEAN :
          run' = [NoCommand EXCEPT !.name = name, !.todo = batch, !.single = single]
    BY <2>1 DEF GenerateBegins, Begun
  <2>3. run'.single = single
    BY <2>2 DEF NoCommand
  <2>. QED
    BY <2>1, <2>3, NothingInWork DEF GenerateBegins, Given
<1>4. CASE MergeBegins
  <2>1. PICK code, merge : run' = [NoCommand EXCEPT !.name = "merge", !.exit = code, !.merge = merge]
    <3>. DEFINE bad == Others = {} \/ (\E n \in Others : ~ folder[n].regular)
    <3>1. PICK merge : run' = [NoCommand EXCEPT !.name = "merge", !.merge = merge,
                                               !.exit = IF bad THEN "failure" ELSE @]
      BY <1>4 DEF MergeBegins, Begun
    <3>2. PICK code : code = IF bad THEN "failure" ELSE NoCommand.exit
      OBVIOUS
    <3>. HIDE DEF bad
    <3>3. run' = [NoCommand EXCEPT !.name = "merge", !.exit = code, !.merge = merge]
      BY <3>1, <3>2 DEF NoCommand
    <3>. QED
      BY <3>3
  <2>2. run'.single = FALSE
    BY <2>1 DEF NoCommand
  <2>. QED
    BY <1>4, <2>2, NothingInWork DEF MergeBegins, Given
<1>5. CASE CleanupBegins
  <2>1. PICK listed, todo : run' = [NoCommand EXCEPT !.name = "cleanup", !.listed = listed, !.todo = todo]
    BY <1>5 DEF CleanupBegins, Begun
  <2>2. run'.single = FALSE
    BY <2>1 DEF NoCommand
  <2>. QED
    BY <1>5, <2>2, NothingInWork DEF CleanupBegins, Given
<1>6. CASE run' = run
  BY <1>6
<1>7. CASE \/ \E x : run' = [run EXCEPT !.todo = x]
           \/ \E x : run' = [run EXCEPT !.reports = x]
           \/ \E x : run' = [run EXCEPT !.exit = x]
           \/ \E x : run' = [run EXCEPT !.merge = x]
           \/ \E x, y : run' = [run EXCEPT !.name = x, !.todo = y]
           \/ \E x, y : run' = [run EXCEPT !.exit = x, !.listed = y]
  <2>1. run'.single = run.single
    BY <1>0, <1>7 DEF Fielded, RunFields
  <2>. QED
    BY <2>1
<1>8. CASE PrepareNext
  BY <1>7, <1>8 DEF PrepareNext
<1>9. CASE Prepares \/ ChunkGenerated \/ Combined \/ OthersCreate
  BY <1>6, <1>9 DEF Prepares, ChunkGenerated, Combined, OthersCreate
<1>10. CASE Prepared \/ ChunkFails \/ Exported
  BY <1>6, <1>7, <1>10 DEF Prepared, ChunkFails, Exported, Reported
<1>11. CASE Stopped \/ Finish
  BY <1>7, <1>11 DEF Stopped, Finish
<1>12. CASE MergeRecord \/ MergeSource \/ MergeEnds
  BY <1>7, <1>12 DEF MergeRecord, MergeSource, MergeEnds, Ends
<1>13. CASE DeleteNext \/ CleanupEnds
  BY <1>7, <1>13 DEF DeleteNext, CleanupEnds, Ends
<1>. QED
  BY <1>1, <1>2, <1>3, <1>4, <1>5, <1>8, <1>9, <1>10, <1>11, <1>12, <1>13 DEF Next, Generating

LEMMA DeckStays ==
  ASSUME DeckInv, doc' = doc, run'.single \in BOOLEAN, doc.pc = "none" \/ run'.single = run.single
  PROVE  DeckInv'
<1>1. CASE doc.pc = "none"
  BY <1>1 DEF DeckInv, DeckIsSound
<1>2. CASE run'.single = run.single
  BY <1>2 DEF DeckInv, DeckIsSound
<1>. QED
  BY <1>1, <1>2

LEMMA DeckGone ==
  ASSUME run'.single \in BOOLEAN, doc'.pc \in {"none", "prepare"}
  PROVE  DeckInv'
BY DEF DeckInv, DeckIsSound

LEMMA ChunkDeck ==
  ASSUME DeckInv, CommandInv, ChunkGenerated
  PROVE  DeckInv'
<1>. DEFINE S == Good(run.single)
<1>1. doc.pc = "chunk" /\ run' = run /\ doc.parts \in Seq(Seq(S)) /\ run.single \in BOOLEAN
  BY DEF DeckInv, ChunkGenerated
<1>2. PICK part \in Seq(S) :
        LET d == [doc EXCEPT !.parts = Append(@, part)]
        IN \/ doc' = d
           \/ \E name : doc' = [d EXCEPT !.artifacts = @ \cup {name}]
           \/ doc' = [d EXCEPT !.lost = TRUE]
  <2>1. PICK answer \in Answers :
          LET converted == ConvertedDeck(answer, run.single)
              part == IF doc.total = 1 THEN Deduplicated(converted) ELSE converted
              d == [doc EXCEPT !.parts = Append(@, part)]
          IN IF doc.total > 1 /\ part # << >>
             THEN Exports(<<Index, Len(d.parts)>>, part, d)
             ELSE doc' = d /\ UNCHANGED folder
    BY DEF ChunkGenerated
  <2>. DEFINE converted == ConvertedDeck(answer, run.single)
              part == IF doc.total = 1 THEN Deduplicated(converted) ELSE converted
              d == [doc EXCEPT !.parts = Append(@, part)]
  <2>2. part \in Seq(S)
    <3>1. converted \in Seq(S)
      BY <1>1, ConvertedFacts
    <3>. HIDE DEF converted
    <3>. QED
      BY <3>1, DeduplicatedFacts
  <2>3. PICK name : name = <<Index, Len(d.parts)>>
    OBVIOUS
  <2>4. Exports(name, part, d) \/ doc' = d
    BY <2>1, <2>3
  <2>. HIDE DEF part
  <2>. QED
    BY <2>2, <2>4 DEF Exports
<1>. HIDE DEF S
<1>3. Append(doc.parts, part) \in Seq(Seq(S))
  <2>1. \A T, s, e : s \in Seq(T) /\ e \in T => Append(s, e) \in Seq(T)
    OBVIOUS
  <2>. QED
    BY <1>1, <2>1
<1>. DEFINE d == [doc EXCEPT !.parts = Append(@, part)]
<1>4. Fielded(doc, DocFields)
  BY DEF CommandInv, DocOK
<1>5. Fielded(d, DocFields) /\ d.pc = "chunk" /\ d.parts = Append(doc.parts, part)
  BY <1>1, <1>2, <1>4 DEF Fielded, DocFields
<1>6. doc'.pc = "chunk" /\ doc'.parts = Append(doc.parts, part)
  BY <1>2, <1>5 DEF Fielded, DocFields
<1>. QED
  BY <1>1, <1>3, <1>6 DEF DeckInv, DeckIsSound, S

LEMMA CombinedDeck ==
  ASSUME DeckInv, CommandInv, Combined
  PROVE  DeckInv'
<1>. DEFINE S == Good(run.single)
            all == FlattenSeq(doc.parts)
            filters == doc.total > 1
            cards == Left(all, filters)
            n == Len(cards)
<1>1. /\ doc.pc = "chunk" /\ run' = run /\ doc.parts \in Seq(Seq(S)) /\ run.single \in BOOLEAN
      /\ Fielded(doc, DocFields)
  BY DEF DeckInv, Combined, CommandInv, DocOK
<1>2. all \in Seq(S)
  BY <1>1, FlattenTyped
<1>3. PICK same \in IF filters THEN Foldings(n) ELSE {{}},
           alike \in IF filters THEN Likenesses(n) ELSE {{}},
           rows \in IF filters THEN {0, n} ELSE {0} :
        LET compared == IF rows = 0 THEN {} ELSE alike
            analyzed == Analyzed(same, compared, rows)
        IN doc' = [doc EXCEPT !.pc = "export", !.kept = Without(cards, analyzed.pairs),
                              !.quality = [cards |-> cards, pairs |-> same \cup compared,
                                           truncated |-> analyzed.truncated]]
  BY DEF Combined, Left
<1>. DEFINE compared == IF rows = 0 THEN {} ELSE alike
            analyzed == Analyzed(same, compared, rows)
            kept == Without(cards, analyzed.pairs)
            pairs == same \cup compared
            quality == [cards |-> cards, pairs |-> pairs, truncated |-> analyzed.truncated]
<1>. HIDE DEF all, cards, n
<1>4. same \subseteq Pairs(n) /\ compared \subseteq Pairs(n) /\ (rows = n \/ compared = {})
  BY DEF Foldings, Likenesses
<1>5. doc' = [doc EXCEPT !.pc = "export", !.kept = kept, !.quality = quality]
  BY <1>3
<1>. HIDE DEF compared, analyzed, kept, pairs, quality
<1>6. /\ doc'.pc = "export" /\ doc'.kept = kept /\ doc'.quality = quality
      /\ doc'.parts = doc.parts /\ doc'.total = doc.total
  BY <1>1, <1>5 DEF Fielded, DocFields
<1>7. /\ quality.cards = cards /\ quality.pairs = pairs
      /\ quality.truncated = analyzed.truncated
  BY DEF quality
<1>8. /\ kept \in Seq(S)
      /\ \A i \in DOMAIN kept : \A j \in 1 .. i - 1 :
           /\ kept[j].front \notin Twins[kept[i].front]
           /\ analyzed.truncated \/ ~ PairedIn(cards, pairs, kept[i], kept[j])
      /\ \A i \in DOMAIN all :
           \/ \E j \in DOMAIN kept : kept[j] = all[i]
           \/ filters /\ TrivialCard(all[i])
           \/ \E j \in 1 .. i - 1 : \/ all[j].front \in Twins[all[i].front]
                                    \/ PairedIn(cards, pairs, all[i], all[j])
  <2>1. filters \in BOOLEAN
    OBVIOUS
  <2>2. /\ same \subseteq Pairs(Len(Left(all, filters)))
        /\ compared \subseteq Pairs(Len(Left(all, filters)))
        /\ rows = Len(Left(all, filters)) \/ compared = {}
    BY <1>4 DEF n, cards
  <2>3. all \in Seq(Good(run.single)) /\ run.single \in BOOLEAN
    BY <1>1, <1>2
  <2>. HIDE DEF filters
  <2>4. SoundlyLeft(run.single, all, filters, same, compared, rows)
    BY <2>1, <2>2, <2>3, SoundDeck
  <2>. QED
    BY <2>4 DEF SoundlyLeft, kept, analyzed, pairs, cards
<1>9. \A i \in DOMAIN kept :
        /\ QualityValid(kept[i].front)
        /\ run.single => Cardinality(Clozes(kept[i].front)) = 1
  <2>1. \A i \in DOMAIN kept : kept[i] \in S
    BY <1>8
  <2>. QED
    BY <2>1 DEF Good
<1>10. DeckIsSound'
  BY <1>1, <1>6, <1>7, <1>8, <1>9 DEF DeckIsSound, PairedIn, all
<1>. QED
  BY <1>1, <1>6, <1>8, <1>10 DEF DeckInv

LEMMA DeckNext ==
  ASSUME DeckInv, CommandInv, [Next]_commandVars
  PROVE  DeckInv'
<1>1. CASE UNCHANGED commandVars
  BY <1>1, DeckStays DEF commandVars, DeckInv
<1>2. CASE Next
  <2>1. run'.single \in BOOLEAN /\ (doc.pc = "none" \/ run'.single = run.single)
    BY <1>2, SingleStays DEF DeckInv
  <2>2. CASE doc' = doc
    BY <2>1, <2>2, DeckStays
  <2>3. CASE doc' = NoDocument
    BY <2>1, <2>3, DeckGone, NoDocumentFacts
  <2>4. CASE PrepareNext
    BY <2>1, <2>4, DeckGone DEF PrepareNext, NoDocument
  <2>5. CASE Prepared
    <3>1. CASE doc' = [NoDocument EXCEPT !.pc = "chunk", !.total = Len(prep.files)]
      <4>1. doc'.pc = "chunk" /\ doc'.parts = << >>
        BY <3>1 DEF NoDocument
      <4>2. << >> \in Seq(Seq(Good(run'.single)))
        OBVIOUS
      <4>. QED
        BY <2>1, <4>1, <4>2 DEF DeckInv, DeckIsSound
    <3>. QED
      BY <2>3, <2>5, <3>1 DEF Prepared, Reported
  <2>6. CASE ChunkGenerated
    BY <2>6, ChunkDeck
  <2>7. CASE Combined
    BY <2>7, CombinedDeck
  <2>8. CASE Refused \/ NextCommand \/ (\E name \in Generating : GenerateBegins(name)) \/ Prepares
    BY <2>2, <2>8 DEF Refused, NextCommand, GenerateBegins, Prepares
  <2>9. CASE ChunkFails \/ Exported \/ Stopped
    BY <2>3, <2>9 DEF ChunkFails, Exported, Stopped, Reported
  <2>10. CASE Finish \/ MergeBegins \/ MergeRecord \/ MergeSource \/ MergeEnds
    BY <2>2, <2>10 DEF Finish, MergeBegins, MergeRecord, MergeSource, MergeEnds
  <2>11. CASE CleanupBegins \/ DeleteNext \/ CleanupEnds \/ OthersCreate
    BY <2>2, <2>11 DEF CleanupBegins, DeleteNext, CleanupEnds, OthersCreate
  <2>. QED
    BY <1>2, <2>4, <2>5, <2>6, <2>7, <2>8, <2>9, <2>10, <2>11 DEF Next, Generating
<1>. QED
  BY <1>1, <1>2

--------------------------------------------------------------------------------
(* The rows of a folder: a spot is a file and the number of a row there.    *)
Spot == (Nat \X Nat) \X Nat

Precedes(s, t) == Comes(s[1], t[1]) \/ (s[1] = t[1] /\ s[2] < t[2])

Alike(a, b) == \A c \in {1, 2} : a[c].text = b[c].text

LEMMA ComesOrder ==
  /\ \A a \in Nat \X Nat : ~ Comes(a, a)
  /\ \A a, b \in Nat \X Nat : a = b \/ Comes(a, b) \/ Comes(b, a)
  /\ \A a, b, c \in Nat \X Nat : Comes(a, b) /\ Comes(b, c) => Comes(a, c)
<1>1. \A a, b : Comes(a, b) <=> Before(a, b)
  BY DEF Comes, Before
<1>. QED
  BY <1>1, PairOrder

LEMMA PrecedesOrder ==
  /\ \A s \in Spot : ~ Precedes(s, s)
  /\ \A s, t \in Spot : Precedes(s, t) => ~ Precedes(t, s)
<1>1. \A s \in Spot : s[1] \in Nat \X Nat /\ s[2] \in Nat
  BY DEF Spot
<1>2. \A s \in Spot : ~ Precedes(s, s)
  BY <1>1, ComesOrder DEF Precedes
<1>3. ASSUME NEW s \in Spot, NEW t \in Spot, Precedes(s, t), Precedes(t, s)
      PROVE  FALSE
  <2>. DEFINE a == s[1]
              b == t[1]
  <2>1. a \in Nat \X Nat /\ b \in Nat \X Nat /\ s[2] \in Nat /\ t[2] \in Nat
    BY <1>1
  <2>2. Comes(a, b) \/ (a = b /\ s[2] < t[2])
    BY <1>3 DEF Precedes
  <2>3. Comes(b, a) \/ (b = a /\ t[2] < s[2])
    BY <1>3 DEF Precedes
  <2>. HIDE DEF a, b
  <2>. QED
    BY <2>1, <2>2, <2>3, ComesOrder
<1>. QED
  BY <1>2, <1>3

LEMMA ForemostFacts ==
  ASSUME NEW names, names \subseteq Nat \X Nat, names # {}
  PROVE  /\ Foremost(names) \in names
         /\ \A n \in names : n = Foremost(names) \/ Comes(Foremost(names), n)
<1>1. \E n \in names : \A m \in names : m = n \/ Comes(n, m)
  BY FirstPair DEF Comes, Before
<1>. QED
  BY <1>1 DEF Foremost

LEMMA KeyAlike ==
  ASSUME NEW a, NEW b
  PROVE  Alike(a, b) <=> Key(a) = Key(b)
BY DEF Alike, Key

(* Of some rows those that are wanted, and where they have come to.         *)
Wants(done, row, m) ==
  {t \in done : m.distinct => \A s \in done : Precedes(s, t) => ~ Alike(row[s], row[t])}

Placed(out, wanted, row) ==
  /\ Len(out) = Cardinality(wanted)
  /\ \A t \in wanted : out[Cardinality({s \in wanted : Precedes(s, t)}) + 1] = row[t]

Gathered(m, done, row) ==
  /\ m.before = Cardinality(done)
  /\ m.seen = {Key(row[s]) : s \in done}
  /\ Placed(m.out, Wants(done, row, m), row)

LEMMA WantsOneMore ==
  ASSUME NEW done, NEW x, x \notin done, NEW more, more = done \cup {x}, NEW row, NEW m,
         \A s \in done : Precedes(s, x) /\ ~ Precedes(x, s), ~ Precedes(x, x)
  PROVE  LET skips == m.distinct /\ \E s \in done : Key(row[s]) = Key(row[x]) IN
         /\ skips => Wants(more, row, m) = Wants(done, row, m)
         /\ ~ skips => Wants(more, row, m) = Wants(done, row, m) \cup {x}
<1>1. \A t \in done : t \in Wants(more, row, m) <=> t \in Wants(done, row, m)
  BY DEF Wants
<1>2. x \in Wants(more, row, m) <=>
        (m.distinct => \A s \in done : ~ Alike(row[s], row[x]))
  BY DEF Wants
<1>3. (\A s \in done : ~ Alike(row[s], row[x])) <=> ~ (\E s \in done : Key(row[s]) = Key(row[x]))
  BY KeyAlike
<1>4. Wants(more, row, m) \subseteq more /\ Wants(done, row, m) \subseteq done
  BY DEF Wants
<1>5. CASE m.distinct /\ (\E s \in done : Key(row[s]) = Key(row[x]))
  <2>1. x \notin Wants(more, row, m)
    BY <1>2, <1>3, <1>5
  <2>2. Wants(more, row, m) = Wants(done, row, m)
    BY <1>1, <1>4, <2>1
  <2>. QED
    BY <1>5, <2>2
<1>6. CASE ~ (m.distinct /\ (\E s \in done : Key(row[s]) = Key(row[x])))
  <2>1. x \in Wants(more, row, m)
    BY <1>2, <1>3, <1>6
  <2>2. Wants(more, row, m) = Wants(done, row, m) \cup {x}
    BY <1>1, <1>4, <2>1
  <2>. QED
    BY <1>6, <2>2
<1>. QED
  BY <1>5, <1>6

LEMMA PlacedOneMore ==
  ASSUME NEW wanted, IsFiniteSet(wanted), wanted \subseteq Spot, NEW x, x \notin wanted, NEW row,
         \A s \in wanted : Precedes(s, x) /\ ~ Precedes(x, s), ~ Precedes(x, x),
         NEW S, NEW out \in Seq(S), row[x] \in S, Placed(out, wanted, row)
  PROVE  Placed(Append(out, row[x]), wanted \cup {x}, row)
<1>. DEFINE more == wanted \cup {x}
            n == Cardinality(wanted)
            before(t) == {s \in wanted : Precedes(s, t)}
            new == Append(out, row[x])
<1>1. n \in Nat /\ Len(out) = n /\ Cardinality(more) = n + 1 /\ IsFiniteSet(more)
  BY FS_CardinalityType, FS_AddElement DEF Placed
<1>2. Len(new) = n + 1 /\ new[n + 1] = row[x] /\ \A i \in 1 .. n : new[i] = out[i]
  BY <1>1
<1>3. \A t \in wanted : {s \in more : Precedes(s, t)} = before(t)
  OBVIOUS
<1>4. {s \in more : Precedes(s, x)} = wanted
  OBVIOUS
<1>5. ASSUME NEW t \in wanted
      PROVE  new[Cardinality(before(t)) + 1] = row[t]
  <2>1. before(t) \subseteq wanted /\ t \notin before(t)
    BY PrecedesOrder
  <2>. HIDE DEF before
  <2>2. Cardinality(before(t)) <= n /\ Cardinality(before(t)) # n /\ Cardinality(before(t)) \in Nat
    BY <1>1, <2>1, FS_Subset, FS_CardinalityType
  <2>3. Cardinality(before(t)) + 1 \in 1 .. n
    BY <1>1, <2>2
  <2>4. out[Cardinality(before(t)) + 1] = row[t]
    BY DEF Placed, before
  <2>. HIDE DEF new, n
  <2>. QED
    BY <1>2, <2>3, <2>4
<1>. HIDE DEF new, n
<1>6. \A t \in more : new[Cardinality({s \in more : Precedes(s, t)}) + 1] = row[t]
  <2>1. ASSUME NEW t \in wanted PROVE new[Cardinality({s \in more : Precedes(s, t)}) + 1] = row[t]
    BY <1>3, <1>5
  <2>2. new[Cardinality({s \in more : Precedes(s, x)}) + 1] = row[x]
    BY <1>2, <1>4 DEF n
  <2>. QED
    BY <2>1, <2>2
<1>. QED
  BY <1>1, <1>2, <1>6 DEF Placed, new

MergeFields == {"todo", "next", "distinct", "out", "seen", "before"}

LEMMA MergeFacts ==
  ASSUME NEW m, Fielded(m, MergeFields), NEW r
  PROVE  LET new == [Merge(m, r) EXCEPT !.next = @ + 1]
             skips == m.distinct /\ Key(r) \in m.seen
         IN /\ Fielded(new, MergeFields) /\ new.next = m.next + 1
            /\ new.todo = m.todo /\ new.distinct = m.distinct /\ new.before = m.before + 1
            /\ skips => new.out = m.out /\ new.seen = m.seen
            /\ ~ skips => new.out = Append(m.out, r) /\ new.seen = m.seen \cup {Key(r)}
<1>1. CASE m.distinct /\ Key(r) \in m.seen
  BY <1>1 DEF Merge, Fielded, MergeFields
<1>2. CASE ~ (m.distinct /\ Key(r) \in m.seen)
  BY <1>2 DEF Merge, Fielded, MergeFields
<1>. QED
  BY <1>1, <1>2

LEMMA GatheredOneMore ==
  ASSUME NEW m, Fielded(m, MergeFields), m.distinct \in BOOLEAN,
         NEW done, IsFiniteSet(done), done \subseteq Spot, NEW x, x \notin done, NEW row,
         \A s \in done : Precedes(s, x) /\ ~ Precedes(x, s), ~ Precedes(x, x),
         NEW S, m.out \in Seq(S), row[x] \in S, Gathered(m, done, row)
  PROVE  LET new == [Merge(m, row[x]) EXCEPT !.next = @ + 1] IN
         new.out \in Seq(S) /\ Gathered(new, done \cup {x}, row)
<1>. DEFINE new == [Merge(m, row[x]) EXCEPT !.next = @ + 1]
            skips == m.distinct /\ Key(row[x]) \in m.seen
            more == done \cup {x}
            old == Wants(done, row, m)
<1>1. /\ new.distinct = m.distinct /\ new.before = m.before + 1
      /\ skips => new.out = m.out /\ new.seen = m.seen
      /\ ~ skips => new.out = Append(m.out, row[x]) /\ new.seen = m.seen \cup {Key(row[x])}
  BY MergeFacts
<1>. HIDE DEF new
<1>2. new.before = Cardinality(more)
  <2>1. Cardinality(more) = Cardinality(done) + 1
    BY FS_AddElement
  <2>2. m.before = Cardinality(done)
    BY DEF Gathered
  <2>. QED
    BY <1>1, <2>1, <2>2
<1>3. m.seen = {Key(row[s]) : s \in done}
  BY DEF Gathered
<1>4. new.seen = {Key(row[s]) : s \in more}
  <2>1. {Key(row[s]) : s \in more} = m.seen \cup {Key(row[x])}
    BY <1>3
  <2>2. CASE skips
    BY <1>1, <2>1, <2>2
  <2>3. CASE ~ skips
    BY <1>1, <2>1, <2>3
  <2>. QED
    BY <2>2, <2>3
<1>. DEFINE repeats == m.distinct /\ \E s \in done : Key(row[s]) = Key(row[x])
<1>5. /\ skips <=> repeats
      /\ skips => Wants(more, row, m) = old
      /\ ~ skips => Wants(more, row, m) = old \cup {x}
  <2>1. skips <=> repeats
    BY <1>3
  <2>2. more = done \cup {x}
    OBVIOUS
  <2>. HIDE DEF more
  <2>3. x \notin done /\ ~ Precedes(x, x) /\ \A s \in done : Precedes(s, x) /\ ~ Precedes(x, s)
    OBVIOUS
  <2>4. repeats => Wants(more, row, m) = Wants(done, row, m)
    BY ONLY <2>2, <2>3, WantsOneMore
  <2>5. ~ repeats => Wants(more, row, m) = Wants(done, row, m) \cup {x}
    BY ONLY <2>2, <2>3, WantsOneMore
  <2>. HIDE DEF repeats, skips
  <2>. QED
    BY <2>1, <2>4, <2>5
<1>6. IsFiniteSet(old) /\ old \subseteq done /\ Placed(m.out, old, row)
  BY FS_Subset DEF Gathered, Wants
<1>. HIDE DEF old, skips
<1>7. new.out \in Seq(S) /\ Placed(new.out, Wants(more, row, m), row)
  <2>1. CASE skips
    BY <1>1, <1>5, <1>6, <2>1
  <2>2. CASE ~ skips
    <3>1. x \notin old /\ old \subseteq Spot /\ \A s \in old : Precedes(s, x) /\ ~ Precedes(x, s)
      BY <1>6
    <3>2. Placed(Append(m.out, row[x]), old \cup {x}, row)
      BY <1>6, <3>1, PlacedOneMore
    <3>3. Append(m.out, row[x]) \in Seq(S)
      OBVIOUS
    <3>. QED
      BY <1>1, <1>5, <2>2, <3>2, <3>3
  <2>. QED
    BY <2>1, <2>2
<1>8. Wants(more, row, new) = Wants(more, row, m)
  BY <1>1 DEF Wants
<1>9. Gathered(new, more, row)
  BY <1>2, <1>4, <1>7, <1>8 DEF Gathered
<1>. QED
  BY <1>7, <1>9 DEF new

--------------------------------------------------------------------------------
(* The files of the folder are tables.                                      *)
Cells == [text : Seq(Symbols), padded : BOOLEAN]
Table == Seq(Seq(Cells))

FolderOK ==
  /\ DOMAIN folder \subseteq Nat \X Nat
  /\ \A n \in DOMAIN folder : folder[n].rows \in Table

LEMMA RowsTyped ==
  ASSUME NEW cards \in Seq(Card)
  PROVE  Rows(cards) \in Table
<1>1. \A i \in DOMAIN cards : cards[i].front \in Faces /\ cards[i].back \in Seq(Seq(STRING))
  <2>1. \A i \in DOMAIN cards : cards[i] \in Card
    OBVIOUS
  <2>. QED
    BY <2>1 DEF Card, Faces
<1>2. STRING \subseteq Symbols
  BY DEF Symbols
<1>3. ASSUME NEW i \in DOMAIN cards
      PROVE  << Field(Text(cards[i].front)), Field(FlattenSeq(cards[i].back)) >> \in Seq(Cells)
  <2>. DEFINE front == Text(cards[i].front)
              back == FlattenSeq(cards[i].back)
  <2>1. front \in Seq(Symbols)
    BY <1>1, TextTyped
  <2>2. back \in Seq(STRING)
    BY <1>1, FlattenTyped
  <2>. HIDE DEF front, back
  <2>3. back \in Seq(Symbols)
    BY <1>2, <2>2, WiderSeq
  <2>4. Field(front) \in Cells /\ Field(back) \in Cells
    BY <2>1, <2>3 DEF Field, Cells
  <2>5. << Field(front), Field(back) >> \in Seq(Cells)
    BY <2>4
  <2>. QED
    BY <2>5 DEF front, back
<1>4. Len(cards) \in Nat /\ DOMAIN cards = 1 .. Len(cards)
  OBVIOUS
<1>. QED
  BY <1>3, <1>4 DEF Rows, Table

LEMMA FileTyped ==
  ASSUME NEW file \in File
  PROVE  file.rows \in Table
<1>1. Cell \subseteq Cells
  <2>1. STRING \subseteq Symbols
    BY DEF Symbols
  <2>2. \A words \in Seq(STRING) : words \in Seq(Symbols)
    BY <2>1, WiderSeq
  <2>. QED
    BY <2>2 DEF Cell, Cells
<1>2. Seq(Cell) \subseteq Seq(Cells)
  BY <1>1, WiderSeq
<1>3. file.rows \in Seq(Seq(Cell))
  BY DEF File
<1>. HIDE DEF Cell, Cells
<1>. QED
  BY <1>2, <1>3, WiderSeq DEF Table

LEMMA PutsTyped ==
  ASSUME FolderOK, NEW name \in Nat \X Nat, NEW rows \in Table, Puts(name, rows)
  PROVE  FolderOK'
<1>1. DOMAIN folder' = DOMAIN folder \cup {name}
  BY DEF Puts
<1>2. \A n \in DOMAIN folder' : folder'[n] = IF n = name THEN [regular |-> TRUE, rows |-> rows] ELSE folder[n]
  BY DEF Puts
<1>3. \A n \in DOMAIN folder' : folder'[n].rows \in Table
  BY <1>1, <1>2 DEF FolderOK
<1>. QED
  BY <1>1, <1>3 DEF FolderOK

LEMMA GoodCards ==
  ASSUME NEW single, NEW cards \in Seq(Good(single))
  PROVE  cards \in Seq(Card)
<1>1. Good(single) \subseteq Card
  BY DEF Good
<1>. QED
  BY <1>1, WiderSeq

LEMMA IndexTyped ==
  ASSUME CommandInv
  PROVE  Index \in Nat
BY ReportsFacts DEF CommandInv, Index

LEMMA ChunkFile ==
  ASSUME FolderOK, DeckInv, CommandInv, ChunkGenerated
  PROVE  FolderOK'
<1>. DEFINE S == Good(run.single)
<1>1. doc.parts \in Seq(Seq(S)) /\ run.single \in BOOLEAN /\ Fielded(doc, DocFields)
  BY DEF DeckInv, ChunkGenerated, CommandInv, DocOK
<1>2. PICK answer \in Answers :
        LET converted == ConvertedDeck(answer, run.single)
            part == IF doc.total = 1 THEN Deduplicated(converted) ELSE converted
            d == [doc EXCEPT !.parts = Append(@, part)]
        IN IF doc.total > 1 /\ part # << >>
           THEN Exports(<<Index, Len(d.parts)>>, part, d)
           ELSE doc' = d /\ UNCHANGED folder
  BY DEF ChunkGenerated
<1>. DEFINE converted == ConvertedDeck(answer, run.single)
            part == IF doc.total = 1 THEN Deduplicated(converted) ELSE converted
            d == [doc EXCEPT !.parts = Append(@, part)]
            name == <<Index, Len(d.parts)>>
<1>3. part \in Seq(S)
  <2>1. converted \in Seq(S)
    BY <1>1, ConvertedFacts
  <2>. HIDE DEF converted
  <2>. QED
    BY <2>1, DeduplicatedFacts
<1>. HIDE DEF part
<1>4. name \in Nat \X Nat
  <2>1. d.parts = Append(doc.parts, part)
    BY <1>1 DEF Fielded, DocFields
  <2>2. Append(doc.parts, part) \in Seq(Seq(S))
    <3>1. \A T, s, e : s \in Seq(T) /\ e \in T => Append(s, e) \in Seq(T)
      OBVIOUS
    <3>. HIDE DEF S
    <3>. QED
      BY <1>1, <1>3, <3>1
  <2>3. Len(d.parts) \in Nat
    <3>. HIDE DEF S, d
    <3>. QED
      BY <2>1, <2>2
  <2>. HIDE DEF d
  <2>. QED
    BY <2>3, IndexTyped
<1>5. Rows(part) \in Table
  BY <1>3, GoodCards, RowsTyped
<1>6. Exports(name, part, d) \/ UNCHANGED folder
  BY <1>2 DEF part
<1>. HIDE DEF name, d
<1>7. CASE UNCHANGED folder
  BY <1>7 DEF FolderOK
<1>8. CASE Puts(name, Rows(part))
  BY <1>4, <1>5, <1>8, PutsTyped
<1>. QED
  BY <1>6, <1>7, <1>8 DEF Exports

LEMMA DeckFile ==
  ASSUME FolderOK, DeckInv, CommandInv, Exported
  PROVE  FolderOK'
<1>1. doc.kept \in Seq(Good(run.single))
  BY DEF DeckInv, Exported
<1>2. Rows(doc.kept) \in Table /\ <<Index, 0>> \in Nat \X Nat
  BY <1>1, GoodCards, RowsTyped, IndexTyped
<1>3. CASE UNCHANGED folder
  BY <1>3 DEF FolderOK
<1>4. CASE Puts(<<Index, 0>>, Rows(doc.kept))
  BY <1>2, <1>4, PutsTyped
<1>. QED
  BY <1>3, <1>4 DEF Exported

--------------------------------------------------------------------------------
(* The rows of two columns of the other files, and those that were read:    *)
(* what is gathered is what is wanted of the rows that were read, since     *)
(* each comes after those before it.                                        *)
RowOf(spot) == folder[spot[1]].rows[spot[2]]

Spots ==
  {spot \in Others \X UNION {DOMAIN folder[n].rows : n \in Others} :
     spot[2] \in DOMAIN folder[spot[1]].rows /\ Len(RowOf(spot)) = 2}

RowAt == [spot \in Spots |-> RowOf(spot)]

Done ==
  {spot \in Spots :
     spot[1] \in run.merge.todo =>
       spot[1] = Foremost(run.merge.todo) /\ spot[2] < run.merge.next}

MergeOK ==
  LET m == run.merge IN
  /\ Fielded(m, MergeFields)
  /\ m.todo \subseteq Others /\ m.next \in Nat \ {0} /\ m.distinct \in BOOLEAN
  /\ \A n \in Others \ m.todo, k \in m.todo : Comes(n, k)
  /\ m.out \in Table
  /\ IsFiniteSet(Done) /\ Gathered(m, Done, RowAt)

UnionOK ==
  /\ run.merge.before = Cardinality(Spots)
  /\ Placed(folder[Merged].rows, Wants(Spots, RowAt, run.merge), RowAt)

MergeInv ==
  /\ FolderOK
  /\ run.name = "merge" /\ run.exit = "none" => MergeOK
  /\ run.name = "merge" /\ run.exit = "success" => UnionOK

LEMMA SpotsFacts ==
  ASSUME FolderOK
  PROVE  /\ \A s \in Spots : /\ s \in Spot /\ s[1] \in Others
                             /\ s[2] \in 1 .. Len(folder[s[1]].rows)
                             /\ Len(RowOf(s)) = 2 /\ RowOf(s) \in Seq(Cells)
         /\ \A n \in Others : \A i \in 1 .. Len(folder[n].rows) :
              Len(folder[n].rows[i]) = 2 => <<n, i>> \in Spots
<1>1. \A n \in Others : /\ n \in Nat \X Nat /\ folder[n].rows \in Table
                        /\ DOMAIN folder[n].rows = 1 .. Len(folder[n].rows)
                        /\ Len(folder[n].rows) \in Nat
  BY DEF FolderOK, Others, Table
<1>2. ASSUME NEW s \in Spots
      PROVE  /\ s \in Spot /\ s[1] \in Others
             /\ s[2] \in 1 .. Len(folder[s[1]].rows)
             /\ Len(RowOf(s)) = 2 /\ RowOf(s) \in Seq(Cells)
  <2>1. PICK n \in Others : \E i : s = <<n, i>>
    BY DEF Spots
  <2>. DEFINE i == s[2]
  <2>2. s[1] = n /\ s = <<n, i>>
    BY <2>1
  <2>3. i \in DOMAIN folder[n].rows /\ Len(RowOf(s)) = 2
    BY <2>2 DEF Spots
  <2>4. i \in 1 .. Len(folder[n].rows) /\ i \in Nat
    BY <1>1, <2>3
  <2>5. folder[n].rows[i] \in Seq(Cells)
    BY <1>1, <2>4 DEF Table
  <2>6. s \in Spot
    BY <1>1, <2>2, <2>4 DEF Spot
  <2>. QED
    BY <2>2, <2>3, <2>4, <2>5, <2>6 DEF RowOf
<1>3. ASSUME NEW n \in Others, NEW i \in 1 .. Len(folder[n].rows), Len(folder[n].rows[i]) = 2
      PROVE  <<n, i>> \in Spots
  <2>1. i \in DOMAIN folder[n].rows
    BY <1>1
  <2>2. RowOf(<<n, i>>) = folder[n].rows[i]
    BY DEF RowOf
  <2>. QED
    BY <1>3, <2>1, <2>2 DEF Spots
<1>. QED
  BY <1>2, <1>3

(* The rows stay where they are.                                            *)
LEMMA SpotsStay ==
  ASSUME Others' = Others, \A n \in Others : folder'[n] = folder[n]
  PROVE  Spots' = Spots /\ RowAt' = RowAt
<1>1. \A s : s[1] \in Others => RowOf(s)' = RowOf(s)
  BY DEF RowOf
<1>2. {DOMAIN folder'[n].rows : n \in Others'} = {DOMAIN folder[n].rows : n \in Others}
  OBVIOUS
<1>3. Spots' = Spots
  <2>. DEFINE all == Others \X UNION {DOMAIN folder[n].rows : n \in Others}
  <2>1. \A s \in all : s[1] \in Others
    OBVIOUS
  <2>2. Spots = {s \in all : s[2] \in DOMAIN folder[s[1]].rows /\ Len(RowOf(s)) = 2}
    BY DEF Spots
  <2>3. Spots' = {s \in all : s[2] \in DOMAIN folder'[s[1]].rows /\ Len(RowOf(s)') = 2}
    BY <1>2 DEF Spots
  <2>. HIDE DEF all
  <2>. QED
    BY <1>1, <2>1, <2>2, <2>3
<1>4. \A s \in Spots : s[1] \in Others
  BY DEF Spots
<1>. QED
  BY <1>1, <1>3, <1>4 DEF RowAt

LEMMA SameSpots ==
  ASSUME folder' = folder
  PROVE  Others' = Others /\ Spots' = Spots /\ RowAt' = RowAt
<1>1. Others' = Others
  BY DEF Others
<1>. QED
  BY <1>1, SpotsStay

(* Nothing is merged, or nothing of it changes.                             *)
LEMMA MergeQuiet ==
  ASSUME FolderOK', run'.name # "merge" \/ run'.exit \notin {"none", "success"}
  PROVE  MergeInv'
BY DEF MergeInv

LEMMA MergeSame ==
  ASSUME MergeInv, folder' = folder, run' = run
  PROVE  MergeInv'
<1>1. Others' = Others /\ Spots' = Spots /\ RowAt' = RowAt
  BY SameSpots
<1>2. Done' = Done
  BY <1>1 DEF Done
<1>3. FolderOK'
  BY DEF MergeInv, FolderOK
<1>4. MergeOK => MergeOK'
  BY <1>1, <1>2 DEF MergeOK
<1>5. UnionOK => UnionOK'
  BY <1>1 DEF UnionOK
<1>. QED
  BY <1>3, <1>4, <1>5 DEF MergeInv

(* A merge begins with nothing read.                                        *)
LEMMA MergeStarts ==
  ASSUME MergeInv, MergeBegins
  PROVE  MergeInv'
<1>1. folder' = folder /\ FolderOK /\ Others' = Others /\ Spots' = Spots /\ RowAt' = RowAt
  BY SameSpots DEF MergeBegins, MergeInv
<1>2. FolderOK'
  BY <1>1 DEF FolderOK
<1>. DEFINE bad == Others = {} \/ (\E n \in Others : ~ folder[n].regular)
<1>3. PICK distinct \in BOOLEAN :
        run' = [NoCommand EXCEPT !.name = "merge", !.exit = IF bad THEN "failure" ELSE @,
                                 !.merge = [NoMerge EXCEPT !.todo = Others, !.distinct = distinct]]
  BY DEF MergeBegins, Begun
<1>. HIDE DEF bad
<1>. DEFINE m == [NoMerge EXCEPT !.todo = Others, !.distinct = distinct]
<1>4. run'.merge = m /\ run'.exit \in {"none", "failure"}
  BY <1>3 DEF NoCommand
<1>5. /\ Fielded(m, MergeFields) /\ m.todo = Others /\ m.next = 1 /\ m.distinct = distinct
      /\ m.out = << >> /\ m.seen = {} /\ m.before = 0
  BY DEF NoMerge, Fielded, MergeFields
<1>. HIDE DEF m
<1>6. Done' = {}
  <2>1. \A s \in Spots : s[1] \in Others /\ s[2] \in Nat /\ s[2] >= 1
    BY <1>1, SpotsFacts DEF Spot
  <2>. QED
    BY <1>1, <1>4, <1>5, <2>1 DEF Done
<1>7. MergeOK'
  <2>1. << >> \in Table
    BY DEF Table
  <2>2. IsFiniteSet({}) /\ Cardinality({}) = 0
    BY FS_EmptySet
  <2>3. Wants({}, RowAt, m) = {}
    BY DEF Wants
  <2>4. Gathered(m, {}, RowAt)
    BY <1>5, <2>2, <2>3 DEF Gathered, Placed
  <2>. QED
    BY <1>1, <1>3, <1>4, <1>5, <1>6, <2>1, <2>2, <2>4 DEF MergeOK
<1>. QED
  BY <1>2, <1>4, <1>7 DEF MergeInv

(* What is read next.                                                       *)
LEMMA ReadsFacts ==
  ASSUME FolderOK, MergeOK, run.merge.todo # {}
  PROVE  LET m == run.merge
             f == Foremost(m.todo)
         IN /\ f \in m.todo /\ f \in Others /\ Reads = folder[f].rows /\ Reads \in Table
            /\ Len(Reads) \in Nat /\ DOMAIN Reads = 1 .. Len(Reads)
            /\ \A i \in 1 .. Len(Reads) : Reads[i] \in Seq(Cells) /\ Len(Reads[i]) \in Nat
            /\ \A n \in m.todo : n = f \/ Comes(f, n)
            /\ \A n \in Others \ m.todo : Comes(n, f)
<1>. DEFINE m == run.merge
            f == Foremost(m.todo)
<1>1. m.todo \subseteq Others /\ m.todo \subseteq Nat \X Nat
  BY DEF MergeOK, FolderOK, Others
<1>2. f \in m.todo /\ \A n \in m.todo : n = f \/ Comes(f, n)
  BY <1>1, ForemostFacts
<1>. HIDE DEF f
<1>3. f \in Others /\ folder[f].rows \in Table
  BY <1>1, <1>2 DEF FolderOK, Others
<1>4. Reads = folder[f].rows
  BY DEF Reads, f
<1>5. \A n \in Others \ m.todo : Comes(n, f)
  BY <1>2 DEF MergeOK
<1>6. /\ Len(Reads) \in Nat /\ DOMAIN Reads = 1 .. Len(Reads)
      /\ \A i \in 1 .. Len(Reads) : Reads[i] \in Seq(Cells)
  BY <1>3, <1>4 DEF Table
<1>7. \A i \in 1 .. Len(Reads) : Len(Reads[i]) \in Nat
  BY <1>6
<1>. QED
  BY <1>2, <1>3, <1>4, <1>5, <1>6, <1>7 DEF f

(* A row is read: it is the next of all those that count, or does not.      *)
LEMMA DoneStep ==
  ASSUME FolderOK, MergeOK, run.merge.todo # {}, run.merge.next <= Len(Reads),
         folder' = folder, run'.merge.todo = run.merge.todo,
         run'.merge.next = run.merge.next + 1
  PROVE  LET x == <<Foremost(run.merge.todo), run.merge.next>>
         IN /\ Len(Reads[run.merge.next]) # 2 => Done' = Done
            /\ Len(Reads[run.merge.next]) = 2 =>
                 /\ Done' = Done \cup {x} /\ x \in Spots /\ x \notin Done
                 /\ RowAt[x] = Reads[run.merge.next] /\ ~ Precedes(x, x)
                 /\ \A s \in Done : Precedes(s, x) /\ ~ Precedes(x, s)
<1>. DEFINE m == run.merge
            f == Foremost(m.todo)
            i == m.next
            x == <<f, i>>
<1>1. /\ f \in m.todo /\ f \in Others /\ Reads = folder[f].rows
      /\ \A n \in Others \ m.todo : Comes(n, f)
      /\ Len(Reads) \in Nat
  BY ReadsFacts
<1>2. i \in Nat /\ i >= 1 /\ i \in 1 .. Len(folder[f].rows)
  BY <1>1 DEF MergeOK
<1>3. /\ \A s \in Spots : /\ s \in Spot /\ s[1] \in Others /\ s[2] \in Nat
                          /\ s = <<s[1], s[2]>> /\ Len(RowOf(s)) = 2
      /\ Len(folder[f].rows[i]) = 2 => x \in Spots
  BY <1>1, <1>2, SpotsFacts DEF Spot
<1>4. Spots' = Spots
  BY SameSpots
<1>5. \A s \in Spots : s \in Done <=> (s[1] \in m.todo => s[1] = f /\ s[2] < i)
  BY DEF Done
<1>6. \A s \in Spots : s \in Done' <=> (s[1] \in m.todo => s[1] = f /\ s[2] < i + 1)
  BY <1>4 DEF Done
<1>7. Done \subseteq Spots /\ Done' \subseteq Spots
  BY <1>4 DEF Done
<1>8. x[1] = f /\ x[2] = i /\ RowOf(x) = Reads[i]
  BY <1>1 DEF RowOf
<1>. HIDE DEF f, i, x
<1>9. \A s \in Spots : s \in Done' <=> s \in Done \/ (s[1] = f /\ s[2] = i)
  BY <1>1, <1>2, <1>3, <1>5, <1>6
<1>10. \A s \in Spots : s[1] = f /\ s[2] = i => s = x
  BY <1>3 DEF x
<1>11. CASE Len(Reads[i]) # 2
  <2>1. \A s \in Spots : s # x
    BY <1>3, <1>8, <1>11
  <2>. QED
    BY <1>7, <1>9, <1>10, <1>11, <2>1 DEF i
<1>12. CASE Len(Reads[i]) = 2
  <2>1. x \in Spots
    BY <1>1, <1>3, <1>12
  <2>2. x \notin Done
    BY <1>1, <1>2, <1>5, <1>8, <2>1
  <2>3. Done' = Done \cup {x}
    BY <1>7, <1>8, <1>9, <1>10, <2>1
  <2>4. RowAt[x] = Reads[i]
    BY <1>8, <2>1 DEF RowAt
  <2>5. \A s \in Done : Precedes(s, x)
    BY <1>1, <1>3, <1>5, <1>7, <1>8 DEF Precedes
  <2>6. ~ Precedes(x, x) /\ \A s \in Done : ~ Precedes(x, s)
    BY <1>3, <1>7, <2>1, <2>5, PrecedesOrder
  <2>. QED
    BY <1>12, <2>1, <2>2, <2>3, <2>4, <2>5, <2>6 DEF i, x, f
<1>. QED
  BY <1>11, <1>12

LEMMA RunMerges ==
  ASSUME CommandInv, NEW m, run' = [run EXCEPT !.merge = m]
  PROVE  run'.merge = m /\ run'.name = run.name /\ run'.exit = run.exit
BY DEF CommandInv, RunOK, Fielded, RunFields

LEMMA MergeReads ==
  ASSUME CommandInv, MergeInv, MergeRecord
  PROVE  MergeInv'
<1>. DEFINE m == run.merge
            x == <<Foremost(m.todo), m.next>>
            r == Reads[m.next]
<1>1. /\ run.name = "merge" /\ run.exit = "none" /\ folder' = folder
      /\ m.todo # {} /\ m.next <= Len(Reads) /\ FolderOK /\ MergeOK
  BY DEF MergeRecord, MergeInv, Active
<1>2. FolderOK'
  BY <1>1 DEF FolderOK
<1>3. Others' = Others /\ Spots' = Spots /\ RowAt' = RowAt
  BY <1>1, SameSpots
<1>4. /\ Fielded(m, MergeFields) /\ m.todo \subseteq Others /\ m.next \in Nat \ {0}
      /\ m.distinct \in BOOLEAN /\ m.out \in Table
      /\ \A n \in Others \ m.todo, k \in m.todo : Comes(n, k)
      /\ IsFiniteSet(Done) /\ Gathered(m, Done, RowAt)
  BY <1>1 DEF MergeOK
<1>5. CASE Ends("failure")
  <2>1. run'.exit = "failure"
    BY <1>5, RunEnds DEF CommandInv, RunOK
  <2>. QED
    BY <1>2, <2>1, MergeQuiet
<1>6. CASE Len(r) < 2 /\ run' = [run EXCEPT !.merge = [m EXCEPT !.next = @ + 1]]
  <2>. DEFINE new == [m EXCEPT !.next = @ + 1]
  <2>1. /\ Fielded(new, MergeFields) /\ new.next = m.next + 1 /\ new.todo = m.todo
        /\ new.distinct = m.distinct /\ new.out = m.out /\ new.seen = m.seen
        /\ new.before = m.before
    BY <1>4 DEF Fielded, MergeFields
  <2>2. run'.merge = new /\ run'.name = run.name /\ run'.exit = run.exit
    BY <1>6, RunMerges
  <2>. HIDE DEF new
  <2>3. Done' = Done
    <3>1. Len(r) # 2
      <4>1. m.next \in 1 .. Len(Reads)
        <5>1. Len(Reads) \in Nat
          BY <1>1, ReadsFacts
        <5>. QED
          BY <1>1, <1>4, <5>1
      <4>2. Len(r) \in Nat
        BY <1>1, <4>1, ReadsFacts
      <4>. HIDE DEF r
      <4>. QED
        BY <1>6, <4>2
    <3>. HIDE DEF r
    <3>2. run'.merge.todo = run.merge.todo /\ run'.merge.next = run.merge.next + 1
      BY <2>1, <2>2
    <3>. QED
      BY <1>1, <3>1, <3>2, DoneStep DEF r
  <2>4. Wants(Done, RowAt, new) = Wants(Done, RowAt, m)
    BY <2>1 DEF Wants
  <2>5. Gathered(new, Done, RowAt)
    BY <1>4, <2>1, <2>4 DEF Gathered
  <2>6. new.next \in Nat \ {0}
    BY <1>4, <2>1
  <2>7. MergeOK'
    BY <1>3, <1>4, <2>1, <2>2, <2>3, <2>5, <2>6 DEF MergeOK
  <2>. QED
    BY <1>1, <1>2, <2>2, <2>7 DEF MergeInv
<1>7. CASE Len(r) = 2 /\ run' = [run EXCEPT !.merge = [Merge(m, r) EXCEPT !.next = @ + 1]]
  <2>. DEFINE new == [Merge(m, r) EXCEPT !.next = @ + 1]
  <2>1. /\ Fielded(new, MergeFields) /\ new.next = m.next + 1 /\ new.todo = m.todo
        /\ new.distinct = m.distinct
    BY <1>4, MergeFacts
  <2>2. run'.merge = new /\ run'.name = run.name /\ run'.exit = run.exit
    BY <1>7, RunMerges
  <2>. HIDE DEF new, r
  <2>3. run'.merge.todo = run.merge.todo /\ run'.merge.next = run.merge.next + 1
    BY <2>1, <2>2
  <2>4. /\ Done' = Done \cup {x} /\ x \in Spots /\ x \notin Done /\ RowAt[x] = r /\ ~ Precedes(x, x)
        /\ \A s \in Done : Precedes(s, x) /\ ~ Precedes(x, s)
    BY <1>1, <1>7, <2>3, DoneStep DEF r
  <2>5. r \in Seq(Cells)
    BY <1>1, <1>4, ReadsFacts DEF r
  <2>6. Done \subseteq Spot
    BY <1>1, SpotsFacts DEF Done
  <2>. HIDE DEF x
  <2>7. new.out \in Table /\ Gathered(new, Done \cup {x}, RowAt)
    <3>1. Fielded(m, MergeFields) /\ m.distinct \in BOOLEAN /\ IsFiniteSet(Done)
          /\ m.out \in Seq(Seq(Cells)) /\ Gathered(m, Done, RowAt)
      BY <1>4 DEF Table
    <3>2. RowAt[x] \in Seq(Cells)
      BY <2>4, <2>5
    <3>3. LET next == [Merge(m, RowAt[x]) EXCEPT !.next = @ + 1] IN
          next.out \in Seq(Seq(Cells)) /\ Gathered(next, Done \cup {x}, RowAt)
      BY <2>4, <2>6, <3>1, <3>2, GatheredOneMore
    <3>. QED
      BY <2>4, <3>3 DEF Table, new
  <2>8. IsFiniteSet(Done \cup {x})
    BY <1>4, FS_AddElement
  <2>9. new.next \in Nat \ {0}
    BY <1>4, <2>1
  <2>10. MergeOK'
    BY <1>3, <1>4, <2>1, <2>2, <2>4, <2>7, <2>8, <2>9 DEF MergeOK
  <2>. QED
    BY <1>1, <1>2, <2>2, <2>10 DEF MergeInv
<1>. QED
  BY <1>5, <1>6, <1>7 DEF MergeRecord

(* A file is read to its end.                                               *)
LEMMA MergeTurns ==
  ASSUME CommandInv, MergeInv, MergeSource
  PROVE  MergeInv'
<1>. DEFINE m == run.merge
            f == Foremost(m.todo)
            new == [m EXCEPT !.todo = @ \ {Foremost(@)}, !.next = 1]
<1>1. /\ run.name = "merge" /\ run.exit = "none" /\ folder' = folder
      /\ m.todo # {} /\ FolderOK /\ MergeOK
  BY DEF MergeSource, MergeInv, Active
<1>2. FolderOK'
  BY <1>1 DEF FolderOK
<1>3. Others' = Others /\ Spots' = Spots /\ RowAt' = RowAt
  BY <1>1, SameSpots
<1>4. /\ Fielded(m, MergeFields) /\ m.todo \subseteq Others /\ m.next \in Nat \ {0}
      /\ m.distinct \in BOOLEAN /\ m.out \in Table
      /\ \A n \in Others \ m.todo, k \in m.todo : Comes(n, k)
      /\ IsFiniteSet(Done) /\ Gathered(m, Done, RowAt)
  BY <1>1 DEF MergeOK
<1>5. CASE Ends("failure")
  <2>1. run'.exit = "failure"
    BY <1>5, RunEnds DEF CommandInv, RunOK
  <2>. QED
    BY <1>2, <2>1, MergeQuiet
<1>6. CASE m.next > Len(Reads) /\ run' = [run EXCEPT !.merge = new]
  <2>1. /\ Fielded(new, MergeFields) /\ new.next = 1 /\ new.todo = m.todo \ {f}
        /\ new.distinct = m.distinct /\ new.out = m.out /\ new.seen = m.seen
        /\ new.before = m.before
    BY <1>4 DEF Fielded, MergeFields
  <2>2. run'.merge = new /\ run'.name = run.name /\ run'.exit = run.exit
    BY <1>6, RunMerges
  <2>. HIDE DEF new
  <2>3. /\ f \in m.todo /\ f \in Others /\ Reads = folder[f].rows /\ Len(Reads) \in Nat
        /\ \A n \in m.todo : n = f \/ Comes(f, n)
    BY <1>1, ReadsFacts
  <2>4. Done' = Done
    <3>1. \A s \in Spots : /\ s[1] \in Others /\ s[2] \in 1 .. Len(folder[s[1]].rows)
                           /\ s[2] \in Nat /\ s[2] >= 1
      BY <1>1, SpotsFacts DEF Spot
    <3>2. \A s \in Spots : s \in Done <=> (s[1] \in m.todo => s[1] = f /\ s[2] < m.next)
      BY DEF Done
    <3>3. \A s \in Spots : s \in Done' <=>
            (s[1] \in m.todo \ {f} => s[1] = Foremost(m.todo \ {f}) /\ s[2] < 1)
      BY <1>3, <2>1, <2>2 DEF Done
    <3>4. Done \subseteq Spots /\ Done' \subseteq Spots
      BY <1>3 DEF Done
    <3>. HIDE DEF f
    <3>5. \A s \in Spots : s[1] = f => s[2] < m.next
      BY <1>4, <1>6, <2>3, <3>1
    <3>6. \A s \in Spots : s \in Done' <=> s[1] \notin m.todo \ {f}
      BY <3>1, <3>3
    <3>7. \A s \in Spots : s \in Done <=> s[1] \notin m.todo \ {f}
      BY <2>3, <3>2, <3>5
    <3>. QED
      BY <3>4, <3>6, <3>7
  <2>5. \A n \in Others \ new.todo, k \in new.todo : Comes(n, k)
    <3>. HIDE DEF f
    <3>. QED
      BY <1>4, <2>1, <2>3
  <2>6. Wants(Done, RowAt, new) = Wants(Done, RowAt, m)
    BY <2>1 DEF Wants
  <2>7. Gathered(new, Done, RowAt)
    BY <1>4, <2>1, <2>6 DEF Gathered
  <2>8. new.todo \subseteq Others /\ new.next \in Nat \ {0}
    BY <1>4, <2>1
  <2>9. MergeOK'
    BY <1>3, <1>4, <2>1, <2>2, <2>4, <2>5, <2>7, <2>8 DEF MergeOK
  <2>. QED
    BY <1>1, <1>2, <2>2, <2>9 DEF MergeInv
<1>. QED
  BY <1>5, <1>6 DEF MergeSource

(* The merged file is written.                                              *)
LEMMA MergeWrites ==
  ASSUME CommandInv, MergeInv, MergeEnds
  PROVE  MergeInv'
<1>. DEFINE m == run.merge
<1>1. run.name = "merge" /\ run.exit = "none" /\ m.todo = {} /\ FolderOK /\ MergeOK
  BY DEF MergeEnds, MergeInv, Active
<1>2. CASE UNCHANGED folder /\ Ends("failure")
  <2>1. run'.exit = "failure"
    BY <1>2, RunEnds DEF CommandInv, RunOK
  <2>2. FolderOK'
    BY <1>1, <1>2 DEF FolderOK
  <2>. QED
    BY <2>1, <2>2, MergeQuiet
<1>3. CASE Puts(Merged, m.out) /\ Ends("success")
  <2>1. run'.exit = "success" /\ run'.name = run.name /\ run'.merge = m
    BY <1>3 DEF CommandInv, RunOK, Fielded, RunFields, Ends
  <2>2. FolderOK'
    <3>1. m.out \in Table /\ Merged \in Nat \X Nat
      BY <1>1 DEF MergeOK, Merged
    <3>. QED
      BY <1>1, <1>3, <3>1, PutsTyped
  <2>3. Others' = Others /\ \A n \in Others : folder'[n] = folder[n]
    BY <1>3 DEF Puts, Others
  <2>4. Spots' = Spots /\ RowAt' = RowAt
    BY <2>3, SpotsStay
  <2>5. folder'[Merged].rows = m.out
    BY <1>3 DEF Puts
  <2>6. Done = Spots
    BY <1>1 DEF Done
  <2>7. m.before = Cardinality(Spots) /\ Placed(m.out, Wants(Spots, RowAt, m), RowAt)
    BY <1>1, <2>6 DEF MergeOK, Gathered
  <2>8. UnionOK'
    BY <2>1, <2>4, <2>5, <2>7 DEF UnionOK
  <2>. QED
    BY <1>1, <2>1, <2>2, <2>8 DEF MergeInv
<1>. QED
  BY <1>2, <1>3 DEF MergeEnds

(* A command that is no merge goes on.                                      *)
LEMMA OthersGoOn ==
  ASSUME CommandInv, FolderOK', run.name # "merge",
         \/ run' = run
         \/ \E x : run' = [run EXCEPT !.todo = x]
         \/ \E x : run' = [run EXCEPT !.reports = x]
         \/ \E x : run' = [run EXCEPT !.exit = x]
         \/ \E x, y : run' = [run EXCEPT !.exit = x, !.listed = y]
  PROVE  MergeInv'
<1>1. run'.name = run.name
  BY DEF CommandInv, RunOK, Fielded, RunFields
<1>. QED
  BY <1>1, MergeQuiet

(* A command begins that is no merge, or is refused.                        *)
LEMMA OthersBegin ==
  ASSUME FolderOK',
         \/ \E name, code : code \in {"usage", "failure"} /\ run' = [NoCommand EXCEPT !.name = name, !.exit = code]
         \/ run' = NoCommand
         \/ \E name \in Generating : \E x, y : run' = [NoCommand EXCEPT !.name = name, !.todo = x, !.single = y]
         \/ \E x, y : run' = [NoCommand EXCEPT !.name = "cleanup", !.listed = x, !.todo = y]
  PROVE  MergeInv'
<1>1. CASE \E name, code : code \in {"usage", "failure"} /\ run' = [NoCommand EXCEPT !.name = name, !.exit = code]
  <2>1. run'.exit \in {"usage", "failure"}
    BY <1>1 DEF NoCommand
  <2>. QED
    BY <2>1, MergeQuiet
<1>2. CASE run' = NoCommand
  BY <1>2, MergeQuiet, NoCommandFacts
<1>3. CASE \E name \in Generating : \E x, y : run' = [NoCommand EXCEPT !.name = name, !.todo = x, !.single = y]
  <2>1. run'.name \in Generating
    BY <1>3 DEF NoCommand
  <2>. QED
    BY <2>1, MergeQuiet DEF Generating
<1>4. CASE \E x, y : run' = [NoCommand EXCEPT !.name = "cleanup", !.listed = x, !.todo = y]
  <2>1. run'.name = "cleanup"
    BY <1>4 DEF NoCommand
  <2>. QED
    BY <2>1, MergeQuiet
<1>. QED
  BY <1>1, <1>2, <1>3, <1>4

LEMMA MergeNext ==
  ASSUME CommandInv, DeckInv, MergeInv, [Next]_commandVars
  PROVE  MergeInv'
<1>0. FolderOK /\ (folder' = folder => FolderOK')
  BY DEF MergeInv, FolderOK
<1>1. doc.pc # "none" => run.name # "merge"
  BY DEF CommandInv, DocOK, Generating
<1>2. CASE UNCHANGED commandVars
  BY <1>2, MergeSame DEF commandVars
<1>3. CASE Refused
  <2>1. PICK code \in {"usage", "failure"} :
          run' = [NoCommand EXCEPT !.name = Head(script), !.exit = code]
    BY <1>3 DEF Refused, Begun
  <2>. QED
    BY <1>0, <1>3, <2>1, OthersBegin DEF Refused
<1>4. CASE NextCommand
  BY <1>0, <1>4, OthersBegin DEF NextCommand
<1>5. CASE \E name \in Generating : GenerateBegins(name)
  <2>1. PICK name \in Generating : GenerateBegins(name)
    BY <1>5
  <2>2. PICK batch \in Batches, single \in BOOLEAN :
          run' = [NoCommand EXCEPT !.name = name, !.todo = batch, !.single = single]
    BY <2>1 DEF GenerateBegins, Begun
  <2>. QED
    BY <1>0, <2>1, <2>2, OthersBegin DEF GenerateBegins
<1>6. CASE CleanupBegins
  BY <1>0, <1>6, OthersBegin DEF CleanupBegins, Begun
<1>7. CASE PrepareNext
  BY <1>0, <1>7, OthersGoOn DEF PrepareNext, Active, Generating
<1>8. CASE Prepares \/ Combined \/ OthersCreate
  BY <1>8, MergeSame DEF Prepares, Combined, OthersCreate
<1>9. CASE Prepared \/ ChunkFails
  BY <1>0, <1>1, <1>9, OthersGoOn DEF Prepared, ChunkFails, Reported
<1>10. CASE ChunkGenerated
  <2>1. FolderOK'
    BY <1>0, <1>10, ChunkFile
  <2>. QED
    BY <1>1, <1>10, <2>1, OthersGoOn DEF ChunkGenerated
<1>11. CASE Exported
  <2>1. FolderOK'
    BY <1>0, <1>11, DeckFile
  <2>. QED
    BY <1>1, <1>11, <2>1, OthersGoOn DEF Exported, Reported
<1>12. CASE Stopped
  <2>1. run'.name = "stopped"
    BY <1>12 DEF Stopped, CommandInv, RunOK, Fielded, RunFields
  <2>. QED
    BY <1>0, <1>12, <2>1, MergeQuiet DEF Stopped
<1>13. CASE Finish
  BY <1>0, <1>13, OthersGoOn DEF Finish, Active, Generating
<1>14. CASE MergeBegins \/ MergeRecord \/ MergeSource \/ MergeEnds
  BY <1>14, MergeStarts, MergeReads, MergeTurns, MergeWrites
<1>15. CASE DeleteNext \/ CleanupEnds
  BY <1>0, <1>15, OthersGoOn DEF DeleteNext, CleanupEnds, Active, Ends
<1>. QED
  BY <1>2, <1>3, <1>4, <1>5, <1>6, <1>7, <1>8, <1>9, <1>10, <1>11, <1>12, <1>13, <1>14, <1>15
     DEF Next, Generating

LEMMA MergeInit ==
  ASSUME Init
  PROVE  MergeInv
<1>1. PICK begin \in Begins : folder = begin.folder
  BY DEF Init
<1>2. FolderOK
  BY <1>1, CommandAssumption, FileTyped DEF FolderOK
<1>3. run.name = "none"
  BY NoCommandFacts DEF Init
<1>. QED
  BY <1>2, <1>3 DEF MergeInv

LEMMA UnionFacts ==
  ASSUME MergeInv
  PROVE  MergeIsUnion
<1>. SUFFICES ASSUME run.name = "merge", run.exit = "success"
              PROVE  MergeIsUnion
  BY DEF MergeIsUnion
<1>. DEFINE RowIn(spot) == folder[spot[1]].rows[spot[2]]
            Ahead(s, t) == Comes(s[1], t[1]) \/ (s[1] = t[1] /\ s[2] < t[2])
            Repeats(s, t) == \A c \in {1, 2} : RowIn(s)[c].text = RowIn(t)[c].text
            spots == {spot \in Others \X UNION {DOMAIN folder[n].rows : n \in Others} :
                        spot[2] \in DOMAIN folder[spot[1]].rows /\ Len(RowIn(spot)) = 2}
            wanted == {t \in spots : run.merge.distinct =>
                         \A s \in spots : Ahead(s, t) => ~ Repeats(s, t)}
            out == folder[Merged].rows
<1>1. run.merge.before = Cardinality(Spots) /\ Placed(out, Wants(Spots, RowAt, run.merge), RowAt)
  BY DEF MergeInv, UnionOK
<1>2. Spots = spots
  BY DEF Spots, RowOf
<1>3. \A s \in spots : RowAt[s] = RowIn(s)
  BY <1>2 DEF RowAt, RowOf
<1>4. \A s, t : Precedes(s, t) <=> Ahead(s, t)
  BY DEF Precedes
<1>. HIDE DEF spots, out
<1>5. \A s, t \in spots : Alike(RowAt[s], RowAt[t]) <=> Repeats(s, t)
  BY <1>3 DEF Alike
<1>. HIDE DEF Ahead, Repeats, RowIn
<1>6. Wants(Spots, RowAt, run.merge) = wanted
  <2>1. \A t \in spots : t \in Wants(spots, RowAt, run.merge) <=> t \in wanted
    BY <1>4, <1>5 DEF Wants
  <2>2. Wants(spots, RowAt, run.merge) \subseteq spots /\ wanted \subseteq spots
    BY DEF Wants
  <2>. QED
    BY <1>2, <2>1, <2>2
<1>7. wanted \subseteq spots
  OBVIOUS
<1>. HIDE DEF wanted
<1>8. Len(out) = Cardinality(wanted)
  BY <1>1, <1>6 DEF Placed
<1>9. \A t \in wanted : out[Cardinality({s \in wanted : Ahead(s, t)}) + 1] = RowIn(t)
  <2>1. \A t : {s \in wanted : Ahead(s, t)} = {s \in wanted : Precedes(s, t)}
    BY <1>4
  <2>. QED
    BY <1>1, <1>3, <1>6, <1>7, <2>1 DEF Placed
<1>10. run.merge.before = Cardinality(spots)
  BY <1>1, <1>2
<1>. QED
  BY <1>8, <1>9, <1>10 DEF MergeIsUnion, out, wanted, spots, Ahead, Repeats, RowIn

--------------------------------------------------------------------------------
(* The invariant of the commands: the preparation's, the document in work,  *)
(* what was reported, the notebooks and the command hold together.          *)
THEOREM CommandInvariant == Spec => []CommandInv
<1>1. Init => CommandInv
  BY InitHolds
<1>2. CommandInv /\ [Next]_commandVars => CommandInv'
  BY NextKeeps
<1>. QED
  BY <1>1, <1>2, PTL DEF Spec

(* Whatever a caller does, and however a program or a thread ends, no       *)
(* program outlives its preparation and no directory is left, but where a   *)
(* thread was at work when the caller was dropped (run_bounded,             *)
(* ManagedChild, TempDir).                                                  *)
THEOREM NothingIsLeft == Spec => []NothingLeftBehind
<1>1. CommandInv => NothingLeftBehind
  BY LeftFacts DEF CommandInv
<1>. QED
  BY <1>1, CommandInvariant, PTL

(* What is uploaded of a document is all of it that is not skipped, in      *)
(* files no longer than a chunk or a chapter, whatever its length and       *)
(* bookmarks and the size and overlap of the chunks (PdfChunkPlanner).      *)
THEOREM DocumentsAreWhole == Spec => []PreparedWhole
<1>1. CommandInv => PreparedWhole
  BY WholeFacts DEF CommandInv, PreparedWhole
<1>. QED
  BY <1>1, CommandInvariant, PTL

(* A command that says it has succeeded has: its decks are there and its    *)
(* notebooks are not (run, generate, cleanup and finish_cleanup).           *)
THEOREM ExitsAreHonest == Spec => []ExitIsHonest
<1>1. CommandInv => ExitIsHonest
  BY HonestFacts
<1>. QED
  BY <1>1, CommandInvariant, PTL

(* DeckInv holds: the decks a document has so far are cards that pass       *)
(* (convert), and the whole of them is a sound deck once it is combined.    *)
THEOREM DeckInvariant == Spec => []DeckInv
<1>1. Init => DeckInv
  BY NoDocumentFacts DEF Init, DeckInv, DeckIsSound, NoCommand, NoDocument
<1>2. CommandInv /\ DeckInv /\ [Next]_commandVars => DeckInv'
  BY DeckNext
<1>. QED
  BY <1>1, <1>2, CommandInvariant, PTL DEF Spec

(* A deck is what its answers come to, whatever they are and whichever of   *)
(* their fronts are alike: its deletions hide what matters, no card is left *)
(* beside one it repeats, and none is missing without a reason (convert,    *)
(* deduplicate_standard, filter).  Fronts are matched as matching_ratio     *)
(* does it below 200 characters.                                            *)
THEOREM DecksAreSound == Spec => []DeckIsSound
<1>1. DeckInv => DeckIsSound
  BY DEF DeckInv
<1>. QED
  BY <1>1, DeckInvariant, PTL

(* A merge that ends well has written the rows of two columns of all the    *)
(* other files of the folder, each once and in the order of their names, or *)
(* the first of those that are alike but for blanks, whatever files were    *)
(* there and whatever the commands before it have written                   *)
(* (LocalCsvMerger::merge).                                                 *)
THEOREM MergesUnite == Spec => []MergeIsUnion
<1>1. Init => MergeInv
  BY MergeInit
<1>2. CommandInv /\ DeckInv /\ MergeInv /\ [Next]_commandVars => MergeInv'
  BY MergeNext
<1>3. MergeInv => MergeIsUnion
  BY UnionFacts
<1>. QED
  BY <1>1, <1>2, <1>3, CommandInvariant, DeckInvariant, PTL DEF Spec
================================================================================
