------------------------------- MODULE PdfChunks -------------------------------
(***************************************************************************)
(* How a long PDF is cut into chunks                                        *)
(* (rust/engines/src/pdf_chunks.rs): along its chapters, or in pieces of    *)
(* one size.  Pages are counted from 0; a chunk is the sequence of the      *)
(* pages it takes.  A step is one chapter.                                  *)
(***************************************************************************)
EXTENDS Naturals, Sequences

CONSTANTS
  Size,        (* pages of a chunk                                          *)
  Overlap,     (* pages it shares with the one before                       *)
  SkipTitle    (* titles of no use to a reader: SKIP_TITLES                 *)

(* PdfChunkPlanner::new                                                     *)
ASSUME PlannerAssumption == Size \in Nat \ {0} /\ Overlap \in 0 .. Size - 1

VARIABLE plan

Least(a, b)    == IF a < b THEN a ELSE b
Greatest(a, b) == IF a > b THEN a ELSE b
Less(a, b)     == IF a > b THEN a - b ELSE 0     \* saturating_sub

(* The pages from .. to - 1.                                                *)
Pages(from, to) == [i \in 1 .. Less(to, from) |-> from + i - 1]

NoChunk == [pages |-> << >>, titles |-> {}]
NoPlan  == [total |-> 0, chapters |-> << >>, next |-> 1, chunks |-> << >>,
            current |-> NoChunk, relevant |-> FALSE, count |-> 0, end |-> 0,
            retain |-> FALSE]

(* Slip: the last pages are for the chunk that is not begun.                *)
FewerChunks(total) == Least(Greatest(1, Less(total, Overlap) \div (Size - Overlap)), total)

FixedCount(total) ==
  LET stride == Size - Overlap IN
  Least(Greatest(1, (Less(total, Overlap) + stride - 1) \div stride), total)

FixedChunks(total) ==
  [i \in 1 .. FixedCount(total) |->
    LET start == (i - 1) * (Size - Overlap) IN
    [pages |-> Pages(start, Least(start + Size, total)), titles |-> {}]]

(* ChapterPlan::new: the pages before the first chapter go with it.         *)
NewPlan(total, chapters, retain) ==
  LET prefix == Least(chapters[1].from, total) IN
  [NoPlan EXCEPT !.total = total, !.chapters = chapters, !.retain = retain,
                 !.current.pages = Pages(0, prefix), !.count = prefix, !.end = prefix]

BeginPlan(total, chapters, retain) ==
  plan' = IF chapters = << >>
          THEN [NoPlan EXCEPT !.total = total, !.chunks = FixedChunks(total)]
          ELSE NewPlan(total, chapters, retain)

Completed == IF plan.relevant THEN Append(plan.chunks, plan.current) ELSE plan.chunks

RolledOver(start) ==
  LET retained == plan.relevant /\ plan.retain
      from == Less(plan.end, Overlap)
  IN [plan EXCEPT
       !.chunks = Completed,
       !.current = [NoChunk EXCEPT !.pages = IF retained THEN Pages(from, plan.end) ELSE @],
       !.relevant = FALSE,
       !.count = IF retained THEN plan.end - from ELSE 0,
       !.end = IF retained THEN @ ELSE start]

Full(pages) == plan.count > 0 /\ plan.count + pages > Size

Relevant(chunk, title) == chunk.relevant \/ title \notin SkipTitle

PushChapter ==
  /\ plan.next <= Len(plan.chapters)
  /\ LET chapter == plan.chapters[plan.next]
         start == Least(chapter.from, plan.total)
         stop == Least(Greatest(chapter.to, start), plan.total)
         base == IF Full(stop - start) THEN RolledOver(start) ELSE plan
     IN plan' = [base EXCEPT
          !.next = @ + 1,
          !.current.pages = @ \o Pages(start, stop),
          !.current.titles = @ \cup {chapter.title},
          !.relevant = Relevant(base, chapter.title),
          !.count = @ + (stop - start),
          !.end = Greatest(@, stop)]

Planned == plan.next > Len(plan.chapters)

(* The last chunk is pushed if it is of use.                                *)
Chunks == IF plan.chapters = << >> THEN plan.chunks ELSE Completed
================================================================================
