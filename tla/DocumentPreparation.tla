-------------------------- MODULE DocumentPreparation --------------------------
(***************************************************************************)
(* What happens to a document before it is uploaded                         *)
(* (rust/integrations/src/document_preparation.rs, pptx.rs, pdf.rs,         *)
(* process.rs, document_files.rs): a presentation is converted to a PDF, a  *)
(* PDF is copied, looked at and cut into chunks.                            *)
(*                                                                          *)
(* The work is done by programs (LibreOffice, qpdf), each in a process      *)
(* group of its own, and by blocking threads, in temporary directories.     *)
(* The caller may be dropped at any wait: a thread goes on without it.      *)
(***************************************************************************)
EXTENDS PdfChunks, FiniteSets

CONSTANT
  Threshold    (* pages a PDF may have without being cut                    *)

ASSUME PreparationAssumption == Threshold \in Nat

VARIABLES
  prep,      (* the preparation                                             *)
  group,     (* the processes of the program that runs                      *)
  thread,    (* the blocking thread that is awaited, and those that are not *)
  dirs       (* temporary directories                                       *)

prepVars == <<plan, prep, group, thread, dirs>>

(* A source is of a kind, and has pages and bookmarks: the page a bookmark   *)
(* leads to is counted from 1, and 0 stands for none.                       *)
Source == [kind : {"pdf", "pptx"}, total : Nat, outlines : Seq([page : Nat, title : STRING])]

NoSource == [kind |-> "none", total |-> 0, outlines |-> << >>]

NoPrep  == [pc |-> "idle", source |-> NoSource, files |-> << >>, unfinished |-> FALSE]
NoGroup == [alive |-> {}, pipes |-> {}, status |-> "none"]
NoThread == [busy |-> "none", alone |-> {}]

PrepInit ==
  /\ plan = NoPlan /\ prep = NoPrep /\ group = NoGroup
  /\ thread = NoThread /\ dirs = {}

At(pc) == prep.pc = pc
Go(pc) == prep' = [prep EXCEPT !.pc = pc]

Starts(work) == thread' = [thread EXCEPT !.busy = work]
Leaves == thread' = [busy |-> "none", alone |-> thread.alone \cup ({thread.busy} \ {"none"})]

(* prepare                                                                  *)
Prepare(source) ==
  LET presentation == source.kind = "pptx" IN
  /\ At("idle")
  /\ prep' = [NoPrep EXCEPT !.pc = IF presentation THEN "staging" ELSE "copying",
                            !.source = source]
  /\ Starts(IF presentation THEN "stage" ELSE "copy")
  /\ dirs' = dirs \cup IF presentation THEN {"presentation"} ELSE {}
  /\ UNCHANGED <<plan, group>>

(* What a preparation holds goes with it: every TempDir is dropped.         *)
Fails == prep' = [NoPrep EXCEPT !.pc = "over"] /\ plan' = NoPlan /\ dirs' = {}

--------------------------------------------------------------------------------
(* Blocking threads.                                                        *)

Busy(work) == thread.busy = work

(* Nobody takes the directory it made: it is removed, with what is in it.   *)
ThreadEndsAlone ==
  /\ \E work \in thread.alone :
       /\ thread' = [thread EXCEPT !.alone = @ \ {work}]
       /\ dirs' = dirs \ IF work = "publish" THEN {"conversion"} ELSE {}
  /\ UNCHANGED <<plan, prep, group>>

(* A source that is no regular file, empty, too large, of another kind, or  *)
(* that changes while it is copied.                                         *)
ThreadFails ==
  /\ ~ Busy("none")
  /\ Starts("none") /\ Fails
  /\ UNCHANGED group

(* prepare (pptx.rs): the copy is in a directory beside the output.         *)
Staged ==
  /\ Busy("stage")
  /\ Starts("none") /\ dirs' = dirs \cup {"conversion"}
  /\ Go("convert") /\ UNCHANGED <<plan, group>>

(* publish, then the PDF is prepared like any other.                        *)
Published ==
  /\ Busy("publish")
  /\ Starts("copy") /\ dirs' = dirs \ {"conversion"}
  /\ Go("copying") /\ UNCHANGED <<plan, group>>

(* snapshot                                                                 *)
Copied ==
  /\ Busy("copy")
  /\ Starts("none") /\ dirs' = dirs \cup {"pdf"}
  /\ Go("describe") /\ UNCHANGED <<plan, group>>

--------------------------------------------------------------------------------
(* run_bounded: a program runs in a group, its output is read to the end    *)
(* and its leader waited for.                                               *)

Running == {"convert", "check", "describe", "write"}

Spawn ==
  /\ prep.pc \in Running /\ group = NoGroup
  /\ group' = [alive |-> {"leader"}, pipes |-> {"leader"}, status |-> "none"]
  /\ UNCHANGED <<plan, prep, thread, dirs>>

(* External: the program starts another, which may have closed its output,  *)
(* and either may end.                                                      *)
Fork ==
  /\ At("convert") /\ group.alive = {"leader"} /\ group.status = "none"
  /\ \E kept \in {{}, {"helper"}} :
       group' = [group EXCEPT !.alive = @ \cup {"helper"}, !.pipes = @ \cup kept]
  /\ UNCHANGED <<plan, prep, thread, dirs>>

Exits(m) ==
  /\ m \in group.alive
  /\ \E status \in IF m = "leader" THEN {"success", "warnings", "error"} ELSE {group.status} :
       group' = [alive |-> group.alive \ {m}, pipes |-> group.pipes \ {m}, status |-> status]
  /\ UNCHANGED <<plan, prep, thread, dirs>>

(* Slip: only the process that was started is killed.                       *)
KilledLeader ==
  group' = IF group.alive \subseteq {"leader"} THEN NoGroup
           ELSE [group EXCEPT !.alive = @ \ {"leader"}]

(* kill_group                                                               *)
Killed == group' = NoGroup

Finished == group.status # "none" /\ group.pipes = {}

(* qpdf may end with warnings where a PDF is looked at or written.          *)
Accepted == {"success"} \cup IF prep.pc \in {"describe", "write"} THEN {"warnings"} ELSE {}

(* Too much output, a time limit, a status that is not accepted, a result   *)
(* that is not the one expected.                                            *)
RunFails ==
  /\ prep.pc \in Running
  /\ Killed /\ Fails
  /\ UNCHANGED thread

Succeeds(pc) == At(pc) /\ Finished /\ group.status \in Accepted /\ Killed

Converted == Succeeds("convert") /\ Go("check") /\ UNCHANGED <<plan, thread, dirs>>

Checked == Succeeds("check") /\ Go("publishing") /\ Starts("publish") /\ UNCHANGED <<plan, dirs>>

--------------------------------------------------------------------------------
(* A chapter goes to the page of the next bookmark, or to the end.          *)
Chapter(outlines, total, i) ==
  LET HasPage(j) == outlines[j].page \in 1 .. total IN
  [from  |-> IF HasPage(i) THEN outlines[i].page - 1 ELSE total,
   to    |-> IF i < Len(outlines) /\ HasPage(i + 1) THEN outlines[i + 1].page - 1 ELSE total,
   title |-> outlines[i].title]

(* PdfStructure::chapters: those that have pages.                           *)
ChaptersUpTo(outlines, total) ==
  LET upTo[i \in 0 .. Len(outlines)] ==
        IF i = 0 THEN << >>
        ELSE LET chapter == Chapter(outlines, total, i) IN
             IF chapter.from < chapter.to THEN Append(upTo[i - 1], chapter) ELSE upTo[i - 1]
  IN upTo

Chapters(outlines, total) == ChaptersUpTo(outlines, total)[Len(outlines)]

(* A PDF that is short enough is one file; `retain` is FALSE.               *)
Described ==
  LET source == prep.source IN
  /\ Succeeds("describe")
  /\ IF source.total <= Threshold
     THEN /\ prep' = [prep EXCEPT !.pc = "ready", !.files = << Pages(0, source.total) >>]
          /\ dirs' = {"pdf"} /\ UNCHANGED plan
     ELSE /\ Go("planning") /\ UNCHANGED dirs
          /\ BeginPlan(source.total, Chapters(source.outlines, source.total), FALSE)
  /\ UNCHANGED thread

Plans == At("planning") /\ PushChapter /\ UNCHANGED <<prep, group, thread, dirs>>

(* Files written so far; the PreparedPdf keeps its directory only.          *)
Writes(files) ==
  IF Len(files) = Len(Chunks)
  THEN prep' = [prep EXCEPT !.pc = "ready", !.files = files] /\ dirs' = {"pdf"}
  ELSE prep' = [prep EXCEPT !.pc = "write", !.files = files] /\ UNCHANGED dirs

BeginWriting ==
  /\ At("planning") /\ Planned
  /\ Writes(<< >>) /\ UNCHANGED <<plan, group, thread>>

(* write_chunk                                                              *)
Written ==
  /\ Succeeds("write")
  /\ Writes(Append(prep.files, Chunks[Len(prep.files) + 1].pages))
  /\ UNCHANGED <<plan, thread>>

--------------------------------------------------------------------------------
(* PdfProcessor::prepare: ten minutes for everything but the conversion.    *)
TimesOut ==
  /\ prep.pc \in {"copying", "describe", "write"}
  /\ Killed /\ Fails /\ Leaves

(* The caller is dropped at a wait: the group is killed, and the directories *)
(* removed.  The presentation's may stay when a thread puts a file there    *)
(* meanwhile; a thread that publishes holds the one of the conversion.      *)
Dropped ==
  /\ prep.pc \notin {"idle", "planning", "ready", "over"}
  /\ Killed
  /\ \E stays \in IF thread.busy \in {"stage", "publish"} THEN {{}, {"presentation"}} ELSE {{}} :
       dirs' = stays \cup IF Busy("publish") THEN {"conversion"} ELSE {}
  /\ prep' = [NoPrep EXCEPT !.pc = "over", !.unfinished = thread.busy \in {"stage", "publish"}]
  /\ plan' = NoPlan
  /\ Leaves

(* The PreparedPdf is dropped.                                              *)
Discard == prep' = NoPrep /\ dirs' = {}

PrepStep ==
  \/ ThreadEndsAlone \/ ThreadFails \/ Staged \/ Published \/ Copied
  \/ Spawn \/ Fork \/ (\E m \in group.alive : Exits(m)) \/ RunFails \/ TimesOut
  \/ Converted \/ Checked \/ Described \/ Plans \/ BeginWriting \/ Written

--------------------------------------------------------------------------------
(* Once a preparation has ended, no program runs, and only the directory of *)
(* its result is left; a directory may stay behind only when the caller was *)
(* dropped while a thread worked there (run_bounded, ManagedChild, TempDir). *)
NothingLeftBehind ==
  /\ prep.pc \notin Running => group.alive = {}
  /\ At("ready") => dirs = {"pdf"}
  /\ At("over") /\ thread = NoThread =>
       dirs \subseteq IF prep.unfinished THEN {"presentation"} ELSE {}

PagesOf(files) == UNION {{files[i][j] : j \in DOMAIN files[i]} : i \in DOMAIN files}

(* Each page is in a file, unless it comes before the first chapter or is   *)
(* in a chapter whose title is skipped.                                     *)
PagesCovered ==
  \A p \in 0 .. prep.source.total - 1 :
    \/ p \in PagesOf(prep.files)
    \/ plan.chapters # << >> /\ \A i \in DOMAIN plan.chapters :
         LET chapter == plan.chapters[i] IN
         p \in chapter.from .. chapter.to - 1 => chapter.title \in SkipTitle

(* Of a PDF that is cut, a file is longer than a chunk only for a chapter   *)
(* that is; the pieces of one size advance.                                 *)
ChunksFit ==
  prep.source.total > Threshold => \A i \in DOMAIN prep.files :
    /\ \/ Len(prep.files[i]) <= Size
       \/ \E j \in DOMAIN plan.chapters :
            Len(prep.files[i]) <= plan.chapters[j].to - plan.chapters[j].from
    /\ plan.chapters = << >> /\ i > 1 =>
         /\ prep.files[i][1] = prep.files[i - 1][1] + Size - Overlap
         /\ prep.files[i][Len(prep.files[i])] > prep.files[i - 1][Len(prep.files[i - 1])]

(* What is uploaded is the whole document (PdfChunkPlanner, PdfProcessor).  *)
PreparedWhole == At("ready") => PagesCovered /\ ChunksFit
================================================================================
