--------------------------- MODULE DocumentGeneration --------------------------
(***************************************************************************)
(* Generating the decks of a batch of documents: chunks, attempts, one     *)
(* temporary notebook per attempt, what is exported and reported of each   *)
(* document, and the clean-up when the batch ends or is dropped at an      *)
(* await (rust/services/src/generation.rs, prepared_generation.rs,         *)
(* document_export.rs, and the end of a job in companion_worker.rs).       *)
(*                                                                         *)
(* The caller is one future: each of its steps goes from an await to the   *)
(* next.  Dropping it is possible at every await.                          *)
(***************************************************************************)
EXTENDS NotebookCleanup, Integers, Sequences

CONSTANTS
  MaxChunks,      (* bound: chunks each document may be prepared into       *)
  MaxRetries,     (* further attempts at a chunk after the first            *)
  NoNotebook

ASSUME GenerationAssumption ==
  /\ MaxChunks \in Seq(Nat \ {0}) /\ MaxChunks # << >>    \* an empty batch ends at once
  /\ MaxRetries \in Nat
  /\ MaxInterrupts \in Nat
  /\ NoNotebook \notin Notebook

VARIABLES
  run,            (* the future of generate_batch_csv                       *)
  report          (* what has been recorded of each document                *)

vars == <<remote, holder, registry, drain, run, report>>

Documents == Len(MaxChunks)

Doc   == 1 .. Documents
Chunk == UNION {1 .. MaxChunks[d] : d \in Doc}
Whole == 0                 \* the deck of the document, beside those of chunks

Title == {NoTitle} \cup (Doc \X Chunk)

(* How far the current document has come: its chunks done, their cards,     *)
(* the failed close() calls of these, the decks that were exported and      *)
(* whether one could not be.                                                *)
NoProgress == [total |-> 0, chunk |-> 1, attempt |-> 0, cards |-> {},
               dirty |-> 0, decks |-> {}, lost |-> FALSE]

(* `error` is why a document failed to generate; `issues` and `lost` are    *)
(* the clean-up failures and the failed exports reported with it.           *)
NotReported == [outcome |-> "none", error |-> "none", issues |-> 0,
                decks |-> {}, lost |-> FALSE]

GenerationInit ==
  /\ CleanupInit
  /\ run = [pc |-> "prepare", doc |-> 1, notebook |-> NoNotebook,
            result |-> "none", progress |-> NoProgress]
  /\ report = [d \in Doc |-> NotReported]

OnlyRun == UNCHANGED <<report, cleanupVars>>
At(pc)  == run.pc = pc

--------------------------------------------------------------------------------
(* The report of a document and the step to the next one.                   *)
Reported(outcome, error, p) ==
  /\ report' = [report EXCEPT ![run.doc] =
       [outcome |-> outcome, error |-> error, issues |-> p.dirty,
        decks |-> p.decks, lost |-> p.lost]]
  /\ run' = [run EXCEPT !.pc = IF run.doc = Documents THEN "cleanup" ELSE "prepare",
                        !.doc = IF run.doc = Documents THEN run.doc ELSE run.doc + 1,
                        !.notebook = NoNotebook, !.result = "none",
                        !.progress = NoProgress]

(* record_failure: the clean-up failures of the chunks that were completed, *)
(* and the one of the attempt that failed.                                  *)
DocumentFails(error, dirty) ==
  Reported("failed", error, [run.progress EXCEPT !.dirty = @ + dirty])

Prepare ==
  /\ At("prepare")
  /\ UNCHANGED cleanupVars
  /\ \/ DocumentFails("preparation", 0)
     \/ Reported("skipped", "none", NoProgress)             \* no files
     \/ \E total \in 1 .. MaxChunks[run.doc] :
          /\ run' = [run EXCEPT !.pc = "ask", !.progress.total = total]
          /\ UNCHANGED report

--------------------------------------------------------------------------------
(* One attempt (generate_named_document).                                   *)

Ask ==
  /\ At("ask")
  /\ \E n \in Notebook : Fresh(n)
  /\ LET n == NextNotebook IN
       /\ AskNotebook(n, <<run.doc, run.progress.chunk>>)
       /\ run' = [run EXCEPT !.pc = "create", !.notebook = n]
  /\ UNCHANGED report

Created ==
  /\ At("create")
  /\ TakeNotebook(run.notebook)
  /\ run' = [run EXCEPT !.pc = "register"]
  /\ UNCHANGED report

(* A creation error ends the document: it is not of the kind retried.       *)
CreationFailed ==
  /\ At("create")
  /\ TakeRefusal(run.notebook)
  /\ DocumentFails("creation", 0)

Fails(pc, result) == run' = [run EXCEPT !.pc = pc, !.result = result]

(* upload_file: a failure before the source is registered needs no clean-up *)
(* of its own; one during the transfer does.                                *)
Register ==
  /\ At("register")
  /\ \/ run' = [run EXCEPT !.pc = "transfer"]
     \/ \E result \in {"transient", "permanent"} : Fails("close", result)
  /\ OnlyRun

Transfer ==
  /\ At("transfer")
  /\ \/ run' = [run EXCEPT !.pc = "generate"]
     \/ \E result \in {"transient", "permanent"} : Fails("unload", result)
  /\ OnlyRun

(* UploadCleanup::run; an unconfirmed one makes the error a permanent one.  *)
Unload ==
  /\ At("unload")
  /\ \E result \in {run.result, "permanent"} : Fails("close", result)
  /\ OnlyRun

(* Waiting for the source, generating, waiting, downloading.                *)
Generate ==
  /\ At("generate")
  /\ \E result \in {"cards", "empty", "transient", "permanent"} : Fails("close", result)
  /\ OnlyRun

--------------------------------------------------------------------------------
(* close(), and what the attempt comes to.                                  *)

Succeeded == run.result \in {"cards", "empty"}

(* Slip: a transient error is retried whether the notebook went or not.     *)
RetriesAnyway(confirmed) ==
  /\ run.result = "transient"
  /\ run.progress.total > 1
  /\ run.progress.attempt < MaxRetries

(* generate_chunk retries errors of the provider that are transient; one    *)
(* wrapped with a failed clean-up is not such an error.                     *)
Retries(confirmed) ==
  /\ run.result = "transient"
  /\ confirmed
  /\ run.progress.total > 1
  /\ run.progress.attempt < MaxRetries

(* A completed chunk: `progress` exports its deck unless it has no cards or *)
(* is the only one.                                                         *)
ChunkExported(p, exported) ==
  LET wanted == p.total > 1 /\ run.result = "cards" IN
  [p EXCEPT !.decks = @ \cup IF wanted /\ exported THEN {p.chunk} ELSE {},
            !.lost  = @ \/ (wanted /\ ~ exported),
            !.cards = @ \cup IF run.result = "cards" THEN {p.chunk} ELSE {}]

(* The deck of the whole document: none without cards, and several chunks   *)
(* may have all their cards filtered out.                                   *)
DeckEmpty(p) == IF p.cards = {} THEN {TRUE} ELSE {FALSE, p.total > 1}

WholeExported(p, exported) ==
  [p EXCEPT !.decks = @ \cup IF exported THEN {Whole} ELSE {},
            !.lost  = @ \/ ~ exported]

(* Any failed export, of the whole deck or of a chunk, fails the document.  *)
FinalOutcome(p) == IF p.lost THEN "failed" ELSE "completed"

DocumentDone(p) ==
  \/ /\ TRUE \in DeckEmpty(p)
     /\ Reported("failed", "no cards", p)
  \/ /\ FALSE \in DeckEmpty(p)
     /\ \E exported \in BOOLEAN :
          LET whole == WholeExported(p, exported) IN
          Reported(FinalOutcome(whole), "none", whole)

ChunkDone(dirty) ==
  \E exported \in BOOLEAN :
    LET p == [ChunkExported(run.progress, exported) EXCEPT !.dirty = @ + dirty] IN
    IF p.chunk < p.total
    THEN /\ run' = [run EXCEPT !.pc = "pause", !.notebook = NoNotebook, !.result = "none",
                               !.progress = [p EXCEPT !.chunk = @ + 1, !.attempt = 0]]
         /\ UNCHANGED report
    ELSE DocumentDone(p)

TryAgain ==
  run' = [run EXCEPT !.pc = "pause", !.notebook = NoNotebook, !.result = "none",
                     !.progress.attempt = @ + 1]

Closed(confirmed) ==
  LET dirty == IF confirmed THEN 0 ELSE 1 IN
  \/ Succeeded /\ ChunkDone(dirty)
  \/ ~ Succeeded /\ Retries(confirmed) /\ TryAgain /\ UNCHANGED report
  \/ ~ Succeeded /\ ~ Retries(confirmed) /\ DocumentFails("generation", dirty)

CloseScope ==
  /\ At("close")
  /\ \/ CloseConfirmed(run.notebook) /\ Closed(TRUE)
     \/ CloseFails(run.notebook) /\ Closed(FALSE)

(* Waiting before the next attempt or the next chunk.                       *)
Pause ==
  /\ At("pause")
  /\ run' = [run EXCEPT !.pc = "ask"]
  /\ OnlyRun

RunStep ==
  \/ Prepare \/ Ask \/ Created \/ CreationFailed \/ Register \/ Transfer
  \/ Unload \/ Generate \/ CloseScope \/ Pause

--------------------------------------------------------------------------------
(* The future is dropped: the worker was told to stop.                      *)
Drop ==
  /\ run.pc \in {"prepare", "create", "register", "transfer", "unload",
                 "generate", "close", "pause"}
  /\ IF run.notebook = NoNotebook THEN UNCHANGED cleanupVars
     ELSE CallerDropped(run.notebook, At("transfer") \/ At("unload"), At("close"))
  /\ run' = [run EXCEPT !.pc = "cleanup", !.notebook = NoNotebook, !.result = "dropped"]
  /\ UNCHANGED report

(* Generated or dropped, the worker then waits for finish_cleanup.          *)
FinishCleanup ==
  /\ At("cleanup")
  /\ DrainStart
  /\ UNCHANGED <<run, report>>

Tasks ==
  /\ \/ \E n \in Notebook : TaskStep(n)
     \/ DrainStep
     \/ DrainLate
     \/ DrainDropped
  /\ UNCHANGED <<run, report>>

Ended ==
  /\ Drained
  /\ UNCHANGED vars

GenerationNext == RunStep \/ Drop \/ FinishCleanup \/ Tasks \/ Ended

(* Every wait has a time limit: requests of the client, the deletions, the  *)
(* drain as a whole; and the runtime polls what is ready.                   *)
GenerationFairness ==
  /\ WF_vars(RunStep)
  /\ WF_vars(FinishCleanup)
  /\ \A n \in Notebook : WF_vars(TaskStep(n) /\ UNCHANGED <<run, report>>)
  /\ WF_vars(DrainStep /\ UNCHANGED <<run, report>>)

GenerationSpec == GenerationInit /\ [][GenerationNext]_vars /\ GenerationFairness

--------------------------------------------------------------------------------
(* Type invariant of the client, the generating future and the reports.     *)
TypeOK ==
  /\ remote \in [Notebook -> [state : NotebookState, title : Title]]
  /\ holder \in [Notebook -> {"nobody", "asked", "sent", "refused", "scope"}]
  /\ registry \in [running : SUBSET Task, failed : BOOLEAN]
  /\ drain \in [pc : {"idle", "take", "await", "clean", "unconfirmed"},
                tasks : [running : SUBSET Task, failed : BOOLEAN],
                late : BOOLEAN, interrupts : 0 .. MaxInterrupts]
  /\ run \in [pc : {"prepare", "ask", "create", "register", "transfer", "unload",
                    "generate", "close", "pause", "cleanup"},
              doc : Doc, notebook : Notebook \cup {NoNotebook},
              result : {"none", "cards", "empty", "transient", "permanent", "dropped"},
              progress : [total : {0} \cup Chunk, chunk : Chunk,
                          attempt : 0 .. MaxRetries, cards : SUBSET Chunk,
                          dirty : {0} \cup Chunk, decks : SUBSET Chunk,
                          lost : BOOLEAN]]
  /\ report \in [Doc -> [outcome : {"none", "completed", "skipped", "failed"},
                         error : {"none", "preparation", "creation", "generation",
                                  "no cards"},
                         issues : {0} \cup Chunk,
                         decks : SUBSET (Chunk \cup {Whole}), lost : BOOLEAN]]

Exists(n) == remote[n].state \in {"requested", "alive", "stray", "lost"}

(* A chunk never has two notebooks at the provider, whatever attempts were  *)
(* made, answers lost and deletions failed: an attempt is repeated only     *)
(* when the notebook of the last one is known to be gone.                   *)
NoTwins ==
  \A n1, n2 \in Notebook :
    Exists(n1) /\ Exists(n2) /\ n1 # n2 => remote[n1].title # remote[n2].title

(* No notebook is abandoned: as long as the client knows of it, or may come *)
(* to know, somebody has it in hand, a task that will be awaited creates or *)
(* deletes it, or the failure to delete it is kept for the final answer.    *)
NoneAbandoned ==
  \A n \in Notebook :
    /\ remote[n].state = "requested" => Running(<<"create", n>>)
    /\ remote[n].state = "alive" =>
         holder[n] \in {"sent", "scope"} \/ Running(<<"delete", n>>)
    /\ remote[n].state = "stray" =>
         registry.failed \/ drain.tasks.failed

(* When finish_cleanup says the clean-up is complete, no notebook whose     *)
(* creation was answered is left at the provider.                           *)
CleanIsClean ==
  drain.pc = "clean" =>
    \A n \in Notebook : remote[n].state \in {"none", "lost"}

(* A document reported without a clean-up issue left no notebook behind,    *)
(* except one whose creation was never answered.                            *)
QuietIsClean ==
  \A d \in Doc :
    report[d].outcome # "none" /\ report[d].issues = 0 =>
      \A n \in Notebook :
        remote[n].title[1] = d => remote[n].state \in {"none", "lost"}

(* A document reported as completed has its whole deck, and no deck of a    *)
(* chunk failed to be written on the way there.                             *)
CompletedIsWhole ==
  \A d \in Doc :
    report[d].outcome = "completed" =>
      /\ Whole \in report[d].decks
      /\ ~ report[d].lost
      /\ report[d].error = "none"

(* What a user is told is true: of the clean-up, of each document's issues, *)
(* and of its decks (finish_cleanup, document_export.rs).                   *)
ReportsAreTrue == TypeOK /\ CleanIsClean /\ QuietIsClean /\ CompletedIsWhole

(* Generated, failed or dropped: the batch ends with an answer about its    *)
(* notebooks, however long the provider takes.                              *)
CleanupEnds == <>[] Drained

(* A notebook the client knows of does not stay for long: it is deleted, or *)
(* the attempt to delete it has failed.                                     *)
KnownOnesGo ==
  \A n \in Notebook : (remote[n].state = "alive") ~> (remote[n].state \in {"none", "stray"})

(* Nothing of a batch stays behind for ever: no notebook, and no question   *)
(* about one (temporary.rs, finish_cleanup).                                *)
NotebooksGo == KnownOnesGo /\ CleanupEnds
================================================================================
