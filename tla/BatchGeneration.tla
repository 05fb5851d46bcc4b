---------------------------- MODULE BatchGeneration ----------------------------
(***************************************************************************)
(* A batch of documents generated by the Python use case: attempts at      *)
(* chunks, their notebooks, cancellation and what is reported              *)
(* (src/flashcards_generator/services/use_cases.py and generation_*.py,    *)
(* integrations/notebooklm/gateway.py and process_runner.py).              *)
(*                                                                         *)
(* Every request to NotebookLM is a command in a process of its own: the   *)
(* token is checked, the process started, and its stopper registered with  *)
(* the token, each a step another thread may cancel before.  A command is  *)
(* refused when the check sees the cancellation, stopped when the token    *)
(* does, and its answer is dropped when the run is cancelled before the    *)
(* answer is looked at.  Deletions are not checked and their answers not   *)
(* dropped.  Saved chunks: ChunkResume.                                    *)
(***************************************************************************)
EXTENDS Integers, Sequences, FiniteSets

CONSTANTS
  ChunksOf,     (* number of chunks of each document; 0: it is not split    *)
  MaxAttempts,  (* attempts at a chunk                                      *)
  Failures,     (* what may go wrong with a command                         *)
  MayCancel,    (* whether somebody may cancel the run                      *)
  NoNotebook

ASSUME BatchAssumption ==
  /\ ChunksOf \in Seq(Nat)
  /\ MaxAttempts \in Nat \ {0}
  /\ Failures \subseteq {"fails", "transient", "deadline"}
  /\ MayCancel \in BOOLEAN

Document == 1 .. Len(ChunksOf)
IsSplit(d) == ChunksOf[d] > 0

(* A document that is not split is one part, and attempted once.            *)
PartsIn(d)    == IF IsSplit(d) THEN ChunksOf[d] ELSE 1
AttemptsIn(d) == IF IsSplit(d) THEN MaxAttempts ELSE 1

(* Notebooks are told apart by the attempt they are created for.            *)
AttemptsAt(d) == [doc : {d}, part : 1 .. PartsIn(d), attempt : 1 .. AttemptsIn(d)]
Notebook      == UNION {AttemptsAt(d) : d \in Document}

ASSUME NotebookAssumption == NoNotebook \notin Notebook

VARIABLES
  task,         (* document, chunk and attempt that are worked on           *)
  step,         (* next command, or what is done between commands           *)
  command,      (* the process of the current command                       *)
  tries,        (* commands of the current generation or download           *)
  notebook,     (* chunk_notebook_id, notebook_id                           *)
  verdict,      (* how the attempt ends                                     *)
  tracked,      (* _created_notebooks                                       *)
  known,        (* notebooks whose identifier has arrived                   *)
  asked,        (* number of deletions that were started for each           *)
  decks,        (* chunk_decks: the parts that have their cards             *)
  report,       (* what is published of each document                       *)
  ended,        (* how execute ends                                         *)
  cancelled,    (* the token                                                *)
  exists        (* external: notebooks at the provider                      *)

place     == <<task, step, tries, notebook, verdict>>
books     == <<tracked, known, asked, decks>>
outcome   == <<report, ended>>
world     == <<cancelled, exists>>
batchVars == <<place, command, books, outcome, world>>

Op == {"create", "add", "wait_source", "generate", "wait_artifact",
       "download", "delete", "cleanup"}

(* doomed: the canceller has taken its stopper, and is about to call it.    *)
NoCommand == [pc |-> "none", did |-> FALSE, killed |-> FALSE, doomed |-> FALSE]
FirstTask(d) == [doc |-> d, part |-> 1, attempt |-> 1]

BatchInit ==
  /\ task = FirstTask(1)
  /\ step = "source"
  /\ command = NoCommand
  /\ tries = 1
  /\ notebook = NoNotebook
  /\ verdict = "none"
  /\ tracked = {} /\ known = {} /\ decks = {}
  /\ asked = [n \in Notebook |-> 0]
  /\ report = [d \in Document |-> "waiting"]
  /\ ended = "no"
  /\ cancelled = FALSE
  /\ exists = {}

--------------------------------------------------------------------------------
(* Where the run goes next.                                                 *)

(* execute ends, with what its finally does.                                *)
EndBatch(how) ==
  /\ ended' = how
  /\ step' = "cleaning"
  /\ UNCHANGED <<task, tries, notebook, verdict, report>>

Publish(state) ==
  /\ report' = [report EXCEPT ![task.doc] = state]
  /\ task' = FirstTask(task.doc + 1)
  /\ step' = "source"
  /\ UNCHANGED <<tries, notebook, verdict, ended>>

Attempt(t) ==
  /\ task' = t
  /\ step' = "create"
  /\ notebook' = NoNotebook /\ verdict' = "none" /\ tries' = 1
  /\ UNCHANGED outcome

EndAttempt(how) ==
  /\ verdict' = how
  /\ step' = "finally"
  /\ UNCHANGED <<task, tries, notebook, outcome>>

Go(next) ==
  /\ step' = next
  /\ tries' = 1
  /\ UNCHANGED <<task, notebook, verdict, outcome>>

--------------------------------------------------------------------------------
(* A command: refused, or checked, started and registered, acting at the    *)
(* provider meanwhile, then answered.                                       *)

Deleting == step \in {"delete", "cleanup"}

(* Slip: a cancelled run starts its next command.                           *)
NeverRefused == FALSE

Refused == cancelled /\ ~ Deleting

Refuse ==
  /\ step \in Op /\ command.pc = "none"
  /\ Refused
  /\ EndAttempt("cancel")
  /\ UNCHANGED <<command, books, world>>

Check ==
  /\ step \in Op /\ command.pc = "none"
  /\ ~ Refused
  /\ command' = [command EXCEPT !.pc = "checked"]
  /\ UNCHANGED <<place, books, outcome, world>>

(* Popen, whatever became of the token.  A program that cannot be started   *)
(* is handled as one that meets its deadline.                               *)
Start ==
  /\ command.pc = "checked"
  /\ command' = [command EXCEPT !.pc = "spawned"]
  /\ asked' = IF Deleting THEN [asked EXCEPT ![notebook] = @ + 1] ELSE asked
  /\ UNCHANGED <<place, tracked, known, decks, outcome, world>>

(* Slip: a token that is cancelled takes the stopper, and never calls it.   *)
RegisterAnyway ==
  /\ command.pc = "spawned"
  /\ command' = [command EXCEPT !.pc = "running"]
  /\ UNCHANGED <<place, books, outcome, world>>

(* A token that is cancelled has the stopper called at once.                *)
Register ==
  /\ command.pc = "spawned"
  /\ command' = [command EXCEPT !.pc = "running", !.killed = cancelled]
  /\ UNCHANGED <<place, books, outcome, world>>

Acts ==
  /\ command.pc \in {"spawned", "running"} /\ ~ command.did
  /\ step = "create" \/ Deleting
  /\ command' = [command EXCEPT !.did = TRUE]
  /\ exists' = IF Deleting THEN exists \ {notebook} ELSE exists \cup {task}
  /\ UNCHANGED <<place, books, outcome, cancelled>>

(* CancellationToken.cancel, by another thread: the token is set and its    *)
(* stoppers are taken under the lock,                                       *)
Cancel ==
  /\ MayCancel /\ ~ cancelled
  /\ step # "done"
  /\ cancelled' = TRUE
  /\ command' = [command EXCEPT !.doomed = command.pc = "running"]
  /\ UNCHANGED <<place, books, outcome, exists>>

(* and called after it.                                                     *)
CallStopper ==
  /\ command.doomed /\ ~ command.killed
  /\ command' = [command EXCEPT !.killed = TRUE]
  /\ UNCHANGED <<place, books, outcome, world>>

(* Every way to answer ends the process.                                    *)
Answered == command.pc = "running" /\ command' = NoCommand /\ UNCHANGED world

Dropped == cancelled /\ ~ Deleting
Drop    == Answered /\ Dropped /\ EndAttempt("cancel") /\ UNCHANGED books

May(failure) == failure \in Failures

CreateOk ==
  /\ step = "create"
  /\ Answered /\ ~ Dropped
  /\ command.did
  /\ notebook' = task
  /\ tracked' = tracked \cup {task}
  /\ known' = known \cup {task}
  /\ step' = "add"
  /\ UNCHANGED <<task, tries, verdict, asked, decks, outcome>>

CreateFails ==
  /\ step = "create"
  /\ Answered
  /\ (May("fails") /\ ~ Dropped) \/ May("deadline")
  /\ EndAttempt("document")
  /\ UNCHANGED books

AddFails ==
  /\ step = "add"
  /\ Answered
  /\ (May("fails") /\ ~ Dropped) \/ May("deadline")
  /\ EndAttempt("retry")
  /\ UNCHANGED books

Following == [add |-> "wait_source", wait_source |-> "generate",
              generate |-> "wait_artifact", wait_artifact |-> "download"]

WorkOk ==
  /\ step \in DOMAIN Following
  /\ Answered /\ ~ Dropped
  /\ Go(Following[step])
  /\ UNCHANGED books

(* The wait says in time that it was in vain, or it is cut short by the     *)
(* deadline of its process, which is no error that anybody catches.         *)
WaitFails ==
  /\ step \in {"wait_source", "wait_artifact"}
  /\ Answered
  /\ \/ May("fails") /\ ~ Dropped /\ EndAttempt("retry")
     \/ May("deadline") /\ EndAttempt("batch")
  /\ UNCHANGED books

Tries == [generate |-> 2, download |-> 3]

(* Slip: the commands are not counted.                                      *)
SameTry == tries

NextTry == tries + 1

TryAgain ==
  /\ step \in DOMAIN Tries
  /\ Answered /\ ~ Dropped
  /\ May("transient")
  /\ tries < Tries[step]
  /\ tries' = NextTry
  /\ UNCHANGED <<task, step, notebook, verdict, books, outcome>>

InVain ==
  \/ ~ Dropped /\ (May("fails") \/ (May("transient") /\ tries = Tries[step]))
  \/ May("deadline")

GenerateFails ==
  /\ step = "generate"
  /\ Answered
  /\ InVain
  /\ EndAttempt("retry")
  /\ UNCHANGED books

DownloadFails ==
  /\ step = "download"
  /\ Answered
  /\ InVain
  /\ EndAttempt("batch")
  /\ UNCHANGED books

(* What was downloaded may turn out not to be a list of cards.              *)
DownloadOk ==
  /\ step = "download"
  /\ Answered /\ ~ Dropped
  /\ \/ /\ EndAttempt("deck")
        /\ decks' = decks \cup {<<task.doc, task.part>>}
     \/ /\ May("fails")
        /\ EndAttempt("stop")
        /\ UNCHANGED decks
  /\ UNCHANGED <<tracked, known, asked>>

(* Slip: a notebook stays on the list when its deletion was asked for.      *)
StillTracked == tracked

Untracked == tracked \ {notebook}

(* delete_notebook returns whether it succeeded, and nobody looks.          *)
Deleted ==
  /\ Deleting
  /\ Answered
  /\ command.did \/ command.killed \/ May("fails") \/ May("deadline")
  /\ tracked' = Untracked
  /\ step' = IF step = "delete" THEN "over" ELSE "cleaning"
  /\ UNCHANGED <<task, tries, notebook, verdict, known, asked, decks, outcome>>

--------------------------------------------------------------------------------
(* Between the commands.                                                    *)

Between(s) == step = s /\ UNCHANGED <<command, world>>

(* A document is skipped when its deck is there, another run has its lock   *)
(* or its path is not safe; it fails when it cannot be read.                *)
NextSource ==
  /\ Between("source")
  /\ IF task.doc \notin Document THEN EndBatch("returned")
     ELSE IF cancelled THEN EndBatch("cancelled")
     ELSE Attempt(task) \/ Publish("skipped") \/ Publish("failed")
  /\ UNCHANGED books

(* A chunk deletes its notebook anyway, a document that is not split only   *)
(* when its deck is there.                                                  *)
DeletesNow ==
  notebook # NoNotebook /\ (IsSplit(task.doc) \/ verdict = "deck")

Finally ==
  /\ Between("finally")
  /\ Go(IF DeletesNow THEN "delete" ELSE "over")
  /\ UNCHANGED books

NextPart == [task EXCEPT !.part = @ + 1, !.attempt = 1]

NextAttempt == [task EXCEPT !.attempt = @ + 1]

MayRetry == verdict = "retry" /\ IsSplit(task.doc) /\ task.attempt < MaxAttempts

(* Slip: a failure is not noted, so the document seems to be skipped.       *)
GiveUpQuietly == Publish("skipped")

GiveUp == Publish("failed")

NextOrCancelled(t) == IF cancelled THEN EndBatch("cancelled") ELSE Attempt(t)

AttemptOver ==
  /\ Between("over")
  /\ \/ verdict = "cancel" /\ EndBatch("cancelled")
     \/ verdict = "batch"  /\ EndBatch("failed")
     \/ verdict = "deck"   /\ IF task.part < ChunksOf[task.doc]
                              THEN NextOrCancelled(NextPart)
                              ELSE Go("export")
     \/ MayRetry /\ NextOrCancelled(NextAttempt)
     \/ verdict \notin {"cancel", "batch", "deck"} /\ ~ MayRetry /\ GiveUp
  /\ UNCHANGED books

(* No chunk may have had any cards; the deck may not be writable, which     *)
(* ends the batch.                                                          *)
ExportDeck ==
  /\ Between("export")
  /\ \/ IsSplit(task.doc) /\ May("fails") /\ Publish("failed")
     \/ IF cancelled THEN EndBatch("cancelled") ELSE Publish("completed")
     \/ May("fails") /\ ~ cancelled /\ EndBatch("failed")
  /\ UNCHANGED books

CleanUp ==
  /\ Between("cleaning")
  /\ \E n \in tracked : notebook' = n
  /\ step' = "cleanup"
  /\ UNCHANGED <<task, tries, verdict, books, outcome>>

Done ==
  /\ Between("cleaning")
  /\ tracked = {}
  /\ Go("done")
  /\ UNCHANGED books

Ended == step = "done" /\ UNCHANGED batchVars

BatchWork ==
  \/ Refuse \/ Check \/ Start \/ Register \/ Acts \/ Drop
  \/ CreateOk \/ CreateFails \/ AddFails \/ WorkOk \/ WaitFails
  \/ TryAgain \/ GenerateFails \/ DownloadFails \/ DownloadOk \/ Deleted
  \/ NextSource \/ Finally \/ AttemptOver \/ ExportDeck \/ CleanUp \/ Done

BatchNext == BatchWork \/ Cancel \/ CallStopper \/ Ended

(* The run goes on, and a process is answered, stopped or timed out.        *)
BatchSpec == BatchInit /\ [][BatchNext]_batchVars /\ WF_batchVars(BatchWork)

--------------------------------------------------------------------------------
(* Properties.                                                              *)

CommandState == [pc : {"none", "checked", "spawned", "running"},
                 did : BOOLEAN, killed : BOOLEAN, doomed : BOOLEAN]

(* Type invariant of the batch.                                             *)
BatchTypeOK ==
  /\ task.doc \in 1 .. Len(ChunksOf) + 1 /\ task.attempt \in 1 .. MaxAttempts
  /\ step \in Op \cup {"source", "finally", "over", "export", "cleaning", "done"}
  /\ command \in CommandState
  /\ tries \in 1 .. 3
  /\ notebook \in Notebook \cup {NoNotebook}
  /\ verdict \in {"none", "deck", "retry", "stop", "document", "batch", "cancel"}
  /\ tracked \subseteq known /\ known \subseteq Notebook
  /\ exists \subseteq Notebook
  /\ asked \in [Notebook -> Nat]
  /\ decks \subseteq Document \X Nat
  /\ report \in [Document -> {"waiting", "completed", "failed", "skipped"}]
  /\ ended \in {"no", "returned", "cancelled", "failed"}
  /\ cancelled \in BOOLEAN

(* However the run ends, the deletion of every notebook it knows of was     *)
(* started exactly once, by the attempt or at the end (_created_notebooks,  *)
(* cleanup_chunk_notebook, delete_completed_notebook, _cleanup_notebooks).  *)
OneDeletionEach ==
  \A n \in known : asked[n] <= 1 /\ (step = "done" => asked[n] = 1)

(* An attempt at a chunk starts only when the deletion of all notebooks of  *)
(* its document was started, so a retry does not pile them up               *)
(* (process_chunk_internal).                                                *)
CleanBeforeAttempt ==
  step = "create" /\ IsSplit(task.doc) => \A n \in tracked : n.doc # task.doc

(* A document reported as skipped has cost nothing: no notebook was made    *)
(* for it (source_progress_state, _last_pdf_had_error).                     *)
SkippedIsUntouched ==
  \A d \in Document : report[d] = "skipped" => \A n \in exists \cup known : n.doc # d

(* A document is completed only with the cards of all its chunks, whichever *)
(* of them were retried or failed (process_chunks, combine_chunk_decks).    *)
CompletedIsWhole ==
  \A d \in Document : report[d] = "completed" =>
    \A p \in 1 .. PartsIn(d) : <<d, p>> \in decks

(* Notebooks of a run are deleted once each, and in time.                   *)
NotebooksDeleted == OneDeletionEach /\ CleanBeforeAttempt

(* The report of a document agrees with what was done for it, on every path *)
(* of failure, retry and cancellation (source_progress_state).              *)
OutcomesAreTrue == BatchTypeOK /\ SkippedIsUntouched /\ CompletedIsWhole

(* A process that is waited for in a cancelled run was stopped, or the      *)
(* canceller is about to stop it.                                           *)
NoneEscapesCancel ==
  cancelled /\ command.pc = "running" => command.killed \/ command.doomed

(* A cancellation may come between the check of a command, its start and    *)
(* its registration.  All the same no process escapes it, and no command    *)
(* but a deletion is begun after it: one that passed its check before may   *)
(* still be started, but whatever it answers, nothing is learnt from it and *)
(* it is the last of its attempt (run_command, CancellationToken).          *)
CancelIsPrompt ==
  /\ []NoneEscapesCancel
  /\ [][cancelled /\ ~ Deleting =>
          /\ command.pc = "none" => command'.pc = "none"
          /\ command.pc # "none" /\ command'.pc = "none"
               => step' = "finally" /\ UNCHANGED books]_batchVars

(* Every run ends, cancelled or not.                                        *)
RunEnds == <>(step = "done")

(* What a test says of a cancelled chunk: its notebook is deleted, if the   *)
(* provider does what it is asked to.                                       *)
CancelledIsDeleted == step = "done" => \A n \in known : n \notin exists

(* What a test says of a document that takes too long: it fails, and the    *)
(* next one is generated.                                                   *)
TimeoutSparesOthers == ended # "failed"

================================================================================
