---------------------------- MODULE NotebookCleanup ----------------------------
(***************************************************************************)
(* The temporary notebooks of one NotebookLM client and the tasks that     *)
(* remove them (rust/integrations/src/notebooklm/temporary.rs, upload.rs   *)
(* and the drain in notebooklm.rs).                                        *)
(*                                                                         *)
(* A notebook is created by a task of its own, so a caller that is         *)
(* cancelled while it waits cannot lose one; whoever owns a notebook and   *)
(* goes away spawns its deletion; finish_cleanup awaits all these tasks    *)
(* and says whether everything is known to be removed.                     *)
(*                                                                         *)
(* The operators describe what a call does to the client; the callers are  *)
(* in DocumentGeneration.                                                  *)
(***************************************************************************)
EXTENDS Integers

CONSTANTS
  Notebook,       (* identifiers the provider gives to notebooks            *)
  MaxInterrupts   (* bound: how often finish_cleanup may be dropped         *)

VARIABLES
  remote,         (* the notebooks at the provider                          *)
  holder,         (* who has a notebook's OwnedTemporaryNotebook            *)
  registry,       (* `cleanup_tasks`                                        *)
  drain           (* finish_cleanup and the tasks it has taken              *)

cleanupVars == <<remote, holder, registry, drain>>

(* "requested": a creation is in flight; "lost": it may exist, but no       *)
(* answer told the client its identifier; "stray": its deletion failed.     *)
NotebookState == {"none", "requested", "alive", "stray", "lost"}

(* The tasks a client spawns for a notebook: its creation, its deletion,    *)
(* the removal of a half uploaded source.                                   *)
Task == {"create", "delete", "source"} \X Notebook

(* A list of tasks as far as its reader can tell: those that still run, and *)
(* whether one of them has failed.  A task that ended well leaves nothing.  *)
NoTasks == [running |-> {}, failed |-> FALSE]

DrainIdle == [pc |-> "idle", tasks |-> NoTasks, late |-> FALSE, interrupts |-> 0]

(* What is known of a notebook that does not exist.  A `title` names        *)
(* document and chunk.                                                      *)
NoTitle  == <<0, 0>>
NoNotice == [state |-> "none", title |-> NoTitle]

CleanupInit ==
  /\ remote = [n \in Notebook |-> NoNotice]
  /\ holder = [n \in Notebook |-> "nobody"]
  /\ registry = NoTasks
  /\ drain = DrainIdle

--------------------------------------------------------------------------------
Running(task) == task \in registry.running \cup drain.tasks.running

(* An identifier the provider has not given yet, or that no longer means    *)
(* anything to anybody.                                                     *)
Fresh(n) ==
  /\ remote[n].state = "none"
  /\ holder[n] = "nobody"
  /\ \A kind \in {"create", "delete", "source"} : ~ Running(<<kind, n>>)

(* The identifier of the next notebook: which of the fresh ones it is makes *)
(* no difference to anybody, so it is one of them and not any.              *)
NextNotebook == CHOOSE n \in Notebook : Fresh(n)

SetState(n, state) ==
  remote' = [remote EXCEPT ![n] = IF state = "none" THEN NoNotice
                                  ELSE [@ EXCEPT !.state = state]]

(* A request without a good answer: the notebook, if there was or may be    *)
(* one, is gone, or it is in `state`.                                       *)
Unconfirmed(n, state) ==
  \/ SetState(n, "none")
  \/ remote[n].state # "none" /\ SetState(n, state)

(* A task ends wherever its handle is.                                      *)
TaskEnds(task, ok, spawned) ==
  /\ registry' = [running |-> (registry.running \ {task}) \cup spawned,
                  failed  |-> registry.failed \/ (~ ok /\ task \in registry.running)]
  /\ drain' = [drain EXCEPT !.tasks =
                 [running |-> @.running \ {task},
                  failed  |-> @.failed \/ (~ ok /\ task \in @.running)]]

Spawn(tasks) ==
  /\ registry' = [registry EXCEPT !.running = @ \cup tasks]
  /\ UNCHANGED drain

--------------------------------------------------------------------------------
(* create_temporary_notebook up to its await.                               *)
AskNotebook(n, title) ==
  /\ Fresh(n)
  /\ remote' = [remote EXCEPT ![n] = [state |-> "requested", title |-> title]]
  /\ holder' = [holder EXCEPT ![n] = "asked"]
  /\ Spawn({<<"create", n>>})

(* Slip: a creation nobody waits for any more is forgotten.                 *)
CreateAnsweredToNobody(n) ==
  /\ Running(<<"create", n>>)
  /\ SetState(n, "alive")
  /\ TaskEnds(<<"create", n>>, TRUE, {})
  /\ holder' = [holder EXCEPT ![n] = IF @ = "asked" THEN "sent" ELSE @]

(* The creation task gets the provider's answer and sends it; when nobody   *)
(* receives, the notebook it owns is dropped there.                         *)
CreateAnswered(n) ==
  /\ Running(<<"create", n>>)
  /\ SetState(n, "alive")
  /\ IF holder[n] = "asked"
     THEN /\ holder' = [holder EXCEPT ![n] = "sent"]
          /\ TaskEnds(<<"create", n>>, TRUE, {})
     ELSE /\ TaskEnds(<<"create", n>>, TRUE, {<<"delete", n>>})
          /\ UNCHANGED holder

(* No answer: refused, or created without the client knowing.  The task     *)
(* itself ends well, the error is the caller's.                             *)
CreateFails(n) ==
  /\ Running(<<"create", n>>)
  /\ Unconfirmed(n, "lost")
  /\ holder' = [holder EXCEPT ![n] = IF @ = "asked" THEN "refused" ELSE @]
  /\ TaskEnds(<<"create", n>>, TRUE, {})

(* delete() of a spawned clean-up: confirmed, or failed with the notebook   *)
(* removed or not.                                                          *)
DeleteConfirmed(n) ==
  /\ Running(<<"delete", n>>)
  /\ SetState(n, "none")
  /\ TaskEnds(<<"delete", n>>, TRUE, {})
  /\ UNCHANGED holder

DeleteFails(n) ==
  /\ Running(<<"delete", n>>)
  /\ Unconfirmed(n, "stray")
  /\ TaskEnds(<<"delete", n>>, FALSE, {})
  /\ UNCHANGED holder

SourceTaskEnds(n) ==
  /\ Running(<<"source", n>>)
  /\ \E ok \in BOOLEAN : TaskEnds(<<"source", n>>, ok, {})
  /\ UNCHANGED <<remote, holder>>

TaskStep(n) ==
  \/ CreateAnswered(n) \/ CreateFails(n)
  \/ DeleteConfirmed(n) \/ DeleteFails(n)
  \/ SourceTaskEnds(n)

--------------------------------------------------------------------------------
(* The receiver takes the notebook, or the error, out of the channel.       *)
TakeNotebook(n) ==
  /\ holder[n] = "sent"
  /\ holder' = [holder EXCEPT ![n] = "scope"]
  /\ UNCHANGED <<remote, registry, drain>>

TakeRefusal(n) ==
  /\ holder[n] = "refused"
  /\ holder' = [holder EXCEPT ![n] = "nobody"]
  /\ UNCHANGED <<remote, registry, drain>>

(* close() confirmed the deletion: nothing is left to do on drop.           *)
CloseConfirmed(n) ==
  /\ holder[n] = "scope"
  /\ SetState(n, "none")
  /\ holder' = [holder EXCEPT ![n] = "nobody"]
  /\ UNCHANGED <<registry, drain>>

(* close() failed: the notebook may be gone, and the drop of the scope      *)
(* tries again in a task.                                                   *)
CloseFails(n) ==
  /\ holder[n] = "scope"
  /\ Unconfirmed(n, "alive")
  /\ holder' = [holder EXCEPT ![n] = "nobody"]
  /\ Spawn({<<"delete", n>>})

(* The caller is dropped.  A notebook in its scope, or in the channel it no *)
(* longer reads, is deleted by a task; a creation in flight goes on alone.  *)
(* `uploading`: a source was registered and not yet transferred; `closing`: *)
(* a deletion was on its way.                                               *)
CallerDropped(n, uploading, closing) ==
  /\ holder' = [holder EXCEPT ![n] = "nobody"]
  /\ IF holder[n] \in {"sent", "scope"}
     THEN /\ Spawn({<<"delete", n>>} \cup IF uploading THEN {<<"source", n>>} ELSE {})
          /\ \E gone \in {FALSE, closing} :
               IF gone THEN SetState(n, "none") ELSE UNCHANGED remote
     ELSE UNCHANGED <<remote, registry, drain>>

--------------------------------------------------------------------------------
(* finish_cleanup (drain_cleanup).                                          *)

OnlyDrain == UNCHANGED <<remote, holder>>

DrainStart ==
  /\ drain.pc = "idle"
  /\ drain' = [drain EXCEPT !.pc = "take", !.late = FALSE]
  /\ UNCHANGED registry /\ OnlyDrain

(* Take what is there; with nothing left, say whether all of it ended well. *)
DrainTake ==
  /\ drain.pc = "take"
  /\ LET all == [running |-> drain.tasks.running \cup registry.running,
                 failed  |-> drain.tasks.failed \/ registry.failed] IN
     drain' = [drain EXCEPT
                !.pc = IF all.running # {} THEN "await"
                       ELSE IF all.failed THEN "unconfirmed" ELSE "clean",
                !.tasks = all]
  /\ registry' = NoTasks
  /\ OnlyDrain

(* Slip: tasks that were added while the drain waited are not looked for.   *)
DrainOnce ==
  /\ drain.pc = "await"
  /\ drain.tasks.running = {}
  /\ drain' = [drain EXCEPT !.pc = IF drain.tasks.failed THEN "unconfirmed" ELSE "clean"]
  /\ UNCHANGED registry /\ OnlyDrain

(* All the tasks taken have been awaited: look for further ones.            *)
DrainAgain ==
  /\ drain.pc = "await"
  /\ drain.tasks.running = {}
  /\ drain' = [drain EXCEPT !.pc = "take"]
  /\ UNCHANGED registry /\ OnlyDrain

(* The deadline of the whole drain.                                         *)
DrainLate ==
  /\ drain.pc = "await"
  /\ ~ drain.late
  /\ drain' = [drain EXCEPT !.late = TRUE]
  /\ UNCHANGED registry /\ OnlyDrain

(* After it, a task that still runs is aborted: a creation may have reached *)
(* the provider, a deletion may have been carried out.                      *)
DrainAborts(task) ==
  /\ drain.pc = "await"
  /\ drain.late
  /\ task \in drain.tasks.running
  /\ LET n == task[2] IN
     CASE task[1] = "create" -> Unconfirmed(n, "lost")
       [] task[1] = "delete" -> Unconfirmed(n, "stray")
       [] task[1] = "source" -> UNCHANGED remote
  /\ drain' = [drain EXCEPT !.tasks = [running |-> @.running \ {task}, failed |-> TRUE]]
  /\ UNCHANGED <<holder, registry>>

(* Slip: the tasks are put back, the failures seen so far are not.          *)
DrainDroppedQuietly ==
  /\ drain.pc = "await"
  /\ drain.tasks.running # {}
  /\ drain.interrupts < MaxInterrupts
  /\ drain' = [DrainIdle EXCEPT !.interrupts = drain.interrupts + 1]
  /\ registry' = [registry EXCEPT !.running = @ \cup drain.tasks.running]
  /\ OnlyDrain

(* finish_cleanup is dropped while it waits: PendingCleanup puts back what  *)
(* it took, and a mark for the failures it has seen.                        *)
DrainDropped ==
  /\ drain.pc = "await"
  /\ drain.tasks.running # {}
  /\ drain.interrupts < MaxInterrupts
  /\ drain' = [DrainIdle EXCEPT !.interrupts = drain.interrupts + 1]
  /\ registry' = [running |-> registry.running \cup drain.tasks.running,
                  failed  |-> registry.failed \/ drain.tasks.failed]
  /\ OnlyDrain

DrainStep ==
  \/ DrainTake \/ DrainAgain
  \/ \E task \in Task : DrainAborts(task)

Drained == drain.pc \in {"clean", "unconfirmed"}
================================================================================
