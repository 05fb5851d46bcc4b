----------------------------- MODULE LocalJobStore -----------------------------
(***************************************************************************)
(* The Companion's job store with everything that runs around it: uploads  *)
(* that reserve, fill and submit a job, the worker that generates one job  *)
(* at a time, downloads, the retention timer and the shutdown              *)
(* (rust/integrations/src/local_job_store.rs, job_uploads.rs,              *)
(* local_generation.rs and rust/delivery/src/companion_worker.rs).         *)
(*                                                                         *)
(* A step is what one thread does without waiting: a section under the     *)
(* registry mutex (an action of LocalJobRegistry), a wait for a workspace  *)
(* mutex, a call on a tokio Notify.  The workspace mutex is kept across    *)
(* steps only by `finish`, which takes it before the registry mutex.       *)
(***************************************************************************)
EXTENDS LocalJobRegistry

CONSTANTS
  Client,       (* concurrent upload requests                               *)
  Reader,       (* concurrent download requests                             *)
  NoJob,        (* a thread that holds no job                               *)
  NoTimer,      (* the retention timer is not set                           *)
  Orderly       (* TRUE: the shutdown order of flashcards-companion;        *)
                (* FALSE: the store's users close and stop it at any time   *)

ASSUME StoreAssumption ==
  /\ NoJob \notin JobId
  /\ NoTimer \notin Nat
  /\ Orderly \in BOOLEAN

VARIABLES
  disk,         (* private directories: uploaded sources, exported decks    *)
  upload,       (* JobReservation of each upload request                    *)
  worker,       (* CompanionWorker::run and the JobExecution it holds       *)
  reader,       (* a download between its two locks                         *)
  expiry,       (* the expire() task                                        *)
  workPermit,   (* a stored notify_one of `work`                            *)
  changedPermit,(* a stored notify_one of `changed`                         *)
  stop,         (* the worker's stop signal                                 *)
  closing       (* how far close() has come                                 *)

storeVars == <<disk, upload, worker, reader, expiry, workPermit,
               changedPermit, stop, closing>>
vars == <<jobs, queue, closed, disk, upload, worker, reader, expiry,
          workPermit, changedPermit, stop, closing>>

(* A job's private directory: the sources it is for, how many of them are   *)
(* written, the decks registered in it.                                     *)
Disk   == [files : 0 .. MaxJobFiles, inputs : 0 .. MaxJobFiles,
           outputs : SUBSET Artifact]
NoDisk == [files |-> 0, inputs |-> 0, outputs |-> {}]

(* `left` sources are still to be generated; `status` is the end the job    *)
(* is heading for.                                                          *)
WorkerIdle == [pc |-> "begin", id |-> NoJob, status |-> "completed", left |-> 0,
               woken |-> FALSE, dropping |-> FALSE, exit |-> "loop"]

StoreInit ==
  /\ Init
  /\ disk = [id \in JobId |-> NoDisk]
  /\ upload = [c \in Client |-> [pc |-> "idle", id |-> NoJob]]
  /\ worker = WorkerIdle
  /\ reader = [r \in Reader |-> NoJob]
  /\ expiry = [pc |-> "reading", left |-> NoTimer]
  /\ workPermit = FALSE
  /\ changedPermit = FALSE
  /\ stop = FALSE
  /\ closing = "open"

--------------------------------------------------------------------------------
(* A directory exists while the registry, a reservation, the execution or a *)
(* download keeps its Arc; the last one to go removes it.                   *)
InUse(id) ==
  \/ id \in Known(jobs)
  \/ \E c \in Client : upload[c].id = id
  \/ worker.id = id
  \/ \E r \in Reader : reader[r] = id

(* The directories after a step, given what the step writes into them.      *)
Swept(written) == [id \in JobId |-> IF InUse(id)' THEN written[id] ELSE NoDisk]

KeepDisk == disk' = Swept(disk)

OwnerOf(id) == jobs[id].owner

--------------------------------------------------------------------------------
(* Uploads (LocalUploads::submit).                                          *)

UploadUnchanged == UNCHANGED <<worker, reader, expiry, changedPermit, stop, closing>>

(* Requests arrive until the server drains; at any time for other users.    *)
Accepting == Orderly => ~ stop

ReserveJob(c) ==
  /\ upload[c].pc = "idle"
  /\ Accepting
  /\ \E owner \in Owner, id \in JobId, n \in 1 .. MaxJobFiles :
       /\ ~ InUse(id)               \* fresh: sixteen random bytes
       /\ \/ /\ Reserve(owner, id, n)
             /\ upload' = [upload EXCEPT ![c] = [pc |-> "filling", id |-> id]]
          \/ /\ ReserveRejected(id, n)
             /\ UNCHANGED upload
       /\ UploadUnchanged /\ UNCHANGED workPermit
       /\ disk' = Swept([disk EXCEPT ![id].files = n])

MissingSource(id) == disk[id].inputs < disk[id].files

(* persist_upload of the next source.                                       *)
CreateInput(c) ==
  LET id == upload[c].id IN
  /\ upload[c].pc = "filling"
  /\ MissingSource(id)
  /\ disk' = [disk EXCEPT ![id].inputs = @ + 1]
  /\ UNCHANGED <<registryVars, upload, workPermit>> /\ UploadUnchanged

(* Slip: submitted before the sources are written.                          *)
NothingToPersist(id) == TRUE

Persisted(id) == disk[id].inputs = disk[id].files

(* JobReservation::submit, then its notification of the worker.             *)
SubmitJob(c) ==
  /\ upload[c].pc = "filling"
  /\ Persisted(upload[c].id)
  /\ Submit(OwnerOf(upload[c].id), upload[c].id)
  /\ upload' = [upload EXCEPT ![c].pc = "notify"]
  /\ UploadUnchanged /\ UNCHANGED workPermit
  /\ KeepDisk

(* Slip: notify_waiters, which stores nothing for a worker not yet waiting. *)
NotifyWaitersInstead(c) ==
  /\ upload[c].pc = "notify"
  /\ workPermit' = (workPermit \/ worker.pc = "wait")
  /\ upload' = [upload EXCEPT ![c] = [pc |-> "idle", id |-> NoJob]]
  /\ UNCHANGED registryVars /\ UploadUnchanged
  /\ KeepDisk

NotifySubmitted(c) ==
  /\ upload[c].pc = "notify"
  /\ workPermit' = TRUE
  /\ upload' = [upload EXCEPT ![c] = [pc |-> "idle", id |-> NoJob]]
  /\ UNCHANGED registryVars /\ UploadUnchanged
  /\ KeepDisk

(* Slip: a reservation is dropped without a word to the registry.           *)
DropQuietly(c) ==
  /\ upload[c].pc = "filling"
  /\ upload' = [upload EXCEPT ![c] = [pc |-> "idle", id |-> NoJob]]
  /\ UNCHANGED registryVars /\ UploadUnchanged /\ UNCHANGED workPermit
  /\ KeepDisk

(* Drop of a reservation that was not submitted: a failed write, a time-out,*)
(* a client that went away, or a submit the closed registry refused.        *)
DropReservation(c) ==
  /\ upload[c].pc = "filling"
  /\ LET id == upload[c].id IN
       \/ DiscardReservation(OwnerOf(id), id)
       \/ id \notin Known(jobs) /\ UNCHANGED registryVars
  /\ upload' = [upload EXCEPT ![c] = [pc |-> "idle", id |-> NoJob]]
  /\ UploadUnchanged /\ UNCHANGED workPermit
  /\ KeepDisk

UploadStep(c) ==
  \/ ReserveJob(c)
  \/ CreateInput(c)
  \/ SubmitJob(c)
  \/ NotifySubmitted(c)
  \/ DropReservation(c)

--------------------------------------------------------------------------------
(* The worker.                                                              *)

WorkerUnchanged == UNCHANGED <<upload, reader, expiry, stop, closing>>
NoNotify        == UNCHANGED <<workPermit, changedPermit>>

At(pc) == worker.pc = pc
Go(pc) == worker' = [worker EXCEPT !.pc = pc]

(* Head of the loop: the biased select looks at the stop signal, then       *)
(* await_work takes a `notified()` future before it looks at the queue.     *)
Arm ==
  /\ At("begin")
  /\ worker' = IF stop THEN [WorkerIdle EXCEPT !.pc = "stopped"]
               ELSE [WorkerIdle EXCEPT !.pc = "try"]
  /\ UNCHANGED <<registryVars, disk>> /\ NoNotify /\ WorkerUnchanged

(* A front entry that cannot start would end the worker (`execution?`).     *)
Servable == Head(queue) \in Known(jobs) /\ MayStart(jobs[Head(queue)].job)

(* Under one locking of the registry: `start_next`, and `resource`, which   *)
(* prunes.                                                                  *)
StartNextPruned ==
  LET started == [jobs EXCEPT ![Head(queue)].job = Start(@)] IN
  /\ jobs'  = Without(started, Expired(started))
  /\ queue' = Retain(Tail(queue), Expired(started))
  /\ UNCHANGED closed

Take ==
  /\ At("try")
  /\ IF MayStartNext /\ Servable
     THEN /\ StartNextPruned
          /\ worker' = [worker EXCEPT !.pc = "connect", !.id = Head(queue),
                                      !.left = jobs[Head(queue)].job.files]
     ELSE /\ Go(IF MayStartNext THEN "failed" ELSE "check")
          /\ UNCHANGED registryVars
  /\ NoNotify /\ WorkerUnchanged
  /\ KeepDisk

CheckClosed ==
  /\ At("check")
  /\ Go(IF closed THEN "stopped" ELSE "await")
  /\ UNCHANGED <<registryVars, disk>> /\ NoNotify /\ WorkerUnchanged

(* The first poll of the future, after the mutex is released.               *)
Await ==
  /\ At("await")
  /\ Go("wait")
  /\ UNCHANGED <<registryVars, disk>> /\ NoNotify /\ WorkerUnchanged

(* Slip: a sleeping worker does not hear the stop signal.                   *)
WakeDeaf ==
  /\ At("wait")
  /\ workPermit \/ worker.woken
  /\ worker' = [WorkerIdle EXCEPT !.pc = "try"]
  /\ workPermit' = IF worker.woken THEN workPermit ELSE FALSE
  /\ UNCHANGED <<registryVars, disk, changedPermit>> /\ WorkerUnchanged

(* Blocked in `notification.await`, next to the stop signal.                *)
Wake ==
  /\ At("wait")
  /\ \/ /\ stop
        /\ Go("stopped")
        /\ UNCHANGED workPermit
     \/ /\ ~ stop /\ (workPermit \/ worker.woken)
        /\ worker' = [WorkerIdle EXCEPT !.pc = "try"]
        /\ workPermit' = IF worker.woken THEN workPermit ELSE FALSE
  /\ UNCHANGED <<registryVars, disk, changedPermit>> /\ WorkerUnchanged

(* Authentication: a client, an error that fails the job (and the worker,   *)
(* unless the job can be finished), or the stop signal.                     *)
Connect ==
  /\ At("connect")
  /\ \/ /\ stop
        /\ worker' = [worker EXCEPT !.pc = "drop", !.exit = "stop"]
     \/ /\ ~ stop
        /\ \/ Go("enter")
           \/ worker' = [worker EXCEPT !.pc = "validate", !.status = "failed",
                                       !.exit = "error"]
  /\ UNCHANGED <<registryVars, disk>> /\ NoNotify /\ WorkerUnchanged

Valid == worker.id \in Known(AfterPrune)

(* execute_job: validate_execution prunes and looks the job up.             *)
Enter ==
  /\ At("enter")
  /\ Prune
  /\ Go(IF Valid THEN "execute" ELSE "drop")
  /\ NoNotify /\ WorkerUnchanged
  /\ KeepDisk

(* A stop drops the generation, and with it the execution, before it is     *)
(* polled first or where generate_batch_csv waits for NotebookLM.           *)
StopGeneration ==
  /\ worker.pc \in {"enter", "execute"}
  /\ stop
  /\ worker' = [worker EXCEPT !.pc = "drop", !.exit = "stop"]
  /\ UNCHANGED <<registryVars, disk>> /\ NoNotify /\ WorkerUnchanged

SourcesLeft == worker.left > 0

(* RegisteredExporter writes a deck and registers it.                       *)
Export(artifact) ==
  /\ At("execute")
  /\ SourcesLeft
  /\ artifact \notin disk[worker.id].outputs
  /\ disk' = [disk EXCEPT ![worker.id].outputs = @ \cup {artifact}]
  /\ UNCHANGED <<registryVars, worker>> /\ NoNotify /\ WorkerUnchanged

(* The report of a source: validate_execution, then record_source under a   *)
(* second locking of the registry.  A rejected report ends the batch.       *)
SourceDone ==
  /\ At("execute")
  /\ SourcesLeft
  /\ Prune
  /\ worker' = IF Valid THEN [worker EXCEPT !.pc = "record"]
               ELSE [worker EXCEPT !.pc = "validate", !.status = "failed"]
  /\ NoNotify /\ WorkerUnchanged
  /\ KeepDisk

RecordOutcome(outcome) ==
  /\ At("record")
  /\ \/ /\ Record(OwnerOf(worker.id), worker.id, outcome)
        /\ worker' = [worker EXCEPT !.pc = "execute", !.left = @ - 1, !.status =
                        IF outcome = "failed" THEN "failed" ELSE @]
     \/ /\ worker.id \notin Known(jobs)
        /\ worker' = [worker EXCEPT !.pc = "validate", !.status = "failed"]
        /\ UNCHANGED registryVars
  /\ NoNotify /\ WorkerUnchanged
  /\ KeepDisk

BatchDone ==
  /\ At("execute")
  /\ ~ SourcesLeft
  /\ Go("validate")
  /\ UNCHANGED <<registryVars, disk>> /\ NoNotify /\ WorkerUnchanged

(* LocalJobStore::finish.  When it fails, the execution is dropped.         *)
FinishError == Go(IF worker.dropping THEN "leave" ELSE "drop")

FinishValidate ==
  /\ At("validate")
  /\ Prune
  /\ IF Valid THEN Go("locked") ELSE FinishError
  /\ NoNotify /\ WorkerUnchanged
  /\ KeepDisk

FinalStatus(erased) == IF erased THEN worker.status ELSE "failed"
ListedArtifacts(id) == disk[id].outputs

(* Under the workspace mutex and the registry mutex: the uploaded sources   *)
(* are removed first, and a job whose sources stay behind has failed.       *)
FinishCommit ==
  /\ At("locked")
  /\ LET id == worker.id
         job == jobs[id].job
     IN IF id \in Known(jobs) /\ MayFinish(job, worker.status)
        THEN \E erased \in BOOLEAN :
               /\ Finish(OwnerOf(id), id, FinalStatus(erased), ListedArtifacts(id))
               /\ Go("changed")
               /\ WorkerUnchanged
               /\ disk' = Swept(IF erased
                                THEN [disk EXCEPT ![id].inputs = 0] ELSE disk)
        ELSE FinishError /\ UNCHANGED registryVars /\ WorkerUnchanged /\ KeepDisk
  /\ NoNotify

FinishNotifyChanged ==
  /\ At("changed")
  /\ changedPermit' = TRUE
  /\ Go("work")
  /\ UNCHANGED <<registryVars, disk, workPermit>> /\ WorkerUnchanged

FinishNotifyWork ==
  /\ At("work")
  /\ workPermit' = TRUE
  /\ worker' = IF worker.dropping THEN [worker EXCEPT !.pc = "leave"]
               ELSE [worker EXCEPT !.pc = "drop", !.exit = "loop"]
  /\ UNCHANGED <<registryVars, disk, changedPermit>> /\ WorkerUnchanged

(* Drop of the execution: `snapshot` prunes, and a job that still runs is   *)
(* cancelled.                                                               *)
DropExecution ==
  /\ At("drop")
  /\ Prune
  /\ worker' = IF worker.id \in Running(AfterPrune)
               THEN [worker EXCEPT !.pc = "validate", !.status = "cancelled",
                                   !.dropping = TRUE]
               ELSE [worker EXCEPT !.pc = "leave"]
  /\ NoNotify /\ WorkerUnchanged
  /\ KeepDisk

(* The execution is gone, the client cleans its notebooks up, the loop goes *)
(* on or the worker returns.                                                *)
Leave ==
  /\ At("leave")
  /\ worker' = [WorkerIdle EXCEPT
                  !.pc = CASE worker.exit = "loop"  -> "begin"
                           [] worker.exit = "stop"  -> "stopped"
                           [] worker.exit = "error" -> "failed"]
  /\ UNCHANGED registryVars /\ NoNotify /\ WorkerUnchanged
  /\ KeepDisk

WorkerStep ==
  \/ Arm \/ Take \/ CheckClosed \/ Await \/ Wake
  \/ Connect \/ Enter \/ StopGeneration \/ SourceDone
  \/ \E artifact \in Artifact : Export(artifact)
  \/ \E outcome \in Outcome : RecordOutcome(outcome)
  \/ BatchDone
  \/ FinishValidate \/ FinishCommit \/ FinishNotifyChanged \/ FinishNotifyWork
  \/ DropExecution \/ Leave

--------------------------------------------------------------------------------
(* Downloads (`artifact`): the registry gives the workspace, whose mutex    *)
(* the second step waits for.                                               *)

OnlyReader == UNCHANGED <<upload, worker, expiry, workPermit, changedPermit,
                          stop, closing>>

Lookup(r) ==
  /\ reader[r] = NoJob
  /\ Accepting
  /\ Prune
  /\ \E id \in Known(AfterPrune) : reader' = [reader EXCEPT ![r] = id]
  /\ OnlyReader
  /\ KeepDisk

OpenArtifact(r) ==
  /\ reader[r] # NoJob
  /\ ~ (worker.pc = "locked" /\ worker.id = reader[r])
  /\ reader' = [reader EXCEPT ![r] = NoJob]
  /\ UNCHANGED registryVars
  /\ OnlyReader
  /\ KeepDisk

(* A status request: `snapshot` prunes.                                     *)
Poll ==
  /\ Prune
  /\ UNCHANGED reader
  /\ OnlyReader
  /\ KeepDisk

--------------------------------------------------------------------------------
(* The retention timer (`expire`).                                          *)

OnlyExpiry == UNCHANGED <<upload, worker, reader, workPermit, stop, closing>>

(* The time to the next expiration: `next_expiration` minus now.            *)
NextExpiration ==
  IF FinishedIds(jobs) = {} THEN NoTimer
  ELSE Retention - jobs[CHOOSE id \in Oldest(jobs) : TRUE].age

ReadDeadline ==
  /\ expiry.pc = "reading"
  /\ expiry' = [pc |-> "sleeping", left |-> NextExpiration]
  /\ UNCHANGED <<registryVars, disk, changedPermit>> /\ OnlyExpiry

Changed ==
  /\ expiry.pc = "sleeping"
  /\ changedPermit
  /\ changedPermit' = FALSE
  /\ expiry' = [pc |-> "reading", left |-> NoTimer]
  /\ UNCHANGED <<registryVars, disk>> /\ OnlyExpiry

DeadlineReached ==
  /\ expiry.pc = "sleeping"
  /\ expiry.left = 0
  /\ Prune
  /\ expiry' = [pc |-> "reading", left |-> NoTimer]
  /\ UNCHANGED changedPermit /\ OnlyExpiry
  /\ KeepDisk

ExpiryStep == ReadDeadline \/ Changed \/ DeadlineReached

(* One clock for the entries and the timer.                                 *)
Time ==
  /\ Tick
  /\ expiry' = [expiry EXCEPT !.left =
                  IF @ # NoTimer /\ @ # 0 THEN @ - 1 ELSE @]
  /\ UNCHANGED <<disk, changedPermit>> /\ OnlyExpiry

--------------------------------------------------------------------------------
(* Shutdown: the server has drained its requests, the worker is told to     *)
(* stop and waited for, then the store is closed.                           *)

Drained == /\ \A c \in Client : upload[c].pc = "idle"
           /\ \A r \in Reader : reader[r] = NoJob

RequestStop ==
  /\ ~ stop
  /\ Orderly => Drained
  /\ stop' = TRUE
  /\ UNCHANGED <<registryVars, disk, upload, worker, reader, expiry,
                 workPermit, changedPermit, closing>>

(* Slip: the store is closed before the worker is stopped.                  *)
MayCloseAnyTime == TRUE

MayClose == Orderly => At("stopped")

CloseRegistry ==
  /\ closing = "open"
  /\ MayClose
  /\ Close
  /\ closing' = "cleared"
  /\ UNCHANGED <<upload, worker, reader, expiry, workPermit, changedPermit, stop>>
  /\ KeepDisk

(* notify_waiters reaches every `notified()` future taken before, also one  *)
(* that is not awaited yet, and stores nothing for later ones.              *)
CloseNotify ==
  /\ closing = "cleared"
  /\ worker' = [worker EXCEPT !.woken =
                  worker.pc \in {"try", "check", "await", "wait"}]
  /\ closing' = "notified"
  /\ UNCHANGED <<registryVars, disk, upload, reader, expiry, workPermit,
                 changedPermit, stop>>

CloseAbort ==
  /\ closing = "notified"
  /\ expiry' = [pc |-> "aborted", left |-> NoTimer]
  /\ closing' = "done"
  /\ UNCHANGED <<registryVars, disk, upload, worker, reader, workPermit,
                 changedPermit, stop>>

Shutdown == RequestStop \/ CloseRegistry \/ CloseNotify \/ CloseAbort

StoreNext ==
  \/ \E c \in Client : UploadStep(c)
  \/ WorkerStep
  \/ \E r \in Reader : Lookup(r) \/ OpenArtifact(r)
  \/ Poll
  \/ ExpiryStep
  \/ Time
  \/ Shutdown

(* Fairness: the runtime polls every task that can go on, and the waits of  *)
(* the worker inside authentication and generation are bounded by their     *)
(* time-outs.  A handler notifies without waiting once it has submitted,    *)
(* and close() runs to its end; nobody has to upload, download or stop.     *)
Fairness ==
  /\ WF_vars(WorkerStep)
  /\ WF_vars(ExpiryStep)
  /\ WF_vars(Time)
  /\ WF_vars(CloseNotify)
  /\ WF_vars(CloseAbort)
  /\ WF_vars(stop /\ CloseRegistry)
  /\ \A c \in Client : WF_vars(NotifySubmitted(c))

StoreSpec == StoreInit /\ [][StoreNext]_vars /\ Fairness

--------------------------------------------------------------------------------
(* Type invariant of the store and of the threads around it.                *)
StoreTypeOK ==
  /\ TypeOK
  /\ disk \in [JobId -> Disk]
  /\ upload \in [Client -> [pc : {"idle", "filling", "notify"},
                            id : JobId \cup {NoJob}]]
  /\ worker \in [pc : {"begin", "try", "check", "await", "wait", "connect", "enter",
                       "execute", "record", "validate", "locked", "changed",
                       "work", "drop", "leave", "stopped", "failed"},
                  id : JobId \cup {NoJob}, status : Terminal,
                  left : 0 .. MaxJobFiles,
                  woken : BOOLEAN, dropping : BOOLEAN,
                  exit : {"loop", "stop", "error"}]
  /\ reader \in [Reader -> JobId \cup {NoJob}]
  /\ expiry \in [pc : {"reading", "sleeping", "aborted"},
                  left : 0 .. Retention \cup {NoTimer}]
  /\ {workPermit, changedPermit, stop} \subseteq BOOLEAN
  /\ closing \in {"open", "cleared", "notified", "done"}

(* No capacity is lost: every reservation in the table is still held by its *)
(* upload, and every running job by the worker.  An orphan would keep one   *)
(* of the MaxActive places, or the single running place, for ever.          *)
NoOrphans ==
  \A id \in Active(jobs) :
    /\ ~ jobs[id].submitted => \E c \in Client : upload[c] = [pc |-> "filling", id |-> id]
    /\ id \in Running(jobs) => worker.id = id

(* The uploaded documents of a user are gone once the job completed or was  *)
(* cancelled; only a job reported as failed may have left them.             *)
SourcesErased ==
  \A id \in Known(jobs) :
    jobs[id].job.status \in {"completed", "cancelled"} => disk[id].inputs = 0

(* A generation never runs on a partial upload: all sources of a running    *)
(* job are on disk until the step that finishes it.                         *)
RunsOnCompleteUpload ==
  \A id \in Running(jobs) : disk[id].inputs = jobs[id].job.files

(* A finished job lists exactly the decks that a download can open, also    *)
(* the partial ones of a cancelled or failed job.                           *)
ListsWhatIsThere ==
  \A id \in FinishedIds(jobs) : jobs[id].job.artifacts = disk[id].outputs

(* No lost wake-up: once the worker has seen nothing to start, and until it *)
(* looks again, a job that could start has a notification stored or about   *)
(* to be given; and a worker that has not seen the store closed is woken,   *)
(* or about to be.                                                          *)
NoLostWakeup ==
  /\ worker.pc \in {"check", "await", "wait"} /\ ~ closed
     /\ queue # << >> /\ Running(jobs) = {}
     => workPermit \/ \E c \in Client : upload[c].pc = "notify"
  /\ worker.pc \in {"await", "wait"} /\ closed
     => worker.woken \/ closing = "cleared"

(* The worker ends only because it was told to or because the store closed: *)
(* a local error would leave the Companion accepting jobs nobody generates. *)
WorkerSurvives == ~ At("failed")

(* When the worker is gone no job is left running, whatever it was doing    *)
(* when it stopped.                                                         *)
NothingLeftRunning == worker.pc \in {"stopped", "failed"} => Running(jobs) = {}

(* No place is lost, in the hands of an upload or of a worker that is gone  *)
(* (Drop of JobReservation and of JobExecution in local_job_store.rs).      *)
PlacesComeBack == StoreTypeOK /\ NoOrphans /\ NothingLeftRunning

(* Directories agree with the states users see, from the reservation to the *)
(* expiration (job_uploads.rs, finish in local_job_store.rs).               *)
FilesFollowJobs == RunsOnCompleteUpload /\ SourcesErased /\ ListsWhatIsThere

(* Every submitted job gets its turn, unless the Companion shuts down.      *)
EveryJobServed ==
  \A id \in JobId :
    (id \in Known(jobs) /\ jobs[id].submitted /\ jobs[id].job.status = "queued")
      ~> (stop \/ closed \/ id \notin Known(jobs) \/ jobs[id].job.status # "queued")

(* A job that started reaches a final state, which a user polling it sees.  *)
EveryJobFinishes ==
  \A id \in JobId : (id \in Running(jobs)) ~> (id \notin Running(jobs))

(* Results and remaining documents expire without any request coming in.    *)
EveryJobForgotten ==
  \A id \in JobId : (id \in FinishedIds(jobs)) ~> (id \notin FinishedIds(jobs))

(* A job moves on by itself from its submission to its expiration, through  *)
(* one worker, two bells and a timer.                                       *)
JobsMoveOn == EveryJobServed /\ EveryJobFinishes /\ EveryJobForgotten

(* A stop or a close ends the worker.                                       *)
WorkerStops == (stop \/ closed) ~> worker.pc \in {"stopped", "failed"}
================================================================================
