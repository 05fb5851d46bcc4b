-------------------------- MODULE LocalJobStoreProofs --------------------------
(***************************************************************************)
(* The safety of the store with everything around it, for every number of  *)
(* clients, downloads and jobs, for all limits and for both orders of the  *)
(* shutdown: no place is lost, files follow jobs, no wake-up is lost, and  *)
(* with the orderly shutdown the worker survives.                          *)
(***************************************************************************)
EXTENDS LocalJobStore, LocalJobRegistryProofs

(* Where the worker has no job, where it has one that is not finished, and  *)
(* all of its places.                                                       *)
Resting == {"begin", "try", "check", "await", "wait", "stopped", "failed"}
Busy    == {"connect", "enter", "execute", "record", "validate", "locked"}
WorkerPlaces == Resting \cup Busy \cup {"changed", "work", "drop", "leave"}

WorkerState ==
  [pc : WorkerPlaces, id : JobId \cup {NoJob}, status : Terminal, left : 0 .. MaxJobFiles,
   woken : BOOLEAN, dropping : BOOLEAN, exit : {"loop", "stop", "error"}]

UploadState == [pc : {"idle", "filling", "notify"}, id : JobId \cup {NoJob}]

ThreadsTyped ==
  /\ disk \in [JobId -> Disk]
  /\ upload \in [Client -> UploadState]
  /\ worker \in WorkerState
  /\ reader \in [Reader -> JobId \cup {NoJob}]
  /\ expiry \in [pc : {"reading", "sleeping", "aborted"}, left : 0 .. Retention \cup {NoTimer}]
  /\ workPermit \in BOOLEAN /\ changedPermit \in BOOLEAN /\ stop \in BOOLEAN
  /\ closing \in {"open", "cleared", "notified", "done"}

--------------------------------------------------------------------------------
(* The inductive invariant.  What belongs to one job: nobody else's upload, *)
(* a directory that goes with the last who uses it, files that fit; and it  *)
(* runs only once it was submitted.                                         *)
Fills(c, id) == upload[c].pc = "filling" /\ upload[c].id = id

Reserved(id) == ~ jobs[id].submitted /\ jobs[id].job.status = "queued"

FilesOK(id) ==
  LET job == jobs[id].job IN
  /\ Reserved(id) => disk[id].files = job.files
  /\ Waiting(id) \/ id \in Running(jobs) => disk[id].inputs = job.files
  /\ job.status \in {"completed", "cancelled"} => disk[id].inputs = 0
  /\ jobs[id].age # Unfinished => job.artifacts = disk[id].outputs
  /\ id \in Running(jobs) => jobs[id].submitted

UploadsOK(id) ==
  /\ id \in Known(jobs) /\ Reserved(id) => \E c \in Client : Fills(c, id)
  /\ \A c \in Client : Fills(c, id) /\ id \in Known(jobs) => Reserved(id)
  /\ \A c, d \in Client : upload[c].id = id /\ upload[d].id = id => c = d

IdOK(id) ==
  /\ ~ InUse(id) => disk[id] = NoDisk
  /\ id \in Known(jobs) => FilesOK(id)
  /\ UploadsOK(id)

ClientOK(c) == upload[c].pc = "idle" <=> upload[c].id = NoJob

(* A running job is the worker's; the job of a busy worker runs, unless the *)
(* store has been closed; an execution that is dropped is cancelled.        *)
WorkerOK ==
  /\ worker.pc \in Resting <=> worker.id = NoJob
  /\ \A id \in Running(jobs) : worker.id = id /\ worker.pc \in Busy \cup {"drop"}
  /\ worker.pc \in Busy /\ ~ closed => worker.id \in Running(jobs)
  /\ worker.dropping => /\ worker.status = "cancelled"
                        /\ worker.pc \in {"validate", "locked", "changed", "work", "leave"}
  /\ worker.pc = "record" => worker.left > 0

(* With the orderly shutdown, an error is always told to the job.           *)
OrderOK ==
  Orderly =>
    /\ closed => worker.pc = "stopped"
    /\ worker.pc # "failed"
    /\ worker.exit = "error" =>
         /\ worker.pc \in {"validate", "locked", "changed", "work"} /\ ~ worker.dropping
         /\ worker.pc \in {"validate", "locked"} => worker.status = "failed"

SignalsOK ==
  /\ worker.pc \in {"check", "await", "wait"} /\ ~ closed /\ (\E id \in JobId : Waiting(id))
       => workPermit \/ \E c \in Client : upload[c].pc = "notify"
  /\ worker.pc \in {"await", "wait"} /\ closed => worker.woken \/ closing = "cleared"
  /\ closed <=> closing # "open"

StoreParts ==
  /\ ThreadsTyped
  /\ \A id \in JobId : IdOK(id)
  /\ \A c \in Client : ClientOK(c)
  /\ WorkerOK /\ OrderOK /\ SignalsOK

StoreInv == RegistryInv /\ StoreParts

--------------------------------------------------------------------------------
(* What the sections under the registry mutex do to the table: one job is   *)
(* theirs, of the others only finished ones go.                             *)
SameEntry(id) ==
  /\ jobs'[id].owner = jobs[id].owner /\ jobs'[id].submitted = jobs[id].submitted
  /\ jobs'[id].job = jobs[id].job
  /\ jobs'[id].age = Unfinished <=> jobs[id].age = Unfinished

TableStep(j) ==
  /\ RegistryInv' /\ closed' = closed
  /\ \A id \in JobId \ {j} : id \in Known(jobs)' => id \in Known(jobs) /\ SameEntry(id)
  /\ \A id \in Running(jobs) \ {j} : id \in Known(jobs)'

LEMMA EntryFacts ==
  ASSUME RegistryInv, NEW id \in Known(jobs)
  PROVE  /\ id \in JobId /\ jobs[id] \in Entry /\ EntryOK(jobs[id])
         /\ jobs[id].job.status \in Terminal <=> jobs[id].age # Unfinished
         /\ jobs[id].owner \in Owner
BY DEF RegistryInv, TableOK, EntryOK, Known, IsTerminal, Entry

LEMMA GoneIsFinished ==
  ASSUME RegistryInv, NEW id \in Known(jobs), jobs[id].age # Unfinished
  PROVE  ~ Waiting(id) /\ id \notin Running(jobs) /\ ~ Reserved(id)
BY EntryFacts DEF Waiting, Running, Reserved, Terminal

LEMMA PruneStep ==
  ASSUME RegistryInv, Prune
  PROVE  /\ \A j : TableStep(j)
         /\ Known(jobs)' = Known(AfterPrune) /\ Known(jobs)' \subseteq Known(jobs)
<1>1. RegistryInv' /\ closed' = closed
  BY PruneKeeps DEF Prune
<1>2. /\ Known(jobs)' = Known(jobs) \ Expired(jobs)
      /\ \A id \in Known(jobs)' : jobs'[id] = jobs[id]
  BY ForgetTable DEF Prune, Forget, RegistryInv
<1>3. \A id \in Running(jobs) : id \in Known(jobs)'
  BY <1>2, GoneIsFinished DEF Running, Expired, FinishedIds
<1>4. Known(jobs)' = Known(AfterPrune)
  BY <1>2, PrunedTable DEF RegistryInv
<1>. QED
  BY <1>1, <1>2, <1>3, <1>4 DEF TableStep, SameEntry

LEMMA NoStep ==
  ASSUME RegistryInv, UNCHANGED registryVars
  PROVE  /\ \A j : TableStep(j)
         /\ Known(jobs)' = Known(jobs) /\ Running(jobs)' = Running(jobs)
<1>1. RegistryInv'
  BY StepInv
<1>. QED
  BY <1>1 DEF registryVars, TableStep, SameEntry, Running, Known

LEMMA TimeStep ==
  ASSUME RegistryInv, Tick
  PROVE  (\A j : TableStep(j)) /\ Known(jobs)' = Known(jobs)
<1>1. RegistryInv' /\ closed' = closed
  BY TickKeeps DEF Tick
<1>2. /\ Known(jobs)' = Known(jobs)
      /\ \A id \in Known(jobs) : SameEntry(id)
  BY TickTable DEF RegistryInv, SameEntry
<1>. QED
  BY <1>1, <1>2 DEF TableStep, Running

LEMMA DoneIsNotRunning ==
  ASSUME RegistryInv
  PROVE  \A victim \in Victims : \A id \in Expired(jobs) \cup victim : id \notin Running(jobs)
<1>1. \A id \in Known(AfterPrune) : id \in Known(jobs) /\ AfterPrune[id] = jobs[id]
  BY PrunedTable DEF RegistryInv
<1>2. \A id \in Oldest(AfterPrune) : id \in Known(jobs) /\ jobs[id].age # Unfinished
  BY <1>1 DEF Oldest, FinishedIds
<1>3. \A victim \in Victims : \A id \in victim : id \in Oldest(AfterPrune)
  BY DEF Victims
<1>. QED
  BY <1>2, <1>3, GoneIsFinished DEF Expired, FinishedIds

LEMMA ReserveStep ==
  ASSUME RegistryInv, NEW owner \in Owner, NEW id \in JobId, NEW n \in 1 .. MaxJobFiles,
         Reserve(owner, id, n)
  PROVE  /\ TableStep(id) /\ id \in Known(jobs)' /\ jobs'[id].submitted = FALSE
         /\ jobs'[id].job.status = "queued" /\ jobs'[id].job.files = n
         /\ jobs'[id].age = Unfinished
<1>1. RegistryInv' /\ closed' = closed
  BY ReserveKeeps DEF Reserve
<1>. DEFINE new == [owner |-> owner, job |-> NewJob(n), submitted |-> FALSE,
                    age |-> Unfinished]
<1>2. PICK victim \in Victims :
        jobs' = [Without(AfterPrune, victim) EXCEPT ![id] = new]
  BY DEF Reserve
<1>3. /\ Known(jobs)' = (Known(AfterPrune) \ victim) \cup {id}
      /\ \A other \in Known(AfterPrune) \ (victim \cup {id}) : jobs'[other] = jobs[other]
  BY <1>2, ReservedTable DEF RegistryInv
<1>4. Known(AfterPrune) = Known(jobs) \ Expired(jobs)
  BY PrunedTable DEF RegistryInv
<1>5. \A other \in Expired(jobs) \cup victim : other \notin Running(jobs)
  BY DoneIsNotRunning
<1>6. new.job.status = "queued" /\ new.job.files = n /\ new.submitted = FALSE
      /\ new.age = Unfinished
  BY DEF NewJob
<1>. HIDE DEF new
<1>7. jobs'[id] = new
  <2>1. Without(AfterPrune, victim) \in [JobId -> Entry \cup {NoEntry}]
    BY PrunedTable, WithoutKnown DEF RegistryInv
  <2>. QED
    BY <1>2, <2>1
<1>. QED
  BY <1>1, <1>3, <1>4, <1>5, <1>6, <1>7 DEF TableStep, SameEntry, Running

LEMMA SubmitStep ==
  ASSUME RegistryInv, NEW owner, NEW id \in JobId, Submit(owner, id)
  PROVE  /\ TableStep(id) /\ Known(jobs)' = Known(jobs) /\ id \in Known(jobs) /\ Reserved(id)
         /\ jobs'[id].submitted = TRUE /\ jobs'[id].job = jobs[id].job
         /\ jobs'[id].age = jobs[id].age
<1>1. owner \in Owner /\ id \in Known(jobs) /\ jobs[id] \in Entry
  BY OwnedIsKnown DEF RegistryInv, Submit, Owns
<1>2. RegistryInv' /\ closed' = closed
  BY <1>1, SubmitKeeps DEF Submit
<1>3. /\ jobs'[id].submitted = TRUE /\ jobs'[id].job = jobs[id].job
      /\ jobs'[id].age = jobs[id].age /\ jobs'[id].owner = jobs[id].owner
      /\ \A other \in JobId \ {id} : jobs'[other] = jobs[other]
  BY <1>1 DEF Submit, RegistryInv, TableOK, Entry
<1>4. Known(jobs)' = Known(jobs)
  BY <1>3 DEF Known
<1>. QED
  BY <1>1, <1>2, <1>3, <1>4 DEF TableStep, SameEntry, Running, Submit, Reserved

LEMMA DiscardStep ==
  ASSUME RegistryInv, NEW owner, NEW id \in JobId, DiscardReservation(owner, id)
  PROVE  TableStep(id) /\ Known(jobs)' = Known(jobs) \ {id} /\ Reserved(id)
<1>1. owner \in Owner
  BY DEF DiscardReservation, Owns
<1>2. RegistryInv' /\ closed' = closed
  BY <1>1, DiscardKeeps DEF DiscardReservation
<1>3. /\ Known(jobs)' = Known(jobs) \ {id}
      /\ \A other \in Known(jobs)' : jobs'[other] = jobs[other]
  BY ForgetTable DEF RegistryInv, DiscardReservation, Forget
<1>. QED
  BY <1>2, <1>3 DEF TableStep, SameEntry, Running, DiscardReservation, Reserved

LEMMA RecordStep ==
  ASSUME RegistryInv, NEW owner, NEW id \in JobId, NEW outcome \in Outcome,
         Record(owner, id, outcome)
  PROVE  /\ TableStep(id) /\ Known(jobs)' = Known(jobs) /\ id \in Running(jobs)
         /\ id \in Running(jobs)' /\ jobs'[id].job.files = jobs[id].job.files
         /\ jobs'[id].age = jobs[id].age /\ jobs'[id].submitted = jobs[id].submitted
<1>1. owner \in Owner /\ id \in Known(jobs) /\ jobs[id] \in Entry /\ EntryOK(jobs[id])
  BY OwnedIsKnown DEF RegistryInv, Record, Owns
<1>2. RegistryInv' /\ closed' = closed
  BY <1>1, RecordKeeps DEF Record
<1>3. /\ jobs'[id].job = RecordSource(jobs[id].job, outcome) /\ jobs'[id].age = jobs[id].age
      /\ jobs'[id].owner = jobs[id].owner /\ jobs'[id].submitted = jobs[id].submitted
      /\ \A other \in JobId \ {id} : jobs'[other] = jobs[other]
  BY <1>1 DEF Record, RegistryInv, TableOK, Entry
<1>4. Known(jobs)' = Known(jobs)
  BY <1>3 DEF Known
<1>5. MayRecord(jobs[id].job) /\ jobs[id].job \in Job
  BY <1>1 DEF Record, Entry
<1>6. /\ RecordSource(jobs[id].job, outcome).files = jobs[id].job.files
      /\ RecordSource(jobs[id].job, outcome).status = jobs[id].job.status
      /\ jobs[id].job.status = "running"
  BY <1>5 DEF RecordSource, MayRecord, Job
<1>. QED
  BY <1>1, <1>2, <1>3, <1>4, <1>6 DEF TableStep, SameEntry, Running

LEMMA FinishStep ==
  ASSUME RegistryInv, NEW owner, NEW id \in JobId, NEW status \in Terminal,
         NEW artifacts \in SUBSET Artifact, Finish(owner, id, status, artifacts)
  PROVE  /\ TableStep(id) /\ Known(jobs)' = Known(jobs)
         /\ jobs'[id].job.status = status /\ jobs'[id].job.artifacts = artifacts
<1>1. owner \in Owner /\ id \in Known(jobs) /\ jobs[id] \in Entry /\ EntryOK(jobs[id])
  BY OwnedIsKnown DEF RegistryInv, Finish, Owns
<1>2. RegistryInv' /\ closed' = closed
  BY <1>1, FinishKeeps DEF Finish
<1>3. /\ jobs'[id].job = FinishJob(jobs[id].job, status, artifacts)
      /\ jobs'[id].owner = jobs[id].owner
      /\ \A other \in JobId \ {id} : jobs'[other] = jobs[other]
  BY <1>1 DEF Finish, RegistryInv, TableOK, Entry
<1>4. Known(jobs)' = Known(jobs)
  BY <1>3 DEF Known
<1>5. jobs[id].job \in Job
  BY <1>1 DEF Entry
<1>6. /\ FinishJob(jobs[id].job, status, artifacts).status = status
      /\ FinishJob(jobs[id].job, status, artifacts).artifacts = artifacts
  BY <1>5 DEF FinishJob, Job
<1>. QED
  BY <1>2, <1>3, <1>4, <1>6 DEF TableStep, SameEntry, Running

LEMMA CloseStep ==
  ASSUME RegistryInv, Close
  PROVE  RegistryInv' /\ closed' = TRUE /\ Known(jobs)' = {}
BY CloseKeeps, NoEntryUnknown DEF Close, Known

(* The front of the queue waits, and so it can start.                       *)
LEMMA FrontIsServable ==
  ASSUME RegistryInv, queue # << >>
  PROVE  Head(queue) \in JobId /\ Waiting(Head(queue)) /\ Servable
<1>1. Head(queue) \in JobId /\ Lists(queue, Head(queue))
  BY TailOrders DEF RegistryInv, QueueOK
<1>2. Waiting(Head(queue))
  BY <1>1 DEF RegistryInv, QueueOK
<1>. QED
  BY <1>1, <1>2 DEF Waiting, Servable, MayStart

(* The start and the pruning that follows it, under one locking.            *)
LEMMA StartStep ==
  ASSUME RegistryInv, MayStartNext, StartNextPruned
  PROVE  LET id == Head(queue) IN
         /\ TableStep(id) /\ id \in JobId /\ Waiting(id) /\ id \in Running(jobs)'
         /\ Known(jobs)' \subseteq Known(jobs)
         /\ jobs'[id].job.files = jobs[id].job.files /\ jobs'[id].age = Unfinished
         /\ Running(jobs)' = {id} /\ jobs'[id].submitted
<1>. DEFINE id == Head(queue)
            new == [jobs[id] EXCEPT !.job = Start(jobs[id].job)]
            started == [jobs EXCEPT ![id] = new]
            gone == Expired(started)
<1>1. /\ id \in JobId /\ Waiting(id)
      /\ Running(jobs) = {} /\ ~ closed /\ closed' = closed /\ queue # << >>
  BY FrontIsServable DEF MayStartNext, Open, StartNextPruned
<1>2. /\ Tail(queue) \in Seq(JobId)
      /\ \A x : Lists(Tail(queue), x) <=> Lists(queue, x) /\ x # id
      /\ \A x, y : Precedes(Tail(queue), x, y) <=> Precedes(queue, x, y) /\ x # id
  BY <1>1, TailOrders DEF RegistryInv, QueueOK
<1>3. jobs' = Without(started, gone) /\ queue' = Retain(Tail(queue), gone)
  BY DEF StartNextPruned
<1>. HIDE DEF id
<1>4. /\ id \in Known(jobs) /\ jobs[id] \in Entry /\ EntryOK(jobs[id])
      /\ jobs[id].job.status = "queued" /\ jobs[id].age = Unfinished
      /\ jobs[id].job \in Job
  BY <1>1, EntryFacts DEF Waiting, Terminal, Entry
<1>5. /\ JobOK(Start(jobs[id].job)) /\ Start(jobs[id].job).status = "running"
      /\ Start(jobs[id].job).files = jobs[id].job.files
  BY <1>4, StartOK DEF EntryOK, MayStart, Start, Job
<1>6. /\ new \in Entry /\ new.job = Start(jobs[id].job) /\ new.age = Unfinished
      /\ new.submitted
  BY <1>1, <1>4, <1>5, NewJobInEntry DEF JobOK, Waiting, Entry
<1>. HIDE DEF new
<1>7. EntryOK(new) /\ new.owner # NoOwner
  BY <1>5, <1>6, NoEntryUnknown DEF EntryOK, IsTerminal, Terminal
<1>8. /\ jobs \in [JobId -> Entry \cup {NoEntry}]
      /\ started \in [JobId -> Entry \cup {NoEntry}] /\ started[id] = new
      /\ \A other \in JobId \ {id} : started[other] = jobs[other]
  BY <1>1, <1>6 DEF RegistryInv, TableOK
<1>. HIDE DEF started
<1>9. Known(started) = Known(jobs)
  BY <1>1, <1>4, <1>7, <1>8 DEF Known
<1>10. /\ gone \subseteq Known(jobs) \ {id}
       /\ \A other \in gone : jobs[other].age # Unfinished
  BY <1>1, <1>6, <1>8, <1>9 DEF Expired, FinishedIds, Known
<1>. HIDE DEF gone
<1>11. /\ jobs' \in [JobId -> Entry \cup {NoEntry}]
       /\ Known(jobs)' = Known(jobs) \ gone
       /\ \A other \in Known(jobs) \ gone : jobs'[other] = started[other]
  BY <1>3, <1>8, <1>9, WithoutKnown
<1>12. jobs'[id] = new /\ id \in Known(jobs)'
       /\ \A other \in Known(jobs)' \ {id} : other \in Known(jobs) /\ jobs'[other] = jobs[other]
  BY <1>4, <1>8, <1>10, <1>11 DEF Known
<1>13. TableOK'
  BY <1>7, <1>11, <1>12 DEF RegistryInv, TableOK
<1>14. QueueOK'
  <2>1. /\ queue' \in Seq(JobId)
        /\ \A x : Lists(queue', x) <=> Lists(queue, x) /\ x # id /\ x \notin gone
        /\ \A x, y : Precedes(queue', x, y) => Precedes(queue, x, y)
    BY <1>2, <1>3, RetainFilters
  <2>2. \A other \in JobId : Waiting(other)' <=> Waiting(other) /\ other # id /\ other \notin gone
    BY <1>5, <1>6, <1>11, <1>12 DEF Waiting
  <2>. QED
    BY <2>1, <2>2 DEF RegistryInv, QueueOK
<1>15. Running(jobs)' = {id}
  BY <1>1, <1>5, <1>6, <1>12 DEF Running, Known
<1>16. OneRunning' /\ ClosedOK'
  BY <1>1, <1>15 DEF OneRunning, ClosedOK, ClosedStaysEmpty, RegistryInv
<1>17. TableStep(id)
  BY <1>1, <1>12, <1>13, <1>14, <1>16 DEF TableStep, SameEntry, RegistryInv
<1>. QED
  BY <1>1, <1>5, <1>6, <1>11, <1>12, <1>15, <1>17 DEF id

--------------------------------------------------------------------------------
(* What a step leaves to the jobs it is not about.                          *)
DisksStay(j) ==
  \A id \in JobId \ {j} : disk'[id] = IF InUse(id)' THEN disk[id] ELSE NoDisk

UploadsStay(j) ==
  \A c \in Client : \/ upload'[c] = upload[c]
                    \/ upload[c].id \in {j, NoJob} /\ upload'[c].id \in {j, NoJob}

Frame(j) == TableStep(j) /\ DisksStay(j) /\ UploadsStay(j)

LEMMA FrameKeeps ==
  ASSUME StoreInv, NEW j, Frame(j), NEW id \in JobId \ {j}
  PROVE  IdOK(id)'
<1>0. id # NoJob /\ id # j /\ id \in JobId
  BY StoreAssumption
<1>1. /\ disk'[id] = IF InUse(id)' THEN disk[id] ELSE NoDisk
      /\ id \in Known(jobs)' => id \in Known(jobs) /\ SameEntry(id)
      /\ IdOK(id)
  BY DEF Frame, DisksStay, TableStep, StoreInv, StoreParts
<1>2. id \in Known(jobs)' => InUse(id)'
  BY DEF InUse
<1>3. \A c \in Client : upload[c].id = id \/ upload'[c].id = id => upload'[c] = upload[c]
  BY <1>0 DEF Frame, UploadsStay
<1>4. \A c \in Client : Fills(c, id)' <=> Fills(c, id)
  BY <1>3 DEF Fills
<1>5. id \in Known(jobs)' => FilesOK(id)'
  BY <1>1, <1>2 DEF IdOK, FilesOK, SameEntry, Reserved, Waiting, Running
<1>6. UploadsOK(id)'
  BY <1>1, <1>3, <1>4 DEF IdOK, UploadsOK, SameEntry, Reserved
<1>. QED
  BY <1>1, <1>5, <1>6 DEF IdOK

LEMMA NoSubject ==
  ASSUME StoreInv, Frame(NoJob)
  PROVE  \A id \in JobId : IdOK(id)'
BY FrameKeeps, StoreAssumption

LEMMA DiskSwept ==
  ASSUME ThreadsTyped, KeepDisk
  PROVE  disk' \in [JobId -> Disk] /\ \A j : DisksStay(j)
<1>1. NoDisk \in Disk
  BY JobStateAssumption DEF NoDisk, Disk
<1>2. disk' = [id \in JobId |-> IF InUse(id)' THEN disk[id] ELSE NoDisk]
  BY DEF KeepDisk, Swept
<1>. QED
  BY <1>1, <1>2 DEF DisksStay, ThreadsTyped

(* A directory that nobody uses is gone already.                            *)
LEMMA DiskRests ==
  ASSUME StoreInv, disk' = disk, UNCHANGED <<upload, reader>>,
         Known(jobs) \subseteq Known(jobs)', worker'.id = worker.id \/ worker.id = NoJob
  PROVE  disk' \in [JobId -> Disk] /\ \A j : DisksStay(j)
<1>1. ASSUME NEW id \in JobId PROVE disk'[id] = IF InUse(id)' THEN disk[id] ELSE NoDisk
  <2>1. InUse(id) => InUse(id)'
    BY StoreAssumption DEF InUse
  <2>2. ~ InUse(id) => disk[id] = NoDisk
    BY DEF StoreInv, StoreParts, IdOK
  <2>. QED
    BY <2>1, <2>2
<1>. QED
  BY <1>1 DEF DisksStay, StoreInv, StoreParts, ThreadsTyped

(* What a step that is about one job, or none, does to the others' states.  *)
LEMMA StatesStay ==
  ASSUME StoreInv, NEW j, TableStep(j), NEW id \in JobId \ {j}
  PROVE  /\ id \in Known(jobs)' => id \in Known(jobs)
         /\ id \in Running(jobs)' <=> id \in Running(jobs)
         /\ Waiting(id)' => Waiting(id)
BY DEF TableStep, SameEntry, Running, Waiting, Known

LEMMA QuietStates ==
  ASSUME StoreInv, TableStep(NoJob)
  PROVE  /\ Running(jobs)' = Running(jobs) /\ Known(jobs)' \subseteq Known(jobs)
         /\ \A id \in JobId : Waiting(id)' => Waiting(id)
<1>1. \A id \in JobId : /\ id \in Known(jobs)' => id \in Known(jobs)
                        /\ id \in Running(jobs)' <=> id \in Running(jobs)
                        /\ Waiting(id)' => Waiting(id)
  BY StatesStay, StoreAssumption
<1>. QED
  BY <1>1 DEF Known, Running

(* The worker's own state, under a step of somebody else.                   *)
LEMMA WorkerRests ==
  ASSUME StoreInv, NEW j, TableStep(j), worker' = worker,
         j \notin Running(jobs), j \notin Running(jobs)'
  PROVE  WorkerOK' /\ OrderOK'
<1>1. /\ WorkerOK /\ OrderOK /\ worker \in WorkerState
  BY DEF StoreInv, StoreParts, ThreadsTyped
<1>2. \A id \in JobId : id \in Running(jobs)' <=> id \in Running(jobs)
  BY StatesStay
<1>3. Running(jobs)' = Running(jobs)
  BY <1>2 DEF Running, Known
<1>4. closed' = closed
  BY DEF TableStep
<1>5. WorkerOK'
  BY <1>1, <1>3, <1>4 DEF WorkerOK
<1>6. OrderOK'
  BY <1>1, <1>4 DEF OrderOK
<1>. QED
  BY <1>5, <1>6

--------------------------------------------------------------------------------
(* The worker.                                                              *)
LEMMA IdleMoves ==
  ASSUME NEW pc \in WorkerPlaces
  PROVE  LET new == [WorkerIdle EXCEPT !.pc = pc] IN
         /\ new \in WorkerState /\ new.pc = pc /\ new.id = NoJob
         /\ ~ new.dropping /\ new.exit = "loop" /\ ~ new.woken
<1>1. 0 \in 0 .. MaxJobFiles /\ NoJob \in JobId \cup {NoJob}
  BY JobStateAssumption
<1>2. "completed" \in Terminal
  BY DEF Terminal
<1>3. /\ WorkerIdle \in WorkerState /\ WorkerIdle.id = NoJob /\ WorkerIdle.exit = "loop"
      /\ WorkerIdle.dropping = FALSE /\ WorkerIdle.woken = FALSE
  <2>1. "begin" \in WorkerPlaces
    BY DEF WorkerPlaces, Resting
  <2>. QED
    BY <1>1, <1>2, <2>1 DEF WorkerIdle, WorkerState
<1>. QED
  BY <1>3 DEF WorkerState

LEMMA GoMoves ==
  ASSUME worker \in WorkerState, NEW pc \in WorkerPlaces, Go(pc)
  PROVE  /\ worker' \in WorkerState /\ worker'.pc = pc /\ worker'.id = worker.id
         /\ worker'.status = worker.status /\ worker'.left = worker.left
         /\ worker'.woken = worker.woken /\ worker'.dropping = worker.dropping
         /\ worker'.exit = worker.exit
BY DEF Go, WorkerState

LEMMA RestingFacts ==
  ASSUME StoreInv, worker.pc \in Resting
  PROVE  /\ worker \in WorkerState /\ worker.id = NoJob /\ ~ worker.dropping
         /\ Running(jobs) = {} /\ (Orderly => worker.exit # "error")
<1>1. WorkerOK /\ OrderOK /\ worker \in WorkerState
  BY DEF StoreInv, StoreParts, ThreadsTyped
<1>2. worker.id = NoJob
  BY <1>1 DEF WorkerOK
<1>3. ~ worker.dropping /\ (Orderly => worker.exit # "error")
  BY <1>1 DEF WorkerOK, OrderOK, Resting
<1>4. Running(jobs) = {}
  BY <1>1, <1>2, StoreAssumption DEF WorkerOK, Running, Known
<1>. QED
  BY <1>1, <1>2, <1>3, <1>4

(* A step without a job, from one of its places to another.                 *)
LEMMA RestingMoves ==
  ASSUME StoreInv, UNCHANGED registryVars, worker.pc \in Resting, worker.pc # "stopped",
         disk' = disk \/ KeepDisk, WorkerUnchanged,
         workPermit' \in BOOLEAN, changedPermit' = changedPermit,
         worker' \in WorkerState, worker'.pc \in Resting, worker'.id = NoJob,
         ~ worker'.dropping, Orderly => worker'.exit # "error" /\ worker'.pc # "failed",
         worker'.pc \in {"check", "await", "wait"} /\ ~ closed /\ (\E id \in JobId : Waiting(id))
           => workPermit' \/ \E c \in Client : upload[c].pc = "notify",
         worker'.pc \in {"await", "wait"} /\ closed => worker'.woken \/ closing = "cleared"
  PROVE  StoreInv'
<1>0. ThreadsTyped /\ OrderOK /\ SignalsOK /\ RegistryInv /\ \A c \in Client : ClientOK(c)
  BY DEF StoreInv, StoreParts
<1>1. /\ RegistryInv' /\ closed' = closed /\ TableStep(NoJob)
      /\ Known(jobs)' = Known(jobs) /\ Running(jobs)' = {}
  <2>1. (\A j : TableStep(j)) /\ Known(jobs)' = Known(jobs) /\ Running(jobs)' = Running(jobs)
    BY <1>0, NoStep
  <2>. QED
    BY <2>1, RestingFacts DEF TableStep
<1>2. disk' \in [JobId -> Disk] /\ DisksStay(NoJob)
  BY <1>0, <1>1, DiskSwept, DiskRests, RestingFacts DEF WorkerUnchanged
<1>3. \A id \in JobId : IdOK(id)'
  BY <1>1, <1>2, NoSubject DEF Frame, UploadsStay, WorkerUnchanged
<1>4. ThreadsTyped' /\ \A c \in Client : ClientOK(c)'
  BY <1>0, <1>2 DEF ThreadsTyped, ClientOK, WorkerUnchanged
<1>5. WorkerOK'
  BY <1>1 DEF WorkerOK, Resting, Busy
<1>6. OrderOK'
  BY <1>0, <1>1 DEF OrderOK
<1>7. SignalsOK'
  <2>1. \A id \in JobId : Waiting(id)' => Waiting(id)
    BY <1>1, QuietStates
  <2>. QED
    BY <1>0, <1>1, <2>1 DEF SignalsOK, WorkerUnchanged
<1>. QED
  BY <1>1, <1>3, <1>4, <1>5, <1>6, <1>7 DEF StoreInv, StoreParts

LEMMA ArmKeeps ==
  ASSUME StoreInv, Arm
  PROVE  StoreInv'
<1>1. /\ worker.pc \in Resting /\ worker.pc # "stopped"
      /\ workPermit' \in BOOLEAN /\ changedPermit' = changedPermit
      /\ UNCHANGED registryVars /\ disk' = disk /\ WorkerUnchanged
  BY DEF Arm, At, Resting, NoNotify, StoreInv, StoreParts, ThreadsTyped
<1>2. \E pc \in {"stopped", "try"} : worker' = [WorkerIdle EXCEPT !.pc = pc]
  BY DEF Arm
<1>3. {"stopped", "try"} \subseteq WorkerPlaces \cap Resting
  BY DEF WorkerPlaces, Resting
<1>4. /\ worker' \in WorkerState /\ worker'.pc \in {"stopped", "try"} /\ worker'.id = NoJob
      /\ ~ worker'.dropping /\ worker'.exit = "loop"
  BY <1>2, <1>3, IdleMoves
<1>. QED
  BY <1>1, <1>3, <1>4, RestingMoves

LEMMA CheckClosedKeeps ==
  ASSUME StoreInv, CheckClosed
  PROVE  StoreInv'
<1>1. /\ worker.pc \in Resting /\ worker.pc # "stopped" /\ worker.pc = "check"
      /\ workPermit' = workPermit /\ workPermit' \in BOOLEAN /\ changedPermit' = changedPermit
      /\ UNCHANGED registryVars /\ disk' = disk /\ WorkerUnchanged
  BY DEF CheckClosed, At, Resting, NoNotify, StoreInv, StoreParts, ThreadsTyped
<1>2. {"stopped", "await"} \subseteq WorkerPlaces \cap Resting
  BY DEF WorkerPlaces, Resting
<1>3. PICK pc \in {"stopped", "await"} : Go(pc) /\ (pc = "await" => ~ closed)
  BY DEF CheckClosed
<1>4. /\ worker' \in WorkerState /\ worker'.pc = pc /\ worker'.id = NoJob
      /\ ~ worker'.dropping /\ (Orderly => worker'.exit # "error")
  BY <1>1, <1>2, <1>3, GoMoves, RestingFacts
<1>5. ~ closed /\ (\E id \in JobId : Waiting(id))
           => workPermit' \/ \E c \in Client : upload[c].pc = "notify"
  BY <1>1 DEF StoreInv, StoreParts, SignalsOK
<1>. QED
  BY <1>1, <1>2, <1>3, <1>4, <1>5, RestingMoves

LEMMA AwaitKeeps ==
  ASSUME StoreInv, Await
  PROVE  StoreInv'
<1>1. /\ worker.pc \in Resting /\ worker.pc # "stopped" /\ worker.pc = "await" /\ Go("wait")
      /\ workPermit' = workPermit /\ workPermit' \in BOOLEAN /\ changedPermit' = changedPermit
      /\ UNCHANGED registryVars /\ disk' = disk /\ WorkerUnchanged
  BY DEF Await, At, Resting, NoNotify, StoreInv, StoreParts, ThreadsTyped
<1>2. "wait" \in WorkerPlaces \cap Resting
  BY DEF WorkerPlaces, Resting
<1>3. /\ worker' \in WorkerState /\ worker'.pc = "wait" /\ worker'.id = NoJob
      /\ ~ worker'.dropping /\ (Orderly => worker'.exit # "error")
      /\ worker'.woken = worker.woken
  BY <1>1, <1>2, GoMoves, RestingFacts
<1>4. /\ ~ closed /\ (\E id \in JobId : Waiting(id))
           => workPermit' \/ \E c \in Client : upload[c].pc = "notify"
      /\ closed => worker'.woken \/ closing = "cleared"
  BY <1>1, <1>3 DEF StoreInv, StoreParts, SignalsOK
<1>. QED
  BY <1>1, <1>2, <1>3, <1>4, RestingMoves

LEMMA WakeKeeps ==
  ASSUME StoreInv, Wake
  PROVE  StoreInv'
<1>1. /\ worker.pc \in Resting /\ worker.pc # "stopped"
      /\ workPermit' \in BOOLEAN /\ changedPermit' = changedPermit
      /\ UNCHANGED registryVars /\ disk' = disk /\ WorkerUnchanged
  BY DEF Wake, At, Resting, StoreInv, StoreParts, ThreadsTyped
<1>2. {"stopped", "try"} \subseteq WorkerPlaces \cap Resting
  BY DEF WorkerPlaces, Resting
<1>3. /\ worker' \in WorkerState /\ worker'.pc \in {"stopped", "try"} /\ worker'.id = NoJob
      /\ ~ worker'.dropping /\ (Orderly => worker'.exit # "error")
  <2>1. CASE Go("stopped")
    BY <1>1, <1>2, <2>1, GoMoves, RestingFacts
  <2>2. CASE worker' = [WorkerIdle EXCEPT !.pc = "try"]
    BY <1>2, <2>2, IdleMoves
  <2>. QED
    BY <2>1, <2>2 DEF Wake
<1>. QED
  BY <1>1, <1>2, <1>3, RestingMoves

(* Nothing to start: the queue is empty, or closed for good.                *)
LEMMA TakeNothingKeeps ==
  ASSUME StoreInv, Take, ~ (MayStartNext /\ Servable)
  PROVE  StoreInv'
<1>1. /\ worker.pc \in Resting /\ worker.pc # "stopped"
      /\ workPermit' \in BOOLEAN /\ changedPermit' = changedPermit
      /\ UNCHANGED registryVars /\ KeepDisk /\ WorkerUnchanged
  BY DEF Take, At, Resting, NoNotify, StoreInv, StoreParts, ThreadsTyped
<1>2. ~ MayStartNext /\ Go("check")
  BY FrontIsServable DEF Take, MayStartNext, StoreInv
<1>3. ~ closed => \A id \in JobId : ~ Waiting(id)
  <2>1. ~ closed => queue = << >>
    BY <1>1, <1>2, RestingFacts DEF MayStartNext, Open
  <2>. QED
    BY <2>1, EmptyListsNothing DEF StoreInv, RegistryInv, QueueOK
<1>4. "check" \in WorkerPlaces \cap Resting
  BY DEF WorkerPlaces, Resting
<1>5. /\ worker' \in WorkerState /\ worker'.pc = "check" /\ worker'.id = NoJob
      /\ ~ worker'.dropping /\ (Orderly => worker'.exit # "error")
  BY <1>1, <1>2, <1>4, GoMoves, RestingFacts
<1>. QED
  BY <1>1, <1>3, <1>4, <1>5, RestingMoves

(* A step of the worker about its job, or about none.                       *)
LEMMA WorkerMoves ==
  ASSUME StoreInv, NEW j \in JobId \cup {NoJob}, TableStep(j), j \in JobId => IdOK(j)',
         WorkerUnchanged, workPermit' \in BOOLEAN, changedPermit' \in BOOLEAN,
         disk' \in [JobId -> Disk], DisksStay(j),
         worker' \in WorkerState, WorkerOK', OrderOK', worker'.pc \notin {"check", "await", "wait"}
  PROVE  StoreInv'
<1>1. ThreadsTyped /\ SignalsOK /\ \A c \in Client : ClientOK(c)
  BY DEF StoreInv, StoreParts
<1>2. RegistryInv' /\ closed' = closed
  BY DEF TableStep
<1>3. \A id \in JobId : IdOK(id)'
  BY FrameKeeps DEF Frame, UploadsStay, WorkerUnchanged
<1>4. ThreadsTyped' /\ \A c \in Client : ClientOK(c)'
  BY <1>1 DEF ThreadsTyped, ClientOK, WorkerUnchanged
<1>5. SignalsOK'
  BY <1>1, <1>2 DEF SignalsOK, WorkerUnchanged
<1>. QED
  BY <1>2, <1>3, <1>4, <1>5 DEF StoreInv, StoreParts

LEMMA BusyFacts ==
  ASSUME StoreInv, worker.pc \notin Resting
  PROVE  /\ worker \in WorkerState /\ worker.id \in JobId
         /\ \A id \in Running(jobs) : id = worker.id
         /\ worker.pc \in Busy /\ ~ closed => worker.id \in Running(jobs)
         /\ worker.id \in Known(jobs) => ~ closed
         /\ Orderly => ~ closed
         /\ workPermit \in BOOLEAN /\ changedPermit \in BOOLEAN
<1>1. WorkerOK /\ OrderOK /\ ThreadsTyped /\ worker \in WorkerState
  BY DEF StoreInv, StoreParts, ThreadsTyped
<1>2. worker.id \in JobId
  BY <1>1 DEF WorkerOK, WorkerState
<1>3. worker.id \in Known(jobs) => ~ closed
  BY DEF StoreInv, RegistryInv, ClosedOK, ClosedStaysEmpty
<1>4. Orderly => ~ closed
  BY <1>1 DEF OrderOK, Resting
<1>. QED
  BY <1>1, <1>2, <1>3, <1>4 DEF WorkerOK, ThreadsTyped

(* The worker goes on with its job, or with leaving it.                     *)
LEMMA BusyMoves ==
  ASSUME StoreInv, TableStep(NoJob), WorkerUnchanged,
         workPermit' \in BOOLEAN, changedPermit' \in BOOLEAN,
         KeepDisk \/ (disk' = disk /\ Known(jobs)' = Known(jobs)),
         worker.pc \notin Resting, worker'.pc \in WorkerPlaces \ Resting,
         worker' \in WorkerState, worker'.id = worker.id,
         worker'.pc \in Busy \cup {"drop"} \/ Running(jobs)' = {},
         worker'.pc \in Busy => worker.pc \in Busy \/ worker.id \in Running(jobs)',
         worker'.dropping => /\ worker'.status = "cancelled"
                             /\ worker'.pc \in {"validate", "locked", "changed", "work", "leave"},
         worker'.pc = "record" => worker'.left > 0,
         Orderly /\ worker'.exit = "error" =>
           /\ worker'.pc \in {"validate", "locked", "changed", "work"} /\ ~ worker'.dropping
           /\ worker'.pc \in {"validate", "locked"} => worker'.status = "failed"
  PROVE  StoreInv'
<1>1. /\ ThreadsTyped /\ closed' = closed /\ Running(jobs)' = Running(jobs)
  BY QuietStates DEF StoreInv, StoreParts, TableStep
<1>2. disk' \in [JobId -> Disk] /\ DisksStay(NoJob)
  <2>1. CASE KeepDisk
    BY <1>1, <2>1, DiskSwept
  <2>2. CASE disk' = disk /\ Known(jobs)' = Known(jobs)
    BY <2>2, DiskRests DEF WorkerUnchanged
  <2>. QED
    BY <2>1, <2>2
<1>3. WorkerOK'
  <2>1. worker.id # NoJob /\ worker.id \in JobId
    BY BusyFacts, StoreAssumption
  <2>2. \A id \in Running(jobs)' : worker'.id = id
    BY <1>1, BusyFacts
  <2>3. worker'.pc \in Busy /\ ~ closed' => worker'.id \in Running(jobs)'
    BY <1>1, BusyFacts
  <2>. QED
    BY <2>1, <2>2, <2>3 DEF WorkerOK
<1>4. OrderOK'
  <2>1. Orderly => ~ closed'
    BY <1>1, BusyFacts
  <2>. QED
    BY <2>1 DEF OrderOK, Resting
<1>5. worker'.pc \notin {"check", "await", "wait"} /\ NoJob \notin JobId
  BY StoreAssumption DEF Resting
<1>. QED
  BY <1>2, <1>3, <1>4, <1>5, WorkerMoves

LEMMA ConnectKeeps ==
  ASSUME StoreInv, Connect
  PROVE  StoreInv'
<1>1. /\ worker.pc = "connect" /\ worker.pc \notin Resting /\ worker.pc \in Busy
      /\ UNCHANGED registryVars /\ disk' = disk /\ NoNotify /\ WorkerUnchanged
  BY DEF Connect, At, Resting, Busy
<1>2. /\ worker \in WorkerState /\ workPermit' \in BOOLEAN /\ changedPermit' \in BOOLEAN
      /\ ~ worker.dropping /\ (Orderly => worker.exit # "error")
  BY <1>1, BusyFacts DEF StoreInv, StoreParts, WorkerOK, OrderOK, NoNotify
<1>3. TableStep(NoJob) /\ Known(jobs)' = Known(jobs)
  BY <1>1, NoStep DEF StoreInv
<1>4. {"drop", "enter", "validate"} \subseteq WorkerPlaces \ Resting
      /\ {"enter", "validate"} \subseteq Busy
  BY DEF WorkerPlaces, Busy, Resting
<1>5. "failed" \in Terminal
  BY DEF Terminal
<1>6. /\ worker' \in WorkerState /\ worker'.id = worker.id /\ ~ worker'.dropping
      /\ worker'.pc \in {"drop", "enter", "validate"}
      /\ Orderly /\ worker'.exit = "error" => worker'.pc = "validate" /\ worker'.status = "failed"
  <2>1. CASE worker' = [worker EXCEPT !.pc = "drop", !.exit = "stop"]
    BY <1>2, <1>4, <2>1 DEF WorkerState
  <2>2. CASE Go("enter")
    BY <1>2, <1>4, <2>2, GoMoves
  <2>3. CASE worker' = [worker EXCEPT !.pc = "validate", !.status = "failed", !.exit = "error"]
    BY <1>2, <1>4, <1>5, <2>3 DEF WorkerState
  <2>. QED
    BY <2>1, <2>2, <2>3 DEF Connect
<1>. QED
  BY <1>1, <1>2, <1>3, <1>4, <1>6, BusyMoves

(* What a step of a busy worker starts from.                                *)
LEMMA BusyStart ==
  ASSUME StoreInv, worker.pc \in Busy, NoNotify
  PROVE  /\ worker.pc \notin Resting /\ worker \in WorkerState
         /\ workPermit' \in BOOLEAN /\ changedPermit' \in BOOLEAN
         /\ worker.dropping => worker.status = "cancelled" /\ worker.pc \in {"validate", "locked"}
         /\ Orderly /\ worker.exit = "error" =>
              /\ worker.pc \in {"validate", "locked"} /\ ~ worker.dropping
              /\ worker.status = "failed"
BY DEF StoreInv, StoreParts, ThreadsTyped, WorkerOK, OrderOK, NoNotify, Busy, Resting

LEMMA EnterKeeps ==
  ASSUME StoreInv, Enter
  PROVE  StoreInv'
<1>1. /\ worker.pc = "enter" /\ worker.pc \in Busy
      /\ Prune /\ KeepDisk /\ NoNotify /\ WorkerUnchanged
  BY DEF Enter, At, Busy
<1>2. TableStep(NoJob)
  BY <1>1, PruneStep DEF StoreInv
<1>3. {"drop", "execute"} \subseteq WorkerPlaces \ Resting
  BY DEF WorkerPlaces, Busy, Resting
<1>4. PICK pc \in {"drop", "execute"} : Go(pc)
  BY DEF Enter
<1>5. /\ worker' \in WorkerState /\ worker'.id = worker.id /\ worker'.pc = pc
      /\ worker'.dropping = worker.dropping /\ worker'.exit = worker.exit
  BY <1>1, <1>3, <1>4, BusyStart, GoMoves
<1>6. ~ worker'.dropping /\ (Orderly => worker'.exit # "error")
  BY <1>1, <1>5, BusyStart
<1>7. /\ worker'.pc \in WorkerPlaces \ Resting
      /\ worker'.pc \in Busy \cup {"drop"} /\ worker'.pc # "record"
  BY <1>3, <1>5 DEF Busy
<1>8. worker.pc \notin Resting /\ workPermit' \in BOOLEAN /\ changedPermit' \in BOOLEAN
  BY <1>1, BusyStart
<1>. QED
  BY <1>1, <1>2, <1>5, <1>6, <1>7, <1>8, BusyMoves

LEMMA StopGenerationKeeps ==
  ASSUME StoreInv, StopGeneration
  PROVE  StoreInv'
<1>1. /\ worker.pc \in {"enter", "execute"} /\ worker.pc \in Busy
      /\ UNCHANGED registryVars /\ disk' = disk /\ NoNotify /\ WorkerUnchanged
      /\ worker' = [worker EXCEPT !.pc = "drop", !.exit = "stop"]
  BY DEF StopGeneration, Busy
<1>2. TableStep(NoJob) /\ Known(jobs)' = Known(jobs)
  BY <1>1, NoStep DEF StoreInv
<1>3. "drop" \in WorkerPlaces \ Resting /\ "drop" \notin Busy
  BY DEF WorkerPlaces, Busy, Resting
<1>4. /\ worker' \in WorkerState /\ worker'.id = worker.id /\ worker'.pc = "drop"
      /\ worker'.dropping = worker.dropping /\ worker'.exit = "stop"
  BY <1>1, <1>3, BusyStart DEF WorkerState
<1>5. ~ worker'.dropping
  BY <1>1, <1>4, BusyStart
<1>. QED
  BY <1>1, <1>2, <1>3, <1>4, <1>5, BusyStart, BusyMoves

LEMMA SourceDoneKeeps ==
  ASSUME StoreInv, SourceDone
  PROVE  StoreInv'
<1>1. /\ worker.pc = "execute" /\ worker.pc \in Busy /\ worker.left > 0
      /\ Prune /\ KeepDisk /\ NoNotify /\ WorkerUnchanged
  BY DEF SourceDone, SourcesLeft, At, Busy
<1>2. TableStep(NoJob)
  BY <1>1, PruneStep DEF StoreInv
<1>3. {"record", "validate"} \subseteq (WorkerPlaces \ Resting) \cap Busy
  BY DEF WorkerPlaces, Busy, Resting
<1>4. "failed" \in Terminal
  BY DEF Terminal
<1>5. /\ worker' \in WorkerState /\ worker'.id = worker.id
      /\ worker'.pc \in {"record", "validate"} /\ worker'.left = worker.left
      /\ worker'.dropping = worker.dropping /\ worker'.exit = worker.exit
  <2>1. worker \in WorkerState
    BY <1>1, BusyStart
  <2>2. CASE worker' = [worker EXCEPT !.pc = "record"]
    BY <1>3, <2>1, <2>2 DEF WorkerState
  <2>3. CASE worker' = [worker EXCEPT !.pc = "validate", !.status = "failed"]
    BY <1>3, <1>4, <2>1, <2>3 DEF WorkerState
  <2>. QED
    BY <2>2, <2>3 DEF SourceDone
<1>6. ~ worker'.dropping /\ (Orderly => worker'.exit # "error")
  BY <1>1, <1>5, BusyStart
<1>7. /\ worker'.pc \in WorkerPlaces \ Resting /\ worker'.pc \in Busy
      /\ worker'.pc = "record" => worker'.left > 0
  BY <1>1, <1>3, <1>5
<1>8. worker.pc \notin Resting /\ workPermit' \in BOOLEAN /\ changedPermit' \in BOOLEAN
  BY <1>1, BusyStart
<1>. QED
  BY <1>1, <1>2, <1>5, <1>6, <1>7, <1>8, BusyMoves

LEMMA BatchDoneKeeps ==
  ASSUME StoreInv, BatchDone
  PROVE  StoreInv'
<1>1. /\ worker.pc = "execute" /\ worker.pc \in Busy /\ Go("validate")
      /\ UNCHANGED registryVars /\ disk' = disk /\ NoNotify /\ WorkerUnchanged
  BY DEF BatchDone, At, Busy
<1>2. TableStep(NoJob) /\ Known(jobs)' = Known(jobs)
  BY <1>1, NoStep DEF StoreInv
<1>3. "validate" \in (WorkerPlaces \ Resting) \cap Busy
  BY DEF WorkerPlaces, Busy, Resting
<1>4. /\ worker' \in WorkerState /\ worker'.id = worker.id /\ worker'.pc = "validate"
      /\ worker'.dropping = worker.dropping /\ worker'.exit = worker.exit
  BY <1>1, <1>3, BusyStart, GoMoves
<1>5. ~ worker'.dropping /\ (Orderly => worker'.exit # "error")
  BY <1>1, <1>4, BusyStart
<1>. QED
  BY <1>1, <1>2, <1>3, <1>4, <1>5, BusyStart, BusyMoves

(* A report of a source: the job stays as it is, but for one more outcome.  *)
LEMMA RecordOutcomeKeeps ==
  ASSUME StoreInv, NEW outcome \in Outcome, RecordOutcome(outcome)
  PROVE  StoreInv'
<1>1. /\ worker.pc = "record" /\ worker.pc \in Busy
      /\ KeepDisk /\ NoNotify /\ WorkerUnchanged
  BY DEF RecordOutcome, At, Busy
<1>0. PICK id \in JobId : worker.id = id
  BY <1>1, BusyStart, BusyFacts
<1>2. /\ worker \in WorkerState /\ worker.left > 0
      /\ \A other \in Running(jobs) : other = id
      /\ RegistryInv /\ ThreadsTyped /\ IdOK(id)
  BY <1>0, <1>1, BusyStart, BusyFacts DEF StoreInv, StoreParts, WorkerOK
<1>3. "failed" \in Terminal /\ {"execute", "validate"} \subseteq (WorkerPlaces \ Resting) \cap Busy
  BY DEF Terminal, WorkerPlaces, Busy, Resting
<1>4. CASE /\ Record(OwnerOf(id), id, outcome)
           /\ worker' = [worker EXCEPT !.pc = "execute", !.left = @ - 1, !.status =
                           IF outcome = "failed" THEN "failed" ELSE @]
  <2>1. /\ TableStep(id) /\ Known(jobs)' = Known(jobs)
        /\ id \in Running(jobs) /\ id \in Running(jobs)'
        /\ jobs'[id].job.files = jobs[id].job.files /\ jobs'[id].age = jobs[id].age
        /\ jobs'[id].submitted = jobs[id].submitted
    BY <1>2, <1>4, RecordStep
  <2>2. /\ worker' \in WorkerState /\ worker'.id = id /\ worker'.pc = "execute"
        /\ worker'.dropping = worker.dropping /\ worker'.exit = worker.exit
    <3>1. worker.left - 1 \in 0 .. MaxJobFiles
      BY <1>2, JobStateAssumption DEF WorkerState
    <3>. QED
      BY <1>0, <1>2, <1>3, <1>4, <3>1 DEF WorkerState
  <2>3. ~ worker'.dropping /\ (Orderly => worker'.exit # "error")
    BY <1>1, <2>2, BusyStart
  <2>4. disk' \in [JobId -> Disk] /\ DisksStay(id)
    BY <1>1, <1>2, DiskSwept
  <2>5. IdOK(id)'
    <3>1. InUse(id)' /\ disk'[id] = disk[id]
      BY <1>1, <2>2 DEF InUse, KeepDisk, Swept
    <3>2. /\ ~ Waiting(id)' /\ ~ Reserved(id)' /\ ~ Reserved(id) /\ jobs'[id].age = Unfinished
          /\ jobs[id].job.status = "running" /\ jobs'[id].job.status = "running"
      BY <1>2, <2>1, EntryFacts DEF Waiting, Reserved, Running, Terminal, Known
    <3>3. FilesOK(id)'
      BY <1>2, <2>1, <3>1, <3>2 DEF IdOK, FilesOK, Running
    <3>4. UploadsOK(id)'
      BY <1>1, <1>2, <2>1, <3>2 DEF IdOK, UploadsOK, Fills, WorkerUnchanged
    <3>. QED
      BY <3>1, <3>3, <3>4 DEF IdOK
  <2>6. \A other \in Running(jobs)' : other = id
    BY <1>2, <2>1, StatesStay DEF Running, Known
  <2>7. WorkerOK' /\ OrderOK'
    <3>1. id # NoJob /\ closed' = closed /\ (Orderly => ~ closed)
      BY <1>1, <1>2, <2>1, BusyStart, BusyFacts, StoreAssumption DEF TableStep
    <3>. QED
      BY <1>3, <2>1, <2>2, <2>3, <2>6, <3>1 DEF WorkerOK, OrderOK
  <2>. QED
    BY <1>1, <1>2, <1>3, <2>1, <2>2, <2>4, <2>5, <2>7, BusyStart, WorkerMoves
<1>5. CASE worker' = [worker EXCEPT !.pc = "validate", !.status = "failed"]
           /\ UNCHANGED registryVars
  <2>1. TableStep(NoJob)
    BY <1>2, <1>5, NoStep
  <2>2. /\ worker' \in WorkerState /\ worker'.id = worker.id /\ worker'.pc = "validate"
        /\ worker'.dropping = worker.dropping /\ worker'.exit = worker.exit
    BY <1>2, <1>3, <1>5 DEF WorkerState
  <2>3. ~ worker'.dropping /\ (Orderly => worker'.exit # "error")
    BY <1>1, <2>2, BusyStart
  <2>. QED
    BY <1>1, <1>3, <2>1, <2>2, <2>3, BusyStart, BusyMoves
<1>. QED
  BY <1>0, <1>4, <1>5 DEF RecordOutcome

(* A finish that fails leaves a job that is gone, or leaves it to the drop. *)
LEMMA FinishErrorMoves ==
  ASSUME StoreInv, worker.pc \in {"validate", "locked"}, FinishError,
         TableStep(NoJob), KeepDisk, NoNotify, WorkerUnchanged,
         worker.dropping => worker.id \notin Known(jobs)',
         ~ (Orderly /\ worker.exit = "error")
  PROVE  StoreInv'
<1>1. worker.pc \in Busy
  BY DEF Busy
<1>2. /\ worker.pc \notin Resting /\ workPermit' \in BOOLEAN /\ changedPermit' \in BOOLEAN
      /\ worker \in WorkerState
      /\ worker.dropping => worker.status = "cancelled"
      /\ Running(jobs)' = Running(jobs)
  BY <1>1, BusyStart, QuietStates
<1>3. {"drop", "leave"} \subseteq WorkerPlaces \ Resting /\ "drop" \notin Busy /\ "leave" \notin Busy
  BY DEF WorkerPlaces, Busy, Resting
<1>4. PICK pc \in {"drop", "leave"} : Go(pc) /\ (pc = "leave" <=> worker.dropping)
  BY <1>2 DEF FinishError, WorkerState
<1>5. /\ worker' \in WorkerState /\ worker'.id = worker.id /\ worker'.pc = pc
      /\ worker'.dropping = worker.dropping /\ worker'.exit = worker.exit
      /\ worker'.status = worker.status
  BY <1>2, <1>3, <1>4, GoMoves
<1>6. worker.dropping => Running(jobs)' = {}
  BY <1>2, BusyFacts DEF Running
<1>7. /\ worker'.pc \in WorkerPlaces \ Resting /\ worker'.pc \notin Busy /\ worker'.pc # "record"
      /\ worker'.pc \in Busy \cup {"drop"} \/ Running(jobs)' = {}
      /\ worker'.dropping => worker'.status = "cancelled" /\ worker'.pc = "leave"
      /\ ~ (Orderly /\ worker'.exit = "error")
  BY <1>2, <1>3, <1>4, <1>5, <1>6
<1>. QED
  BY <1>2, <1>5, <1>7, BusyMoves

LEMMA FinishValidateKeeps ==
  ASSUME StoreInv, FinishValidate
  PROVE  StoreInv'
<1>1. /\ worker.pc = "validate" /\ worker.pc \in Busy
      /\ Prune /\ KeepDisk /\ NoNotify /\ WorkerUnchanged
  BY DEF FinishValidate, At, Busy
<1>2. /\ TableStep(NoJob) /\ Known(jobs)' = Known(AfterPrune)
      /\ Running(jobs)' = Running(jobs)
  BY <1>1, PruneStep, QuietStates DEF StoreInv
<1>3. CASE Valid /\ Go("locked")
  <2>1. "locked" \in (WorkerPlaces \ Resting) \cap Busy
    BY DEF WorkerPlaces, Busy, Resting
  <2>2. /\ worker' \in WorkerState /\ worker'.id = worker.id /\ worker'.pc = "locked"
        /\ worker'.dropping = worker.dropping /\ worker'.exit = worker.exit
        /\ worker'.status = worker.status
    BY <1>1, <1>3, <2>1, BusyStart, GoMoves
  <2>3. /\ worker.pc \notin Resting /\ workPermit' \in BOOLEAN /\ changedPermit' \in BOOLEAN
        /\ worker.dropping => worker.status = "cancelled"
        /\ Orderly /\ worker.exit = "error" => worker.status = "failed" /\ ~ worker.dropping
    BY <1>1, BusyStart
  <2>. QED
    BY <1>1, <1>2, <2>1, <2>2, <2>3, BusyMoves
<1>4. CASE ~ Valid /\ FinishError
  <2>1. worker.id \notin Known(jobs)'
    BY <1>2, <1>4 DEF Valid
  <2>2. ~ (Orderly /\ worker.exit = "error")
    BY <1>1, <1>2, <2>1, BusyStart, BusyFacts DEF Running
  <2>. QED
    BY <1>1, <1>2, <1>4, <2>1, <2>2, FinishErrorMoves
<1>. QED
  BY <1>3, <1>4 DEF FinishValidate

(* The end of the job, under both mutexes: its files and its result agree.  *)
LEMMA FinishCommitKeeps ==
  ASSUME StoreInv, FinishCommit
  PROVE  StoreInv'
<1>1. worker.pc = "locked" /\ worker.pc \in Busy /\ NoNotify /\ WorkerUnchanged
  BY DEF FinishCommit, At, Busy
<1>0. PICK id \in JobId : worker.id = id
  BY <1>1, BusyStart, BusyFacts
<1>2. /\ worker \in WorkerState /\ worker.pc \notin Resting
      /\ \A other \in Running(jobs) : other = id
      /\ ~ closed => id \in Running(jobs)
      /\ id \in Known(jobs) => ~ closed
      /\ RegistryInv /\ ThreadsTyped /\ IdOK(id)
  BY <1>0, <1>1, BusyStart, BusyFacts DEF StoreInv, StoreParts, WorkerOK
<1>3. "failed" \in Terminal /\ "changed" \in WorkerPlaces \ Resting /\ "changed" \notin Busy
  BY DEF Terminal, WorkerPlaces, Busy, Resting
<1>4. ASSUME NEW erased \in BOOLEAN,
             Finish(OwnerOf(id), id, FinalStatus(erased), ListedArtifacts(id)),
             Go("changed"), id \in Known(jobs),
             disk' = Swept(IF erased THEN [disk EXCEPT ![id].inputs = 0] ELSE disk)
      PROVE  StoreInv'
  <2>. DEFINE written == IF erased THEN [disk EXCEPT ![id].inputs = 0] ELSE disk
  <2>1. /\ FinalStatus(erased) \in Terminal /\ (~ erased => FinalStatus(erased) = "failed")
        /\ ListedArtifacts(id) \in SUBSET Artifact
    BY <1>2, <1>3 DEF FinalStatus, ListedArtifacts, ThreadsTyped, WorkerState, Disk
  <2>2. /\ TableStep(id) /\ Known(jobs)' = Known(jobs)
        /\ jobs'[id].job.status = FinalStatus(erased)
        /\ jobs'[id].job.artifacts = disk[id].outputs
    BY <1>2, <1>4, <2>1, FinishStep DEF ListedArtifacts
  <2>3. /\ worker' \in WorkerState /\ worker'.id = id /\ worker'.pc = "changed"
        /\ worker'.dropping = worker.dropping /\ worker'.exit = worker.exit
        /\ worker'.status = worker.status
    BY <1>0, <1>2, <1>3, <1>4, GoMoves
  <2>4. /\ written \in [JobId -> Disk] /\ written[id].outputs = disk[id].outputs
        /\ erased => written[id].inputs = 0
        /\ \A other \in JobId \ {id} : written[other] = disk[other]
    <3>1. 0 \in 0 .. MaxJobFiles /\ disk \in [JobId -> Disk] /\ disk[id] \in Disk
      BY <1>2, JobStateAssumption DEF ThreadsTyped
    <3>2. /\ [disk[id] EXCEPT !.inputs = 0] \in Disk
          /\ [disk[id] EXCEPT !.inputs = 0].outputs = disk[id].outputs
          /\ [disk[id] EXCEPT !.inputs = 0].inputs = 0
      BY <3>1 DEF Disk
    <3>. QED
      BY <3>1, <3>2
  <2>5. disk' = Swept(written)
    BY <1>4
  <2>. HIDE DEF written
  <2>6. /\ disk' \in [JobId -> Disk] /\ DisksStay(id)
        /\ disk'[id] = IF InUse(id)' THEN written[id] ELSE NoDisk
    <3>1. NoDisk \in Disk
      BY JobStateAssumption DEF NoDisk, Disk
    <3>. QED
      BY <2>4, <2>5, <3>1 DEF Swept, DisksStay
  <2>7. IdOK(id)'
    <3>1. InUse(id)' /\ disk'[id] = written[id]
      BY <2>3, <2>6 DEF InUse
    <3>2. /\ ~ Waiting(id)' /\ ~ Reserved(id)' /\ ~ Reserved(id) /\ id \notin Running(jobs)'
      BY <1>2, <1>4, <2>1, <2>2, EntryFacts DEF Waiting, Reserved, Running, Terminal, Known
    <3>3. FilesOK(id)'
      BY <2>1, <2>2, <2>4, <3>1, <3>2 DEF FilesOK
    <3>4. UploadsOK(id)'
      BY <1>1, <1>2, <1>4, <2>2, <3>2 DEF IdOK, UploadsOK, Fills, WorkerUnchanged
    <3>. QED
      BY <3>1, <3>3, <3>4 DEF IdOK
  <2>8. Running(jobs)' = {}
    <3>1. id \notin Running(jobs)'
      BY <2>1, <2>2 DEF Running, Terminal
    <3>. QED
      BY <1>2, <2>2, <3>1, StatesStay DEF Running, Known
  <2>9. WorkerOK' /\ OrderOK'
    <3>1. id # NoJob /\ closed' = closed /\ (Orderly => ~ closed)
      BY <1>2, <2>2, BusyFacts, StoreAssumption DEF TableStep
    <3>2. /\ worker.dropping => worker.status = "cancelled"
          /\ Orderly /\ worker.exit = "error" => ~ worker.dropping
      BY <1>1, BusyStart
    <3>. QED
      BY <1>3, <2>3, <2>8, <3>1, <3>2 DEF WorkerOK, OrderOK
  <2>. QED
    BY <1>1, <2>2, <2>3, <2>6, <2>7, <2>9, BusyStart, WorkerMoves
<1>5. CASE /\ ~ (id \in Known(jobs) /\ MayFinish(jobs[id].job, worker.status))
           /\ FinishError /\ UNCHANGED registryVars /\ KeepDisk
  <2>1. TableStep(NoJob) /\ Known(jobs)' = Known(jobs)
    BY <1>2, <1>5, NoStep
  <2>2. worker.status \in {"failed", "cancelled"} => id \notin Known(jobs)
    BY <1>2, <1>3, <1>5 DEF MayFinish, IsTerminal, Running, Terminal
  <2>3. /\ worker.dropping => id \notin Known(jobs)'
        /\ ~ (Orderly /\ worker.exit = "error")
    BY <1>1, <1>2, <2>1, <2>2, BusyStart, BusyFacts DEF Running
  <2>. QED
    BY <1>0, <1>1, <1>5, <2>1, <2>3, FinishErrorMoves
<1>. QED
  BY <1>0, <1>4, <1>5 DEF FinishCommit

LEMMA FinishNotifyChangedKeeps ==
  ASSUME StoreInv, FinishNotifyChanged
  PROVE  StoreInv'
<1>1. /\ worker.pc = "changed" /\ worker.pc \notin Resting /\ worker.pc \notin Busy \cup {"drop"}
      /\ UNCHANGED registryVars /\ disk' = disk /\ WorkerUnchanged /\ Go("work")
  BY DEF FinishNotifyChanged, At, Resting, Busy
<1>2. /\ worker \in WorkerState /\ workPermit' \in BOOLEAN /\ changedPermit' \in BOOLEAN
      /\ worker.dropping => worker.status = "cancelled"
      /\ Orderly /\ worker.exit = "error" => ~ worker.dropping
      /\ Running(jobs) = {}
  BY <1>1, BusyFacts DEF FinishNotifyChanged, StoreInv, StoreParts, WorkerOK, OrderOK
<1>3. TableStep(NoJob) /\ Known(jobs)' = Known(jobs) /\ Running(jobs)' = {}
  BY <1>1, <1>2, NoStep DEF StoreInv
<1>4. "work" \in WorkerPlaces \ Resting /\ "work" \notin Busy
  BY DEF WorkerPlaces, Busy, Resting
<1>5. /\ worker' \in WorkerState /\ worker'.id = worker.id /\ worker'.pc = "work"
      /\ worker'.dropping = worker.dropping /\ worker'.exit = worker.exit
      /\ worker'.status = worker.status
  BY <1>1, <1>2, <1>4, GoMoves
<1>. QED
  BY <1>1, <1>2, <1>3, <1>4, <1>5, BusyMoves

LEMMA FinishNotifyWorkKeeps ==
  ASSUME StoreInv, FinishNotifyWork
  PROVE  StoreInv'
<1>1. /\ worker.pc = "work" /\ worker.pc \notin Resting /\ worker.pc \notin Busy \cup {"drop"}
      /\ UNCHANGED registryVars /\ disk' = disk /\ WorkerUnchanged
  BY DEF FinishNotifyWork, At, Resting, Busy
<1>2. /\ worker \in WorkerState /\ workPermit' \in BOOLEAN /\ changedPermit' \in BOOLEAN
      /\ worker.dropping => worker.status = "cancelled"
      /\ Orderly /\ worker.exit = "error" => ~ worker.dropping
      /\ Running(jobs) = {}
  BY <1>1, BusyFacts DEF FinishNotifyWork, StoreInv, StoreParts, WorkerOK, OrderOK
<1>3. TableStep(NoJob) /\ Known(jobs)' = Known(jobs) /\ Running(jobs)' = {}
  BY <1>1, <1>2, NoStep DEF StoreInv
<1>4. {"leave", "drop"} \subseteq WorkerPlaces \ Resting /\ "leave" \notin Busy /\ "drop" \notin Busy
  BY DEF WorkerPlaces, Busy, Resting
<1>5. /\ worker' \in WorkerState /\ worker'.id = worker.id
      /\ worker'.pc \in {"leave", "drop"} /\ worker'.pc # "record"
      /\ worker'.dropping => worker'.status = "cancelled" /\ worker'.pc = "leave"
      /\ ~ (Orderly /\ worker'.exit = "error")
  <2>1. CASE worker.dropping /\ worker' = [worker EXCEPT !.pc = "leave"]
    BY <1>2, <1>4, <2>1 DEF WorkerState
  <2>2. CASE ~ worker.dropping /\ worker' = [worker EXCEPT !.pc = "drop", !.exit = "loop"]
    BY <1>2, <1>4, <2>2 DEF WorkerState
  <2>. QED
    BY <2>1, <2>2 DEF FinishNotifyWork
<1>. QED
  BY <1>1, <1>2, <1>3, <1>4, <1>5, BusyMoves

LEMMA DropExecutionKeeps ==
  ASSUME StoreInv, DropExecution
  PROVE  StoreInv'
<1>1. /\ worker.pc = "drop" /\ worker.pc \notin Resting
      /\ Prune /\ KeepDisk /\ NoNotify /\ WorkerUnchanged
  BY DEF DropExecution, At, Resting
<1>2. /\ worker \in WorkerState /\ workPermit' \in BOOLEAN /\ changedPermit' \in BOOLEAN
      /\ ~ worker.dropping /\ (Orderly => worker.exit # "error")
  BY <1>1, BusyFacts DEF StoreInv, StoreParts, WorkerOK, OrderOK, NoNotify
<1>3. TableStep(NoJob) /\ Running(jobs)' = Running(jobs)
  BY <1>1, PruneStep, QuietStates DEF StoreInv
<1>4. Running(jobs)' = Running(AfterPrune)
  BY <1>1 DEF Prune, Forget, AfterPrune, Running, Known
<1>5. {"leave", "validate"} \subseteq WorkerPlaces \ Resting /\ "leave" \notin Busy
      /\ "validate" \in Busy /\ "cancelled" \in Terminal
  BY DEF WorkerPlaces, Busy, Resting, Terminal
<1>6. CASE /\ worker.id \in Running(AfterPrune)
           /\ worker' = [worker EXCEPT !.pc = "validate", !.status = "cancelled",
                                       !.dropping = TRUE]
  <2>1. /\ worker' \in WorkerState /\ worker'.id = worker.id /\ worker'.pc = "validate"
        /\ worker'.status = "cancelled" /\ worker'.exit = worker.exit
    BY <1>2, <1>5, <1>6 DEF WorkerState
  <2>. QED
    BY <1>1, <1>2, <1>3, <1>4, <1>5, <1>6, <2>1, BusyMoves
<1>7. CASE worker.id \notin Running(AfterPrune) /\ worker' = [worker EXCEPT !.pc = "leave"]
  <2>1. /\ worker' \in WorkerState /\ worker'.id = worker.id /\ worker'.pc = "leave"
        /\ worker'.dropping = worker.dropping /\ worker'.exit = worker.exit
    BY <1>2, <1>5, <1>7 DEF WorkerState
  <2>2. Running(jobs)' = {}
    BY <1>1, <1>3, <1>4, <1>7, BusyFacts
  <2>. QED
    BY <1>1, <1>2, <1>3, <1>5, <2>1, <2>2, BusyMoves
<1>. QED
  BY <1>6, <1>7 DEF DropExecution

LEMMA LeaveKeeps ==
  ASSUME StoreInv, Leave
  PROVE  StoreInv'
<1>1. /\ worker.pc = "leave" /\ worker.pc \notin Resting /\ worker.pc \notin Busy \cup {"drop"}
      /\ UNCHANGED registryVars /\ KeepDisk /\ NoNotify /\ WorkerUnchanged
  BY DEF Leave, At, Resting, Busy
<1>2. /\ worker \in WorkerState /\ workPermit' \in BOOLEAN /\ changedPermit' \in BOOLEAN
      /\ (Orderly => worker.exit # "error") /\ (Orderly => ~ closed)
      /\ Running(jobs) = {} /\ RegistryInv /\ ThreadsTyped
  BY <1>1, BusyFacts DEF StoreInv, StoreParts, WorkerOK, OrderOK, NoNotify
<1>3. /\ TableStep(NoJob) /\ Running(jobs)' = {} /\ closed' = closed
  BY <1>1, <1>2, NoStep DEF TableStep
<1>4. {"begin", "stopped", "failed"} \subseteq WorkerPlaces \cap Resting
  BY DEF WorkerPlaces, Resting
<1>5. PICK pc \in {"begin", "stopped", "failed"} :
        worker' = [WorkerIdle EXCEPT !.pc = pc] /\ (pc = "failed" => worker.exit = "error")
  <2>1. worker.exit \in {"loop", "stop", "error"}
    BY <1>2 DEF WorkerState
  <2>2. CASE worker.exit = "loop"
    BY <2>2 DEF Leave
  <2>3. CASE worker.exit = "stop"
    BY <2>3 DEF Leave
  <2>4. CASE worker.exit = "error"
    BY <2>4 DEF Leave
  <2>. QED
    BY <2>1, <2>2, <2>3, <2>4
<1>6. /\ worker' \in WorkerState /\ worker'.pc = pc /\ worker'.id = NoJob
      /\ ~ worker'.dropping /\ worker'.exit = "loop"
  BY <1>4, <1>5, IdleMoves
<1>7. WorkerOK' /\ OrderOK'
  <2>1. pc \in Resting /\ pc \notin Busy /\ pc # "record"
    BY <1>4 DEF Busy
  <2>2. Orderly => pc # "failed"
    BY <1>2, <1>5
  <2>. QED
    BY <1>2, <1>3, <1>6, <2>1, <2>2 DEF WorkerOK, OrderOK
<1>8. disk' \in [JobId -> Disk] /\ DisksStay(NoJob)
  BY <1>1, <1>2, DiskSwept
<1>. QED
  BY <1>1, <1>2, <1>3, <1>6, <1>7, <1>8, StoreAssumption, WorkerMoves

LEMMA TakeJobKeeps ==
  ASSUME StoreInv, Take, MayStartNext, Servable
  PROVE  StoreInv'
<1>1. /\ worker.pc = "try" /\ worker.pc \in Resting /\ queue # << >> /\ ~ closed
      /\ StartNextPruned /\ KeepDisk /\ NoNotify /\ WorkerUnchanged
      /\ worker' = [worker EXCEPT !.pc = "connect", !.id = Head(queue),
                                  !.left = jobs[Head(queue)].job.files]
  BY DEF Take, At, Resting, MayStartNext, Open
<1>2. /\ worker \in WorkerState /\ ~ worker.dropping /\ (Orderly => worker.exit # "error")
      /\ workPermit' \in BOOLEAN /\ changedPermit' \in BOOLEAN
      /\ RegistryInv /\ ThreadsTyped
  BY <1>1, RestingFacts DEF StoreInv, StoreParts, ThreadsTyped, NoNotify
<1>3. PICK id \in JobId : id = Head(queue)
  BY <1>1, <1>2, FrontIsServable
<1>4. /\ TableStep(id) /\ Waiting(id) /\ id \in Running(jobs)' /\ Running(jobs)' = {id}
      /\ jobs'[id].job.files = jobs[id].job.files /\ jobs'[id].age = Unfinished
      /\ closed' = closed /\ jobs'[id].submitted
  BY <1>1, <1>2, <1>3, StartStep DEF TableStep
<1>5. id \in Known(jobs) /\ jobs[id].job.files \in 0 .. MaxJobFiles
  BY <1>2, <1>4, EntryFacts, JobStateAssumption DEF Waiting, Entry, Job
<1>6. "connect" \in (WorkerPlaces \ Resting) \cap Busy /\ id \in JobId \cup {NoJob}
  BY DEF WorkerPlaces, Busy, Resting
<1>7. /\ worker' \in WorkerState /\ worker'.id = id /\ worker'.pc = "connect"
      /\ worker'.dropping = worker.dropping /\ worker'.exit = worker.exit
  BY <1>1, <1>2, <1>3, <1>5, <1>6 DEF WorkerState
<1>8. disk' \in [JobId -> Disk] /\ DisksStay(id)
  BY <1>1, <1>2, DiskSwept
<1>9. IdOK(id)'
  <2>0. IdOK(id) /\ ~ Reserved(id)
    BY <1>4 DEF StoreInv, StoreParts, Waiting, Reserved
  <2>1. InUse(id)' /\ disk'[id] = disk[id]
    BY <1>1, <1>7 DEF InUse, KeepDisk, Swept
  <2>2. /\ ~ Waiting(id)' /\ ~ Reserved(id)' /\ jobs'[id].job.status = "running"
    BY <1>4 DEF Waiting, Reserved, Running, Known
  <2>3. FilesOK(id)'
    BY <1>4, <1>5, <2>0, <2>1, <2>2 DEF IdOK, FilesOK
  <2>4. UploadsOK(id)'
    BY <1>1, <1>5, <2>0, <2>2 DEF IdOK, UploadsOK, Fills, WorkerUnchanged
  <2>. QED
    BY <2>1, <2>3, <2>4 DEF IdOK
<1>10. WorkerOK' /\ OrderOK'
  <2>1. id # NoJob
    BY StoreAssumption
  <2>. QED
    BY <1>1, <1>2, <1>4, <1>6, <1>7, <2>1 DEF WorkerOK, OrderOK
<1>. QED
  BY <1>1, <1>2, <1>4, <1>6, <1>7, <1>8, <1>9, <1>10, WorkerMoves

(* A deck is written and registered.                                        *)
LEMMA ExportKeeps ==
  ASSUME StoreInv, NEW artifact \in Artifact, Export(artifact)
  PROVE  StoreInv'
<1>1. /\ worker.pc = "execute" /\ worker.pc \in Busy /\ worker.pc \notin Resting
      /\ UNCHANGED registryVars /\ worker' = worker /\ NoNotify /\ WorkerUnchanged
      /\ disk' = [disk EXCEPT ![worker.id].outputs = @ \cup {artifact}]
  BY DEF Export, At, Busy, Resting
<1>0. PICK id \in JobId : worker.id = id
  BY <1>1, BusyFacts
<1>2. /\ RegistryInv /\ ThreadsTyped /\ IdOK(id) /\ WorkerOK /\ OrderOK
      /\ worker \in WorkerState /\ disk \in [JobId -> Disk]
      /\ id \in Known(jobs) => id \in Running(jobs)
  BY <1>0, <1>1, BusyFacts DEF StoreInv, StoreParts, ThreadsTyped
<1>3. /\ TableStep(id) /\ UNCHANGED <<jobs, closed>>
  BY <1>1, <1>2, NoStep DEF registryVars
<1>. DEFINE new == [disk[id] EXCEPT !.outputs = @ \cup {artifact}]
<1>4. /\ new \in Disk /\ new.inputs = disk[id].inputs /\ new.files = disk[id].files
  BY <1>2 DEF Disk
<1>5. disk' = [disk EXCEPT ![id] = new]
  BY <1>0, <1>1
<1>. HIDE DEF new
<1>6. /\ disk' \in [JobId -> Disk] /\ disk'[id] = new
      /\ \A other \in JobId \ {id} : disk'[other] = disk[other]
  BY <1>2, <1>4, <1>5
<1>7. \A other \in JobId : InUse(other)' <=> InUse(other)
  BY <1>1, <1>3 DEF InUse, WorkerUnchanged
<1>8. DisksStay(id)
  BY <1>6, <1>7 DEF DisksStay, StoreInv, StoreParts, IdOK
<1>9. IdOK(id)'
  <2>1. InUse(id)'
    BY <1>0, <1>7 DEF InUse
  <2>2. id \in Known(jobs) => jobs[id].age = Unfinished
    BY <1>2, GoneIsFinished
  <2>3. id \in Known(jobs)' => FilesOK(id)'
    BY <1>2, <1>3, <1>4, <1>6, <2>2 DEF IdOK, FilesOK, Reserved, Waiting, Running, Known
  <2>4. UploadsOK(id)'
    BY <1>1, <1>2, <1>3 DEF IdOK, UploadsOK, Fills, WorkerUnchanged, Reserved, Known
  <2>. QED
    BY <2>1, <2>3, <2>4 DEF IdOK
<1>10. WorkerOK' /\ OrderOK'
  BY <1>1, <1>2, <1>3 DEF WorkerOK, OrderOK, Running, Known
<1>11. worker'.pc \notin {"check", "await", "wait"}
  BY <1>1
<1>. QED
  BY <1>1, <1>2, <1>3, <1>6, <1>8, <1>9, <1>10, <1>11, BusyStart, WorkerMoves

LEMMA WorkerKeeps == StoreInv /\ WorkerStep => StoreInv'
<1>. SUFFICES ASSUME StoreInv, WorkerStep PROVE StoreInv'
  OBVIOUS
<1>1. CASE Arm \/ Take \/ CheckClosed \/ Await \/ Wake
  BY <1>1, ArmKeeps, TakeNothingKeeps, TakeJobKeeps, CheckClosedKeeps, AwaitKeeps, WakeKeeps
<1>2. CASE Connect \/ Enter \/ StopGeneration \/ SourceDone \/ BatchDone
  BY <1>2, ConnectKeeps, EnterKeeps, StopGenerationKeeps, SourceDoneKeeps, BatchDoneKeeps
<1>3. CASE \E artifact \in Artifact : Export(artifact)
  BY <1>3, ExportKeeps
<1>4. CASE \E outcome \in Outcome : RecordOutcome(outcome)
  BY <1>4, RecordOutcomeKeeps
<1>5. CASE FinishValidate \/ FinishCommit \/ FinishNotifyChanged \/ FinishNotifyWork
  BY <1>5, FinishValidateKeeps, FinishCommitKeeps, FinishNotifyChangedKeeps, FinishNotifyWorkKeeps
<1>6. CASE DropExecution \/ Leave
  BY <1>6, DropExecutionKeeps, LeaveKeeps
<1>. QED
  BY <1>1, <1>2, <1>3, <1>4, <1>5, <1>6 DEF WorkerStep

--------------------------------------------------------------------------------
(* Everybody else.                                                          *)
LEMMA OthersMove ==
  ASSUME StoreInv, NEW j \in JobId \cup {NoJob}, Frame(j), j \in JobId => IdOK(j)',
         ThreadsTyped', \A c \in Client : ClientOK(c)', WorkerOK', OrderOK', SignalsOK'
  PROVE  StoreInv'
<1>1. \A id \in JobId : IdOK(id)'
  BY FrameKeeps
<1>2. RegistryInv'
  BY DEF Frame, TableStep
<1>. QED
  BY <1>1, <1>2 DEF StoreInv, StoreParts

(* No bell is taken away, and a job that comes to wait brings one.          *)
LEMMA SignalsRest ==
  ASSUME StoreInv, closed' = closed, closing' = closing, worker' = worker,
         \A id \in JobId : Waiting(id)' => Waiting(id) \/ \E c \in Client : upload'[c].pc = "notify",
         workPermit \/ (\E c \in Client : upload[c].pc = "notify")
           => workPermit' \/ \E c \in Client : upload'[c].pc = "notify"
  PROVE  SignalsOK'
BY DEF StoreInv, StoreParts, SignalsOK

LEMMA InputFits ==
  ASSUME NEW place \in Disk, place.inputs < place.files
  PROVE  [place EXCEPT !.inputs = place.inputs + 1] \in Disk
<1>1. place.inputs + 1 \in 0 .. MaxJobFiles
  BY JobStateAssumption DEF Disk
<1>. QED
  BY <1>1 DEF Disk

LEMMA UploadFacts ==
  ASSUME StoreInv, NEW c \in Client, upload[c].pc # "idle"
  PROVE  /\ upload[c].id \in JobId /\ upload[c].id # NoJob /\ upload[c] \in UploadState
         /\ InUse(upload[c].id)
<1>1. upload[c] \in UploadState /\ ClientOK(c)
  BY DEF StoreInv, StoreParts, ThreadsTyped
<1>. QED
  BY <1>1 DEF ClientOK, UploadState, InUse

LEMMA CreateInputKeeps ==
  ASSUME StoreInv, NEW c \in Client, CreateInput(c)
  PROVE  StoreInv'
<1>1. PICK id \in JobId : id = upload[c].id
  BY UploadFacts DEF CreateInput
<1>2. /\ upload[c].pc = "filling" /\ disk[id].inputs < disk[id].files
      /\ disk' = [disk EXCEPT ![id].inputs = @ + 1]
      /\ UNCHANGED registryVars /\ UNCHANGED <<upload, workPermit>> /\ UploadUnchanged
  BY <1>1 DEF CreateInput, MissingSource
<1>3. /\ RegistryInv /\ ThreadsTyped /\ IdOK(id) /\ disk \in [JobId -> Disk]
      /\ \A d \in Client : ClientOK(d)
  BY DEF StoreInv, StoreParts, ThreadsTyped
<1>. DEFINE new == [disk[id] EXCEPT !.inputs = disk[id].inputs + 1]
<1>4. /\ new \in Disk /\ new.files = disk[id].files /\ new.outputs = disk[id].outputs
  BY <1>2, <1>3, InputFits DEF Disk
<1>5. disk' = [disk EXCEPT ![id] = new]
  BY <1>2
<1>. HIDE DEF new
<1>6. /\ disk' \in [JobId -> Disk] /\ disk'[id] = new
      /\ \A other \in JobId \ {id} : disk'[other] = disk[other]
  BY <1>3, <1>4, <1>5
<1>7. /\ \A j : TableStep(j)
      /\ UNCHANGED <<jobs, closed>> /\ Known(jobs)' = Known(jobs) /\ Running(jobs)' = Running(jobs)
  BY <1>2, <1>3, NoStep DEF registryVars
<1>8. \A other \in JobId : InUse(other)' <=> InUse(other)
  BY <1>2, <1>7 DEF InUse, UploadUnchanged
<1>9. Frame(id)
  BY <1>2, <1>6, <1>7, <1>8 DEF Frame, DisksStay, UploadsStay, StoreInv, StoreParts, IdOK
<1>10. IdOK(id)'
  <2>1. InUse(id)'
    BY <1>1, <1>2, <1>8, UploadFacts
  <2>2. id \in Known(jobs) => Reserved(id)
    BY <1>1, <1>2, <1>3 DEF IdOK, UploadsOK, Fills
  <2>3. id \in Known(jobs) => ~ Waiting(id) /\ id \notin Running(jobs) /\ jobs[id].age = Unfinished
    BY <1>3, <2>2, EntryFacts DEF Reserved, Waiting, Running, Terminal
  <2>4. id \in Known(jobs)' => FilesOK(id)'
    BY <1>3, <1>4, <1>6, <1>7, <2>2, <2>3 DEF IdOK, FilesOK, Reserved, Waiting, Running, Known
  <2>5. UploadsOK(id)'
    BY <1>2, <1>3, <1>7 DEF IdOK, UploadsOK, Fills, Reserved, Known
  <2>. QED
    BY <2>1, <2>4, <2>5 DEF IdOK
<1>11. WorkerOK' /\ OrderOK'
  BY <1>2, <1>7 DEF StoreInv, StoreParts, WorkerOK, OrderOK, UploadUnchanged
<1>12. SignalsOK'
  BY <1>2, <1>7, SignalsRest DEF UploadUnchanged, Waiting, Known
<1>13. ThreadsTyped' /\ \A d \in Client : ClientOK(d)'
  BY <1>2, <1>3, <1>6 DEF ThreadsTyped, ClientOK, UploadUnchanged
<1>. QED
  BY <1>9, <1>10, <1>11, <1>12, <1>13, OthersMove

LEMMA ReserveJobKeeps ==
  ASSUME StoreInv, NEW c \in Client, ReserveJob(c)
  PROVE  StoreInv'
<1>1. /\ upload[c].pc = "idle" /\ UploadUnchanged /\ workPermit' = workPermit
      /\ upload[c].id = NoJob /\ RegistryInv /\ ThreadsTyped /\ upload \in [Client -> UploadState]
      /\ disk \in [JobId -> Disk] /\ (\A d \in Client : ClientOK(d))
  BY DEF ReserveJob, StoreInv, StoreParts, ClientOK, ThreadsTyped
<1>2. PICK owner \in Owner, id \in JobId, n \in 1 .. MaxJobFiles :
        /\ ~ InUse(id)
        /\ \/ Reserve(owner, id, n) /\ upload' = [upload EXCEPT ![c] = [pc |-> "filling", id |-> id]]
           \/ ReserveRejected(id, n) /\ UNCHANGED upload
        /\ disk' = Swept([disk EXCEPT ![id].files = n])
  BY DEF ReserveJob
<1>. DEFINE written == [disk EXCEPT ![id].files = n]
<1>3. /\ written \in [JobId -> Disk] /\ written[id].files = n
      /\ \A other \in JobId \ {id} : written[other] = disk[other]
  <2>1. n \in 0 .. MaxJobFiles /\ disk[id] \in Disk
    BY <1>1, JobStateAssumption
  <2>2. [disk[id] EXCEPT !.files = n] \in Disk /\ [disk[id] EXCEPT !.files = n].files = n
    BY <2>1 DEF Disk
  <2>. QED
    BY <1>1, <2>2
<1>4. disk' = Swept(written)
  BY <1>2
<1>. HIDE DEF written
<1>5. NoDisk \in Disk
  BY JobStateAssumption DEF NoDisk, Disk
<1>6. /\ disk' \in [JobId -> Disk] /\ DisksStay(id)
      /\ disk'[id] = IF InUse(id)' THEN written[id] ELSE NoDisk
  BY <1>3, <1>4, <1>5 DEF Swept, DisksStay
<1>7. id # NoJob /\ id \notin Known(jobs) /\ \A d \in Client : upload[d].id # id
  BY <1>2, StoreAssumption DEF InUse
<1>8. CASE /\ Reserve(owner, id, n)
           /\ upload' = [upload EXCEPT ![c] = [pc |-> "filling", id |-> id]]
  <2>1. /\ TableStep(id) /\ id \in Known(jobs)' /\ jobs'[id].submitted = FALSE
        /\ jobs'[id].job.status = "queued" /\ jobs'[id].job.files = n
        /\ jobs'[id].age = Unfinished /\ closed' = closed
    BY <1>1, <1>8, ReserveStep DEF TableStep
  <2>2. /\ upload' \in [Client -> UploadState]
        /\ upload'[c].pc = "filling" /\ upload'[c].id = id
        /\ \A d \in Client \ {c} : upload'[d] = upload[d]
    <3>1. [pc |-> "filling", id |-> id] \in UploadState
      BY DEF UploadState
    <3>. QED
      BY <1>1, <1>8, <3>1
  <2>3. Frame(id)
    BY <1>1, <1>6, <2>1, <2>2 DEF Frame, UploadsStay
  <2>4. IdOK(id)'
    <3>1. InUse(id)' /\ disk'[id].files = n
      BY <1>3, <1>6, <2>1 DEF InUse
    <3>2. FilesOK(id)'
      BY <2>1, <3>1 DEF FilesOK, Waiting, Running
    <3>3. UploadsOK(id)'
      BY <1>7, <2>1, <2>2 DEF UploadsOK, Fills, Reserved
    <3>. QED
      BY <3>1, <3>2, <3>3 DEF IdOK
  <2>5. id \notin Running(jobs) /\ id \notin Running(jobs)' /\ ~ Waiting(id)'
    BY <1>7, <2>1 DEF Running, Waiting
  <2>6. WorkerOK' /\ OrderOK'
    BY <1>1, <2>1, <2>5, WorkerRests DEF UploadUnchanged
  <2>7. SignalsOK'
    <3>1. \A other \in JobId : Waiting(other)' => Waiting(other)
      BY <2>1, <2>5, StatesStay
    <3>. QED
      BY <1>1, <2>1, <2>2, <3>1, SignalsRest DEF UploadUnchanged
  <2>8. ThreadsTyped' /\ \A d \in Client : ClientOK(d)'
    BY <1>1, <1>6, <1>7, <2>2 DEF ThreadsTyped, ClientOK, UploadUnchanged
  <2>. QED
    BY <2>3, <2>4, <2>6, <2>7, <2>8, OthersMove
<1>9. CASE ReserveRejected(id, n) /\ UNCHANGED upload
  <2>1. /\ \A j : TableStep(j)
        /\ Known(jobs)' \subseteq Known(jobs) /\ closed' = closed
    BY <1>1, <1>9, PruneStep DEF ReserveRejected, TableStep
  <2>2. ~ InUse(id)'
    BY <1>1, <1>2, <1>9, <2>1 DEF InUse, UploadUnchanged
  <2>3. Frame(NoJob)
    BY <1>6, <1>9, <2>1, <2>2 DEF Frame, UploadsStay, DisksStay
  <2>4. WorkerOK' /\ OrderOK'
    BY <1>1, <2>1, WorkerRests, StoreAssumption DEF UploadUnchanged, Running, Known
  <2>5. SignalsOK'
    BY <1>1, <1>9, <2>1, SignalsRest, QuietStates DEF UploadUnchanged
  <2>6. ThreadsTyped' /\ \A d \in Client : ClientOK(d)'
    BY <1>1, <1>6, <1>9 DEF ThreadsTyped, ClientOK, UploadUnchanged
  <2>. QED
    BY <2>3, <2>4, <2>5, <2>6, StoreAssumption, OthersMove
<1>. QED
  BY <1>2, <1>8, <1>9

LEMMA SubmitJobKeeps ==
  ASSUME StoreInv, NEW c \in Client, SubmitJob(c)
  PROVE  StoreInv'
<1>1. PICK id \in JobId : id = upload[c].id
  BY UploadFacts DEF SubmitJob
<1>2. /\ upload[c].pc = "filling" /\ disk[id].inputs = disk[id].files
      /\ Submit(OwnerOf(id), id) /\ upload' = [upload EXCEPT ![c].pc = "notify"]
      /\ workPermit' = workPermit /\ UploadUnchanged /\ KeepDisk
  BY <1>1 DEF SubmitJob, Persisted
<1>3. /\ RegistryInv /\ ThreadsTyped /\ IdOK(id) /\ upload \in [Client -> UploadState]
      /\ \A d \in Client : ClientOK(d)
  BY DEF StoreInv, StoreParts, ThreadsTyped
<1>4. /\ TableStep(id) /\ Known(jobs)' = Known(jobs) /\ id \in Known(jobs) /\ Reserved(id)
      /\ jobs'[id].submitted = TRUE /\ jobs'[id].job = jobs[id].job
      /\ jobs'[id].age = jobs[id].age /\ closed' = closed
  BY <1>2, <1>3, SubmitStep DEF TableStep
<1>5. /\ upload' \in [Client -> UploadState]
      /\ upload'[c].pc = "notify" /\ upload'[c].id = id
      /\ \A d \in Client \ {c} : upload'[d] = upload[d]
  BY <1>1, <1>2, <1>3 DEF UploadState
<1>6. disk' \in [JobId -> Disk] /\ DisksStay(id)
  BY <1>2, <1>3, DiskSwept
<1>7. Frame(id)
  BY <1>1, <1>4, <1>5, <1>6 DEF Frame, UploadsStay
<1>8. /\ id \notin Running(jobs) /\ id \notin Running(jobs)' /\ jobs[id].age = Unfinished
      /\ jobs[id].job.status = "queued"
  BY <1>3, <1>4, EntryFacts DEF Reserved, Running, Terminal
<1>9. IdOK(id)'
  <2>1. InUse(id)' /\ disk'[id] = disk[id]
    BY <1>2, <1>4 DEF InUse, KeepDisk, Swept
  <2>2. FilesOK(id)'
    BY <1>2, <1>3, <1>4, <1>8, <2>1 DEF IdOK, FilesOK, Reserved
  <2>3. UploadsOK(id)'
    BY <1>1, <1>3, <1>4, <1>5 DEF IdOK, UploadsOK, Fills, Reserved
  <2>. QED
    BY <2>1, <2>2, <2>3 DEF IdOK
<1>10. WorkerOK' /\ OrderOK'
  BY <1>2, <1>4, <1>8, WorkerRests DEF UploadUnchanged
<1>11. SignalsOK'
  BY <1>2, <1>4, <1>5, SignalsRest DEF UploadUnchanged
<1>12. ThreadsTyped' /\ \A d \in Client : ClientOK(d)'
  BY <1>1, <1>2, <1>3, <1>5, <1>6, UploadFacts DEF ThreadsTyped, ClientOK, UploadUnchanged
<1>. QED
  BY <1>7, <1>9, <1>10, <1>11, <1>12, OthersMove

LEMMA NotifySubmittedKeeps ==
  ASSUME StoreInv, NEW c \in Client, NotifySubmitted(c)
  PROVE  StoreInv'
<1>1. PICK id \in JobId : id = upload[c].id
  BY UploadFacts DEF NotifySubmitted
<1>2. /\ upload[c].pc = "notify" /\ workPermit' = TRUE
      /\ upload' = [upload EXCEPT ![c] = [pc |-> "idle", id |-> NoJob]]
      /\ UNCHANGED registryVars /\ UploadUnchanged /\ KeepDisk
  BY DEF NotifySubmitted
<1>3. /\ RegistryInv /\ ThreadsTyped /\ IdOK(id) /\ upload \in [Client -> UploadState]
      /\ \A d \in Client : ClientOK(d)
  BY DEF StoreInv, StoreParts, ThreadsTyped
<1>4. /\ \A j : TableStep(j)
      /\ UNCHANGED <<jobs, closed>> /\ Known(jobs)' = Known(jobs) /\ Running(jobs)' = Running(jobs)
  BY <1>2, <1>3, NoStep DEF registryVars
<1>5. /\ upload' \in [Client -> UploadState]
      /\ upload'[c].pc = "idle" /\ upload'[c].id = NoJob
      /\ \A d \in Client \ {c} : upload'[d] = upload[d]
  <2>1. [pc |-> "idle", id |-> NoJob] \in UploadState
    BY DEF UploadState
  <2>. QED
    BY <1>2, <1>3, <2>1
<1>6. disk' \in [JobId -> Disk] /\ DisksStay(id)
  BY <1>2, <1>3, DiskSwept
<1>7. Frame(id)
  BY <1>1, <1>4, <1>5, <1>6 DEF Frame, UploadsStay
<1>8. IdOK(id)'
  <2>1. /\ disk'[id] = IF InUse(id)' THEN disk[id] ELSE NoDisk
        /\ id \in Known(jobs)' => InUse(id)'
    BY <1>2 DEF InUse, KeepDisk, Swept
  <2>2. id \in Known(jobs)' => FilesOK(id)'
    BY <1>3, <1>4, <2>1 DEF IdOK, FilesOK, Reserved, Waiting, Running, Known
  <2>3. UploadsOK(id)'
    <3>1. id # NoJob /\ \A d \in Client : Fills(d, id)' <=> Fills(d, id)
      BY <1>2, <1>5, StoreAssumption DEF Fills
    <3>. QED
      BY <1>3, <1>4, <1>5, <3>1 DEF IdOK, UploadsOK, Reserved, Known
  <2>. QED
    BY <2>1, <2>2, <2>3 DEF IdOK
<1>9. WorkerOK' /\ OrderOK'
  BY <1>2, <1>4 DEF StoreInv, StoreParts, WorkerOK, OrderOK, UploadUnchanged
<1>10. SignalsOK'
  BY <1>2, <1>4, SignalsRest DEF UploadUnchanged, Waiting, Known
<1>11. ThreadsTyped' /\ \A d \in Client : ClientOK(d)'
  BY <1>2, <1>3, <1>5, <1>6 DEF ThreadsTyped, ClientOK, UploadUnchanged
<1>. QED
  BY <1>7, <1>8, <1>9, <1>10, <1>11, OthersMove

LEMMA DropReservationKeeps ==
  ASSUME StoreInv, NEW c \in Client, DropReservation(c)
  PROVE  StoreInv'
<1>1. PICK id \in JobId : id = upload[c].id
  BY UploadFacts DEF DropReservation
<1>2. /\ upload[c].pc = "filling" /\ workPermit' = workPermit
      /\ DiscardReservation(OwnerOf(id), id) \/ (id \notin Known(jobs) /\ UNCHANGED registryVars)
      /\ upload' = [upload EXCEPT ![c] = [pc |-> "idle", id |-> NoJob]]
      /\ UploadUnchanged /\ KeepDisk
  BY <1>1 DEF DropReservation
<1>3. /\ RegistryInv /\ ThreadsTyped /\ IdOK(id) /\ upload \in [Client -> UploadState]
      /\ \A d \in Client : ClientOK(d)
  BY DEF StoreInv, StoreParts, ThreadsTyped
<1>4. /\ TableStep(id) /\ id \notin Known(jobs)' /\ closed' = closed
      /\ id \notin Running(jobs)
  BY <1>2, <1>3, DiscardStep, NoStep DEF TableStep, Running, Reserved
<1>5. /\ upload' \in [Client -> UploadState]
      /\ upload'[c].pc = "idle" /\ upload'[c].id = NoJob
      /\ \A d \in Client \ {c} : upload'[d] = upload[d]
  <2>1. [pc |-> "idle", id |-> NoJob] \in UploadState
    BY DEF UploadState
  <2>. QED
    BY <1>2, <1>3, <2>1
<1>6. disk' \in [JobId -> Disk] /\ DisksStay(id)
  BY <1>2, <1>3, DiskSwept
<1>7. Frame(id)
  BY <1>1, <1>4, <1>5, <1>6 DEF Frame, UploadsStay
<1>8. IdOK(id)'
  <2>1. ~ InUse(id)' => disk'[id] = NoDisk
    BY <1>2 DEF KeepDisk, Swept
  <2>2. UploadsOK(id)'
    BY <1>3, <1>4, <1>5, StoreAssumption DEF IdOK, UploadsOK
  <2>. QED
    BY <1>4, <2>1, <2>2 DEF IdOK
<1>9. id \notin Running(jobs)' /\ ~ Waiting(id)'
  BY <1>4 DEF Running, Waiting
<1>10. WorkerOK' /\ OrderOK'
  BY <1>2, <1>4, <1>9, WorkerRests DEF UploadUnchanged
<1>11. SignalsOK'
  <2>1. \A other \in JobId : Waiting(other)' => Waiting(other)
    BY <1>4, <1>9, StatesStay
  <2>. QED
    BY <1>2, <1>4, <1>5, <2>1, SignalsRest DEF UploadUnchanged
<1>12. ThreadsTyped' /\ \A d \in Client : ClientOK(d)'
  BY <1>2, <1>3, <1>5, <1>6 DEF ThreadsTyped, ClientOK, UploadUnchanged
<1>. QED
  BY <1>7, <1>8, <1>10, <1>11, <1>12, OthersMove

(* A step that is about no job and changes neither uploads nor the worker.  *)
LEMMA QuietMoves ==
  ASSUME StoreInv, TableStep(NoJob), UNCHANGED <<upload, worker, workPermit>>,
         disk' \in [JobId -> Disk], DisksStay(NoJob), ThreadsTyped',
         closing' = closing \/ (closing = "notified" /\ closing' = "done")
  PROVE  StoreInv'
<1>1. /\ closed' = closed /\ Running(jobs)' = Running(jobs)
      /\ \A id \in JobId : Waiting(id)' => Waiting(id)
  BY QuietStates DEF TableStep
<1>2. Frame(NoJob)
  BY DEF Frame, UploadsStay
<1>3. WorkerOK' /\ OrderOK' /\ SignalsOK' /\ \A c \in Client : ClientOK(c)'
  BY <1>1 DEF StoreInv, StoreParts, WorkerOK, OrderOK, SignalsOK, ClientOK
<1>. QED
  BY <1>2, <1>3, StoreAssumption, OthersMove

LEMMA LookupKeeps ==
  ASSUME StoreInv, NEW r \in Reader, Lookup(r)
  PROVE  StoreInv'
<1>1. /\ Prune /\ OnlyReader /\ KeepDisk /\ RegistryInv /\ ThreadsTyped
  BY DEF Lookup, StoreInv, StoreParts
<1>2. TableStep(NoJob)
  BY <1>1, PruneStep
<1>3. PICK id \in JobId : reader' = [reader EXCEPT ![r] = id]
  BY DEF Lookup, Known
<1>4. disk' \in [JobId -> Disk] /\ DisksStay(NoJob)
  BY <1>1, DiskSwept
<1>5. ThreadsTyped'
  BY <1>1, <1>3, <1>4 DEF ThreadsTyped, OnlyReader
<1>. QED
  BY <1>1, <1>2, <1>4, <1>5, QuietMoves DEF OnlyReader

LEMMA OpenArtifactKeeps ==
  ASSUME StoreInv, NEW r \in Reader, OpenArtifact(r)
  PROVE  StoreInv'
<1>1. /\ UNCHANGED registryVars /\ OnlyReader /\ KeepDisk /\ RegistryInv /\ ThreadsTyped
      /\ reader' = [reader EXCEPT ![r] = NoJob]
  BY DEF OpenArtifact, StoreInv, StoreParts
<1>2. TableStep(NoJob)
  BY <1>1, NoStep
<1>3. disk' \in [JobId -> Disk] /\ DisksStay(NoJob)
  BY <1>1, DiskSwept
<1>4. ThreadsTyped'
  BY <1>1, <1>3 DEF ThreadsTyped, OnlyReader
<1>. QED
  BY <1>1, <1>2, <1>3, <1>4, QuietMoves DEF OnlyReader

LEMMA PollKeeps ==
  ASSUME StoreInv, Poll
  PROVE  StoreInv'
<1>1. /\ Prune /\ OnlyReader /\ KeepDisk /\ RegistryInv /\ ThreadsTyped /\ reader' = reader
  BY DEF Poll, StoreInv, StoreParts
<1>2. TableStep(NoJob)
  BY <1>1, PruneStep
<1>3. disk' \in [JobId -> Disk] /\ DisksStay(NoJob)
  BY <1>1, DiskSwept
<1>4. ThreadsTyped'
  BY <1>1, <1>3 DEF ThreadsTyped, OnlyReader
<1>. QED
  BY <1>1, <1>2, <1>3, <1>4, QuietMoves DEF OnlyReader

LEMMA DeadlineTyped ==
  ASSUME RegistryInv
  PROVE  NextExpiration \in 0 .. Retention \cup {NoTimer}
<1>1. CASE FinishedIds(jobs) = {}
  BY <1>1 DEF NextExpiration
<1>2. CASE FinishedIds(jobs) # {}
  <2>0. Oldest(jobs) # {}
    BY <1>2, OldestExists DEF RegistryInv, TableOK
  <2>1. PICK id \in Oldest(jobs) : id = (CHOOSE old \in Oldest(jobs) : TRUE)
    BY <2>0
  <2>2. id \in Known(jobs) /\ jobs[id].age \in 0 .. Retention
    BY <2>1, EntryFacts DEF Oldest, FinishedIds, Entry, Age, Unfinished
  <2>. QED
    BY <1>2, <2>1, <2>2, RegistryAssumption DEF NextExpiration
<1>. QED
  BY <1>1, <1>2

LEMMA ExpiryKeeps ==
  ASSUME StoreInv, ExpiryStep
  PROVE  StoreInv'
<1>1. OnlyExpiry /\ RegistryInv /\ ThreadsTyped
  BY DEF ExpiryStep, ReadDeadline, Changed, DeadlineReached, StoreInv, StoreParts
<1>2. CASE ReadDeadline \/ Changed
  <2>1. UNCHANGED registryVars /\ disk' = disk
    BY <1>2 DEF ReadDeadline, Changed
  <2>2. TableStep(NoJob) /\ Known(jobs)' = Known(jobs)
    BY <1>1, <2>1, NoStep
  <2>3. disk' \in [JobId -> Disk] /\ DisksStay(NoJob)
    BY <1>1, <2>1, <2>2, DiskRests DEF OnlyExpiry
  <2>4. /\ expiry' \in [pc : {"reading", "sleeping", "aborted"}, left : 0 .. Retention \cup {NoTimer}]
        /\ changedPermit' \in BOOLEAN
    <3>1. CASE ReadDeadline
      BY <1>1, <3>1, DeadlineTyped DEF ThreadsTyped, ReadDeadline
    <3>2. CASE Changed
      BY <1>1, <3>2 DEF ThreadsTyped, Changed
    <3>. QED
      BY <1>2, <3>1, <3>2
  <2>5. ThreadsTyped'
    BY <1>1, <2>3, <2>4 DEF ThreadsTyped, OnlyExpiry
  <2>. QED
    BY <1>1, <2>2, <2>3, <2>5, QuietMoves DEF OnlyExpiry
<1>3. CASE DeadlineReached
  <2>1. TableStep(NoJob)
    BY <1>1, <1>3, PruneStep DEF DeadlineReached
  <2>2. disk' \in [JobId -> Disk] /\ DisksStay(NoJob)
    BY <1>1, <1>3, DiskSwept DEF DeadlineReached
  <2>3. ThreadsTyped'
    BY <1>1, <1>3, <2>2 DEF ThreadsTyped, OnlyExpiry, DeadlineReached
  <2>. QED
    BY <1>1, <2>1, <2>2, <2>3, QuietMoves DEF OnlyExpiry
<1>. QED
  BY <1>2, <1>3 DEF ExpiryStep

LEMMA TimeKeeps ==
  ASSUME StoreInv, Time
  PROVE  StoreInv'
<1>1. /\ Tick /\ OnlyExpiry /\ disk' = disk /\ changedPermit' = changedPermit
      /\ RegistryInv /\ ThreadsTyped
  BY DEF Time, StoreInv, StoreParts
<1>2. TableStep(NoJob) /\ Known(jobs)' = Known(jobs)
  BY <1>1, TimeStep
<1>3. disk' \in [JobId -> Disk] /\ DisksStay(NoJob)
  BY <1>1, <1>2, DiskRests DEF OnlyExpiry
<1>4. expiry' \in [pc : {"reading", "sleeping", "aborted"}, left : 0 .. Retention \cup {NoTimer}]
  <2>1. (IF expiry.left # NoTimer /\ expiry.left # 0 THEN expiry.left - 1 ELSE expiry.left)
          \in 0 .. Retention \cup {NoTimer}
    BY <1>1, RegistryAssumption DEF ThreadsTyped
  <2>. QED
    BY <1>1, <2>1 DEF Time, ThreadsTyped
<1>5. ThreadsTyped'
  BY <1>1, <1>3, <1>4 DEF ThreadsTyped, OnlyExpiry
<1>. QED
  BY <1>1, <1>2, <1>3, <1>5, QuietMoves DEF OnlyExpiry

LEMMA CloseRegistryKeeps ==
  ASSUME StoreInv, CloseRegistry
  PROVE  StoreInv'
<1>1. /\ closing' = "cleared" /\ MayClose /\ Close /\ KeepDisk
      /\ UNCHANGED <<upload, worker, reader, expiry, workPermit, changedPermit, stop>>
      /\ RegistryInv /\ ThreadsTyped /\ WorkerOK /\ OrderOK
      /\ \A c \in Client : ClientOK(c)
  BY DEF CloseRegistry, StoreInv, StoreParts
<1>2. RegistryInv' /\ closed' = TRUE /\ Known(jobs)' = {} /\ Running(jobs)' = {}
  BY <1>1, CloseStep DEF Running
<1>3. disk' \in [JobId -> Disk]
  BY <1>1, DiskSwept
<1>4. ThreadsTyped' /\ \A c \in Client : ClientOK(c)'
  BY <1>1, <1>3 DEF ThreadsTyped, ClientOK
<1>5. ASSUME NEW id \in JobId PROVE IdOK(id)'
  <2>1. ~ InUse(id)' => disk'[id] = NoDisk
    BY <1>1 DEF KeepDisk, Swept
  <2>2. UploadsOK(id)'
    BY <1>1, <1>2 DEF StoreInv, StoreParts, IdOK, UploadsOK
  <2>. QED
    BY <1>2, <2>1, <2>2 DEF IdOK
<1>6. WorkerOK' /\ OrderOK'
  BY <1>1, <1>2 DEF WorkerOK, OrderOK, MayClose, At
<1>7. SignalsOK'
  BY <1>1, <1>2 DEF SignalsOK
<1>. QED
  BY <1>2, <1>4, <1>5, <1>6, <1>7 DEF StoreInv, StoreParts

LEMMA CloseNotifyKeeps ==
  ASSUME StoreInv, CloseNotify
  PROVE  StoreInv'
<1>1. /\ closing = "cleared" /\ closing' = "notified"
      /\ UNCHANGED registryVars /\ disk' = disk
      /\ UNCHANGED <<upload, reader, expiry, workPermit, changedPermit, stop>>
      /\ RegistryInv /\ ThreadsTyped /\ WorkerOK /\ OrderOK /\ SignalsOK /\ worker \in WorkerState
      /\ \A c \in Client : ClientOK(c)
  BY DEF CloseNotify, StoreInv, StoreParts, ThreadsTyped
<1>2. /\ TableStep(NoJob) /\ UNCHANGED <<jobs, closed>>
      /\ Known(jobs)' = Known(jobs) /\ Running(jobs)' = Running(jobs)
  BY <1>1, NoStep DEF registryVars
<1>3. /\ worker' \in WorkerState /\ worker'.pc = worker.pc /\ worker'.id = worker.id
      /\ worker'.status = worker.status /\ worker'.left = worker.left
      /\ worker'.dropping = worker.dropping /\ worker'.exit = worker.exit
      /\ worker.pc \in {"await", "wait"} => worker'.woken
  <2>1. (worker.pc \in {"try", "check", "await", "wait"}) \in BOOLEAN
    OBVIOUS
  <2>2. PICK told \in BOOLEAN : /\ worker' = [worker EXCEPT !.woken = told]
                                /\ worker.pc \in {"await", "wait"} => told
    BY <2>1 DEF CloseNotify
  <2>. QED
    BY <1>1, <2>2 DEF WorkerState
<1>4. disk' \in [JobId -> Disk] /\ DisksStay(NoJob)
  BY <1>1, <1>2, <1>3, DiskRests
<1>5. Frame(NoJob)
  BY <1>1, <1>2, <1>4 DEF Frame, UploadsStay
<1>6. ThreadsTyped' /\ \A c \in Client : ClientOK(c)'
  BY <1>1, <1>3, <1>4 DEF ThreadsTyped, ClientOK
<1>7. WorkerOK' /\ OrderOK'
  BY <1>1, <1>2, <1>3 DEF WorkerOK, OrderOK
<1>8. SignalsOK'
  BY <1>1, <1>2, <1>3 DEF SignalsOK, Waiting, Known
<1>. QED
  BY <1>5, <1>6, <1>7, <1>8, StoreAssumption, OthersMove

LEMMA ShutdownKeeps ==
  ASSUME StoreInv, Shutdown
  PROVE  StoreInv'
<1>1. CASE RequestStop \/ CloseAbort
  <2>1. /\ UNCHANGED registryVars /\ UNCHANGED <<disk, upload, worker, reader, workPermit, changedPermit>>
        /\ RegistryInv /\ ThreadsTyped
        /\ closing' = closing \/ (closing = "notified" /\ closing' = "done")
    BY <1>1 DEF RequestStop, CloseAbort, StoreInv, StoreParts
  <2>2. TableStep(NoJob) /\ Known(jobs)' = Known(jobs)
    BY <2>1, NoStep
  <2>3. disk' \in [JobId -> Disk] /\ DisksStay(NoJob)
    BY <2>1, <2>2, DiskRests
  <2>4. CASE RequestStop
    <3>1. ThreadsTyped'
      BY <2>1, <2>3, <2>4 DEF ThreadsTyped, RequestStop
    <3>. QED
      BY <2>1, <2>2, <2>3, <3>1, QuietMoves
  <2>5. CASE CloseAbort
    <3>1. ThreadsTyped'
      BY <2>1, <2>3, <2>5 DEF ThreadsTyped, CloseAbort
    <3>. QED
      BY <2>1, <2>2, <2>3, <3>1, QuietMoves
  <2>. QED
    BY <1>1, <2>4, <2>5
<1>2. CASE CloseRegistry \/ CloseNotify
  BY <1>2, CloseRegistryKeeps, CloseNotifyKeeps
<1>. QED
  BY <1>1, <1>2 DEF Shutdown

--------------------------------------------------------------------------------
(* Nothing is known, nobody has begun, and every bell is silent.            *)
LEMMA StoreInitInv == StoreInit => StoreInv
<1>. SUFFICES ASSUME StoreInit PROVE StoreInv
  OBVIOUS
<1>1. RegistryInv /\ Known(jobs) = {} /\ Running(jobs) = {} /\ closed = FALSE
  BY InitInv, NoEntryUnknown DEF StoreInit, Init, Known, Running
<1>2. /\ NoDisk \in Disk /\ [pc |-> "idle", id |-> NoJob] \in UploadState
      /\ [pc |-> "reading", left |-> NoTimer]
           \in [pc : {"reading", "sleeping", "aborted"}, left : 0 .. Retention \cup {NoTimer}]
  BY JobStateAssumption DEF NoDisk, Disk, UploadState
<1>3. /\ worker \in WorkerState /\ worker.pc = "begin" /\ worker.id = NoJob
      /\ ~ worker.dropping /\ worker.exit = "loop"
  <2>1. "begin" \in WorkerPlaces
    BY DEF WorkerPlaces, Resting
  <2>3. worker = [pc |-> "begin", id |-> NoJob, status |-> "completed", left |-> 0,
                  woken |-> FALSE, dropping |-> FALSE, exit |-> "loop"]
    BY DEF StoreInit, WorkerIdle
  <2>4. 0 \in 0 .. MaxJobFiles /\ NoJob \in JobId \cup {NoJob} /\ "completed" \in Terminal
    BY JobStateAssumption DEF Terminal
  <2>. QED
    BY <2>1, <2>3, <2>4 DEF WorkerState
<1>4. ThreadsTyped
  BY <1>2, <1>3 DEF StoreInit, ThreadsTyped
<1>5. \A id \in JobId : IdOK(id)
  BY <1>1, StoreAssumption DEF StoreInit, IdOK, UploadsOK, InUse
<1>6. \A c \in Client : ClientOK(c)
  BY DEF StoreInit, ClientOK
<1>7. WorkerOK /\ OrderOK
  BY <1>1, <1>3 DEF WorkerOK, OrderOK, Resting, Busy
<1>8. SignalsOK
  BY <1>1, <1>3 DEF StoreInit, SignalsOK
<1>. QED
  BY <1>1, <1>4, <1>5, <1>6, <1>7, <1>8 DEF StoreInv, StoreParts

LEMMA StoreStepInv == StoreInv /\ [StoreNext]_vars => StoreInv'
<1>. SUFFICES ASSUME StoreInv, [StoreNext]_vars PROVE StoreInv'
  OBVIOUS
<1>1. CASE \E c \in Client : UploadStep(c)
  BY <1>1, ReserveJobKeeps, CreateInputKeeps, SubmitJobKeeps, NotifySubmittedKeeps,
     DropReservationKeeps DEF UploadStep
<1>2. CASE WorkerStep
  BY <1>2, WorkerKeeps
<1>3. CASE \E r \in Reader : Lookup(r) \/ OpenArtifact(r)
  BY <1>3, LookupKeeps, OpenArtifactKeeps
<1>4. CASE Poll \/ ExpiryStep \/ Time \/ Shutdown
  BY <1>4, PollKeeps, ExpiryKeeps, TimeKeeps, ShutdownKeeps
<1>5. CASE UNCHANGED vars
  <2>1. /\ UNCHANGED registryVars /\ UNCHANGED <<disk, upload, worker, reader, expiry, workPermit>>
        /\ UNCHANGED <<changedPermit, stop, closing>>
    BY <1>5 DEF vars, registryVars
  <2>2. TableStep(NoJob) /\ Known(jobs)' = Known(jobs)
    BY <2>1, NoStep DEF StoreInv
  <2>3. disk' \in [JobId -> Disk] /\ DisksStay(NoJob)
    BY <2>1, <2>2, DiskRests
  <2>4. ThreadsTyped'
    BY <2>1 DEF StoreInv, StoreParts, ThreadsTyped
  <2>. QED
    BY <2>1, <2>2, <2>3, <2>4, QuietMoves
<1>. QED
  BY <1>1, <1>2, <1>3, <1>4, <1>5 DEF StoreNext

(* The store never loses track of a job, a directory or a bell: the         *)
(* inductive invariant from which the properties below follow.              *)
THEOREM StoreInvariant == StoreSpec => []StoreInv
BY StoreInitInv, StoreStepInv, PTL DEF StoreSpec

(* No place is lost: a reservation in the table is held by an upload, a     *)
(* running job by the worker, and a worker that is gone leaves no job       *)
(* running (Drop of JobReservation and of JobExecution).                    *)
THEOREM PlacesAreGivenBack == StoreSpec => []PlacesComeBack
<1>1. StoreInv => StoreTypeOK
  <2>. SUFFICES ASSUME StoreInv PROVE StoreTypeOK
    OBVIOUS
  <2>1. TypeOK /\ ThreadsTyped
    BY DEF StoreInv, StoreParts, RegistryInv, TableOK, QueueOK, ClosedOK, TypeOK
  <2>2. WorkerPlaces = {"begin", "try", "check", "await", "wait", "connect", "enter",
                        "execute", "record", "validate", "locked", "changed",
                        "work", "drop", "leave", "stopped", "failed"}
    BY DEF WorkerPlaces, Resting, Busy
  <2>. QED
    BY <2>1, <2>2 DEF StoreTypeOK, ThreadsTyped, UploadState, WorkerState
<1>2. StoreInv => NoOrphans
  <2>. SUFFICES ASSUME StoreInv, NEW id \in Active(jobs)
                PROVE  /\ ~ jobs[id].submitted =>
                            \E c \in Client : upload[c] = [pc |-> "filling", id |-> id]
                       /\ id \in Running(jobs) => worker.id = id
    BY DEF NoOrphans
  <2>1. id \in Known(jobs) /\ id \in JobId /\ ~ IsTerminal(jobs[id].job)
    BY DEF Active, Known
  <2>2. ~ jobs[id].submitted => Reserved(id)
    <3>1. jobs[id].job.status \in {"queued", "running"}
      BY <2>1, EntryFacts DEF StoreInv, IsTerminal, Terminal, Entry, Job, Status
    <3>. QED
      BY <2>1, <3>1 DEF StoreInv, StoreParts, IdOK, FilesOK, Reserved, Running
  <2>3. ASSUME Reserved(id)
        PROVE  \E c \in Client : upload[c] = [pc |-> "filling", id |-> id]
    <3>1. PICK c \in Client : upload[c].pc = "filling" /\ upload[c].id = id
      BY <2>1, <2>3 DEF StoreInv, StoreParts, IdOK, UploadsOK, Fills
    <3>2. upload[c] \in UploadState
      BY DEF StoreInv, StoreParts, ThreadsTyped
    <3>. QED
      BY <3>1, <3>2 DEF UploadState
  <2>. QED
    BY <2>2, <2>3 DEF StoreInv, StoreParts, WorkerOK
<1>3. StoreInv => NothingLeftRunning
  BY DEF StoreInv, StoreParts, WorkerOK, NothingLeftRunning, Busy
<1>4. StoreInv => PlacesComeBack
  BY <1>1, <1>2, <1>3 DEF PlacesComeBack
<1>. QED
  BY <1>4, StoreInvariant, PTL

(* A job runs on a complete upload, its sources are gone when it completed  *)
(* or was cancelled, and a finished job lists exactly the decks on disk.    *)
THEOREM FilesAgree == StoreSpec => []FilesFollowJobs
<1>1. StoreInv => FilesFollowJobs
  <2>. SUFFICES ASSUME StoreInv PROVE FilesFollowJobs
    OBVIOUS
  <2>1. \A id \in Known(jobs) : id \in JobId /\ FilesOK(id)
    BY DEF StoreInv, StoreParts, IdOK, Known
  <2>2. RunsOnCompleteUpload
    BY <2>1 DEF RunsOnCompleteUpload, FilesOK, Running
  <2>3. SourcesErased
    BY <2>1 DEF SourcesErased, FilesOK
  <2>4. ListsWhatIsThere
    BY <2>1 DEF ListsWhatIsThere, FilesOK, FinishedIds
  <2>. QED
    BY <2>2, <2>3, <2>4 DEF FilesFollowJobs
<1>. QED
  BY <1>1, StoreInvariant, PTL

(* A worker that has seen nothing to do is told of every job submitted      *)
(* since, and of the close: notify_one leaves a permit, and the `notified`  *)
(* future is taken before the queue is looked at.                           *)
THEOREM NoWakeupIsLost == StoreSpec => []NoLostWakeup
<1>1. StoreInv => NoLostWakeup
  <2>. SUFFICES ASSUME StoreInv PROVE NoLostWakeup
    OBVIOUS
  <2>1. queue # << >> => \E id \in JobId : Waiting(id)
    BY FrontIsServable DEF StoreInv
  <2>. QED
    BY <2>1 DEF StoreInv, StoreParts, SignalsOK, NoLostWakeup
<1>. QED
  BY <1>1, StoreInvariant, PTL

(* With the shutdown order of flashcards-companion, where the store is      *)
(* closed after the worker has stopped, a job that fails is told so, and    *)
(* the worker goes on.                                                      *)
THEOREM WorkerGoesOn ==
  ASSUME Orderly
  PROVE  StoreSpec => []WorkerSurvives
<1>1. StoreInv => WorkerSurvives
  BY DEF StoreInv, StoreParts, OrderOK, WorkerSurvives, At
<1>. QED
  BY <1>1, StoreInvariant, PTL
================================================================================
