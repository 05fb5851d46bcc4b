--------------------------- MODULE LocalJobRegistry ----------------------------
(***************************************************************************)
(* The in-memory job table of the Companion                                *)
(* (rust/services/src/local_job_registry.rs): at most MaxActive unfinished *)
(* and MaxRetained known jobs, a first-in first-out queue of submitted     *)
(* jobs, one running job at a time, finished jobs forgotten after          *)
(* Retention units of time.                                                *)
(*                                                                         *)
(* Every public method runs under one mutex, so each is one action.  The   *)
(* code keeps `finished_at` and compares it with the current instant; the  *)
(* model keeps the difference, the age of a finished job, which stops at   *)
(* Retention because no comparison of the code tells larger ages apart: an *)
(* expired entry is pruned before any other reading of its age.            *)
(***************************************************************************)
EXTENDS LocalJobState, Sequences

CONSTANTS
  JobId,        (* job identifiers                                          *)
  MaxActive,    (* MAX_ACTIVE_JOBS                                          *)
  MaxRetained,  (* MAX_RETAINED_JOBS                                        *)
  Retention     (* JOB_RETENTION, in units of the clock                     *)

ASSUME RegistryAssumption ==
  /\ MaxActive \in Nat \ {0}
  /\ MaxRetained \in Nat
  /\ MaxActive <= MaxRetained
  /\ Retention \in Nat \ {0}
  /\ IsFiniteSet(JobId)

VARIABLES
  jobs,         (* BTreeMap<String, Entry>, as a function with a null entry *)
  queue,        (* submitted jobs, the oldest first                         *)
  closed        (* set once, when the Companion shuts down                  *)

registryVars == <<jobs, queue, closed>>

(* `finished_at`: no stamp, or the time that has passed since.              *)
Unfinished == -1
Age == {Unfinished} \cup (0 .. Retention)

NoEntry == [owner |-> NoOwner, job |-> NewJob(1), submitted |-> FALSE,
            age |-> Unfinished]

Entry == [owner : Owner, job : Job, submitted : BOOLEAN, age : Age]

--------------------------------------------------------------------------------
(* Reading the table.                                                       *)

Known(table)       == {id \in JobId : table[id].owner # NoOwner}
Active(table)      == {id \in Known(table) : ~ IsTerminal(table[id].job)}
Running(table)     == {id \in Known(table) : table[id].job.status = "running"}
FinishedIds(table) == {id \in Known(table) : table[id].age # Unfinished}
Expired(table)     == {id \in FinishedIds(table) : table[id].age >= Retention}

(* Slip: the newest result goes.                                            *)
Newest(table) == {id \in FinishedIds(table) :
                    \A other \in FinishedIds(table) :
                      table[id].age <= table[other].age}

Oldest(table)      == {id \in FinishedIds(table) :
                         \A other \in FinishedIds(table) :
                           table[other].age <= table[id].age}

Owns(owner, id) == owner \in Owner /\ jobs[id].owner = owner

(* New work needs an open table.                                            *)
Open == ~ closed

(* VecDeque::retain: the queue without the jobs in ids, order kept.         *)
Kept(line, ids) ==
  LET kept[i \in 0 .. Len(line)] ==
        IF i = 0 THEN << >>
        ELSE IF line[i] \in ids THEN kept[i - 1]
        ELSE Append(kept[i - 1], line[i])
  IN  kept
Retain(line, ids) == Kept(line, ids)[Len(line)]

(* `remove`: forget entries, and the queue's references to them.            *)
Without(table, ids) == [id \in JobId |-> IF id \in ids THEN NoEntry ELSE table[id]]

Forget(ids) ==
  /\ jobs'  = Without(jobs, ids)
  /\ queue' = Retain(queue, ids)

--------------------------------------------------------------------------------
Init ==
  /\ jobs   = [id \in JobId |-> NoEntry]
  /\ queue  = << >>
  /\ closed = FALSE

(* `prune`, also the first thing `snapshot` and `resource` do.              *)
Prune == Forget(Expired(jobs)) /\ UNCHANGED closed

(* `reserve` prunes first; what it rejects leaves the pruned table behind.  *)
AfterPrune == Without(jobs, Expired(jobs))

(* Slip: one active job too many.                                           *)
AdmissibleOneMore(id, n) ==
  /\ id \notin Known(AfterPrune) /\ ValidFiles(n)
  /\ Cardinality(Active(AfterPrune)) <= MaxActive

Admissible(id, n) ==
  /\ id \notin Known(AfterPrune)
  /\ ValidFiles(n)
  /\ Cardinality(Active(AfterPrune)) < MaxActive

(* The finished jobs of which the oldest makes room, none while there is    *)
(* room; among equally old ones the least identifier goes, and identifiers  *)
(* are random.                                                              *)
Victims == IF Cardinality(Known(AfterPrune)) < MaxRetained
           THEN {{}}
           ELSE {{id} : id \in Oldest(AfterPrune)}

Reserve(owner, id, n) ==
  /\ Open
  /\ Admissible(id, n)
  /\ \E victim \in Victims :
       /\ jobs' = [Without(AfterPrune, victim) EXCEPT
                     ![id] = [owner |-> owner, job |-> NewJob(n),
                              submitted |-> FALSE, age |-> Unfinished]]
       /\ queue' = Retain(queue, Expired(jobs) \cup victim)
  /\ UNCHANGED closed

ReserveRejected(id, n) ==
  /\ Open
  /\ ~ Admissible(id, n) \/ Victims = {}
  /\ Prune

(* Slip: a job may be submitted twice.                                      *)
SubmitAgain(owner, id) ==
  /\ Open /\ Owns(owner, id) /\ jobs[id].job.status = "queued"
  /\ jobs'  = [jobs EXCEPT ![id].submitted = TRUE]
  /\ queue' = Append(queue, id)
  /\ UNCHANGED closed

(* Slip: the newest job goes to the front.                                  *)
SubmitFirst(owner, id) ==
  /\ Open /\ Owns(owner, id) /\ ~ jobs[id].submitted /\ jobs[id].job.status = "queued"
  /\ jobs'  = [jobs EXCEPT ![id].submitted = TRUE]
  /\ queue' = <<id>> \o queue
  /\ UNCHANGED closed

Submit(owner, id) ==
  /\ Open
  /\ Owns(owner, id)
  /\ ~ jobs[id].submitted
  /\ jobs[id].job.status = "queued"
  /\ jobs'  = [jobs EXCEPT ![id].submitted = TRUE]
  /\ queue' = Append(queue, id)
  /\ UNCHANGED closed

MayStartNext == Open /\ Running(jobs) = {} /\ queue # << >>

StartNext ==
  /\ MayStartNext
  /\ LET id == Head(queue) IN
       /\ id \in Known(jobs)
       /\ MayStart(jobs[id].job)
       /\ jobs' = [jobs EXCEPT ![id].job = Start(@)]
  /\ queue' = Tail(queue)
  /\ UNCHANGED closed

Record(owner, id, outcome) ==
  /\ Owns(owner, id)
  /\ MayRecord(jobs[id].job)
  /\ jobs' = [jobs EXCEPT ![id].job = RecordSource(@, outcome)]
  /\ UNCHANGED <<queue, closed>>

Finish(owner, id, status, artifacts) ==
  /\ Owns(owner, id)
  /\ MayFinish(jobs[id].job, status)
  /\ jobs'  = [jobs EXCEPT ![id].job = FinishJob(@, status, artifacts),
                           ![id].age = 0]
  /\ queue' = Retain(queue, {id})
  /\ UNCHANGED closed

DiscardReservation(owner, id) ==
  /\ Owns(owner, id)
  /\ ~ jobs[id].submitted
  /\ jobs[id].job.status = "queued"
  /\ Forget({id})
  /\ UNCHANGED closed

Close ==
  /\ closed' = TRUE
  /\ queue'  = << >>
  /\ jobs'   = [id \in JobId |-> NoEntry]

(* Time passes: every finished job grows older.                             *)
Tick ==
  /\ jobs' = [id \in JobId |->
                IF jobs[id].age \in 0 .. Retention - 1
                THEN [jobs[id] EXCEPT !.age = @ + 1] ELSE jobs[id]]
  /\ UNCHANGED <<queue, closed>>

Next ==
  \/ \E id \in JobId, n \in 1 .. MaxJobFiles :
       \/ \E owner \in Owner : Reserve(owner, id, n)
       \/ ReserveRejected(id, n)
  \/ \E owner \in Owner, id \in JobId :
       \/ Submit(owner, id)
       \/ DiscardReservation(owner, id)
       \/ \E outcome \in Outcome : Record(owner, id, outcome)
       \/ \E status \in Terminal, artifacts \in SUBSET Artifact :
            Finish(owner, id, status, artifacts)
  \/ StartNext
  \/ Prune
  \/ Close
  \/ Tick

Spec == Init /\ [][Next]_registryVars

--------------------------------------------------------------------------------
(* Type invariant of the table, the queue and the closed flag.              *)
TypeOK ==
  /\ jobs \in [JobId -> Entry \cup {NoEntry}]
  /\ queue \in Seq(JobId)
  /\ closed \in BOOLEAN

(* The queue and the table never drift apart, whatever mix of submissions,  *)
(* cancellations, evictions and discards: the queue lists exactly the       *)
(* submitted jobs that wait, each once (`start_next` relies on it: a stale  *)
(* front entry would fail the worker for good).                             *)
QueueExact ==
  /\ \A i, j \in 1 .. Len(queue) : i # j => queue[i] # queue[j]
  /\ \A id \in JobId :
       (\E i \in 1 .. Len(queue) : queue[i] = id)
         <=> /\ id \in Known(jobs)
             /\ jobs[id].submitted
             /\ jobs[id].job.status = "queued"

(* One generation at a time uses the NotebookLM account and the machine.    *)
OneRunning == \A id1, id2 \in Running(jobs) : id1 = id2

(* Memory and disk stay bounded: no more than MaxActive unfinished jobs and *)
(* MaxRetained in all hold a workspace.                                     *)
Bounded ==
  /\ Cardinality(Active(jobs)) <= MaxActive
  /\ Cardinality(Known(jobs)) <= MaxRetained

(* A source is counted once: never more outcomes than sources, none before  *)
(* the start, and a completed job has every source completed or skipped.    *)
SourcesAccounted ==
  \A id \in Known(jobs) :
    LET job == jobs[id].job IN
    /\ Recorded(job) <= job.discovered
    /\ job.discovered \in {0, job.files}
    /\ job.status = "completed" =>
         /\ job.outcomes["failed"] = 0
         /\ Recorded(job) = job.files

(* Retained history never locks users out: as long as fewer than MaxActive  *)
(* jobs are unfinished, a full table has a finished job to evict, and the   *)
(* Full error of the eviction branch is not reached.                        *)
HistoryNeverBlocks ==
  (Cardinality(Active(AfterPrune)) < MaxActive) => Victims # {}

(* The limits hold, and what is retained never takes a place from new work  *)
(* (reserve and its eviction in local_job_registry.rs).                     *)
LimitsHold == TypeOK /\ Bounded /\ HistoryNeverBlocks

(* An unfinished job disappears only by a discard of a reservation that was *)
(* never submitted or when the registry closes: neither pruning nor         *)
(* eviction takes a job that waits or runs.                                 *)
ActiveNeverLost ==
  [][\A id \in Active(jobs) :
       id \notin Known(jobs') => closed' \/ ~ jobs[id].submitted]_registryVars

(* A finished job is forgotten when it expires, or to make room in a full   *)
(* table, and then no finished job left behind is older.                    *)
ForgetsOldestFirst ==
  [][\A id \in FinishedIds(jobs) :
       id \notin Known(jobs') /\ ~ closed' =>
         \/ id \in Expired(jobs)
         \/ /\ Cardinality(Known(AfterPrune)) = MaxRetained
            /\ \A other \in FinishedIds(jobs') : jobs[other].age <= jobs[id].age
    ]_registryVars

(* What a user has seen of a finished job never changes: its outcome,       *)
(* counts, artifacts and owner stay until it is forgotten.                  *)
FinishedIsFinal ==
  [][\A id \in FinishedIds(jobs) :
       id \in FinishedIds(jobs') =>
         /\ jobs'[id].job = jobs[id].job
         /\ jobs'[id].owner = jobs[id].owner]_registryVars

(* A user's history is kept as it was, and goes in the order in which it    *)
(* was made (prune, evict, record and finish in local_job_registry.rs).     *)
HistoryIsKept == FinishedIsFinal /\ ForgetsOldestFirst

(* Closing is for good: nothing enters the table or leaves the flag after.  *)
ClosedStaysEmpty == closed => Known(jobs) = {} /\ queue = << >>

--------------------------------------------------------------------------------
(* The registry implements the promise made to users: phases from the       *)
(* entries, the order of the waiting jobs from their places in the queue.   *)
PhaseOf(id) ==
  IF id \notin Known(jobs) THEN "absent"
  ELSE IF IsTerminal(jobs[id].job) THEN "done"
  ELSE IF jobs[id].job.status = "running" THEN "running"
  ELSE IF jobs[id].submitted THEN "waiting" ELSE "reserved"

Places == {place \in (1 .. Len(queue)) \X (1 .. Len(queue)) : place[1] < place[2]}

Lifecycle == INSTANCE JobLifecycle WITH
  phase  <- [id \in JobId |-> PhaseOf(id)],
  before <- {<<queue[place[1]], queue[place[2]]>> : place \in Places},
  open   <- ~ closed

(* Every behaviour of the registry keeps the promise of JobLifecycle: one   *)
(* job at a time, first come first served, done before forgotten.           *)
KeepsPromise == Lifecycle!LifecycleSpec
================================================================================
