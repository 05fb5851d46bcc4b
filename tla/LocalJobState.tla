----------------------------- MODULE LocalJobState -----------------------------
(***************************************************************************)
(* The state of one Companion generation job and its legal transitions     *)
(* (rust/services/src/local_jobs.rs), as operators on a record.  Messages  *)
(* and the error text are wording and left out; file names are counted.    *)
(***************************************************************************)
EXTENDS Integers, FiniteSets

CONSTANTS
  Owner,        (* authenticated users (identity.UserId)                    *)
  NoOwner,      (* owner field of an entry that does not exist              *)
  Artifact,     (* names of exported decks                                  *)
  MaxJobFiles   (* MAX_JOB_FILES: sources one job may hold                  *)

ASSUME JobStateAssumption ==
  /\ NoOwner \notin Owner
  /\ MaxJobFiles \in Nat \ {0}

Terminal == {"completed", "failed", "cancelled"}
Status   == {"queued", "running"} \cup Terminal
Outcome  == {"completed", "skipped", "failed"}

(* A job as the registry sees it: counts of sources per outcome, and the    *)
(* sources discovered when it starts (0 before).                            *)
Job == [status     : Status,
        files      : 1 .. MaxJobFiles,
        discovered : 0 .. MaxJobFiles,
        outcomes   : [Outcome -> 0 .. MaxJobFiles],
        artifacts  : SUBSET Artifact]

IsTerminal(job) == job.status \in Terminal

Recorded(job) == job.outcomes["completed"] + job.outcomes["skipped"]
                   + job.outcomes["failed"]

(* LocalJobState::new rejects an empty or excessive list of sources.        *)
ValidFiles(n) == n \in 1 .. MaxJobFiles

NewJob(n) == [status     |-> "queued",
              files      |-> n,
              discovered |-> 0,
              outcomes   |-> [o \in Outcome |-> 0],
              artifacts  |-> {}]

MayStart(job) == job.status = "queued"

Start(job) == [job EXCEPT !.status = "running", !.discovered = job.files]

MayRecord(job) == job.status = "running" /\ Recorded(job) < job.discovered

RecordSource(job, outcome) ==
  [job EXCEPT !.outcomes[outcome] = @ + 1]

(* Slips: success despite a failed source; sources accounted for whatever   *)
(* the status.                                                              *)
MayFinishDespiteFailure(job, status) ==
  /\ status \in Terminal /\ ~ IsTerminal(job)
  /\ job.status = "queued" => status = "cancelled"
  /\ status = "completed" => Recorded(job) = job.discovered

MayFinishAccounted(job, status) ==
  /\ status \in Terminal /\ ~ IsTerminal(job)
  /\ Recorded(job) = job.discovered /\ job.outcomes["failed"] = 0

(* validated_finish: a terminal job never finishes again, a queued one can  *)
(* only be cancelled, and success accounts for every discovered source.     *)
MayFinish(job, status) ==
  /\ status \in Terminal
  /\ ~ IsTerminal(job)
  /\ job.status = "queued" => status = "cancelled"
  /\ status = "completed" =>
       /\ job.outcomes["failed"] = 0
       /\ job.outcomes["completed"] + job.outcomes["skipped"] = job.discovered

FinishJob(job, status, artifacts) ==
  [job EXCEPT !.status = status, !.artifacts = artifacts]
================================================================================
