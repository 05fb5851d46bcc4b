----------------------------- MODULE JobLifecycle ------------------------------
(***************************************************************************)
(* What the Companion promises a user about a generation job, without      *)
(* tables, queues, locks or clocks: a job is reserved, waits, runs, is     *)
(* done and is forgotten, in this order; one job runs at a time; the job   *)
(* that starts is the one that has waited longest; and after the shutdown  *)
(* there is nothing.  The promise is an order between waiting jobs, not a  *)
(* queue: `before` holds the pairs of waiting jobs, the earlier one first. *)
(***************************************************************************)
CONSTANT JobId

VARIABLES
  phase,    (* of each identifier, "absent" when it names no job            *)
  before,   (* who was submitted before whom, among the waiting jobs        *)
  open      (* FALSE after the shutdown                                     *)

lifecycleVars == <<phase, before, open>>

Phase == {"absent", "reserved", "waiting", "running", "done"}

In(p) == {id \in JobId : phase[id] = p}

(* The order without the pairs of a job that no longer waits.               *)
LeaveLine(id) == {pair \in before : pair[1] # id /\ pair[2] # id}

LifecycleInit ==
  /\ phase  = [id \in JobId |-> "absent"]
  /\ before = {}
  /\ open   = TRUE

(* A new job may take the place, and the identifier, of jobs that are done; *)
(* `forgotten` and `ids` below are sets of such jobs.                       *)
Accept(id, forgotten) ==
  /\ open
  /\ phase[id] = "absent" \/ id \in forgotten
  /\ phase' = [other \in JobId |->
                 IF other = id THEN "reserved"
                 ELSE IF other \in forgotten THEN "absent" ELSE phase[other]]
  /\ UNCHANGED <<before, open>>

Forgotten(ids) ==
  /\ phase' = [id \in JobId |-> IF id \in ids THEN "absent" ELSE phase[id]]
  /\ UNCHANGED <<before, open>>

Abandon(id) ==
  /\ phase[id] = "reserved"
  /\ phase' = [phase EXCEPT ![id] = "absent"]
  /\ UNCHANGED <<before, open>>

Enqueue(id) ==
  /\ open
  /\ phase[id] = "reserved"
  /\ phase'  = [phase EXCEPT ![id] = "waiting"]
  /\ before' = before \cup (In("waiting") \X {id})
  /\ UNCHANGED open

Begin(id) ==
  /\ open
  /\ In("running") = {}
  /\ phase[id] = "waiting"
  /\ \A other \in In("waiting") : <<other, id>> \notin before
  /\ phase'  = [phase EXCEPT ![id] = "running"]
  /\ before' = LeaveLine(id)
  /\ UNCHANGED open

(* A job ends from any unfinished phase; only a running one can succeed.    *)
End(id) ==
  /\ phase[id] \in {"reserved", "waiting", "running"}
  /\ phase'  = [phase EXCEPT ![id] = "done"]
  /\ before' = LeaveLine(id)
  /\ UNCHANGED open

ShutDown ==
  /\ phase'  = [id \in JobId |-> "absent"]
  /\ before' = {}
  /\ open'   = FALSE

LifecycleNext ==
  \/ \E id \in JobId, forgotten \in SUBSET In("done") : Accept(id, forgotten)
  \/ \E ids \in SUBSET In("done") : Forgotten(ids)
  \/ \E id \in JobId : Abandon(id) \/ Enqueue(id) \/ Begin(id) \/ End(id)
  \/ ShutDown

LifecycleSpec == LifecycleInit /\ [][LifecycleNext]_lifecycleVars

--------------------------------------------------------------------------------
LifecycleTypeOK ==
  /\ phase \in [JobId -> Phase]
  /\ before \in SUBSET (JobId \X JobId)
  /\ open \in BOOLEAN

(* The promise made by `before` is a fair line: it orders every two waiting *)
(* jobs in exactly one way, and nobody else stands in it.                   *)
FairLine ==
  /\ \A pair \in before : {pair[1], pair[2]} \subseteq In("waiting") /\ pair[1] # pair[2]
  /\ \A a, b \in In("waiting") :
       a # b => (<<a, b>> \in before <=> <<b, a>> \notin before)
  /\ \A a, b, c \in In("waiting") :
       <<a, b>> \in before /\ <<b, c>> \in before => <<a, c>> \in before
================================================================================
