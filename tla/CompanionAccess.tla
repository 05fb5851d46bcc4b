---------------------------- MODULE CompanionAccess ----------------------------
(***************************************************************************)
(* What a token opens on the user's machine: the Companion authorizes each  *)
(* request with the web server, and an upload twice                         *)
(* (rust/delivery/src/companion/uploads.rs, companion.rs, jobs.rs,          *)
(* rust/delivery-shared/src/companion_auth.rs,                              *)
(* rust/integrations-shared/src/companion_auth.rs,                          *)
(* rust/integrations/src/job_uploads.rs).                                   *)
(*                                                                          *)
(* An upload authorizes, takes one of the permits, asks NotebookLM, and     *)
(* then has a time limit for receiving its files, authorizing again and     *)
(* submitting.  The job store is the subject of LocalJobStore; here it is   *)
(* the number of places it has.  Sizes are counted in chunks.               *)
(***************************************************************************)
EXTENDS WebSessions, Sequences

CONSTANTS
  UploadPermits,     (* CompanionState.uploads                              *)
  MaxActive,         (* places in the job store                             *)
  MaxJobFiles,       (* files of one job                                    *)
  MaxDocumentBytes,  (* bytes of one file                                   *)
  MaxJobUploadBytes  (* bytes of all files of a job                         *)

ASSUME AccessAssumption ==
  /\ {UploadPermits, MaxActive, MaxJobFiles} \subseteq Nat \ {0}
  /\ {MaxDocumentBytes, MaxJobUploadBytes} \subseteq Nat \ {0}

VARIABLES
  permits,      (* permits of the semaphore that are free                   *)
  submitted     (* jobs in the store that an upload submitted               *)

vars == <<users, sessions, token, request, hashing, orphans, permits, submitted>>

Init == WebInit /\ permits = UploadPermits /\ submitted = 0

OnlyRequest == UNCHANGED <<users, sessions, token, hashing, orphans>>

--------------------------------------------------------------------------------
(* authorized_user: the token goes to the web server, which looks at its    *)
(* session (Allow, Deny); the answer arrives later, or not at all (Drop).   *)

Send(r, s, kind) ==
  /\ At(r, "idle")
  /\ token[s] # NoToken
  /\ request' = [request EXCEPT ![r].pc = kind, ![r].session = s,
                                ![r].left = token[s], ![r].dead = ~ Live(s)]
  /\ OnlyRequest /\ UNCHANGED <<permits, submitted>>

Asks(r) == request[r].pc \in {"asks", "reads"}

Allow(r) ==
  /\ Asks(r)
  /\ Verified(request[r].session, request[r].left)
  /\ Go(r, IF At(r, "reads") THEN "serves" ELSE "allowed")
  /\ OnlyRequest /\ UNCHANGED <<permits, submitted>>

Holding == {"access", "receiving", "filling"}
Holds(r) == request[r].pc \in Holding \/ request[r].again

(* Slip: an early return that keeps the permit.                             *)
KeptPermit(r) == permits

(* The guard of the semaphore goes with the handler, however it ends.       *)
Released(r) == IF Holds(r) THEN permits + 1 ELSE permits

Answer(r) ==
  /\ End(r)
  /\ permits' = Released(r)
  /\ OnlyRequest

Deny(r) ==
  /\ Asks(r)
  /\ ~ Verified(request[r].session, request[r].left)
  /\ Answer(r) /\ UNCHANGED submitted

(* get_job, download_artifact, notebooklm_status: allowed once, then served *)
(* from the store.                                                          *)
Serve(r) ==
  /\ At(r, "serves")
  /\ Answer(r) /\ UNCHANGED submitted

--------------------------------------------------------------------------------
(* create_job                                                               *)

(* try_acquire: without a permit, "wait for another upload".                *)
TakePermit(r) ==
  /\ At(r, "allowed") /\ ~ request[r].again
  /\ IF permits > 0
     THEN permits' = permits - 1 /\ Go(r, "access")
     ELSE End(r) /\ UNCHANGED permits
  /\ OnlyRequest /\ UNCHANGED submitted

(* notebooklm_access::check: connected, to be connected, or not known.      *)
CheckNotebookLM(r) ==
  /\ At(r, "access")
  /\ \/ Go(r, "receiving") /\ UNCHANGED permits /\ OnlyRequest
     \/ Answer(r)
  /\ UNCHANGED submitted

Sizes(r) == request[r].sizes

(* total_bytes, as it grows from file to file.                              *)
Totals(sizes) ==
  LET total[i \in 0 .. Len(sizes)] == IF i = 0 THEN 0 ELSE total[i - 1] + sizes[i]
  IN  total

Total(sizes) == Totals(sizes)[Len(sizes)]

Receives(r, sizes) ==
  /\ At(r, "receiving")
  /\ request' = [request EXCEPT ![r].sizes = sizes]
  /\ OnlyRequest /\ UNCHANGED <<permits, submitted>>

(* A file is over when it has bytes.                                        *)
Complete(sizes) == \A i \in DOMAIN sizes : sizes[i] > 0

(* start_file: at most MaxJobFiles, the one before is complete.             *)
StartFile(r) ==
  /\ Len(Sizes(r)) < MaxJobFiles
  /\ Complete(Sizes(r))
  /\ Receives(r, Append(Sizes(r), 0))

(* Slip: the limit of all files is the limit of each.                       *)
FitsAlone(sizes, n) ==
  /\ n <= MaxDocumentBytes - sizes[Len(sizes)]
  /\ n <= MaxJobUploadBytes - sizes[Len(sizes)]

Fits(sizes, n) ==
  /\ n <= MaxDocumentBytes - sizes[Len(sizes)]
  /\ n <= MaxJobUploadBytes - Total(sizes)

WriteChunk(r) ==
  /\ Sizes(r) # << >>
  /\ \E n \in 1 .. MaxDocumentBytes :
       /\ Fits(Sizes(r), n)
       /\ Receives(r, [Sizes(r) EXCEPT ![Len(Sizes(r))] = @ + n])

(* Slip: what was allowed at the beginning is allowed at the end.           *)
ReceivedAllowed(r) ==
  /\ At(r, "receiving")
  /\ Complete(Sizes(r))
  /\ request' = [request EXCEPT ![r].pc = "allowed", ![r].again = TRUE,
                                ![r].dead = ~ Live(request[r].session)]
  /\ OnlyRequest /\ UNCHANGED <<permits, submitted>>

(* The last part: the same token is sent again.                             *)
Received(r) ==
  /\ At(r, "receiving")
  /\ Complete(Sizes(r))
  /\ request' = [request EXCEPT ![r].pc = "asks", ![r].again = TRUE,
                                ![r].dead = ~ Live(request[r].session)]
  /\ OnlyRequest /\ UNCHANGED <<permits, submitted>>

Filling == {r \in Request : request[r].pc = "filling"}

Place == submitted + Cardinality(Filling) < MaxActive

(* LocalUploads::submit: no job without files; a place is reserved.         *)
ReservePlace(r) ==
  /\ At(r, "allowed") /\ request[r].again
  /\ IF Sizes(r) # << >> /\ Place
     THEN Go(r, "filling") /\ UNCHANGED permits /\ OnlyRequest
     ELSE Answer(r)
  /\ UNCHANGED submitted

(* persist_upload of every file, then the submission.                       *)
SubmitUpload(r) ==
  /\ At(r, "filling")
  /\ submitted' = submitted + 1
  /\ Answer(r)

(* A job ends and its place is free.                                        *)
JobEnds ==
  /\ submitted > 0
  /\ submitted' = submitted - 1
  /\ UNCHANGED <<users, sessions, token, request, hashing, orphans, permits>>

(* The client goes, a part is not valid, the time limit of ten minutes or   *)
(* that of an inner request fires: everything the handler holds goes.       *)
Fail(r) ==
  /\ Asks(r) \/ Holds(r) \/ request[r].pc \in {"allowed", "serves"}
  /\ Answer(r) /\ UNCHANGED submitted

--------------------------------------------------------------------------------
WebStep(r) ==
  /\ \/ \E p \in Password : LookUp(r, p) \/ StartServer(r, p) \/ Provision(r, p)
     \/ \E s \in Session : AskToken(r, s)
     \/ StartHashing(r) \/ Hashed(r) \/ OpenSession(r) \/ Mint(r)
     \/ CreateUser(r) \/ Exit(r) \/ DropRequest(r)
  /\ UNCHANGED <<permits, submitted>>

CompanionStep(r) ==
  \/ \E s \in Session, kind \in {"asks", "reads"} : Send(r, s, kind)
  \/ Allow(r) \/ Deny(r) \/ Serve(r)
  \/ TakePermit(r) \/ CheckNotebookLM(r)
  \/ StartFile(r) \/ WriteChunk(r) \/ Received(r)
  \/ ReservePlace(r) \/ SubmitUpload(r) \/ Fail(r)

Others ==
  /\ Tick \/ OrphanHashed \/ \E s \in Session : LogOut(s)
  /\ UNCHANGED <<permits, submitted>>

Next ==
  \/ \E r \in Request : WebStep(r) \/ CompanionStep(r)
  \/ Others
  \/ JobEnds

(* The blocking threads and the permits of tokio's semaphore, which is      *)
(* first come, first served.                                                *)
AccessFairness ==
  /\ WF_vars(OrphanHashed /\ UNCHANGED <<permits, submitted>>)
  /\ \A r \in Request :
       /\ WF_vars(Hashed(r) /\ UNCHANGED <<permits, submitted>>)
       /\ SF_vars(StartHashing(r) /\ UNCHANGED <<permits, submitted>>)

AccessSpec == Init /\ [][Next]_vars /\ AccessFairness

--------------------------------------------------------------------------------
(* A session that was over when the Companion began to authorize serves     *)
(* nothing, and a job is submitted only for a session that still lived when *)
(* its files had arrived (create_job, receive_owned_upload).                *)
ServedWhileLive ==
  \A r \in Request :
    request[r].pc \in {"serves", "allowed", "access", "receiving", "filling"}
      => ~ request[r].dead

(* However an upload ends, its permit comes back (try_acquire in            *)
(* create_job).                                                             *)
PermitsComeBack ==
  permits + Cardinality({r \in Request : Holds(r)}) = UploadPermits

(* A job that is submitted has files, none of them empty, within both       *)
(* limits, and there is a place for it (LocalUploads, reserve).             *)
WithinLimits ==
  /\ submitted + Cardinality(Filling) <= MaxActive
  /\ \A r \in Filling :
       /\ Len(Sizes(r)) \in 1 .. MaxJobFiles
       /\ \A i \in DOMAIN Sizes(r) : Sizes(r)[i] \in 1 .. MaxDocumentBytes
       /\ Total(Sizes(r)) <= MaxJobUploadBytes

(* Two that provision one password are not both told that they did, and a   *)
(* server that serves has its account (create_user, ensure_bootstrap).      *)
ProvisionedOnce ==
  /\ \A r \in Request : At(r, "started") => users[request[r].user] # NoAccount
  /\ \A r, q \in Request :
       At(r, "created") /\ At(q, "created") /\ request[r].user = request[q].user
         => r = q

(* A password waits for its computation, but not for ever (hash_limiter).   *)
EveryLoginGoesOn ==
  \A r \in Request : At(r, "queued") ~> ~ At(r, "queued")
================================================================================
