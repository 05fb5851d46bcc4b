----------------------------- MODULE ProviderCalls -----------------------------
(***************************************************************************)
(* The requests of a NotebookLM client: connecting, registering and         *)
(* sending a file, taking a half sent one back, waiting for it              *)
(* (rust/integrations/src/notebooklm.rs, notebooklm/upload.rs,              *)
(* notebooklm/protocol.rs).                                                 *)
(*                                                                          *)
(* The calls of one client on one notebook follow each other; what a call   *)
(* leaves running in the background goes on beside the next one.  The       *)
(* provider is external: it may answer, refuse, or do what it was asked     *)
(* after the client has given up.                                           *)
(***************************************************************************)
EXTENDS Naturals

CONSTANTS
  Call,      (* uploads of one client into one notebook                     *)
  Source,    (* identifiers the provider gives to sources                   *)
  Theirs,    (* sources that were in the notebook before                    *)
  NoSource,
  MaxHops    (* redirections of a bootstrap                                 *)

ASSUME CallsAssumption ==
  /\ Theirs \subseteq Source
  /\ NoSource \notin Source
  /\ MaxHops \in Nat \ {0}

VARIABLES
  call,      (* the calls: `upload_file`, its UploadCleanup, the wait       *)
  task,      (* cleanup_tasks: the cleanup a dropped call leaves            *)
  sources,   (* the sources of the notebook, at the provider                *)
  late       (* requests given up that the provider may still carry out     *)

callsVars == <<call, task, sources, late>>

NoCall == [pc |-> "idle", hop |-> 0, host |-> "home", base |-> {},
           source |-> NoSource, cancel |-> FALSE, remove |-> FALSE,
           cleaned |-> "not needed"]

CallsInit ==
  /\ call = [c \in Call |-> NoCall]
  /\ task = [c \in Call |-> "none"]
  /\ sources = [s \in Source |-> IF s \in Theirs THEN "ready" ELSE "unused"]
  /\ late = {}

CallAt(c, pc) == call[c].pc = pc
Moves(c, state) == call' = [call EXCEPT ![c] = state]
Go(c, pc) == Moves(c, [call[c] EXCEPT !.pc = pc])
ProviderRests == UNCHANGED <<sources, late>>

Waiting == {"visiting", "baseline", "registering", "starting", "sending",
            "cancelling", "removing", "polling"}
Foreground(c) == call[c].pc \in Waiting

(* Identifiers are not given twice.                                         *)
There == {s \in Source : sources[s] \notin {"unused", "removed"}}
Unused == {s \in Source : sources[s] = "unused"}

--------------------------------------------------------------------------------
(* connect: the home page is asked for, through redirections the client     *)
(* follows itself.                                                          *)

Host == {"home", "former", "accounts", "elsewhere"}

(* trusted_bootstrap_url                                                    *)
Trusted == {"home", "former", "accounts"}

Connect(c) ==
  /\ CallAt(c, "idle")
  /\ \A d \in Call : ~ Foreground(d)
  /\ Go(c, "visiting")
  /\ UNCHANGED task /\ ProviderRests

(* check_redirect_hop                                                       *)
LastHop(c) == call[c].hop = MaxHops

Redirected(c) ==
  /\ CallAt(c, "visiting")
  /\ call[c].host \in Trusted
  /\ ~ LastHop(c)
  /\ \E h \in Host : Moves(c, [call[c] EXCEPT !.hop = @ + 1, !.host = h])
  /\ UNCHANGED task /\ ProviderRests

(* The page of the home host, with its three tokens.                        *)
Connected(c) ==
  /\ CallAt(c, "visiting")
  /\ call[c].host = "home"
  /\ Moves(c, [NoCall EXCEPT !.pc = "baseline"])
  /\ UNCHANGED task /\ ProviderRests

--------------------------------------------------------------------------------
(* upload_file                                                              *)

(* register_upload reads the sources that are there,                        *)
Baseline(c) ==
  /\ CallAt(c, "baseline")
  /\ Moves(c, [call[c] EXCEPT !.pc = "registering", !.base = There])
  /\ UNCHANGED task /\ ProviderRests

(* Slip: any identifier of the answer.                                      *)
AnyAnswer(c, s) == TRUE

(* then registers the file.  The identifier is searched for in the answer,  *)
(* and one that was there before is refused.                                *)
Unambiguous(c, s) == s \notin call[c].base

CallOver(c) == Moves(c, [NoCall EXCEPT !.pc = "over"])

(* Slip: the cleanup begins with the transfer.                              *)
NotOwned(c, s) == [call[c] EXCEPT !.pc = "starting", !.source = s]

(* The request for the removal is written before the transfer begins.       *)
Owned(c, s) == [call[c] EXCEPT !.pc = "starting", !.source = s, !.remove = TRUE]

(* It cannot be written when no cookie is left: the call ends with an       *)
(* error, before there is an UploadCleanup for the source it knows.         *)
Unowned(s) == [NoCall EXCEPT !.pc = "over", !.source = s, !.cleaned = "unwritten"]

(* The provider registers a new source, and names it or another one.        *)
Registered(c) ==
  /\ CallAt(c, "registering")
  /\ \E s \in Unused :
       /\ sources' = [sources EXCEPT ![s] = "registered"]
       /\ \E answered \in There \cup {s} :
            \/ /\ Unambiguous(c, answered)
               /\ Moves(c, Owned(c, answered)) \/ Moves(c, Unowned(answered))
            \/ ~ Unambiguous(c, answered) /\ CallOver(c)
  /\ UNCHANGED <<task, late>>

(* start_upload: the address of the upload is checked, cancelling armed.    *)
Started(c) ==
  /\ CallAt(c, "starting")
  /\ Moves(c, [call[c] EXCEPT !.pc = "sending", !.cancel = TRUE, !.remove = TRUE])
  /\ UNCHANGED task /\ ProviderRests

Received(s) == [sources EXCEPT ![s] = IF @ = "registered" THEN "processing" ELSE @]

Disarmed(c) == [call[c] EXCEPT !.pc = "polling", !.cancel = FALSE, !.remove = FALSE]

(* transfer_upload is confirmed; wait_for_source polls the new source.      *)
Sent(c) ==
  /\ CallAt(c, "sending")
  /\ sources' = Received(call[c].source)
  /\ Moves(c, Disarmed(c))
  /\ UNCHANGED <<task, late>>

(* source_is_ready: ready, failed; otherwise it is asked again.             *)
Polled(c) ==
  /\ CallAt(c, "polling")
  /\ sources[call[c].source] \in {"ready", "failed"}
  /\ IF sources[call[c].source] = "ready" THEN Go(c, "ready") ELSE CallOver(c)
  /\ UNCHANGED task /\ ProviderRests

--------------------------------------------------------------------------------
(* Failures.  A request may be given up before the provider carries it out. *)

Request(c) == [kind |-> call[c].pc, source |-> call[c].source]
MayComeLate(c) == \E requests \in {{}, {Request(c)}} :
                    late' = late \cup requests /\ UNCHANGED sources

(* Slip: the wait has no limit of its own.                                  *)
ImpatientBut(c) == Foreground(c) /\ ~ CallAt(c, "polling")

(* Each request, the bootstrap and the wait have a time limit.              *)
Impatient(c) == Foreground(c)

(* An error, a refusal or the time limit before there is anything to clean, *)
(* or while waiting for the source.                                         *)
CallFails(c) ==
  /\ Impatient(c)
  /\ call[c].pc \in {"visiting", "baseline", "registering", "polling"}
  /\ CallOver(c)
  /\ IF CallAt(c, "registering") THEN MayComeLate(c) ELSE ProviderRests
  /\ UNCHANGED task

(* After that, upload_file cleans up: cancel first, when there is an        *)
(* upload, then remove.                                                     *)
TransferFails(c) ==
  /\ call[c].pc \in {"starting", "sending"}
  /\ IF CallAt(c, "sending") THEN MayComeLate(c) ELSE ProviderRests
  /\ Go(c, IF call[c].cancel THEN "cancelling" ELSE "removing")
  /\ UNCHANGED task

Cancelled(c) ==
  /\ CallAt(c, "cancelling")
  /\ \E result \in {"not needed", "failed"} :
       Moves(c, [call[c] EXCEPT !.pc = "removing", !.cancel = FALSE, !.cleaned = result])
  /\ UNCHANGED task /\ ProviderRests

Without(s) == [sources EXCEPT ![s] = "removed"]

(* Slip: a refusal of the removal is not an error.                          *)
RefusedIsFine(c) ==
  /\ CallAt(c, "removing")
  /\ sources' \in {sources, Without(call[c].source)}
  /\ Moves(c, [call[c] EXCEPT !.pc = "over", !.remove = FALSE,
        !.cleaned = IF @ = "failed" THEN "failed" ELSE "confirmed"])
  /\ UNCHANGED <<task, late>>

(* cleanup_request: removed and confirmed; or not known.                    *)
Removed(c) ==
  /\ CallAt(c, "removing")
  /\ \/ /\ sources' = Without(call[c].source)
        /\ Moves(c, [call[c] EXCEPT !.pc = "over", !.remove = FALSE,
             !.cleaned = IF @ = "failed" THEN "failed" ELSE "confirmed"])
     \/ /\ sources' \in {sources, Without(call[c].source)}
        /\ Moves(c, [call[c] EXCEPT !.pc = "over", !.remove = FALSE, !.cleaned = "failed"])
  /\ UNCHANGED <<task, late>>

(* The caller is dropped at an await: what is armed goes to a task, unless  *)
(* the runtime is gone too, which is noted as a failure.                    *)
Dropped(c) ==
  /\ Foreground(c) \/ CallAt(c, "ready")
  /\ \E noted \in {"armed", "failed"} :
       task' = [task EXCEPT ![c] = IF call[c].remove THEN noted ELSE "none"]
  /\ IF call[c].pc \in {"registering", "sending"} THEN MayComeLate(c) ELSE ProviderRests
  /\ IF call[c].remove THEN Go(c, "over") ELSE CallOver(c)

(* run_dropped_cleanup                                                      *)
TaskEnds(c) ==
  /\ task[c] = "armed"
  /\ \/ sources' = Without(call[c].source) /\ task' = [task EXCEPT ![c] = "confirmed"]
     \/ /\ sources' \in {sources, Without(call[c].source)}
        /\ task' = [task EXCEPT ![c] = "failed"]
  /\ UNCHANGED <<call, late>>

--------------------------------------------------------------------------------
(* The provider (external).                                                 *)

Process(s) ==
  /\ sources[s] = "processing"
  /\ \E status \in {"ready", "failed"} : sources' = [sources EXCEPT ![s] = status]
  /\ UNCHANGED <<call, task, late>>

Late(m) ==
  /\ m \in late
  /\ late' = late \ {m}
  /\ \/ UNCHANGED sources
     \/ m.kind = "sending" /\ sources' = Received(m.source)
     \/ /\ m.kind = "registering"
        /\ \E s \in Unused : sources' = [sources EXCEPT ![s] = "registered"]
  /\ UNCHANGED <<call, task>>

CallsNext ==
  \/ \E c \in Call :
       \/ Connect(c) \/ Redirected(c) \/ Connected(c)
       \/ Baseline(c) \/ Registered(c) \/ Started(c) \/ Sent(c) \/ Polled(c)
       \/ CallFails(c) \/ TransferFails(c) \/ Cancelled(c) \/ Removed(c)
       \/ Dropped(c) \/ TaskEnds(c)
  \/ \E s \in Source : Process(s)
  \/ \E m \in late : Late(m)

(* The timers; a provider that never answers is one that fails.             *)
CallsFairness ==
  \A c \in Call :
    /\ WF_callsVars(CallFails(c)) /\ WF_callsVars(TransferFails(c))
    /\ WF_callsVars(Cancelled(c)) /\ WF_callsVars(Removed(c)) /\ WF_callsVars(TaskEnds(c))

CallsSpec == CallsInit /\ [][CallsNext]_callsVars /\ CallsFairness

--------------------------------------------------------------------------------
(* No cleanup removes a source that was there before, or one that was sent  *)
(* well: an answer may name the wrong one (register_upload, UploadCleanup). *)
OthersStay ==
  /\ Theirs \subseteq There
  /\ \A c \in Call : call[c].pc \in {"polling", "ready"} => call[c].source \in There

(* A source the client registered and did not send is left to nobody: not   *)
(* to the call, not to its task, and no failure of a cleanup is noted.      *)
Abandoned(c) ==
  /\ call[c].source \in There /\ call[c].pc \notin {"polling", "ready"}
  /\ ~ (call[c].remove /\ Foreground(c))
  /\ task[c] \notin {"armed", "failed"}
  /\ call[c].cleaned # "failed"

(* However a call fails or is dropped, somebody is to remove the source it  *)
(* knows, or has noted that he failed to; except that a client whose last   *)
(* cookie went with the registration cannot write the request, and says so  *)
(* by its error (upload_file, UploadCleanup::drop).                         *)
SomebodyCleans ==
  \A c \in Call : Abandoned(c) => call[c].cleaned = "unwritten"

(* A cleanup that says it is done has removed the source (cleanup_request). *)
CleanupIsTrue ==
  \A c \in Call :
    call[c].cleaned = "confirmed" \/ task[c] = "confirmed" => call[c].source \notin There

(* Whatever the provider does, a call ends, and so does its cleanup.        *)
CallsEnd ==
  \A c \in Call : Foreground(c) \/ task[c] = "armed" ~> ~ Foreground(c) /\ task[c] # "armed"
================================================================================
