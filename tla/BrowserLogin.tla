----------------------------- MODULE BrowserLogin -----------------------------
(***************************************************************************)
(* Connecting NotebookLM: a browser the Companion starts, and the           *)
(* credentials it captures there (rust/integrations/src/                    *)
(* notebooklm_browser.rs, notebooklm_profiles.rs, directories.rs).          *)
(*                                                                          *)
(* A login is a handler of the Companion: it locks the browser profile,     *)
(* starts the browser, finds the browser's endpoint in a file, asks it for  *)
(* the cookies until they verify, and saves them on a blocking thread.      *)
(* Credentials are named by the login that captured them.  The browser,     *)
(* its user and the tool that selects a profile are external.               *)
(***************************************************************************)
EXTENDS Naturals, FiniteSets

CONSTANTS
  Login,     (* handlers that connect one user                              *)
  Nobody,    (* no login                                                    *)
  Old        (* credentials saved before, by another program                *)

ASSUME LoginAssumption == Nobody \notin Login /\ Old \notin Login \cup {Nobody}

(* The directories of the two profiles, and of the layout before profiles.  *)
Place == {"default", "work", "legacy"}

VARIABLES
  selected,   (* default_profile of config.json, which another program sets *)
  stored,     (* storage_state.json of each place                           *)
  homes,      (* places with a browser_profile directory                    *)
  lock,       (* .flashcards-login.lock of each place                       *)
  endpoint,   (* DevToolsActivePort: who wrote it, and whether all of it    *)
  login,      (* the handlers                                               *)
  browser,    (* browsers that run                                          *)
  saver       (* the blocking thread of each login                          *)

vars == <<selected, stored, homes, lock, endpoint, login, browser, saver>>
profile == <<selected, stored, homes>>

NoEndpoint == [by |-> Nobody, whole |-> TRUE]
NoSaver    == [pc |-> "none", place |-> "default"]
Resting    == [pc |-> "idle", home |-> "default", previous |-> NoEndpoint,
               found |-> Nobody, outcome |-> "none"]

At(l, pc) == login[l].pc = pc

Init ==
  /\ selected \in {"default", "work"}
  /\ stored \in {[q \in Place |-> IF q \in old THEN Old ELSE Nobody] :
                   old \in {{}, {IF selected = "work" THEN "work" ELSE "legacy"}}}
  /\ homes \in {{}, {q \in {"legacy"} : selected = "default"}}
  /\ lock = [q \in Place |-> Nobody]
  /\ endpoint = [q \in Place |-> NoEndpoint]
  /\ login = [l \in Login |-> Resting]
  /\ browser = {}
  /\ saver = [l \in Login |-> NoSaver]

(* storage_path: the file before profiles counts for "default" until there  *)
(* is one of its own.                                                       *)
StoragePlace ==
  IF selected = "default" /\ stored["default"] = Nobody /\ stored["legacy"] # Nobody
  THEN "legacy" ELSE selected

(* browser_home                                                             *)
BrowserHome ==
  IF StoragePlace \notin homes /\ selected = "default" /\ "legacy" \in homes
  THEN "legacy" ELSE StoragePlace

--------------------------------------------------------------------------------
(* The login.                                                               *)

(* A login starts when the client asks; a save of an earlier one of the     *)
(* same slot is over.                                                       *)
Ask(l) ==
  /\ At(l, "idle") /\ saver[l].pc = "none"
  /\ login' = [login EXCEPT ![l] = [Resting EXCEPT !.pc = "locking"]]
  /\ UNCHANGED <<profile, lock, endpoint, browser, saver>>

(* lock_browser; a handler that is dropped meanwhile drops what it returns. *)
LockBrowser(l) ==
  /\ At(l, "locking")
  /\ homes' = homes \cup {BrowserHome}
  /\ IF lock[BrowserHome] = Nobody
     THEN /\ lock' = [lock EXCEPT ![BrowserHome] = l]
          /\ login' = [login EXCEPT ![l].pc = "locked", ![l].home = BrowserHome]
     ELSE login' = [login EXCEPT ![l] = Resting] /\ UNCHANGED lock
  /\ UNCHANGED <<selected, stored, endpoint, browser, saver>>

(* The endpoint an earlier browser left is read, and the browser started.   *)
Spawn(l) ==
  /\ At(l, "locked")
  /\ login' = [login EXCEPT ![l].pc = "polling",
                            ![l].previous = endpoint[login[l].home]]
  /\ browser' = browser \cup {l}
  /\ UNCHANGED <<profile, lock, endpoint, saver>>

(* Slip: whatever endpoint there is.                                        *)
AnyEndpoint(l) == endpoint[login[l].home] # NoEndpoint

NewEndpoint(l) == endpoint[login[l].home] \notin {NoEndpoint, login[l].previous}

(* poll_endpoint, until it has an endpoint; what is read half is refused.   *)
Poll(l) ==
  /\ At(l, "polling") /\ l \in browser
  /\ NewEndpoint(l)
  /\ endpoint[login[l].home].whole
  /\ login' = [login EXCEPT ![l].pc = "connected", ![l].found = endpoint[login[l].home].by]
  /\ UNCHANGED <<profile, lock, endpoint, browser, saver>>

(* Cdp::connect and capture: pages of NotebookLM, their cookies, and a       *)
(* listing of the notebooks with them; a refused sign-in is tried again.    *)
Capture(l) ==
  /\ At(l, "connected") /\ login[l].found \in browser
  /\ login' = [login EXCEPT ![l].pc = "saving"]
  /\ saver' = [saver EXCEPT ![l].pc = "begins"]
  /\ UNCHANGED <<profile, lock, endpoint, browser>>

(* Slip: the save is left to its thread.                                    *)
Unawaited(l) ==
  /\ At(l, "saving")
  /\ login' = [login EXCEPT ![l].pc = "closing"]
  /\ UNCHANGED <<profile, lock, endpoint, browser, saver>>

(* The join handle of the save is ready: then Browser.close.                *)
Saved(l) ==
  /\ At(l, "saving") /\ saver[l].pc = "saved"
  /\ login' = [login EXCEPT ![l].pc = "closing"]
  /\ saver' = [saver EXCEPT ![l] = NoSaver]
  /\ UNCHANGED <<profile, lock, endpoint, browser>>

Ends(l, outcome) ==
  /\ login' = [login EXCEPT ![l].pc = "stopping", ![l].outcome = outcome]
  /\ UNCHANGED <<profile, lock, endpoint, browser>>

(* The browser answers Browser.close, or not.                               *)
Closed(l) ==
  /\ At(l, "closing") /\ Ends(l, "connected") /\ UNCHANGED saver

(* Closed, Protocol, Verification, an error of the save; 30 seconds without *)
(* an endpoint, 10 without an answer.                                       *)
Fails(l) ==
  /\ \/ login[l].pc \in {"polling", "connected"} /\ UNCHANGED saver
     \/ /\ At(l, "saving") /\ saver[l].pc = "failed"
        /\ saver' = [saver EXCEPT ![l] = NoSaver]
  /\ Ends(l, "failed")

(* Slip: the limit counts from the connection on.                           *)
Unlimited == {"saving", "closing"}

Limited == {"polling", "connected", "saving", "closing"}

(* A join handle that is dropped: the thread goes on, if it has not ended.  *)
Detached(l) ==
  IF saver[l].pc \in {"saved", "failed"} THEN [saver EXCEPT ![l] = NoSaver] ELSE saver

(* LOGIN_TIMEOUT: the await of the save is dropped, the save is not.        *)
TimesOut(l) ==
  /\ login[l].pc \in Limited
  /\ Ends(l, "timed out") /\ saver' = Detached(l)

(* What a handler leaves: its answer, which the properties compare with a    *)
(* save that still runs.                                                    *)
Left(l, outcome) ==
  [Resting EXCEPT !.outcome = IF Detached(l)[l].pc = "none" THEN "none" ELSE outcome]

(* The locals are dropped in reverse order: the browser, then the lock.     *)
Unlocked(l) == [q \in Place |-> IF lock[q] = l THEN Nobody ELSE lock[q]]

(* Slip: the lock is gone as soon as the outcome is known.                  *)
EarlyRelease(l) ==
  /\ At(l, "stopping")
  /\ IF lock[login[l].home] = l
     THEN lock' = Unlocked(l) /\ UNCHANGED <<login, browser>>
     ELSE /\ browser' = browser \ {l}
          /\ login' = [login EXCEPT ![l] = Left(l, login[l].outcome)]
          /\ UNCHANGED lock
  /\ UNCHANGED <<profile, endpoint, saver>>

(* stop_browser waits for the browser after a success, and kills it after   *)
(* five seconds or else; when it cannot, the login has failed and the       *)
(* browser is killed as it is dropped.  A killed browser is gone at once:   *)
(* the kernel's time to end it is left out.                                 *)
StopBrowser(l) ==
  /\ At(l, "stopping")
  /\ browser' = browser \ {l}
  /\ lock' = Unlocked(l)
  /\ \E outcome \in {login[l].outcome, "not stopped"} :
       login' = [login EXCEPT ![l] = Left(l, outcome)]
  /\ UNCHANGED <<profile, endpoint, saver>>

(* The client goes, or there is no browser to start.                        *)
Drop(l) ==
  /\ login[l].pc \notin {"idle", "locking"}
  /\ browser' = browser \ {l}
  /\ lock' = Unlocked(l)
  /\ login' = [login EXCEPT ![l] = Left(l, "dropped")]
  /\ saver' = Detached(l)
  /\ UNCHANGED <<profile, endpoint>>

--------------------------------------------------------------------------------
(* The browser (external): it writes its endpoint, not in one step, and may *)
(* end at any time.                                                         *)

Announce(l) ==
  /\ l \in browser
  /\ LET q == login[l].home IN
     /\ endpoint[q] # [by |-> l, whole |-> TRUE] \/ endpoint[q] = login[l].previous
     /\ endpoint' = [endpoint EXCEPT ![q] =
          [by |-> l, whole |-> endpoint[q] = [by |-> l, whole |-> FALSE]]]
  /\ UNCHANGED <<profile, lock, login, browser, saver>>

Quit(l) ==
  /\ l \in browser
  /\ browser' = browser \ {l}
  /\ UNCHANGED <<profile, lock, endpoint, login, saver>>

--------------------------------------------------------------------------------
(* save, on its thread: the file is written beside and renamed.             *)

SaverGoes(l, pc) ==
  /\ saver' = [saver EXCEPT ![l].pc = pc, ![l].place = StoragePlace]
  /\ UNCHANGED <<selected, homes, lock, endpoint, login, browser>>

ChoosePlace(l) ==
  /\ saver[l].pc = "begins"
  /\ SaverGoes(l, "written") /\ UNCHANGED stored

(* Nobody waits for the thread of a login that is gone.                     *)
Over(l, pc) ==
  IF At(l, "saving")
  THEN saver' = [saver EXCEPT ![l].pc = pc] /\ UNCHANGED login
  ELSE /\ saver' = [saver EXCEPT ![l] = NoSaver]
       /\ login' = [login EXCEPT ![l].outcome = IF At(l, "idle") THEN "none" ELSE @]

Persist(l) ==
  /\ saver[l].pc = "written"
  /\ stored' = [stored EXCEPT ![saver[l].place] = l]
  /\ Over(l, "saved")
  /\ UNCHANGED <<selected, homes, lock, endpoint, browser>>

(* An unsafe path, a full disk; or the directory cannot be synced after the *)
(* rename.                                                                  *)
SaveFails(l) ==
  /\ saver[l].pc \in {"begins", "written"}
  /\ stored' \in {stored} \cup
       (IF saver[l].pc = "written"
        THEN {[stored EXCEPT ![saver[l].place] = l]} ELSE {})
  /\ Over(l, "failed")
  /\ UNCHANGED <<selected, homes, lock, endpoint, browser>>

--------------------------------------------------------------------------------
LoginStep(l) ==
  \/ Ask(l) \/ LockBrowser(l) \/ Spawn(l) \/ Poll(l) \/ Capture(l) \/ Saved(l)
  \/ Closed(l) \/ Fails(l) \/ TimesOut(l) \/ StopBrowser(l) \/ Drop(l)
  \/ Announce(l) \/ Quit(l)
  \/ ChoosePlace(l) \/ Persist(l) \/ SaveFails(l)

Next == \E l \in Login : LoginStep(l)

(* The blocking threads run, and the timers fire; the browser, the user and *)
(* the client owe nothing.                                                  *)
LoginFairness ==
  \A l \in Login :
    /\ WF_vars(LockBrowser(l)) /\ WF_vars(Spawn(l))
    /\ WF_vars(TimesOut(l)) /\ WF_vars(StopBrowser(l))

Spec == Init /\ [][Next]_vars /\ LoginFairness

--------------------------------------------------------------------------------
(* The cookies come from the browser the login started itself, and not from *)
(* one whose endpoint was left in the file (wait_for_endpoint).             *)
EndpointIsOwn == \A l \in Login : login[l].found \in {Nobody, l}

(* One profile directory is used by one browser at a time, and by none once *)
(* its lock is free (lock_browser, the drop order in login).                *)
OneBrowser ==
  /\ \A l, m \in browser : login[l].home = login[m].home => l = m
  /\ \A l \in browser : lock[login[l].home] = l

(* A login that answered, other than by its time limit, is final: no save of *)
(* it lands later over the credentials of the next one (login).             *)
AnswerIsFinal ==
  \A l \in Login :
    saver[l].pc # "none" /\ At(l, "idle")
      => login[l].outcome \in {"timed out", "dropped", "not stopped"}

(* The browser may never answer: a login ends, and its lock is free again   *)
(* (LOGIN_TIMEOUT, BrowserProfileLock).                                     *)
LoginEnds == \A l \in Login : login[l].pc # "idle" ~> At(l, "idle")
================================================================================
