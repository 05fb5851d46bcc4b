---------------------------- MODULE NotebookLMProofs ---------------------------
(***************************************************************************)
(* The safety of what the program does with NotebookLM on behalf of a       *)
(* user, in two parts.                                                      *)
(*                                                                          *)
(* Browser logins, for every number of handlers: one browser per profile    *)
(* directory, cookies from one's own browser, and answers that no late save *)
(* contradicts.                                                             *)
(*                                                                          *)
(* The requests of a client, for every number of uploads, sources and       *)
(* redirections: no cleanup touches a source of somebody else, and no       *)
(* source that was registered is forgotten.                                 *)
(***************************************************************************)
EXTENDS BrowserLogin, ProviderCalls, TLAPS

--------------------------------------------------------------------------------
(* Browser logins.                                                          *)

(* The types of what the other parts of the invariant speak about.          *)
Endpoint   == [by : Login \cup {Nobody}, whole : BOOLEAN]
LoginState ==
  [pc : {"idle", "locking", "locked", "polling", "connected", "saving", "closing", "stopping"},
   home : Place, previous : Endpoint, found : Login \cup {Nobody},
   outcome : {"none", "connected", "failed", "timed out", "not stopped", "dropped"}]
SaverState == [pc : {"none", "begins", "written", "saved", "failed"}, place : Place]

LoginTypeOK ==
  /\ homes \subseteq Place /\ selected \in Place
  /\ lock \in [Place -> Login \cup {Nobody}]
  /\ endpoint \in [Place -> Endpoint]
  /\ login \in [Login -> LoginState]
  /\ browser \subseteq Login
  /\ saver \in [Login -> SaverState]

(* A lock is held from lock_browser on, until the login is over; a browser  *)
(* runs only inside that time.                                              *)
Inside(l) == login[l].pc \notin {"idle", "locking"}

LocksOK ==
  /\ \A l \in Login : Inside(l) => lock[login[l].home] = l
  /\ \A q \in Place, l \in Login : lock[q] = l => Inside(l) /\ login[l].home = q
  /\ \A l \in browser : Inside(l) /\ login[l].pc # "locked"

(* While a login looks for its endpoint, the file is as it was when the     *)
(* login began, or written by its own browser.                              *)
EndpointsOK ==
  /\ EndpointIsOwn
  /\ \A l \in Login : At(l, "polling") =>
       LET now == endpoint[login[l].home] IN now = login[l].previous \/ now.by = l

(* A save that its login awaits, or one that was left behind: then the      *)
(* login has been, or will be, answered accordingly.                        *)
SaveOK(l) ==
  /\ saver[l].pc \in {"saved", "failed"} => At(l, "saving")
  /\ saver[l].pc \in {"begins", "written"} =>
       \/ At(l, "saving")
       \/ At(l, "stopping") /\ login[l].outcome = "timed out"
       \/ At(l, "idle") /\ login[l].outcome \in {"timed out", "dropped", "not stopped"}

SavesOK == \A l \in Login : SaveOK(l)

LoginInv == LoginTypeOK /\ LocksOK /\ EndpointsOK /\ SavesOK

--------------------------------------------------------------------------------
LEMMA StatesOK ==
  /\ NoEndpoint \in Endpoint
  /\ NoSaver \in SaverState /\ NoSaver.pc = "none"
  /\ Resting \in LoginState
  /\ \A outcome \in {"none", "not stopped", "timed out", "failed", "connected", "dropped"} :
       [Resting EXCEPT !.outcome = outcome] \in LoginState
  /\ [Resting EXCEPT !.pc = "locking"] \in LoginState
<1>1. NoEndpoint \in Endpoint
  BY DEF NoEndpoint, Endpoint
<1>. QED
  BY <1>1 DEF Resting, LoginState, NoSaver, SaverState, Place

LEMMA InitLogin == Init => LoginInv
<1>. SUFFICES ASSUME Init PROVE LoginInv
  OBVIOUS
<1>1. LoginTypeOK
  <2>1. endpoint \in [Place -> Endpoint] /\ login \in [Login -> LoginState]
        /\ saver \in [Login -> SaverState]
    BY StatesOK DEF Init
  <2>. QED
    BY <2>1 DEF Init, LoginTypeOK, Place
<1>2. \A l \in Login : login[l] = Resting /\ saver[l].pc = "none"
  BY StatesOK DEF Init
<1>3. \A q \in Place : lock[q] \notin Login
  BY LoginAssumption DEF Init
<1>. QED
  BY <1>1, <1>2, <1>3
  DEF Init, LoginInv, LocksOK, EndpointsOK, EndpointIsOwn, SavesOK, SaveOK, Inside, At, Resting

(* The profile's places stay places.                                        *)
LEMMA PlacesArePlaces ==
  ASSUME LoginTypeOK
  PROVE  StoragePlace \in Place /\ BrowserHome \in Place
BY DEF LoginTypeOK, StoragePlace, BrowserHome, Place

LEMMA LeftOK ==
  ASSUME LoginTypeOK, NEW l \in Login,
         NEW outcome \in {"none", "not stopped", "timed out", "failed", "connected", "dropped"}
  PROVE  Left(l, outcome) \in LoginState
BY StatesOK DEF Left

(* What a step makes of the record of a handler, and of nobody else's.      *)
Becomes(l, pc, home, previous, found, outcome) ==
  /\ login' \in [Login -> LoginState]
  /\ login'[l].pc = pc /\ login'[l].home = home /\ login'[l].previous = previous
  /\ login'[l].found = found /\ login'[l].outcome = outcome
  /\ \A m \in Login \ {l} : login'[m] = login[m]

LEMMA LoginBecomes ==
  ASSUME login \in [Login -> LoginState], NEW l \in Login
  PROVE  /\ Spawn(l) /\ endpoint \in [Place -> Endpoint] =>
              Becomes(l, "polling", login[l].home, endpoint[login[l].home],
                      login[l].found, login[l].outcome)
         /\ Poll(l) /\ endpoint[login[l].home].by \in Login \cup {Nobody} =>
              Becomes(l, "connected", login[l].home, login[l].previous,
                      endpoint[login[l].home].by, login[l].outcome)
         /\ Capture(l) =>
              Becomes(l, "saving", login[l].home, login[l].previous,
                      login[l].found, login[l].outcome)
         /\ Saved(l) =>
              Becomes(l, "closing", login[l].home, login[l].previous,
                      login[l].found, login[l].outcome)
         /\ \A outcome \in {"connected", "failed", "timed out"} : Ends(l, outcome) =>
              Becomes(l, "stopping", login[l].home, login[l].previous,
                      login[l].found, outcome)
<1>1. ASSUME NEW found \in Endpoint, login' = [login EXCEPT ![l].pc = "polling", ![l].previous = found]
      PROVE  Becomes(l, "polling", login[l].home, found, login[l].found, login[l].outcome)
  BY <1>1 DEF LoginState, Becomes
<1>2. ASSUME NEW by \in Login \cup {Nobody},
             login' = [login EXCEPT ![l].pc = "connected", ![l].found = by]
      PROVE  Becomes(l, "connected", login[l].home, login[l].previous, by, login[l].outcome)
  BY <1>2 DEF LoginState, Becomes
<1>3. ASSUME NEW pc \in {"saving", "closing"}, login' = [login EXCEPT ![l].pc = pc]
      PROVE  Becomes(l, pc, login[l].home, login[l].previous, login[l].found, login[l].outcome)
  BY <1>3 DEF LoginState, Becomes
<1>4. ASSUME NEW outcome \in {"connected", "failed", "timed out"}, 
             login' = [login EXCEPT ![l].pc = "stopping", ![l].outcome = outcome]
      PROVE  Becomes(l, "stopping", login[l].home, login[l].previous, login[l].found, outcome)
  BY <1>4 DEF LoginState, Becomes
<1>5. endpoint \in [Place -> Endpoint] => endpoint[login[l].home] \in Endpoint
  BY DEF LoginState
<1>. QED
  BY <1>1, <1>2, <1>3, <1>4, <1>5 DEF Spawn, Poll, Capture, Saved, Ends

LEMMA AtRest ==
  ASSUME LoginTypeOK, NEW l \in Login,
         NEW new \in LoginState, login' = [login EXCEPT ![l] = new]
  PROVE  Becomes(l, new.pc, new.home, new.previous, new.found, new.outcome)
<1>1. login \in [Login -> LoginState]
  BY DEF LoginTypeOK
<1>. QED
  BY <1>1 DEF Becomes

(* A handler that has gone keeps nothing but its answer.                    *)
Leaving(l, outcome) == Becomes(l, "idle", "default", NoEndpoint, Nobody, outcome)

LEMMA LoginGoes ==
  ASSUME LoginTypeOK, NEW l \in Login
  PROVE  /\ Ask(l) => Becomes(l, "locking", "default", NoEndpoint, Nobody, "none")
         /\ login' = [login EXCEPT ![l] = Resting] => Leaving(l, "none")
         /\ StopBrowser(l) =>
              \E outcome \in {"none", login[l].outcome, "not stopped"} :
                /\ Leaving(l, outcome)
                /\ outcome = "none" => Detached(l)[l].pc = "none" \/ login[l].outcome = "none"
         /\ Drop(l) =>
              \E outcome \in {"none", "dropped"} :
                /\ Leaving(l, outcome)
                /\ outcome = "none" => Detached(l)[l].pc = "none"
<1>1. Ask(l) => Becomes(l, "locking", "default", NoEndpoint, Nobody, "none")
  <2>. DEFINE new == [Resting EXCEPT !.pc = "locking"]
  <2>1. new \in LoginState
    BY StatesOK
  <2>2. /\ new.pc = "locking" /\ new.home = "default" /\ new.previous = NoEndpoint
        /\ new.found = Nobody /\ new.outcome = "none"
    BY DEF Resting
  <2>3. Ask(l) => login' = [login EXCEPT ![l] = new]
    BY DEF Ask
  <2>. HIDE DEF new
  <2>. QED
    BY <2>1, <2>2, <2>3, AtRest DEF Becomes
<1>2. ASSUME NEW outcome \in {"none", "not stopped", "timed out", "failed", "connected", "dropped"},
             login' = [login EXCEPT ![l] = [Resting EXCEPT !.outcome = outcome]]
      PROVE  Leaving(l, outcome)
  <2>. DEFINE new == [Resting EXCEPT !.outcome = outcome]
  <2>1. new \in LoginState
    BY StatesOK
  <2>2. /\ new.pc = "idle" /\ new.home = "default" /\ new.previous = NoEndpoint
        /\ new.found = Nobody /\ new.outcome = outcome
    BY DEF Resting
  <2>3. login' = [login EXCEPT ![l] = new]
    BY <1>2
  <2>. HIDE DEF new
  <2>. QED
    BY <2>1, <2>2, <2>3, AtRest DEF Becomes, Leaving
<1>3. Resting = [Resting EXCEPT !.outcome = "none"]
  BY DEF Resting
<1>4. login[l].outcome \in {"none", "not stopped", "timed out", "failed", "connected", "dropped"}
  BY DEF LoginTypeOK, LoginState
<1>. QED
  BY <1>1, <1>2, <1>3, <1>4 DEF StopBrowser, Drop, Left

(* The end of a save answers for a login that is over, and changes nothing  *)
(* of one that is not.                                                      *)
Stays(l, outcome) ==
  Becomes(l, login[l].pc, login[l].home, login[l].previous, login[l].found, outcome)

LEMMA LoginStays ==
  ASSUME login \in [Login -> LoginState], NEW l \in Login
  PROVE  /\ UNCHANGED login => Stays(l, login[l].outcome)
         /\ \A pc \in {"saved", "failed"} : Over(l, pc) =>
              Stays(l, IF At(l, "idle") THEN "none" ELSE login[l].outcome)
<1>1. UNCHANGED login => Stays(l, login[l].outcome)
  BY DEF Stays, Becomes
<1>2. ASSUME NEW outcome \in {"none", "connected", "failed", "timed out", "not stopped", "dropped"},
             login' = [login EXCEPT ![l].outcome = outcome]
      PROVE  Stays(l, outcome)
  BY <1>2 DEF LoginState, Becomes, Stays
<1>3. login[l].outcome \in {"none", "connected", "failed", "timed out", "not stopped", "dropped"}
  BY DEF LoginState
<1>. QED
  BY <1>1, <1>2, <1>3 DEF Over, At

(* The same of the thread that saves.                                       *)
SaverBecomes(l, pc) ==
  /\ saver' \in [Login -> SaverState]
  /\ saver'[l].pc = pc
  /\ \A m \in Login \ {l} : saver'[m] = saver[m]

LeftAlone(l) == IF saver[l].pc \in {"saved", "failed"} THEN "none" ELSE saver[l].pc

LEMMA SaverSteps ==
  ASSUME saver \in [Login -> SaverState], NEW l \in Login
  PROVE  /\ UNCHANGED saver => SaverBecomes(l, saver[l].pc)
         /\ saver' = [saver EXCEPT ![l] = NoSaver] => SaverBecomes(l, "none")
         /\ saver' = Detached(l) => SaverBecomes(l, LeftAlone(l))
         /\ Detached(l)[l].pc = LeftAlone(l)
         /\ Capture(l) => SaverBecomes(l, "begins")
         /\ ChoosePlace(l) /\ StoragePlace \in Place => SaverBecomes(l, "written")
         /\ \A pc \in {"saved", "failed"} : Over(l, pc) =>
              SaverBecomes(l, IF At(l, "saving") THEN pc ELSE "none")
<1>1. UNCHANGED saver => SaverBecomes(l, saver[l].pc)
  BY DEF SaverBecomes
<1>2. ASSUME saver' = [saver EXCEPT ![l] = NoSaver] PROVE SaverBecomes(l, "none")
  BY <1>2, StatesOK DEF SaverBecomes
<1>3. ASSUME NEW pc \in {"begins", "written", "saved", "failed"},
             saver' = [saver EXCEPT ![l].pc = pc]
      PROVE  SaverBecomes(l, pc)
  BY <1>3 DEF SaverBecomes, SaverState
<1>4. ASSUME NEW q \in Place, saver' = [saver EXCEPT ![l].pc = "written", ![l].place = q]
      PROVE  SaverBecomes(l, "written")
  BY <1>4 DEF SaverBecomes, SaverState
<1>5. Detached(l)[l].pc = LeftAlone(l)
  BY StatesOK DEF Detached, LeftAlone
<1>. QED
  BY <1>1, <1>2, <1>3, <1>4, <1>5
  DEF Detached, LeftAlone, Capture, ChoosePlace, SaverGoes, Over

--------------------------------------------------------------------------------
(* The steps, by what they do to the lock and the browser: a login starts,  *)
(* takes the lock, works under it, or gives it back; and steps that change  *)
(* no program counter of a handler.                                         *)
Keeps(l, pc) ==
  /\ login[l].pc \notin {"idle", "locking"}
  /\ login'[l].pc = pc /\ login'[l].home = login[l].home
  /\ UNCHANGED <<lock, homes, selected, endpoint>>

Works(l) ==
  \/ /\ Spawn(l) /\ Keeps(l, "polling") /\ browser' = browser \cup {l}
     /\ login'[l].previous = endpoint[login[l].home] /\ login'[l].found = login[l].found
  \/ /\ Poll(l) /\ Keeps(l, "connected") /\ browser' = browser
     /\ login'[l].found = endpoint[login[l].home].by
  \/ /\ login'[l].found = login[l].found /\ browser' = browser
     /\ \/ Capture(l) /\ Keeps(l, "saving")
        \/ Saved(l) /\ Keeps(l, "closing")
        \/ Closed(l) /\ Keeps(l, "stopping") /\ login'[l].outcome = "connected"
        \/ Fails(l) /\ Keeps(l, "stopping") /\ login'[l].outcome = "failed"
        \/ TimesOut(l) /\ Keeps(l, "stopping") /\ login'[l].outcome = "timed out"

Releases(l) ==
  /\ StopBrowser(l) \/ Drop(l)
  /\ login'[l].pc = "idle" /\ login'[l].found = Nobody
  /\ lock' = Unlocked(l) /\ browser' = browser \ {l}
  /\ UNCHANGED <<homes, selected, endpoint>>

Starts(l) ==
  /\ Ask(l) /\ login'[l].pc = "locking" /\ login'[l].found = Nobody
  /\ UNCHANGED <<lock, browser, homes, selected, endpoint>>

Locks(l) ==
  /\ LockBrowser(l)
  /\ \/ /\ lock[BrowserHome] = Nobody
        /\ lock' = [lock EXCEPT ![BrowserHome] = l]
        /\ login'[l].pc = "locked" /\ login'[l].home = BrowserHome
        /\ login'[l].found = login[l].found
     \/ /\ UNCHANGED lock /\ login'[l].pc = "idle" /\ login'[l].found = Nobody
  /\ UNCHANGED <<browser, endpoint, selected>>

Persists(l) == ChoosePlace(l) \/ Persist(l) \/ SaveFails(l)

StaysAside(l) ==
  /\ login'[l].pc = login[l].pc /\ login'[l].home = login[l].home
  /\ login'[l].previous = login[l].previous /\ login'[l].found = login[l].found
  /\ UNCHANGED <<lock, homes, selected>>
  /\ \/ Announce(l) /\ browser' = browser
     \/ Quit(l) /\ browser' = browser \ {l} /\ UNCHANGED endpoint
     \/ Persists(l) /\ UNCHANGED <<browser, endpoint>>

Others(l) ==
  /\ login' \in [Login -> LoginState] /\ saver' \in [Login -> SaverState]
  /\ \A m \in Login \ {l} : login'[m] = login[m] /\ saver'[m] = saver[m]

LEMMA LockStep ==
  ASSUME LoginTypeOK, NEW l \in Login, LockBrowser(l)
  PROVE  Locks(l) /\ Others(l)
<1>1. /\ login \in [Login -> LoginState] /\ BrowserHome \in Place
      /\ saver \in [Login -> SaverState] /\ UNCHANGED saver
  BY PlacesArePlaces DEF LoginTypeOK, LockBrowser
<1>2. ASSUME NEW q \in Place, login' = [login EXCEPT ![l].pc = "locked", ![l].home = q]
      PROVE  Becomes(l, "locked", q, login[l].previous, login[l].found, login[l].outcome)
  BY <1>1, <1>2 DEF LoginState, Becomes
<1>3. CASE lock[BrowserHome] = Nobody
  <2>1. Becomes(l, "locked", BrowserHome, login[l].previous, login[l].found, login[l].outcome)
    BY <1>1, <1>2, <1>3 DEF LockBrowser
  <2>. QED
    BY <1>1, <1>3, <2>1 DEF LockBrowser, Locks, Others, Becomes
<1>4. CASE lock[BrowserHome] # Nobody
  <2>1. Leaving(l, "none")
    BY <1>4, LoginGoes DEF LockBrowser
  <2>. QED
    BY <1>1, <1>4, <2>1 DEF LockBrowser, Locks, Others, Becomes, Leaving
<1>. QED
  BY <1>3, <1>4

LEMMA StepKinds ==
  ASSUME LoginTypeOK, NEW l \in Login, LoginStep(l)
  PROVE  /\ Starts(l) \/ Locks(l) \/ Works(l) \/ Releases(l) \/ StaysAside(l)
         /\ Others(l)
<1>1. /\ login \in [Login -> LoginState] /\ saver \in [Login -> SaverState]
      /\ endpoint \in [Place -> Endpoint] /\ StoragePlace \in Place
      /\ endpoint[login[l].home].by \in Login \cup {Nobody}
  BY PlacesArePlaces DEF LoginTypeOK, LoginState, Endpoint
<1>2. CASE Ask(l)
  <2>1. Becomes(l, "locking", "default", NoEndpoint, Nobody, "none")
    BY <1>1, <1>2, LoginGoes
  <2>2. SaverBecomes(l, saver[l].pc)
    BY <1>1, <1>2, SaverSteps DEF Ask
  <2>. QED
    BY <1>1, <1>2, <2>1, <2>2
    DEF Ask, Starts, profile, Others, Becomes, SaverBecomes
<1>3. CASE LockBrowser(l)
  BY <1>3, LockStep
<1>4. CASE Spawn(l)
  <2>1. Becomes(l, "polling", login[l].home, endpoint[login[l].home],
                login[l].found, login[l].outcome)
    BY <1>1, <1>4, LoginBecomes
  <2>2. SaverBecomes(l, saver[l].pc)
    BY <1>1, <1>4, SaverSteps DEF Spawn
  <2>. QED
    BY <1>1, <1>4, <2>1, <2>2
    DEF Spawn, At, Works, Keeps, profile, Others, Becomes, SaverBecomes
<1>5. CASE Poll(l)
  <2>1. Becomes(l, "connected", login[l].home, login[l].previous,
                endpoint[login[l].home].by, login[l].outcome)
    BY <1>1, <1>5, LoginBecomes
  <2>2. SaverBecomes(l, saver[l].pc)
    BY <1>1, <1>5, SaverSteps DEF Poll
  <2>. QED
    BY <1>1, <1>5, <2>1, <2>2
    DEF Poll, At, Works, Keeps, profile, Others, Becomes, SaverBecomes
<1>6. CASE Capture(l)
  <2>1. Becomes(l, "saving", login[l].home, login[l].previous,
                login[l].found, login[l].outcome)
    BY <1>1, <1>6, LoginBecomes
  <2>2. SaverBecomes(l, "begins")
    BY <1>1, <1>6, SaverSteps
  <2>. QED
    BY <1>1, <1>6, <2>1, <2>2
    DEF Capture, At, Works, Keeps, profile, Others, Becomes, SaverBecomes
<1>7. CASE Saved(l)
  <2>1. Becomes(l, "closing", login[l].home, login[l].previous,
                login[l].found, login[l].outcome)
    BY <1>1, <1>7, LoginBecomes
  <2>2. SaverBecomes(l, "none")
    BY <1>1, <1>7, SaverSteps DEF Saved
  <2>. QED
    BY <1>1, <1>7, <2>1, <2>2
    DEF Saved, At, Works, Keeps, profile, Others, Becomes, SaverBecomes
<1>8. CASE Closed(l)
  <2>1. Becomes(l, "stopping", login[l].home, login[l].previous,
                login[l].found, "connected")
    BY <1>1, <1>8, LoginBecomes DEF Closed
  <2>2. SaverBecomes(l, saver[l].pc)
    BY <1>1, <1>8, SaverSteps DEF Closed
  <2>. QED
    BY <1>1, <1>8, <2>1, <2>2
    DEF Closed, Ends, At, Works, Keeps, profile, Others, Becomes, SaverBecomes
<1>9. CASE Fails(l)
  <2>1. Becomes(l, "stopping", login[l].home, login[l].previous,
                login[l].found, "failed")
    BY <1>1, <1>9, LoginBecomes DEF Fails
  <2>2. SaverBecomes(l, saver[l].pc) \/ SaverBecomes(l, "none")
    BY <1>1, <1>9, SaverSteps DEF Fails
  <2>. QED
    BY <1>1, <1>9, <2>1, <2>2
    DEF Fails, Ends, At, Works, Keeps, profile, Others, Becomes, SaverBecomes
<1>10. CASE TimesOut(l)
  <2>1. Becomes(l, "stopping", login[l].home, login[l].previous,
                login[l].found, "timed out")
    BY <1>1, <1>10, LoginBecomes DEF TimesOut
  <2>2. SaverBecomes(l, LeftAlone(l))
    BY <1>1, <1>10, SaverSteps DEF TimesOut
  <2>. QED
    BY <1>1, <1>10, <2>1, <2>2
    DEF TimesOut, Limited, Ends, Works, Keeps, profile, Others, Becomes, SaverBecomes
<1>11. CASE StopBrowser(l)
  BY <1>1, <1>11, LoginGoes, SaverSteps
  DEF StopBrowser, Releases, Others, Leaving, Becomes, SaverBecomes, profile
<1>12. CASE Drop(l)
  <2>1. \E outcome \in {"none", "dropped"} : Leaving(l, outcome)
    BY <1>1, <1>12, LoginGoes
  <2>2. SaverBecomes(l, LeftAlone(l))
    BY <1>1, <1>12, SaverSteps DEF Drop
  <2>. QED
    BY <1>1, <1>12, <2>1, <2>2
    DEF Drop, Releases, Leaving, profile, Others, Becomes, SaverBecomes
<1>13. CASE Announce(l)
  BY <1>1, <1>13, LoginStays, SaverSteps
  DEF Announce, StaysAside, Others, Stays, Becomes, SaverBecomes, profile
<1>14. CASE Quit(l)
  BY <1>1, <1>14, LoginStays, SaverSteps
  DEF Quit, StaysAside, Others, Stays, Becomes, SaverBecomes, profile
<1>15. CASE ChoosePlace(l)
  BY <1>1, <1>15, LoginStays, SaverSteps
  DEF ChoosePlace, SaverGoes, Persists, StaysAside, Others, Stays, Becomes, SaverBecomes
<1>16. CASE Persist(l) \/ SaveFails(l)
  <2>. PICK pc \in {"saved", "failed"} : Over(l, pc)
    BY <1>16 DEF Persist, SaveFails
  <2>1. Stays(l, IF At(l, "idle") THEN "none" ELSE login[l].outcome)
    BY <1>1, LoginStays
  <2>2. SaverBecomes(l, IF At(l, "saving") THEN pc ELSE "none")
    BY <1>1, SaverSteps
  <2>. QED
    BY <1>16, <2>1, <2>2
    DEF Persist, SaveFails, Persists, StaysAside, Others, Stays, Becomes, SaverBecomes
<1>. QED
  BY <1>2, <1>3, <1>4, <1>5, <1>6, <1>7, <1>8, <1>9, <1>10, <1>11, <1>12, <1>13, <1>14,
     <1>15, <1>16 DEF LoginStep

--------------------------------------------------------------------------------
(* Each part of the invariant is kept by each kind of step.                 *)
LEMMA TypeStep ==
  ASSUME LoginTypeOK, NEW l \in Login, LoginStep(l)
  PROVE  LoginTypeOK'
<1>1. /\ Starts(l) \/ Locks(l) \/ Works(l) \/ Releases(l) \/ StaysAside(l)
      /\ Others(l)
  BY StepKinds
<1>2. login' \in [Login -> LoginState] /\ saver' \in [Login -> SaverState]
  BY <1>1 DEF Others
<1>3. homes' \subseteq Place /\ selected' \in Place
  BY <1>1, PlacesArePlaces
  DEF LoginTypeOK, Starts, Locks, LockBrowser, Works, Keeps, Releases, StaysAside
<1>4. lock' \in [Place -> Login \cup {Nobody}]
  BY <1>1, PlacesArePlaces
  DEF LoginTypeOK, Starts, Locks, Works, Keeps, Releases, Unlocked, StaysAside
<1>5. browser' \subseteq Login
  BY <1>1 DEF LoginTypeOK, Starts, Locks, Works, Releases, StaysAside
<1>6. endpoint' \in [Place -> Endpoint]
  <2>1. endpoint \in [Place -> Endpoint]
    BY DEF LoginTypeOK
  <2>2. CASE Announce(l)
    <3>1. \A whole \in BOOLEAN : [by |-> l, whole |-> whole] \in Endpoint
      BY DEF Endpoint
    <3>2. \E new \in Endpoint : endpoint' = [endpoint EXCEPT ![login[l].home] = new]
      BY <2>2, <3>1 DEF Announce
    <3>. QED
      BY <2>1, <3>2
  <2>3. CASE UNCHANGED endpoint
    BY <2>1, <2>3
  <2>. QED
    BY <1>1, <2>2, <2>3 DEF Starts, Locks, Works, Keeps, Releases, StaysAside
<1>. QED
  BY <1>2, <1>3, <1>4, <1>5, <1>6 DEF LoginTypeOK

LEMMA LocksStep ==
  ASSUME LoginTypeOK, LocksOK, NEW l \in Login, LoginStep(l)
  PROVE  LocksOK'
<1>1. /\ Starts(l) \/ Locks(l) \/ Works(l) \/ Releases(l) \/ StaysAside(l)
      /\ Others(l)
  BY StepKinds
<1>2. /\ lock \in [Place -> Login \cup {Nobody}] /\ browser \subseteq Login
      /\ BrowserHome \in Place /\ \A m \in Login : login[m].home \in Place
  BY PlacesArePlaces DEF LoginTypeOK, LoginState
<1>3. CASE Starts(l)
  BY <1>1, <1>2, <1>3 DEF Starts, Ask, At, LocksOK, Inside, Others
<1>4. CASE Locks(l)
  BY <1>1, <1>2, <1>4, LoginAssumption DEF Locks, LockBrowser, At, LocksOK, Inside, Others
<1>5. CASE Works(l)
  <2>1. /\ login'[l].pc \in {"polling", "connected", "saving", "closing", "stopping"}
        /\ login[l].pc \notin {"idle", "locking"}
        /\ login'[l].home = login[l].home /\ lock' = lock
        /\ browser' \in {browser, browser \cup {l}}
    BY <1>5 DEF Works, Keeps
  <2>. QED
    BY <1>1, <1>2, <2>1 DEF LocksOK, Inside, Others
<1>6. CASE Releases(l)
  BY <1>1, <1>2, <1>6, LoginAssumption DEF Releases, Unlocked, LocksOK, Inside, Others
<1>7. CASE StaysAside(l)
  <2>1. /\ login'[l].pc = login[l].pc /\ login'[l].home = login[l].home /\ lock' = lock
        /\ browser' \subseteq browser
    BY <1>7 DEF StaysAside
  <2>. QED
    BY <1>1, <1>2, <2>1 DEF LocksOK, Inside, Others
<1>. QED
  BY <1>1, <1>3, <1>4, <1>5, <1>6, <1>7

LEMMA BrowsersAreApart ==
  ASSUME LoginTypeOK, LocksOK
  PROVE  OneBrowser
BY DEF LoginTypeOK, LocksOK, OneBrowser

LEMMA EndpointsStep ==
  ASSUME LoginTypeOK, LocksOK, EndpointsOK, NEW l \in Login, LoginStep(l)
  PROVE  EndpointsOK'
<1>1. /\ Starts(l) \/ Locks(l) \/ Works(l) \/ Releases(l) \/ StaysAside(l)
      /\ Others(l)
  BY StepKinds
<1>2. /\ \A m \in Login : login[m].home \in Place
      /\ endpoint \in [Place -> Endpoint]
  BY DEF LoginTypeOK, LoginState
<1>3. CASE Starts(l) \/ Releases(l) \/ Locks(l)
  BY <1>1, <1>3 DEF Starts, Releases, Locks, EndpointsOK, EndpointIsOwn, At, Others
<1>4. CASE Works(l)
  <2>1. CASE Spawn(l) /\ Works(l)
    BY <1>1, <2>1 DEF Spawn, Poll, Capture, Saved, Closed, Fails, TimesOut, Ends, Limited,
      Works, Keeps, At, EndpointsOK, EndpointIsOwn, Others
  <2>2. CASE ~Spawn(l)
    BY <1>1, <1>4, <2>2 DEF Poll, NewEndpoint, Works, Keeps, At, EndpointsOK, EndpointIsOwn, Others
  <2>. QED
    BY <1>4, <2>1, <2>2
<1>5. CASE StaysAside(l)
  <2>1. CASE Announce(l)
    <3>. DEFINE q == login[l].home
    <3>1. l \in browser /\ Inside(l) /\ lock[q] = l
      BY <2>1, BrowsersAreApart DEF Announce, LocksOK, OneBrowser
    <3>2. /\ endpoint'[q].by = l
          /\ \A p \in Place \ {q} : endpoint'[p] = endpoint[p]
      BY <1>2, <2>1 DEF Announce
    <3>3. \A m \in Login \ {l} : At(m, "polling") => login[m].home # q
      BY <3>1 DEF LocksOK, Inside, At
    <3>4. \A m \in Login : login'[m].pc = login[m].pc /\ login'[m].home = login[m].home
                           /\ login'[m].previous = login[m].previous
                           /\ login'[m].found = login[m].found
      BY <1>1, <1>5 DEF StaysAside, Others
    <3>5. EndpointIsOwn'
      BY <3>4 DEF EndpointsOK, EndpointIsOwn
    <3>6. ASSUME NEW m \in Login, At(m, "polling")'
          PROVE  endpoint'[login'[m].home] = login'[m].previous \/ endpoint'[login'[m].home].by = m
      <4>1. At(m, "polling")
        BY <3>4, <3>6 DEF At
      <4>2. CASE m = l
        BY <3>2, <3>4, <4>2
      <4>3. CASE m # l
        BY <1>2, <3>2, <3>3, <3>4, <4>1, <4>3 DEF EndpointsOK
      <4>. QED
        BY <4>2, <4>3
    <3>. QED
      BY <3>5, <3>6 DEF EndpointsOK
  <2>2. CASE UNCHANGED endpoint
    BY <1>1, <1>5, <2>2 DEF StaysAside, EndpointsOK, EndpointIsOwn, At, Others
  <2>. QED
    BY <1>5, <2>1, <2>2 DEF StaysAside
<1>. QED
  BY <1>1, <1>3, <1>4, <1>5

LEMMA SaveStep ==
  ASSUME LoginTypeOK, NEW l \in Login, SaveOK(l), LoginStep(l)
  PROVE  SaveOK(l)'
<1>1. /\ login \in [Login -> LoginState] /\ saver \in [Login -> SaverState]
      /\ saver[l].pc \in {"none", "begins", "written", "saved", "failed"}
      /\ StoragePlace \in Place
  BY PlacesArePlaces DEF LoginTypeOK, SaverState
<1>2. CASE Ask(l) \/ LockBrowser(l) \/ Spawn(l) \/ Poll(l) \/ Closed(l)
  BY <1>1, <1>2 DEF Ask, LockBrowser, Spawn, Poll, Closed, SaveOK, At
<1>3. CASE Capture(l)
  <2>1. SaverBecomes(l, "begins") /\ login'[l].pc = "saving"
    BY <1>1, <1>3, SaverSteps, LoginBecomes DEF Becomes
  <2>. QED
    BY <2>1 DEF SaverBecomes, SaveOK, At
<1>4. CASE Saved(l) \/ Fails(l)
  <2>1. saver'[l].pc = "none"
    <3>1. CASE saver' = [saver EXCEPT ![l] = NoSaver]
      BY <1>1, <3>1, SaverSteps DEF SaverBecomes
    <3>2. CASE login[l].pc \in {"polling", "connected"} /\ saver' = saver
      BY <1>1, <3>2 DEF SaveOK, At
    <3>. QED
      BY <1>4, <3>1, <3>2 DEF Saved, Fails
  <2>. QED
    BY <2>1 DEF SaveOK
<1>5. CASE TimesOut(l)
  <2>1. SaverBecomes(l, LeftAlone(l)) /\ login'[l].pc = "stopping"
        /\ login'[l].outcome = "timed out"
    <3>1. SaverBecomes(l, LeftAlone(l))
      BY <1>1, <1>5, SaverSteps DEF TimesOut
    <3>. QED
      BY <1>1, <1>5, <3>1, LoginBecomes DEF TimesOut, Becomes
  <2>2. At(l, "saving") \/ saver[l].pc = "none"
    BY <1>1, <1>5 DEF TimesOut, Limited, SaveOK, At
  <2>. QED
    BY <2>1, <2>2 DEF SaverBecomes, LeftAlone, SaveOK, At
<1>6. CASE StopBrowser(l)
  <2>. PICK outcome \in {"none", login[l].outcome, "not stopped"} :
         /\ Leaving(l, outcome)
         /\ outcome = "none" => LeftAlone(l) = "none" \/ login[l].outcome = "none"
    BY <1>1, <1>6, LoginGoes, SaverSteps
  <2>1. login'[l].pc = "idle" /\ login'[l].outcome = outcome
    BY DEF Leaving, Becomes
  <2>2. At(l, "stopping") /\ saver' = saver
    BY <1>6 DEF StopBrowser
  <2>. QED
    BY <2>1, <2>2 DEF LeftAlone, SaveOK, At
<1>7. CASE Drop(l)
  <2>. PICK outcome \in {"none", "dropped"} :
         /\ Leaving(l, outcome)
         /\ outcome = "none" => LeftAlone(l) = "none"
    BY <1>1, <1>7, LoginGoes, SaverSteps
  <2>1. login'[l].pc = "idle" /\ login'[l].outcome = outcome
    BY DEF Leaving, Becomes
  <2>2. SaverBecomes(l, LeftAlone(l))
    BY <1>1, <1>7, SaverSteps DEF Drop
  <2>. QED
    BY <2>1, <2>2 DEF SaverBecomes, LeftAlone, SaveOK, At
<1>8. CASE Announce(l) \/ Quit(l)
  BY <1>8 DEF Announce, Quit, SaveOK, At
<1>9. CASE ChoosePlace(l)
  <2>1. SaverBecomes(l, "written") /\ saver[l].pc = "begins" /\ login' = login
    BY <1>1, <1>9, SaverSteps DEF ChoosePlace, SaverGoes
  <2>. QED
    BY <2>1 DEF SaverBecomes, SaveOK, At
<1>10. CASE Persist(l) \/ SaveFails(l)
  <2>. PICK pc \in {"saved", "failed"} : Over(l, pc)
    BY <1>10 DEF Persist, SaveFails
  <2>1. Stays(l, IF At(l, "idle") THEN "none" ELSE login[l].outcome)
    BY <1>1, LoginStays
  <2>2. SaverBecomes(l, IF At(l, "saving") THEN pc ELSE "none")
    BY <1>1, SaverSteps
  <2>. QED
    BY <2>1, <2>2 DEF Stays, Becomes, SaverBecomes, SaveOK, At
<1>. QED
  BY <1>2, <1>3, <1>4, <1>5, <1>6, <1>7, <1>8, <1>9, <1>10 DEF LoginStep

LEMMA LoginInvStep == LoginInv /\ [Next]_vars => LoginInv'
<1>. SUFFICES ASSUME LoginInv, [Next]_vars PROVE LoginInv'
  OBVIOUS
<1>1. CASE UNCHANGED vars
  BY <1>1 DEF vars, LoginInv, LoginTypeOK, LocksOK, EndpointsOK, EndpointIsOwn, SavesOK,
    SaveOK, Inside, At
<1>2. CASE Next
  <2>. PICK l \in Login : LoginStep(l)
    BY <1>2 DEF Next
  <2>1. LoginTypeOK' /\ LocksOK' /\ EndpointsOK'
    BY TypeStep, LocksStep, EndpointsStep DEF LoginInv
  <2>2. \A m \in Login : SaveOK(m)
    BY DEF LoginInv, SavesOK
  <2>3. SaveOK(l)'
    BY <2>2, SaveStep DEF LoginInv
  <2>4. ASSUME NEW m \in Login \ {l} PROVE SaveOK(m)'
    <3>1. login'[m] = login[m] /\ saver'[m] = saver[m]
      BY StepKinds DEF LoginInv, Others
    <3>2. SaveOK(m)
      BY <2>2
    <3>. QED
      BY <3>1, <3>2 DEF SaveOK, At
  <2>5. SavesOK'
    BY <2>3, <2>4 DEF SavesOK
  <2>. QED
    BY <2>1, <2>5 DEF LoginInv
<1>. QED
  BY <1>1, <1>2

LEMMA LoginInvariant == Spec => []LoginInv
BY InitLogin, LoginInvStep, PTL DEF Spec

--------------------------------------------------------------------------------
(* The credentials a login saves come from the browser it started, whatever  *)
(* endpoint an earlier browser left in the profile (wait_for_endpoint).     *)
THEOREM CookiesAreOwn == Spec => []EndpointIsOwn
<1>1. LoginInv => EndpointIsOwn
  BY DEF LoginInv, EndpointsOK
<1>. QED
  BY <1>1, LoginInvariant, PTL

(* A profile directory has at most one browser, and none once its lock is   *)
(* free (lock_browser, the drop order in login).                            *)
THEOREM BrowsersExclude == Spec => []OneBrowser
<1>1. LoginInv => OneBrowser
  BY BrowsersAreApart DEF LoginInv
<1>. QED
  BY <1>1, LoginInvariant, PTL

(* No save lands behind an answer, unless the answer says that the login was *)
(* cut off (login).                                                         *)
THEOREM AnswersAreFinal == Spec => []AnswerIsFinal
<1>1. LoginInv => AnswerIsFinal
  <2>. SUFFICES ASSUME LoginInv, NEW l \in Login, saver[l].pc # "none", At(l, "idle")
                PROVE  login[l].outcome \in {"timed out", "dropped", "not stopped"}
    BY DEF AnswerIsFinal
  <2>1. saver[l].pc \in {"none", "begins", "written", "saved", "failed"}
    BY DEF LoginInv, LoginTypeOK, SaverState
  <2>. QED
    BY <2>1 DEF LoginInv, SavesOK, SaveOK, At
<1>. QED
  BY <1>1, LoginInvariant, PTL

--------------------------------------------------------------------------------
(* The requests of a client.                                                *)

Early   == {"idle", "visiting", "baseline", "registering"}
Sending == {"starting", "sending", "cancelling", "removing"}
Settled == {"polling", "ready"}

CallState ==
  [pc : Early \cup Sending \cup Settled \cup {"over"}, hop : Nat, host : Host,
   base : SUBSET Source, source : Source \cup {NoSource}, cancel : BOOLEAN,
   remove : BOOLEAN, cleaned : {"not needed", "failed", "confirmed", "unwritten"}]

CallsTypeOK ==
  /\ call \in [Call -> CallState]
  /\ task \in [Call -> {"none", "armed", "failed", "confirmed"}]
  /\ sources \in [Source -> {"unused", "registered", "processing", "ready", "failed", "removed"}]
  /\ \A m \in late : m.kind = "sending" => m.source \in Source

(* What is known of one call: its source is its own to remove, and what it  *)
(* says of its cleanup is so.                                               *)
CallOK(c) ==
  /\ call[c].pc \in Early => call[c].source = NoSource /\ call[c].cleaned # "confirmed"
  /\ call[c].source # NoSource =>
       call[c].source \notin Theirs /\ sources[call[c].source] # "unused"
  /\ call[c].pc \in Sending => call[c].remove
  /\ call[c].pc \in Sending \cup Settled => call[c].source \in There
  /\ task[c] # "none" => CallAt(c, "over")
  /\ call[c].cleaned = "confirmed" \/ task[c] = "confirmed" => call[c].source \notin There
  /\ CallAt(c, "over") /\ call[c].source \in There =>
       task[c] \in {"armed", "failed"} \/ call[c].cleaned \in {"failed", "unwritten"}

(* Calls follow each other, so no other call learns of a source between the *)
(* listing and the registration of one: what is new is of nobody else.      *)
PairsOK ==
  /\ \A c, d \in Call : Foreground(c) /\ Foreground(d) => c = d
  /\ \A c, d \in Call : call[c].source = call[d].source /\ call[c].source # NoSource => c = d
  /\ \A c \in Call : CallAt(c, "registering") =>
       /\ Theirs \subseteq call[c].base
       /\ \A d \in Call : call[d].source \in There => call[d].source \in call[c].base

CallsInv == CallsTypeOK /\ (\A c \in Call : CallOK(c)) /\ PairsOK /\ Theirs \subseteq There

--------------------------------------------------------------------------------
LEMMA NoCallOK ==
  /\ NoCall \in CallState
  /\ NoCall.pc = "idle" /\ NoCall.source = NoSource /\ NoCall.cleaned = "not needed"
  /\ NoCall.base = {}
BY DEF NoCall, CallState, Early, Host

LEMMA InitCalls == CallsInit => CallsInv
<1>. SUFFICES ASSUME CallsInit PROVE CallsInv
  OBVIOUS
<1>1. CallsTypeOK
  BY NoCallOK DEF CallsInit, CallsTypeOK
<1>2. \A c \in Call : call[c] = NoCall /\ task[c] = "none"
  BY DEF CallsInit
<1>3. Theirs \subseteq There
  BY CallsAssumption DEF CallsInit, There
<1>4. ASSUME NEW c \in Call PROVE CallOK(c)
  BY <1>2, NoCallOK DEF CallOK, Early, Sending, Settled, CallAt
<1>5. PairsOK
  BY <1>2, NoCallOK DEF PairsOK, Foreground, Waiting, CallAt
<1>. QED
  BY <1>1, <1>3, <1>4, <1>5 DEF CallsInv

(* What a step makes of the record of a call, and of nobody else's.         *)
Now(c, pc, base, source, cleaned) ==
  /\ call' \in [Call -> CallState]
  /\ call'[c].pc = pc /\ call'[c].base = base /\ call'[c].source = source
  /\ call'[c].cleaned = cleaned
  /\ \A d \in Call \ {c} : call'[d] = call[d]

LEMMA MovesOK ==
  ASSUME call \in [Call -> CallState], NEW c \in Call, NEW state \in CallState,
         Moves(c, state)
  PROVE  /\ Now(c, state.pc, state.base, state.source, state.cleaned)
         /\ call'[c] = state
BY DEF Moves, Now

(* The same, with what becomes of `remove`.                                 *)
Kept(c, pc) ==
  /\ Now(c, pc, call[c].base, call[c].source, call[c].cleaned)
  /\ call'[c].remove = call[c].remove

LEMMA CallMoves ==
  ASSUME call \in [Call -> CallState], NEW c \in Call, MaxHops \in Nat
  PROVE  /\ \A pc \in Early \cup Sending \cup Settled \cup {"over"} : Go(c, pc) => Kept(c, pc)
         /\ Redirected(c) => Kept(c, "visiting")
         /\ Connected(c) => Now(c, "baseline", {}, NoSource, "not needed")
         /\ CallOver(c) => Now(c, "over", {}, NoSource, "not needed")
         /\ Baseline(c) => Now(c, "registering", There, call[c].source, call[c].cleaned)
         /\ \A s \in Source : Moves(c, Owned(c, s)) =>
              Now(c, "starting", call[c].base, s, call[c].cleaned) /\ call'[c].remove
         /\ \A s \in Source : Moves(c, Unowned(s)) => Now(c, "over", {}, s, "unwritten")
         /\ Started(c) =>
              Now(c, "sending", call[c].base, call[c].source, call[c].cleaned) /\ call'[c].remove
         /\ Sent(c) => Now(c, "polling", call[c].base, call[c].source, call[c].cleaned)
         /\ Cancelled(c) => \E result \in {"not needed", "failed"} :
              Now(c, "removing", call[c].base, call[c].source, result)
              /\ call'[c].remove = call[c].remove
<1>. DEFINE r == call[c]
<1>0. r \in CallState
  OBVIOUS
<1>1. ASSUME NEW pc \in Early \cup Sending \cup Settled \cup {"over"}, Go(c, pc)
      PROVE  Kept(c, pc)
  <2>. DEFINE n == [r EXCEPT !.pc = pc]
  <2>1. /\ n \in CallState /\ n.pc = pc /\ n.base = r.base /\ n.source = r.source
        /\ n.cleaned = r.cleaned /\ n.remove = r.remove
    BY <1>0 DEF CallState
  <2>2. Moves(c, n)
    BY <1>1 DEF Go
  <2>. HIDE DEF n
  <2>. QED
    BY <2>1, <2>2, MovesOK DEF Kept, Now
<1>2. ASSUME Redirected(c) PROVE Kept(c, "visiting")
  <2>. PICK h \in Host : Moves(c, [r EXCEPT !.hop = @ + 1, !.host = h])
    BY <1>2 DEF Redirected
  <2>. DEFINE next == r.hop + 1
              n == [r EXCEPT !.hop = next, !.host = h]
  <2>0. r.hop \in Nat /\ next \in Nat
    <3>1. r.hop \in Nat
      BY <1>0 DEF CallState
    <3>. HIDE DEF r
    <3>. QED
      BY <3>1
  <2>1. /\ n \in CallState /\ n.pc = r.pc /\ n.base = r.base /\ n.source = r.source
        /\ n.cleaned = r.cleaned /\ n.remove = r.remove
    <3>. HIDE DEF next
    <3>. QED
      BY <1>0, <2>0 DEF CallState
  <2>2. Moves(c, n)
    BY DEF Moves
  <2>3. r.pc = "visiting"
    BY <1>2 DEF Redirected, CallAt
  <2>. HIDE DEF n
  <2>. QED
    BY <2>1, <2>2, <2>3, MovesOK DEF Kept, Now
<1>3. ASSUME NEW pc \in {"baseline", "over"}, Moves(c, [NoCall EXCEPT !.pc = pc])
      PROVE  Now(c, pc, {}, NoSource, "not needed")
  <2>. DEFINE n == [NoCall EXCEPT !.pc = pc]
  <2>1. /\ n \in CallState /\ n.pc = pc /\ n.base = {} /\ n.source = NoSource
        /\ n.cleaned = "not needed"
    BY NoCallOK DEF CallState, Early
  <2>. QED
    BY <1>3, <2>1, MovesOK DEF Now
<1>4. ASSUME Baseline(c)
      PROVE  Now(c, "registering", There, call[c].source, call[c].cleaned)
  <2>. DEFINE n == [r EXCEPT !.pc = "registering", !.base = There]
  <2>1. There \in SUBSET Source
    BY DEF There
  <2>2. /\ n \in CallState /\ n.pc = "registering" /\ n.base = There
        /\ n.source = r.source /\ n.cleaned = r.cleaned
    BY <1>0, <2>1 DEF CallState, Early
  <2>3. Moves(c, n)
    BY <1>4 DEF Baseline
  <2>. QED
    BY <2>2, <2>3, MovesOK DEF Now
<1>5. ASSUME NEW s \in Source, Moves(c, Owned(c, s))
      PROVE  Now(c, "starting", call[c].base, s, call[c].cleaned) /\ call'[c].remove
  <2>. DEFINE n == [r EXCEPT !.pc = "starting", !.source = s, !.remove = TRUE]
  <2>1. /\ n \in CallState /\ n.pc = "starting" /\ n.base = r.base /\ n.source = s
        /\ n.cleaned = r.cleaned /\ n.remove
    BY <1>0 DEF CallState, Sending
  <2>2. Moves(c, n)
    BY <1>5 DEF Owned
  <2>. QED
    BY <2>1, <2>2, MovesOK DEF Now
<1>6. ASSUME Started(c)
      PROVE  Now(c, "sending", call[c].base, call[c].source, call[c].cleaned) /\ call'[c].remove
  <2>. DEFINE n == [r EXCEPT !.pc = "sending", !.cancel = TRUE, !.remove = TRUE]
  <2>1. /\ n \in CallState /\ n.pc = "sending" /\ n.base = r.base /\ n.source = r.source
        /\ n.cleaned = r.cleaned /\ n.remove
    BY <1>0 DEF CallState, Sending
  <2>2. Moves(c, n)
    BY <1>6 DEF Started
  <2>. QED
    BY <2>1, <2>2, MovesOK DEF Now
<1>7. ASSUME Sent(c)
      PROVE  Now(c, "polling", call[c].base, call[c].source, call[c].cleaned)
  <2>. DEFINE n == [r EXCEPT !.pc = "polling", !.cancel = FALSE, !.remove = FALSE]
  <2>1. /\ n \in CallState /\ n.pc = "polling" /\ n.base = r.base /\ n.source = r.source
        /\ n.cleaned = r.cleaned
    BY <1>0 DEF CallState, Settled
  <2>2. Moves(c, n)
    BY <1>7 DEF Sent, Disarmed
  <2>. QED
    BY <2>1, <2>2, MovesOK DEF Now
<1>8. ASSUME NEW result \in {"not needed", "failed"},
             Moves(c, [r EXCEPT !.pc = "removing", !.cancel = FALSE, !.cleaned = result])
      PROVE  /\ Now(c, "removing", call[c].base, call[c].source, result)
             /\ call'[c].remove = call[c].remove
  <2>. DEFINE n == [r EXCEPT !.pc = "removing", !.cancel = FALSE, !.cleaned = result]
  <2>1. /\ n \in CallState /\ n.pc = "removing" /\ n.base = r.base /\ n.source = r.source
        /\ n.cleaned = result /\ n.remove = r.remove
    BY <1>0 DEF CallState, Sending
  <2>. QED
    BY <1>8, <2>1, MovesOK DEF Now
<1>9. ASSUME NEW s \in Source, Moves(c, Unowned(s))
      PROVE  Now(c, "over", {}, s, "unwritten")
  <2>. DEFINE n == [NoCall EXCEPT !.pc = "over", !.source = s, !.cleaned = "unwritten"]
  <2>1. /\ n \in CallState /\ n.pc = "over" /\ n.base = {} /\ n.source = s
        /\ n.cleaned = "unwritten"
    BY NoCallOK DEF CallState
  <2>2. Moves(c, n)
    BY <1>9 DEF Unowned
  <2>. HIDE DEF n
  <2>. QED
    BY <2>1, <2>2, MovesOK DEF Now
<1>. QED
  BY <1>1, <1>2, <1>3, <1>4, <1>5, <1>6, <1>7, <1>8, <1>9 DEF Connected, CallOver, Cancelled

(* cleanup_request answers once, and the cleanup of a call is told by what  *)
(* it answers.                                                              *)
LEMMA CallCleans ==
  ASSUME call \in [Call -> CallState], NEW c \in Call, Removed(c)
  PROVE  \E cleaned \in {"failed", "confirmed"} :
           /\ Now(c, "over", call[c].base, call[c].source, cleaned)
           /\ cleaned = "confirmed" => sources' = Without(call[c].source)
           /\ sources' \in {sources, Without(call[c].source)}
<1>1. ASSUME NEW cleaned \in {"failed", "confirmed"},
             Moves(c, [call[c] EXCEPT !.pc = "over", !.remove = FALSE, !.cleaned = cleaned])
      PROVE  Now(c, "over", call[c].base, call[c].source, cleaned)
  <2>. DEFINE r == call[c]
              n == [r EXCEPT !.pc = "over", !.remove = FALSE, !.cleaned = cleaned]
  <2>1. /\ n \in CallState /\ n.pc = "over" /\ n.base = r.base /\ n.source = r.source
        /\ n.cleaned = cleaned
    BY DEF CallState
  <2>. QED
    BY <1>1, <2>1, MovesOK DEF Now
<1>. QED
  BY <1>1 DEF Removed

--------------------------------------------------------------------------------
(* What a step does to the sources of the provider: identifiers stay given, *)
(* what is removed stays so, and only those of R may be removed.            *)
Status == {"unused", "registered", "processing", "ready", "failed", "removed"}

Provides(R) ==
  /\ sources' \in [Source -> Status]
  /\ \A s \in Source :
       /\ sources[s] # "unused" => sources'[s] # "unused"
       /\ sources[s] = "removed" => sources'[s] = "removed"
       /\ s \notin R /\ sources'[s] = "removed" => sources[s] = "removed"

LEMMA ProviderSteps ==
  ASSUME sources \in [Source -> Status]
  PROVE  /\ UNCHANGED sources => Provides({})
         /\ \A s \in Source : sources' = Received(s) => Provides({})
         /\ \A s \in Unused : sources' = [sources EXCEPT ![s] = "registered"] =>
              Provides({}) /\ s \in There'
         /\ \A s \in Source : sources' = Without(s) => Provides({s}) /\ s \notin There'
         /\ \A s \in Source : Process(s) => Provides({})
BY DEF Provides, Received, Without, Process, Unused, There, Status

(* What is there and not removed is there afterwards.                       *)
LEMMA ThereAgain ==
  ASSUME NEW R, Provides(R)
  PROVE  /\ \A s \in There \ R : s \in There'
         /\ \A s \in Source : sources[s] # "unused" /\ s \notin There => s \notin There'
BY DEF Provides, There

LEMMA RemovesLess ==
  ASSUME NEW R, Provides({})
  PROVE  Provides(R)
BY DEF Provides

(* The steps of a call.                                                     *)
CallStep(c) ==
  \/ Connect(c) \/ Redirected(c) \/ Connected(c)
  \/ Baseline(c) \/ Registered(c) \/ Started(c) \/ Sent(c) \/ Polled(c)
  \/ CallFails(c) \/ TransferFails(c) \/ Cancelled(c) \/ Removed(c)
  \/ Dropped(c) \/ TaskEnds(c)

LEMMA LateOK ==
  ASSUME CallsTypeOK, NEW c \in Call, CallOK(c), MayComeLate(c),
         call[c].pc \in {"registering", "sending"}
  PROVE  /\ \A m \in late' : m.kind = "sending" => m.source \in Source
         /\ sources' = sources
<1>1. CallAt(c, "sending") => call[c].source \in Source
  BY DEF CallOK, CallAt, Sending, There
<1>. QED
  BY <1>1 DEF CallsTypeOK, MayComeLate, Request, CallAt

LEMMA TypeOfStep ==
  ASSUME CallsTypeOK, NEW c \in Call, CallOK(c), CallStep(c)
  PROVE  /\ task' \in [Call -> {"none", "armed", "failed", "confirmed"}]
         /\ \A d \in Call \ {c} : task'[d] = task[d]
         /\ \A m \in late' : m.kind = "sending" => m.source \in Source
<1>1. task' \in [Call -> {"none", "armed", "failed", "confirmed"}]
      /\ \A d \in Call \ {c} : task'[d] = task[d]
  <2>1. CASE UNCHANGED task
    BY <2>1 DEF CallsTypeOK
  <2>2. CASE \E result \in {"none", "armed", "failed", "confirmed"} :
               task' = [task EXCEPT ![c] = result]
    BY <2>2 DEF CallsTypeOK
  <2>. QED
    BY <2>1, <2>2 DEF CallStep, Connect, Redirected, Connected, Baseline, Registered, Started,
      Sent, Polled, CallFails, TransferFails, Cancelled, Removed, Dropped, TaskEnds
<1>2. \A m \in late' : m.kind = "sending" => m.source \in Source
  <2>1. CASE UNCHANGED late
    BY <2>1 DEF CallsTypeOK
  <2>2. CASE MayComeLate(c) /\ call[c].pc \in {"registering", "sending"}
    BY <2>2, LateOK
  <2>. QED
    BY <2>1, <2>2 DEF CallStep, Connect, Redirected, Connected, Baseline, Registered, Started,
      Sent, Polled, CallFails, TransferFails, Cancelled, Removed, Dropped, TaskEnds, ProviderRests, CallAt
<1>. QED
  BY <1>1, <1>2

(* A call that has no source owes nothing.                                  *)
LEMMA OwesNothing ==
  ASSUME NEW c \in Call, call'[c].source = NoSource, call'[c].pc \in Early \cup {"over"},
         call'[c].cleaned # "confirmed", task'[c] = "none"
  PROVE  CallOK(c)'
<1>1. NoSource \notin There'
  BY CallsAssumption DEF There
<1>. QED
  BY <1>1 DEF CallOK, Early, Sending, Settled, CallAt

(* What a step of a call does to what the others rely on.                   *)
Effect(c) ==
  /\ call' \in [Call -> CallState]
  /\ \A d \in Call \ {c} : call'[d] = call[d]
  /\ Provides({call[c].source})
  /\ CallOK(c)'
  /\ Foreground(c)' => Foreground(c) \/ \A d \in Call : ~ Foreground(d)
  /\ \/ call'[c].source \in {call[c].source, NoSource}
     \/ /\ CallAt(c, "registering")
        /\ call'[c].source \in (There \cup Unused) \ call[c].base
  /\ CallAt(c, "registering")' => call'[c].base = There /\ sources' = sources

LEMMA EarlyEffect ==
  ASSUME CallsTypeOK, NEW c \in Call, CallOK(c),
         Connect(c) \/ Redirected(c) \/ Connected(c) \/ Baseline(c)
  PROVE  Effect(c)
<1>. DEFINE pc == call'[c].pc
<1>1. /\ call \in [Call -> CallState] /\ sources \in [Source -> Status] /\ MaxHops \in Nat
      /\ sources' = sources /\ task' = task
      /\ call[c].pc \in Early
  BY CallsAssumption DEF CallsTypeOK, Status, Connect, Redirected, Connected, Baseline,
    ProviderRests, CallAt, Early
<1>2. Provides({call[c].source})
  BY <1>1, ProviderSteps, RemovesLess
<1>3. /\ call[c].source = NoSource /\ call[c].cleaned # "confirmed" /\ task[c] = "none"
  BY <1>1 DEF CallsTypeOK, CallOK, CallAt, Early
<1>4. /\ call' \in [Call -> CallState] /\ \A d \in Call \ {c} : call'[d] = call[d]
      /\ call'[c].source = NoSource /\ call'[c].cleaned # "confirmed"
      /\ \/ Connect(c) /\ pc = "visiting"
         \/ CallAt(c, "visiting") /\ pc \in {"visiting", "baseline"}
         \/ CallAt(c, "baseline") /\ pc = "registering" /\ call'[c].base = There
  <2>1. CASE Connect(c)
    <3>1. Kept(c, "visiting")
      BY <1>1, <2>1, CallMoves DEF Connect, Early
    <3>. QED
      BY <1>3, <2>1, <3>1 DEF Kept, Now
  <2>2. CASE Redirected(c)
    <3>1. Kept(c, "visiting") /\ CallAt(c, "visiting")
      BY <1>1, <2>2, CallMoves DEF Redirected
    <3>. QED
      BY <1>3, <3>1 DEF Kept, Now
  <2>3. CASE Connected(c)
    <3>1. Now(c, "baseline", {}, NoSource, "not needed") /\ CallAt(c, "visiting")
      BY <1>1, <2>3, CallMoves DEF Connected
    <3>. QED
      BY <3>1 DEF Now
  <2>4. CASE Baseline(c)
    <3>1. /\ Now(c, "registering", There, call[c].source, call[c].cleaned)
          /\ CallAt(c, "baseline")
      BY <1>1, <2>4, CallMoves DEF Baseline
    <3>. QED
      BY <1>3, <3>1 DEF Now
  <2>. QED
    BY <2>1, <2>2, <2>3, <2>4
<1>5. CallOK(c)'
  BY <1>1, <1>3, <1>4, OwesNothing DEF Early
<1>6. Foreground(c)' => Foreground(c) \/ \A d \in Call : ~ Foreground(d)
  BY <1>4 DEF Connect, Foreground, Waiting, CallAt
<1>. QED
  BY <1>1, <1>2, <1>4, <1>5, <1>6 DEF Effect, CallAt

LEMMA RegisteredEffect ==
  ASSUME CallsTypeOK, NEW c \in Call, CallOK(c), Registered(c), Theirs \subseteq call[c].base
  PROVE  Effect(c)
<1>1. /\ call \in [Call -> CallState] /\ sources \in [Source -> Status] /\ MaxHops \in Nat
      /\ CallAt(c, "registering") /\ task' = task /\ task[c] = "none"
      /\ call[c].source = NoSource /\ call[c].cleaned # "confirmed"
  BY CallsAssumption DEF CallsTypeOK, Status, Registered, CallOK, CallAt, Early
<1>. PICK s \in Unused :
       /\ sources' = [sources EXCEPT ![s] = "registered"]
       /\ \E answered \in There \cup {s} :
            \/ /\ Unambiguous(c, answered)
               /\ Moves(c, Owned(c, answered)) \/ Moves(c, Unowned(answered))
            \/ ~ Unambiguous(c, answered) /\ CallOver(c)
  BY DEF Registered
<1>. PICK answered \in There \cup {s} :
       \/ /\ Unambiguous(c, answered)
          /\ Moves(c, Owned(c, answered)) \/ Moves(c, Unowned(answered))
       \/ ~ Unambiguous(c, answered) /\ CallOver(c)
  OBVIOUS
<1>2. /\ Provides({}) /\ s \in There' /\ \A t \in There : t \in There'
      /\ Provides({call[c].source}) /\ s \in Source /\ There \subseteq Source
  BY <1>1, ProviderSteps, ThereAgain, RemovesLess DEF Unused, There
<1>3. CASE ~ Unambiguous(c, answered)
  <2>1. Now(c, "over", {}, NoSource, "not needed")
    BY <1>1, <1>3, CallMoves
  <2>2. CallOK(c)'
    BY <1>1, <2>1, OwesNothing DEF Now
  <2>. QED
    BY <1>2, <2>1, <2>2 DEF Now, Effect, Foreground, Waiting, CallAt
<1>4. Unambiguous(c, answered) =>
        answered \notin Theirs /\ answered # NoSource /\ answered \in There'
        /\ sources'[answered] # "unused"
  <2>1. Unambiguous(c, answered) => answered \notin Theirs /\ answered # NoSource
    BY <1>2, CallsAssumption DEF Unambiguous
  <2>2. answered \in There'
    BY <1>2
  <2>. QED
    BY <2>1, <2>2 DEF There
<1>5. CASE Unambiguous(c, answered) /\ Moves(c, Owned(c, answered))
  <2>1. /\ Now(c, "starting", call[c].base, answered, call[c].cleaned)
        /\ call'[c].remove
    BY <1>1, <1>2, <1>5, CallMoves
  <2>2. CallOK(c)'
    BY <1>1, <1>4, <1>5, <2>1 DEF Now, CallOK, Early, Sending, Settled, CallAt
  <2>. QED
    BY <1>1, <1>2, <1>5, <2>1, <2>2 DEF Now, Effect, Foreground, Waiting, Unambiguous, CallAt
<1>6. CASE Unambiguous(c, answered) /\ Moves(c, Unowned(answered))
  <2>1. Now(c, "over", {}, answered, "unwritten")
    BY <1>1, <1>2, <1>6, CallMoves
  <2>2. CallOK(c)'
    BY <1>1, <1>4, <1>6, <2>1 DEF Now, CallOK, Early, Sending, Settled, CallAt
  <2>. QED
    BY <1>1, <1>2, <1>6, <2>1, <2>2 DEF Now, Effect, Foreground, Waiting, Unambiguous, CallAt
<1>. QED
  BY <1>3, <1>5, <1>6

(* A call that is over has no source any more.                              *)
LEMMA EndsEffect ==
  ASSUME CallsTypeOK, NEW c \in Call, task'[c] = "none", CallOver(c),
         sources' = sources
  PROVE  Effect(c)
<1>1. call \in [Call -> CallState] /\ sources \in [Source -> Status] /\ MaxHops \in Nat
  BY CallsAssumption DEF CallsTypeOK, Status
<1>2. Now(c, "over", {}, NoSource, "not needed")
  BY <1>1, CallMoves
<1>3. CallOK(c)'
  BY <1>2, OwesNothing DEF Now
<1>4. Provides({call[c].source})
  BY <1>1, ProviderSteps, RemovesLess
<1>. QED
  BY <1>2, <1>3, <1>4 DEF Now, Effect, Foreground, Waiting, CallAt

(* What holds of a call that has a source.                                  *)
LEMMA HasSource ==
  ASSUME CallsTypeOK, NEW c \in Call, CallOK(c), call[c].pc \in Sending \cup Settled
  PROVE  /\ call[c].source \in There /\ call[c].source \in Source \ Theirs
         /\ call[c].source # NoSource /\ sources[call[c].source] # "unused"
         /\ call[c].cleaned # "confirmed" /\ task[c] = "none"
         /\ call \in [Call -> CallState] /\ sources \in [Source -> Status] /\ MaxHops \in Nat
<1>1. call[c].source \in There /\ call[c].source \in Source /\ call[c].source # NoSource
  BY CallsAssumption DEF CallOK, There
<1>2. task[c] = "none"
  BY DEF CallsTypeOK, CallOK, CallAt, Sending, Settled
<1>. QED
  BY <1>1, <1>2, CallsAssumption DEF CallsTypeOK, Status, CallOK

(* The call keeps its source, and the source is kept.                       *)
LEMMA KeepsSource ==
  ASSUME CallsTypeOK, NEW c \in Call, CallOK(c), call[c].pc \in Sending \cup Settled,
         Provides({}), task' = task,
         NEW pc \in Sending \cup Settled,
         NEW cleaned \in {"not needed", "failed"} \cup {call[c].cleaned},
         Now(c, pc, call[c].base, call[c].source, cleaned),
         pc \in Sending => call'[c].remove,
         Foreground(c)' => Foreground(c)
  PROVE  Effect(c)
<1>1. call[c].source \in There'
  <2>1. call[c].source \in There \ {}
    BY HasSource
  <2>2. \A s \in There \ {} : s \in There'
    BY ThereAgain
  <2>. QED
    BY <2>1, <2>2
<1>2. CallOK(c)'
  BY <1>1, HasSource DEF Now, CallOK, Sending, Settled, Early, CallAt, There
<1>. QED
  BY <1>2, RemovesLess DEF Now, Effect, CallAt, Sending, Settled

LEMMA TransferEffect ==
  ASSUME CallsTypeOK, NEW c \in Call, CallOK(c),
         Started(c) \/ Sent(c) \/ TransferFails(c) \/ Cancelled(c)
  PROVE  Effect(c)
<1>1. call[c].pc \in {"starting", "sending", "cancelling"}
  BY DEF Started, Sent, TransferFails, Cancelled, CallAt
<1>2. /\ call[c].source \in There /\ call[c].source \in Source
      /\ call[c].cleaned # "confirmed" /\ call[c].remove
      /\ call \in [Call -> CallState] /\ sources \in [Source -> Status] /\ MaxHops \in Nat
      /\ Foreground(c)
  BY <1>1, HasSource DEF CallOK, Sending, Foreground, Waiting
<1>3. task' = task
  BY DEF Started, Sent, TransferFails, Cancelled
<1>4. Provides({})
  <2>1. CASE UNCHANGED sources
    BY <1>2, <2>1, ProviderSteps
  <2>2. CASE sources' = Received(call[c].source)
    BY <1>2, <2>2, ProviderSteps
  <2>. QED
    BY <2>1, <2>2 DEF Started, Sent, TransferFails, Cancelled, MayComeLate, ProviderRests
<1>5. CASE Started(c)
  <2>1. Now(c, "sending", call[c].base, call[c].source, call[c].cleaned) /\ call'[c].remove
    BY <1>2, <1>5, CallMoves
  <2>. QED
    BY <1>1, <1>2, <1>3, <1>4, <2>1, KeepsSource DEF Sending
<1>6. CASE Sent(c)
  <2>1. Now(c, "polling", call[c].base, call[c].source, call[c].cleaned)
    BY <1>2, <1>6, CallMoves
  <2>2. /\ call[c].pc \in Sending \cup Settled
        /\ "polling" \in Sending \cup Settled /\ "polling" \notin Sending
    BY <1>1 DEF Sending, Settled
  <2>. QED
    BY <1>2, <1>3, <1>4, <2>1, <2>2, KeepsSource
<1>7. CASE TransferFails(c)
  <2>. PICK pc \in {"cancelling", "removing"} : Go(c, pc)
    BY <1>7 DEF TransferFails
  <2>1. Kept(c, pc)
    BY <1>2, CallMoves DEF Sending
  <2>. QED
    BY <1>1, <1>2, <1>3, <1>4, <2>1, KeepsSource DEF Sending, Kept
<1>8. CASE Cancelled(c)
  <2>. PICK result \in {"not needed", "failed"} :
         /\ Now(c, "removing", call[c].base, call[c].source, result)
         /\ call'[c].remove = call[c].remove
    BY <1>2, <1>8, CallMoves
  <2>. QED
    BY <1>1, <1>2, <1>3, <1>4, KeepsSource DEF Sending
<1>. QED
  BY <1>5, <1>6, <1>7, <1>8

LEMMA PolledEffect ==
  ASSUME CallsTypeOK, NEW c \in Call, CallOK(c), Polled(c)
  PROVE  Effect(c)
<1>1. CallAt(c, "polling") /\ task' = task /\ sources' = sources
  BY DEF Polled, ProviderRests
<1>2. call[c].pc \in Sending \cup Settled
  BY <1>1 DEF CallAt, Settled
<1>3. task[c] = "none" /\ call \in [Call -> CallState] /\ MaxHops \in Nat
      /\ sources \in [Source -> Status]
  BY <1>2, HasSource
<1>4. CASE Go(c, "ready")
  <2>1. Kept(c, "ready") /\ Provides({})
    BY <1>1, <1>3, <1>4, CallMoves, ProviderSteps DEF Settled
  <2>2. Foreground(c)
    BY <1>1 DEF Foreground, Waiting, CallAt
  <2>3. Now(c, "ready", call[c].base, call[c].source, call[c].cleaned)
    BY <2>1 DEF Kept
  <2>4. "ready" \in Sending \cup Settled /\ "ready" \notin Sending
    BY DEF Sending, Settled
  <2>. QED
    BY <1>1, <1>2, <2>1, <2>2, <2>3, <2>4, KeepsSource
<1>5. CASE CallOver(c)
  BY <1>1, <1>3, <1>5, EndsEffect
<1>. QED
  BY <1>4, <1>5 DEF Polled

LEMMA FailsEffect ==
  ASSUME CallsTypeOK, NEW c \in Call, CallOK(c), CallFails(c)
  PROVE  Effect(c)
<1>1. /\ CallOver(c) /\ task' = task /\ sources' = sources
      /\ call[c].pc \in {"visiting", "baseline", "registering", "polling"}
  BY DEF CallFails, MayComeLate, ProviderRests
<1>2. task'[c] = "none"
  BY <1>1 DEF CallsTypeOK, CallOK, CallAt
<1>. QED
  BY <1>1, <1>2, EndsEffect

LEMMA RemovedEffect ==
  ASSUME CallsTypeOK, NEW c \in Call, CallOK(c), Removed(c)
  PROVE  Effect(c)
<1>1. CallAt(c, "removing") /\ task' = task
  BY DEF Removed
<1>2. call[c].pc \in Sending \cup Settled
  BY <1>1 DEF CallAt, Sending
<1>3. /\ call[c].source \in Source \ Theirs /\ call[c].source # NoSource
      /\ sources[call[c].source] # "unused" /\ task[c] = "none"
      /\ call \in [Call -> CallState] /\ sources \in [Source -> Status]
  BY <1>2, HasSource
<1>. PICK cleaned \in {"failed", "confirmed"} :
       /\ Now(c, "over", call[c].base, call[c].source, cleaned)
       /\ cleaned = "confirmed" => sources' = Without(call[c].source)
       /\ sources' \in {sources, Without(call[c].source)}
  BY <1>3, CallCleans
<1>4. Provides({call[c].source})
  BY <1>3, ProviderSteps, RemovesLess
<1>5. cleaned = "confirmed" => call[c].source \notin There'
  BY <1>3, ProviderSteps
<1>6. sources'[call[c].source] # "unused"
  BY <1>3, <1>4 DEF Provides
<1>7. CallOK(c)'
  BY <1>1, <1>3, <1>5, <1>6 DEF Now, CallOK, Early, Sending, Settled, CallAt
<1>. QED
  BY <1>4, <1>7 DEF Now, Effect, Foreground, Waiting, CallAt

(* A source that was not there does not come back, whoever it is of.        *)
LEMMA NotBack ==
  ASSUME NEW R, Provides(R), NEW s \in Source \cup {NoSource}, s \notin There,
         s # NoSource => sources[s] # "unused"
  PROVE  s \notin There'
<1>1. s = NoSource => s \notin There'
  BY CallsAssumption DEF There
<1>. QED
  BY <1>1, ThereAgain

LEMMA DroppedEffect ==
  ASSUME CallsTypeOK, NEW c \in Call, CallOK(c), Dropped(c)
  PROVE  Effect(c)
<1>1. /\ call \in [Call -> CallState] /\ sources \in [Source -> Status] /\ MaxHops \in Nat
      /\ call[c].source \in Source \cup {NoSource}
  BY CallsAssumption DEF CallsTypeOK, Status, CallState
<1>2. sources' = sources
  BY DEF Dropped, MayComeLate, ProviderRests
<1>3. Provides({call[c].source})
  BY <1>1, <1>2, ProviderSteps, RemovesLess
<1>4. CASE ~ call[c].remove
  <2>1. task'[c] = "none" /\ CallOver(c)
    BY <1>4 DEF Dropped, CallsTypeOK
  <2>. QED
    BY <1>2, <2>1, EndsEffect
<1>5. CASE call[c].remove
  <2>1. task'[c] \in {"armed", "failed"}
    BY <1>5 DEF Dropped, CallsTypeOK
  <2>2. Kept(c, "over")
    BY <1>1, <1>5, CallMoves DEF Dropped
  <2>3. call[c].source # NoSource => call[c].source \in Source /\ sources'[call[c].source] # "unused"
    BY <1>1, <1>2 DEF CallOK
  <2>4. call[c].cleaned = "confirmed" => call[c].source \notin There'
    BY <1>2 DEF CallOK, There
  <2>5. CallOK(c)'
    BY <2>1, <2>2, <2>3, <2>4 DEF Kept, Now, CallOK, Early, Sending, Settled, CallAt
  <2>. QED
    BY <1>3, <2>2, <2>5 DEF Kept, Now, Effect, Foreground, Waiting, CallAt
<1>. QED
  BY <1>4, <1>5

LEMMA TaskEffect ==
  ASSUME CallsTypeOK, NEW c \in Call, CallOK(c), TaskEnds(c)
  PROVE  Effect(c)
<1>1. /\ call \in [Call -> CallState] /\ sources \in [Source -> Status]
      /\ call[c].source \in Source \cup {NoSource}
      /\ call' = call /\ CallAt(c, "over")
  BY DEF CallsTypeOK, Status, CallState, CallOK, TaskEnds
<1>2. /\ sources' \in {sources, Without(call[c].source)}
      /\ task'[c] \in {"confirmed", "failed"}
      /\ task'[c] = "confirmed" => sources' = Without(call[c].source)
  BY DEF TaskEnds, CallsTypeOK
<1>. DEFINE mine == call[c].source
<1>3. ASSUME mine = NoSource PROVE sources' = sources /\ mine \notin There'
  <2>1. mine \notin Source
    BY <1>3, CallsAssumption
  <2>2. Without(mine) \in [Source -> Status] /\ \A t \in Source : Without(mine)[t] = sources[t]
    BY <1>1, <2>1 DEF Without
  <2>3. Without(mine) = sources
    BY <1>1, <2>2
  <2>4. mine \notin There'
    BY <2>1 DEF There
  <2>. QED
    BY <1>2, <2>3, <2>4
<1>4. Provides({mine}) /\ (task'[c] = "confirmed" => mine \notin There')
  <2>1. CASE mine = NoSource
    <3>1. Provides({})
      BY <1>1, <1>3, <2>1, ProviderSteps
    <3>. QED
      BY <1>3, <2>1, <3>1, RemovesLess
  <2>2. CASE mine # NoSource
    <3>1. mine \in Source
      BY <1>1, <2>2
    <3>2. CASE sources' = Without(mine)
      <4>. HIDE DEF mine
      <4>. QED
        BY <1>1, <3>1, <3>2, ProviderSteps
    <3>3. CASE sources' = sources /\ task'[c] # "confirmed"
      <4>1. Provides({})
        BY <1>1, <3>3, ProviderSteps
      <4>. QED
        BY <3>3, <4>1, RemovesLess
    <3>. QED
      BY <1>2, <3>2, <3>3
  <2>. QED
    BY <2>1, <2>2
<1>5. mine # NoSource => sources[mine] # "unused" /\ sources'[mine] # "unused"
  BY <1>1, <1>4 DEF CallOK, Provides
<1>6. call[c].cleaned = "confirmed" => mine \notin There'
  BY <1>1, <1>4, <1>5, NotBack DEF CallOK
<1>7. CallOK(c)'
  <2>1. /\ call'[c] = call[c] /\ task'[c] # "none" /\ call[c].pc = "over"
        /\ task'[c] # "confirmed" => task'[c] \in {"armed", "failed"}
        /\ mine # NoSource => mine \notin Theirs
    BY <1>1, <1>2 DEF CallOK, CallAt
  <2>. QED
    BY <1>4, <1>5, <1>6, <2>1 DEF CallOK, Early, Sending, Settled, CallAt
<1>. QED
  BY <1>1, <1>4, <1>7 DEF Effect, Foreground, Waiting, CallAt

LEMMA CallEffect ==
  ASSUME CallsTypeOK, NEW c \in Call, CallOK(c), CallStep(c),
         CallAt(c, "registering") => Theirs \subseteq call[c].base
  PROVE  Effect(c)
BY EarlyEffect, RegisteredEffect, TransferEffect, PolledEffect, FailsEffect, RemovedEffect,
   DroppedEffect, TaskEffect DEF CallStep, Registered

--------------------------------------------------------------------------------
(* A call whose source is not among those removed stays as it was.          *)
LEMMA OtherOK ==
  ASSUME CallsTypeOK, NEW d \in Call, CallOK(d), NEW R, Provides(R),
         call'[d] = call[d], task'[d] = task[d],
         call[d].source # NoSource => call[d].source \notin R
  PROVE  CallOK(d)'
<1>1. call[d].source \in Source \cup {NoSource}
  BY DEF CallsTypeOK, CallState
<1>2. call[d].source # NoSource =>
        sources[call[d].source] # "unused" /\ sources'[call[d].source] # "unused"
  BY <1>1 DEF CallOK, Provides
<1>3. call[d].source \in There <=> call[d].source \in There'
  <2>1. CASE call[d].source = NoSource
    BY <2>1, CallsAssumption DEF There
  <2>2. CASE call[d].source # NoSource
    BY <1>1, <1>2, <2>2, ThereAgain
  <2>. QED
    BY <2>1, <2>2
<1>. QED
  BY <1>2, <1>3 DEF CallOK, CallAt

LEMMA CallStepOK ==
  ASSUME CallsInv, NEW c \in Call, CallStep(c)
  PROVE  CallsInv'
<1>1. CallsTypeOK /\ PairsOK /\ Theirs \subseteq There /\ \A d \in Call : CallOK(d)
  BY DEF CallsInv
<1>2. Effect(c)
  BY <1>1, CallEffect DEF PairsOK
<1>3. \A d \in Call : call[d].source \in Source \cup {NoSource}
  BY <1>1 DEF CallsTypeOK, CallState
<1>4. CallsTypeOK'
  BY <1>1, <1>2, TypeOfStep DEF Effect, Provides, CallsTypeOK, Status
<1>5. \A d \in Call : CallOK(d)'
  <2>1. ASSUME NEW d \in Call \ {c} PROVE CallOK(d)'
    <3>1. call[d].source # NoSource => call[d].source \notin {call[c].source}
      BY <1>1 DEF PairsOK
    <3>2. call'[d] = call[d] /\ task'[d] = task[d] /\ Provides({call[c].source})
      BY <1>1, <1>2, TypeOfStep DEF Effect
    <3>. QED
      BY <1>1, <3>1, <3>2, OtherOK
  <2>. QED
    BY <1>2, <2>1 DEF Effect
<1>6. Theirs \subseteq There'
  <2>1. call[c].source \notin Theirs
    BY <1>1, <1>3, CallsAssumption DEF CallOK
  <2>2. \A s \in There \ {call[c].source} : s \in There'
    BY <1>2, ThereAgain DEF Effect
  <2>. QED
    BY <1>1, <2>1, <2>2
<1>7. \A d, e \in Call : Foreground(d)' /\ Foreground(e)' => d = e
  BY <1>1, <1>2 DEF PairsOK, Effect, Foreground
<1>8. ASSUME NEW d \in Call, NEW e \in Call,
             call'[d].source = call'[e].source, call'[d].source # NoSource
      PROVE  d = e
  <2>1. ASSUME NEW f \in Call \ {c}, call[f].source = call'[c].source, call[f].source # NoSource
        PROVE  FALSE
    <3>1. call'[c].source # call[c].source
      BY <1>1, <2>1 DEF PairsOK
    <3>2. /\ CallAt(c, "registering")
          /\ call'[c].source \in (There \cup Unused) \ call[c].base
      BY <1>2, <2>1, <3>1 DEF Effect
    <3>3. call[f].source \notin Unused
      BY <1>1, <2>1 DEF CallOK, Unused
    <3>. QED
      BY <1>1, <2>1, <3>2, <3>3 DEF PairsOK
  <2>2. \A f \in Call \ {c} : call'[f] = call[f]
    BY <1>2 DEF Effect
  <2>. QED
    BY <1>1, <1>8, <2>1, <2>2 DEF PairsOK
<1>9. ASSUME NEW d \in Call, CallAt(d, "registering")'
      PROVE  /\ Theirs \subseteq call'[d].base
             /\ \A e \in Call : call'[e].source \in There' => call'[e].source \in call'[d].base
  <2>1. CASE d = c
    <3>1. call'[c].base = There /\ sources' = sources
      BY <1>2, <1>9, <2>1 DEF Effect
    <3>. QED
      BY <1>1, <2>1, <3>1 DEF There
  <2>2. CASE d # c
    <3>1. call'[d] = call[d] /\ CallAt(d, "registering") /\ Foreground(d)
      BY <1>2, <1>9, <2>2 DEF Effect, CallAt, Foreground, Waiting
    <3>2. ~ CallAt(c, "registering")
      BY <1>1, <2>2, <3>1 DEF PairsOK, CallAt, Foreground, Waiting
    <3>3. ASSUME NEW e \in Call, call'[e].source \in There'
          PROVE  call'[e].source \in call[d].base
      <4>1. call'[e].source \in {call[e].source, NoSource}
        BY <1>2, <3>2 DEF Effect
      <4>2. call'[e].source # NoSource
        BY <3>3, CallsAssumption DEF There
      <4>3. call[e].source \in There
        BY <1>1, <1>2, <1>3, <3>3, <4>1, <4>2, NotBack DEF Effect, CallOK
      <4>. QED
        BY <1>1, <3>1, <4>1, <4>2, <4>3 DEF PairsOK
    <3>. QED
      BY <1>1, <3>1, <3>3 DEF PairsOK
  <2>. QED
    BY <2>1, <2>2
<1>10. PairsOK'
  BY <1>7, <1>8, <1>9 DEF PairsOK
<1>. QED
  BY <1>4, <1>5, <1>6, <1>10 DEF CallsInv

(* The provider works on what it has, and does late what it was asked.      *)
LEMMA ProviderStepOK ==
  ASSUME CallsInv, (\E s \in Source : Process(s)) \/ \E m \in late : Late(m)
  PROVE  CallsInv'
<1>1. /\ CallsTypeOK /\ PairsOK /\ Theirs \subseteq There /\ \A d \in Call : CallOK(d)
      /\ sources \in [Source -> Status]
  BY DEF CallsInv, CallsTypeOK, Status
<1>2. /\ call' = call /\ task' = task /\ late' \subseteq late
  BY DEF Process, Late
<1>3. Provides({})
  <2>1. CASE \E s \in Source : Process(s)
    BY <1>1, <2>1, ProviderSteps
  <2>2. CASE \E m \in late : Late(m)
    <3>. PICK m \in late : Late(m)
      BY <2>2
    <3>1. m.kind = "sending" => m.source \in Source
      BY <1>1 DEF CallsTypeOK
    <3>2. CASE m.kind = "sending" /\ sources' = Received(m.source)
      BY <1>1, <3>1, <3>2, ProviderSteps
    <3>3. CASE UNCHANGED sources \/ \E s \in Unused : sources' = [sources EXCEPT ![s] = "registered"]
      BY <1>1, <3>3, ProviderSteps
    <3>. QED
      BY <3>2, <3>3 DEF Late
  <2>. QED
    BY <2>1, <2>2
<1>4. CallsTypeOK'
  BY <1>1, <1>2, <1>3 DEF CallsTypeOK, Provides, Status
<1>5. \A d \in Call : CallOK(d)'
  BY <1>1, <1>2, <1>3, OtherOK
<1>6. Theirs \subseteq There'
  BY <1>1, <1>3, ThereAgain
<1>7. \A d \in Call : call[d].source \in There' => call[d].source \in There
  <2>1. \A d \in Call : call[d].source \in Source \cup {NoSource}
    BY <1>1 DEF CallsTypeOK, CallState
  <2>. QED
    BY <1>1, <1>3, <2>1, NotBack DEF CallOK
<1>8. PairsOK'
  BY <1>1, <1>2, <1>7 DEF PairsOK, Foreground, CallAt
<1>. QED
  BY <1>4, <1>5, <1>6, <1>8 DEF CallsInv

LEMMA CallsInvStep == CallsInv /\ [CallsNext]_callsVars => CallsInv'
<1>. SUFFICES ASSUME CallsInv, [CallsNext]_callsVars PROVE CallsInv'
  OBVIOUS
<1>1. CASE UNCHANGED callsVars
  BY <1>1 DEF callsVars, CallsInv, CallsTypeOK, CallOK, PairsOK, Foreground, There, CallAt
<1>2. CASE \E c \in Call : CallStep(c)
  BY <1>2, CallStepOK
<1>3. CASE (\E s \in Source : Process(s)) \/ \E m \in late : Late(m)
  BY <1>3, ProviderStepOK
<1>. QED
  BY <1>1, <1>2, <1>3 DEF CallsNext, CallStep

LEMMA CallsInvariant == CallsSpec => []CallsInv
BY InitCalls, CallsInvStep, PTL DEF CallsSpec

--------------------------------------------------------------------------------
(* A cleanup removes nothing that was in the notebook before, and nothing    *)
(* that was sent well, whatever source an answer names (register_upload).   *)
THEOREM CleanupIsOfOwn == CallsSpec => []OthersStay
<1>1. CallsInv => OthersStay
  BY DEF CallsInv, CallOK, OthersStay, Settled
<1>. QED
  BY <1>1, CallsInvariant, PTL

(* A source that a call knows and has not sent has somebody who is to remove *)
(* it, or a failure that is noted; only the error of a client that cannot   *)
(* write the request leaves it behind (upload_file, UploadCleanup::drop).   *)
THEOREM NoneForgotten == CallsSpec => []SomebodyCleans
<1>1. CallsInv => SomebodyCleans
  <2>. SUFFICES ASSUME CallsInv, NEW c \in Call, Abandoned(c)
                PROVE  call[c].cleaned = "unwritten"
    BY DEF SomebodyCleans
  <2>1. CallOK(c) /\ call[c].pc \in Early \cup Sending \cup Settled \cup {"over"}
    BY DEF CallsInv, CallsTypeOK, CallState
  <2>2. call[c].pc \notin Early
    BY <2>1, CallsAssumption DEF CallOK, There, Abandoned
  <2>. QED
    BY <2>1, <2>2 DEF CallOK, Abandoned, Sending, Settled, Foreground, Waiting, CallAt
<1>. QED
  BY <1>1, CallsInvariant, PTL

(* What a cleanup confirms is so, and stays so (cleanup_request).           *)
THEOREM ConfirmedIsGone == CallsSpec => []CleanupIsTrue
<1>1. CallsInv => CleanupIsTrue
  BY DEF CallsInv, CallOK, CleanupIsTrue
<1>. QED
  BY <1>1, CallsInvariant, PTL
================================================================================
