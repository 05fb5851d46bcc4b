------------------------------ MODULE WebSessions ------------------------------
(***************************************************************************)
(* The hosted web server's accounts, sessions and Companion tokens          *)
(* (rust/integrations-server/src/web_database.rs, auth_crypto.rs,           *)
(* rust/delivery-server/src/web.rs, rust/services/src/authentication.rs).   *)
(*                                                                          *)
(* A step is one statement or transaction of the database, or one wait of   *)
(* a handler.  A handler is a slot of `request`; its client may go at any   *)
(* wait.  Passwords are the keys of web_users (a keyed hash of the password *)
(* is unique there); an account is named by its password.  Expirations are  *)
(* kept as the time that is left, which Tick takes away.                    *)
(***************************************************************************)
EXTENDS Integers, FiniteSets

CONSTANTS
  Password,     (* passwords, each the key of at most one account           *)
  Session,      (* random session tokens                                    *)
  Request,      (* handlers that run at the same time                       *)
  Nobody,       (* no account, no session                                   *)
  HashPermits,  (* hash_limiter: password computations at a time            *)
  SessionTtl,   (* FLASHCARDS_SESSION_TTL_SECONDS, in ticks                 *)
  TokenTtl      (* COMPANION_TOKEN_TTL_SECONDS, in ticks                    *)

ASSUME WebAssumption ==
  /\ Nobody \notin Password \cup Session
  /\ HashPermits \in Nat \ {0}
  /\ TokenTtl \in Nat \ {0}
  /\ SessionTtl \in Nat /\ TokenTtl <= SessionTtl  \* WebConfig: at least 300

VARIABLES
  users,        (* web_users: the state of each account's password hash     *)
  sessions,     (* web_sessions: the account and the time that is left      *)
  token,        (* the time left of the newest Companion token of a session *)
  request,      (* the handlers                                             *)
  hashing,      (* permits taken from hash_limiter                          *)
  orphans       (* computations whose handler is gone                       *)

webVars == <<users, sessions, token, request, hashing, orphans>>

(* A hash of today's parameters, an older one, one nobody can verify.       *)
NoAccount == "none"
Hash == {"current", "older", "damaged"}

NoRow   == [user |-> Nobody, left |-> 0]
NoToken == -1

(* `dead` remembers for the properties whether the session of a Companion   *)
(* request was over when its authorization began.                           *)
Idle == [pc |-> "idle", user |-> Nobody, hash |-> NoAccount, session |-> Nobody,
         left |-> 0, sizes |-> << >>, again |-> FALSE, dead |-> FALSE]

(* expires_at > clock_timestamp()                                           *)
Live(s) == sessions[s].user # Nobody /\ sessions[s].left > 0

At(r, pc) == request[r].pc = pc
Go(r, pc) == request' = [request EXCEPT ![r].pc = pc]
End(r)    == request' = [request EXCEPT ![r] = Idle]

(* A token nobody holds any more; new ones are random.                      *)
Fresh(s) ==
  /\ sessions[s] = NoRow
  /\ token[s] <= 0
  /\ \A r \in Request : request[r].session # s

WebInit ==
  /\ users \in [Password -> Hash \cup {NoAccount}]
  /\ sessions = [s \in Session |-> NoRow]
  /\ token = [s \in Session |-> NoToken]
  /\ request = [r \in Request |-> Idle]
  /\ hashing = 0
  /\ orphans = 0

--------------------------------------------------------------------------------
(* Log-in (authenticate_and_create_session): the row is read, the password  *)
(* verified on a blocking thread, and only then written in a transaction.   *)

LookUp(r, p) ==
  /\ At(r, "idle")
  /\ users[p] # NoAccount
  /\ request' = [request EXCEPT ![r].pc = "queued", ![r].user = p,
                                ![r].hash = users[p]]
  /\ UNCHANGED <<users, sessions, token, hashing, orphans>>

(* acquire_owned, then spawn_blocking, which takes the permit along.        *)
StartHashing(r) ==
  /\ At(r, "queued")
  /\ hashing < HashPermits
  /\ hashing' = hashing + 1
  /\ Go(r, "hashing")
  /\ UNCHANGED <<users, sessions, token, orphans>>

(* The password is the one the row was found by: it is verified unless the  *)
(* hash cannot be parsed.                                                   *)
Hashed(r) ==
  /\ At(r, "hashing")
  /\ hashing' = hashing - 1
  /\ IF request[r].hash = "damaged" THEN End(r) ELSE Go(r, "commit")
  /\ UNCHANGED <<users, sessions, token, orphans>>

(* Slip: the permit of a handler that is gone is lost.                      *)
OrphanLost ==
  /\ orphans > 0
  /\ orphans' = orphans - 1
  /\ UNCHANGED <<users, sessions, token, request, hashing>>

(* A computation goes on when its handler is dropped, and keeps its permit. *)
OrphanHashed ==
  /\ orphans > 0
  /\ orphans' = orphans - 1
  /\ hashing' = hashing - 1
  /\ UNCHANGED <<users, sessions, token, request>>

(* UPDATE ... WHERE password_hash = the hash that was verified.             *)
Rehashed(r) ==
  LET p == request[r].user IN
  IF users[p] = request[r].hash THEN [users EXCEPT ![p] = "current"] ELSE users

(* DELETE ... WHERE expires_at <= clock_timestamp()                         *)
Swept(rows) == [s \in Session |-> IF rows[s].left <= 0 THEN NoRow ELSE rows[s]]

OpenSession(r) ==
  /\ At(r, "commit")
  /\ users' = Rehashed(r)
  /\ \E s \in Session :
       /\ Fresh(s)
       /\ sessions' = Swept([sessions EXCEPT ![s] = [user |-> request[r].user,
                                                     left |-> SessionTtl]])
       /\ token' = [token EXCEPT ![s] = NoToken]
  /\ End(r)
  /\ UNCHANGED <<hashing, orphans>>

(* delete_session                                                           *)
LogOut(s) ==
  /\ sessions[s] # NoRow
  /\ sessions' = [sessions EXCEPT ![s] = NoRow]
  /\ UNCHANGED <<users, token, request, hashing, orphans>>

--------------------------------------------------------------------------------
(* Companion tokens: the session is looked up, then the token is minted.    *)

AskToken(r, s) ==
  /\ At(r, "idle")
  /\ Live(s)
  /\ request' = [request EXCEPT ![r].pc = "mint", ![r].session = s]
  /\ UNCHANGED <<users, sessions, token, hashing, orphans>>

Mint(r) ==
  /\ At(r, "mint")
  /\ token' = [token EXCEPT ![request[r].session] = TokenTtl]
  /\ End(r)
  /\ UNCHANGED <<users, sessions, hashing, orphans>>

(* CompanionClaims::current: from issued_at on, before expires_at.          *)
Current(left) == left > 0 /\ left <= TokenTtl

(* user_for_companion_token: the claims, then the row of the session.       *)
Verified(s, left) == Current(left) /\ Live(s)

--------------------------------------------------------------------------------
(* Accounts: `ensure_bootstrap` looks for the account first, `create_user`  *)
(* inserts and does nothing when the password is taken.                     *)
(* Each runs in a process of its own, whose hash_limiter nobody shares: the *)
(* hash before the insertion waits for no one.                              *)

StartServer(r, p) ==
  /\ At(r, "idle")
  /\ request' = [request EXCEPT ![r].user = p,
                   ![r].pc = IF users[p] = NoAccount THEN "bootstrap" ELSE "started"]
  /\ UNCHANGED <<users, sessions, token, hashing, orphans>>

Provision(r, p) ==
  /\ At(r, "idle")
  /\ request' = [request EXCEPT ![r].pc = "provision", ![r].user = p]
  /\ UNCHANGED <<users, sessions, token, hashing, orphans>>

(* INSERT ... ON CONFLICT DO NOTHING                                        *)
Inserted(p) == IF users[p] = NoAccount THEN [users EXCEPT ![p] = "current"] ELSE users

(* Slip: a conflict is taken for an insertion.                              *)
AcceptsAll(r, p) == TRUE

(* PasswordAlreadyProvisioned stops a provisioning, not a server.           *)
Accepts(r, p) == At(r, "bootstrap") \/ users[p] = NoAccount

CreateUser(r) ==
  /\ At(r, "bootstrap") \/ At(r, "provision")
  /\ LET p == request[r].user IN
     /\ users' = Inserted(p)
     /\ Go(r, IF ~ Accepts(r, p) THEN "refused"
              ELSE IF At(r, "bootstrap") THEN "started" ELSE "created")
  /\ UNCHANGED <<sessions, token, hashing, orphans>>

(* The process ends; a server serves until then.                            *)
Exit(r) ==
  /\ request[r].pc \in {"started", "created", "refused"}
  /\ End(r)
  /\ UNCHANGED <<users, sessions, token, hashing, orphans>>

--------------------------------------------------------------------------------
(* The client goes, or the database or a computation fails: the handler is  *)
(* dropped at its wait, a transaction is rolled back.                       *)

Waits(r) == request[r].pc \in {"queued", "hashing", "commit", "mint",
                               "bootstrap", "provision"}

DropRequest(r) ==
  /\ Waits(r)
  /\ orphans' = IF At(r, "hashing") THEN orphans + 1 ELSE orphans
  /\ End(r)
  /\ UNCHANGED <<users, sessions, token, hashing>>

Less(left) == IF left > 0 THEN left - 1 ELSE left

Tick ==
  /\ sessions' = [s \in Session |-> [sessions[s] EXCEPT !.left = Less(@)]]
  /\ token' = [s \in Session |-> Less(token[s])]
  /\ request' = [r \in Request |-> [request[r] EXCEPT !.left = Less(@)]]
  /\ UNCHANGED <<users, hashing, orphans>>
================================================================================
