------------------------- MODULE CompanionAccessProofs -------------------------
(***************************************************************************)
(* The safety of what a token opens, for every number of handlers, sessions *)
(* and accounts, and for all limits: revoked sessions serve nothing,        *)
(* permits come back, uploads stay within their limits, and an account is   *)
(* provisioned once.                                                        *)
(***************************************************************************)
EXTENDS CompanionAccess, TLAPS, FiniteSetTheorems, WellFoundedInduction

(* The types of what the other parts of the invariant speak about.          *)
Waiting  == {"queued", "hashing", "commit", "mint", "bootstrap", "provision"}
Ended    == {"started", "created", "refused"}
Asking   == {"asks", "reads"}
Allowed  == {"serves", "allowed", "access", "receiving", "filling"}

RequestState ==
  [pc : {"idle"} \cup Waiting \cup Ended \cup Asking \cup Allowed,
   user : Password \cup {Nobody}, hash : Hash \cup {NoAccount},
   session : Session \cup {Nobody}, left : Int, sizes : Seq(Nat),
   again : BOOLEAN, dead : BOOLEAN]

AccessTypeOK ==
  /\ users \in [Password -> Hash \cup {NoAccount}]
  /\ sessions \in [Session -> [user : Password \cup {Nobody}, left : Int]]
  /\ token \in [Session -> Int]
  /\ request \in [Request -> RequestState]
  /\ permits \in Nat /\ submitted \in Nat

(* A session that was over when it was asked about stays so: a token of a   *)
(* request is not given to a new session while the request runs.            *)
LivesOK(r) ==
  /\ request[r].pc \in Asking /\ request[r].dead => ~ Live(request[r].session)
  /\ request[r].pc \in Allowed => ~ request[r].dead
  /\ request[r].pc \in Asking \cup Allowed => request[r].session \in Session

(* What is received, and what becomes of it.                                *)
SizesOK(r) ==
  /\ request[r].again => request[r].pc \in {"asks", "allowed", "filling"}
  /\ Len(Sizes(r)) <= MaxJobFiles
  /\ \A i \in 1 .. Len(Sizes(r)) : Sizes(r)[i] <= MaxDocumentBytes
  /\ Total(Sizes(r)) <= MaxJobUploadBytes
  /\ request[r].again => Complete(Sizes(r))
  /\ At(r, "filling") => request[r].again /\ Sizes(r) # << >>

(* An account is inserted before anybody is told so, and never deleted.     *)
AccountOK(r) ==
  /\ request[r].pc \in {"bootstrap", "provision", "started", "created", "queued", "hashing", "commit"}
       => request[r].user \in Password
  /\ request[r].pc \in {"started", "created"} => users[request[r].user] # NoAccount

HoldersOK ==
  /\ IsFiniteSet({r \in Request : Holds(r)})
  /\ PermitsComeBack
  /\ submitted + Cardinality(Filling) <= MaxActive

CreatedOnce ==
  \A r, q \in Request :
    At(r, "created") /\ At(q, "created") /\ request[r].user = request[q].user => r = q

AccessInv ==
  /\ AccessTypeOK
  /\ \A r \in Request : LivesOK(r) /\ SizesOK(r) /\ AccountOK(r)
  /\ HoldersOK /\ CreatedOnce

--------------------------------------------------------------------------------
(* total_bytes is a recursive function on the prefixes of a list; that it    *)
(* exists, and what it is, follows by the least counterexample.             *)
LEMMA LeastNatural ==
  ASSUME NEW T, T \subseteq Nat, T # {}
  PROVE  \E m \in T : \A n \in T : m <= n
<1>1. PICK m \in T : \A n \in T : ~ (<<n, m>> \in OpToRel(<, Nat))
  BY WFMin, NatLessThanWellFounded
<1>2. \A n \in T : ~ (n < m)
  BY <1>1 DEF OpToRel
<1>. QED
  BY <1>2

Adds(f, sizes, i) == IF i = 0 THEN 0 ELSE f[i - 1] + sizes[i]

Sums(f, sizes, k) == f = [i \in 0 .. k |-> Adds(f, sizes, i)]

LEMMA SumsExist ==
  ASSUME NEW sizes, NEW n \in Nat
  PROVE  \E f : Sums(f, sizes, n)
<1>. DEFINE Bad == {k \in Nat : ~ \E f : Sums(f, sizes, k)}
<1>1. SUFFICES ASSUME Bad # {} PROVE FALSE
  OBVIOUS
<1>2. PICK m \in Bad : \A k \in Bad : m <= k
  <2>1. Bad \subseteq Nat
    OBVIOUS
  <2>. HIDE DEF Bad
  <2>. QED
    BY <1>1, <2>1, LeastNatural
<1>3. CASE m = 0
  <2>. DEFINE f == [i \in 0 .. 0 |-> 0]
  <2>1. f = [i \in 0 .. 0 |-> Adds(f, sizes, i)]
    BY DEF Adds
  <2>. QED
    BY <1>2, <1>3, <2>1 DEF Sums
<1>4. CASE m # 0
  <2>1. m - 1 \in Nat /\ m - 1 \notin Bad
    BY <1>2, <1>4
  <2>2. PICK f : f = [i \in 0 .. m - 1 |-> Adds(f, sizes, i)]
    BY <2>1 DEF Sums
  <2>. DEFINE g == [i \in 0 .. m |-> IF i < m THEN f[i] ELSE Adds(f, sizes, m)]
  <2>3. \A i \in 0 .. m : Adds(g, sizes, i) = Adds(f, sizes, i)
    BY <1>2 DEF Adds
  <2>4. \A i \in 0 .. m : g[i] = Adds(g, sizes, i)
    <3>1. \A i \in 0 .. m - 1 : f[i] = Adds(f, sizes, i)
      <4>. HIDE DEF g
      <4>. QED
        BY <2>2
    <3>2. \A i \in 0 .. m : i < m => i \in 0 .. m - 1
      BY <1>2
    <3>3. \A i \in 0 .. m : ~ (i < m) => i = m
      BY <1>2
    <3>. QED
      BY <2>3, <3>1, <3>2, <3>3
  <2>5. g = [i \in 0 .. m |-> Adds(g, sizes, i)]
    <3>1. g = [i \in 0 .. m |-> g[i]]
      OBVIOUS
    <3>. HIDE DEF g
    <3>. QED
      BY <2>4, <3>1
  <2>. HIDE DEF g
  <2>. QED
    BY <1>2, <2>5 DEF Sums
<1>. QED
  BY <1>3, <1>4

LEMMA TotalsAdd ==
  ASSUME NEW sizes \in Seq(Nat)
  PROVE  \A i \in 0 .. Len(sizes) : Totals(sizes)[i] = Adds(Totals(sizes), sizes, i)
<1>1. Totals(sizes) = CHOOSE f : Sums(f, sizes, Len(sizes))
  BY DEF Totals, Sums, Adds
<1>2. \E f : Sums(f, sizes, Len(sizes))
  <2>1. Len(sizes) \in Nat
    OBVIOUS
  <2>. QED
    BY <2>1, SumsExist
<1>3. Sums(Totals(sizes), sizes, Len(sizes))
  BY <1>1, <1>2
<1>. DEFINE f == Totals(sizes)
<1>. HIDE DEF f
<1>. QED
  BY <1>3 DEF Sums, f

(* The total of a prefix is that of the same prefix of another list.        *)
LEMMA SamePrefix ==
  ASSUME NEW a \in Seq(Nat), NEW b \in Seq(Nat), NEW k \in 0 .. Len(a), k <= Len(b),
         \A i \in 1 .. k : a[i] = b[i]
  PROVE  Totals(a)[k] = Totals(b)[k] /\ Totals(a)[k] \in Nat
<1>. DEFINE Bad == {i \in 0 .. k : Totals(a)[i] # Totals(b)[i] \/ Totals(a)[i] \notin Nat}
<1>0. k \in 0 .. k
  OBVIOUS
<1>1. SUFFICES ASSUME Bad # {} PROVE FALSE
  BY <1>0
<1>2. PICK m \in Bad : \A i \in Bad : m <= i
  <2>1. Bad \subseteq Nat
    OBVIOUS
  <2>. HIDE DEF Bad
  <2>. QED
    BY <1>1, <2>1, LeastNatural
<1>. DEFINE f == Totals(a)  g == Totals(b)
<1>3. f[m] = Adds(f, a, m) /\ g[m] = Adds(g, b, m) /\ m \in 0 .. k
  BY <1>2, TotalsAdd
<1>4. m # 0 => m - 1 \in 0 .. k /\ f[m - 1] = g[m - 1] /\ f[m - 1] \in Nat
  BY <1>2
<1>5. m # 0 => a[m] = b[m] /\ a[m] \in Nat
  BY <1>3
<1>. HIDE DEF f, g
<1>6. f[m] = g[m] /\ f[m] \in Nat
  <2>1. CASE m = 0
    BY <1>3, <2>1 DEF Adds
  <2>2. CASE m # 0
    <3>1. f[m] = f[m - 1] + a[m] /\ g[m] = g[m - 1] + b[m]
      BY <1>3, <2>2 DEF Adds
    <3>. QED
      BY <1>4, <1>5, <2>2, <3>1
  <2>. QED
    BY <2>1, <2>2
<1>. QED
  BY <1>2, <1>6 DEF f, g

LEMMA TotalOfEmpty == Total(<< >>) = 0
<1>. DEFINE none == << >>
<1>1. none \in Seq(Nat) /\ Len(none) = 0 /\ 0 \in 0 .. Len(none)
  OBVIOUS
<1>. HIDE DEF none
<1>2. Totals(none)[0] = 0
  BY <1>1, TotalsAdd DEF Adds
<1>3. Total(none) = 0
  BY <1>1, <1>2 DEF Total
<1>. QED
  BY <1>3 DEF none

LEMMA TotalIsNat ==
  ASSUME NEW sizes \in Seq(Nat)
  PROVE  Total(sizes) \in Nat
BY SamePrefix DEF Total

(* A new file adds nothing, a chunk adds its bytes.                         *)
LEMMA TotalOfNew ==
  ASSUME NEW sizes \in Seq(Nat)
  PROVE  Total(Append(sizes, 0)) = Total(sizes)
<1>. DEFINE k == Len(sizes)  new == Append(sizes, 0)
<1>1. /\ new \in Seq(Nat) /\ k \in Nat /\ Len(new) = k + 1
      /\ new[k + 1] = 0 /\ \A i \in 1 .. k : new[i] = sizes[i]
  OBVIOUS
<1>. HIDE DEF new
<1>2. k \in 0 .. Len(new) /\ k <= Len(sizes) /\ k + 1 \in 0 .. Len(new)
  BY <1>1
<1>3. Totals(new)[k] = Totals(sizes)[k] /\ Totals(new)[k] \in Nat
  <2>. HIDE DEF k
  <2>. QED
    BY <1>1, <1>2, SamePrefix
<1>4. Totals(new)[k + 1] = Totals(new)[k]
  <2>1. Totals(new)[k + 1] = Adds(Totals(new), new, k + 1)
    BY <1>1, <1>2, TotalsAdd
  <2>2. k + 1 # 0 /\ (k + 1) - 1 = k
    BY <1>1
  <2>3. Totals(new)[k + 1] = Totals(new)[k] + new[k + 1]
    BY <2>1, <2>2 DEF Adds
  <2>. QED
    BY <1>1, <1>3, <2>3
<1>. QED
  BY <1>1, <1>3, <1>4 DEF Total, new

LEMMA TotalOfChunk ==
  ASSUME NEW sizes \in Seq(Nat), sizes # << >>, NEW n \in Nat
  PROVE  LET new == [sizes EXCEPT ![Len(sizes)] = @ + n] IN
         /\ new \in Seq(Nat) /\ Len(new) = Len(sizes)
         /\ new[Len(sizes)] = sizes[Len(sizes)] + n
         /\ \A i \in 1 .. Len(sizes) - 1 : new[i] = sizes[i]
         /\ Total(new) = Total(sizes) + n
<1>. DEFINE k == Len(sizes)  j == k - 1  new == [sizes EXCEPT ![k] = @ + n]
<1>1. /\ new \in Seq(Nat) /\ k \in Nat \ {0} /\ Len(new) = k
      /\ new[k] = sizes[k] + n /\ sizes[k] \in Nat
      /\ \A i \in 1 .. j : new[i] = sizes[i]
  OBVIOUS
<1>. HIDE DEF new
<1>2. /\ j \in 0 .. Len(new) /\ j <= Len(sizes)
      /\ k \in 0 .. Len(new) /\ k \in 0 .. Len(sizes) /\ k # 0
  BY <1>1
<1>3. Totals(new)[j] = Totals(sizes)[j] /\ Totals(new)[j] \in Nat
  <2>. HIDE DEF j
  <2>. QED
    BY <1>1, <1>2, SamePrefix
<1>4. /\ Totals(new)[k] = Totals(new)[j] + new[k]
      /\ Totals(sizes)[k] = Totals(sizes)[j] + sizes[k]
  <2>1. /\ Totals(new)[k] = Adds(Totals(new), new, k)
        /\ Totals(sizes)[k] = Adds(Totals(sizes), sizes, k)
    BY <1>1, <1>2, TotalsAdd
  <2>. QED
    BY <1>2, <2>1 DEF Adds
<1>5. Total(new) = Total(sizes) + n
  BY <1>1, <1>3, <1>4 DEF Total
<1>. QED
  BY <1>1, <1>5 DEF new

--------------------------------------------------------------------------------
LEMMA IdleOK ==
  /\ Idle \in RequestState
  /\ Idle.pc = "idle" /\ Idle.user = Nobody /\ Idle.session = Nobody
  /\ Idle.sizes = << >> /\ Idle.again = FALSE /\ Idle.dead = FALSE
<1>1. << >> \in Seq(Nat) /\ NoAccount \in Hash \cup {NoAccount}
  OBVIOUS
<1>. QED
  BY <1>1 DEF Idle, RequestState

(* A handler that has nothing holds nothing, and nothing is claimed of it.  *)
Free(x) == x.pc = "idle" /\ x.sizes = << >> /\ x.again = FALSE

LEMMA FreeOK ==
  ASSUME NEW r \in Request, Free(request[r])
  PROVE  LivesOK(r) /\ SizesOK(r) /\ AccountOK(r) /\ ~ Holds(r)
<1>1. /\ Len(Sizes(r)) = 0 /\ Total(Sizes(r)) = 0
      /\ \A i \in 1 .. Len(Sizes(r)) : FALSE
  BY TotalOfEmpty DEF Free, Sizes
<1>2. LivesOK(r) /\ AccountOK(r) /\ ~ Holds(r)
  BY DEF Free, LivesOK, AccountOK, Holds, Holding, Asking, Allowed
<1>3. SizesOK(r)
  BY <1>1, AccessAssumption DEF Free, SizesOK, At
<1>. QED
  BY <1>2, <1>3

LEMMA InitAccess == Init => AccessInv
<1>. SUFFICES ASSUME Init PROVE AccessInv
  OBVIOUS
<1>1. \A r \in Request : request[r] = Idle
  BY DEF Init, WebInit
<1>2. ASSUME NEW r \in Request PROVE LivesOK(r) /\ SizesOK(r) /\ AccountOK(r) /\ ~ Holds(r)
  <2>1. Free(request[r])
    BY <1>1, IdleOK DEF Free
  <2>. QED
    BY <2>1, FreeOK
<1>3. AccessTypeOK
  <2>1. request \in [Request -> RequestState]
    BY IdleOK DEF Init, WebInit
  <2>2. permits \in Nat /\ submitted \in Nat
    BY AccessAssumption DEF Init
  <2>3. /\ NoRow \in [user : Password \cup {Nobody}, left : Int]
        /\ NoToken \in Int
    BY DEF NoRow, NoToken
  <2>. QED
    BY <2>1, <2>2, <2>3 DEF Init, WebInit, AccessTypeOK
<1>4. /\ {r \in Request : Holds(r)} = {} /\ Filling = {}
  BY <1>1, <1>2, IdleOK DEF Filling
<1>5. HoldersOK
  BY <1>4, FS_EmptySet, AccessAssumption DEF Init, HoldersOK, PermitsComeBack
<1>6. CreatedOnce
  BY <1>1, IdleOK DEF CreatedOnce, At
<1>. QED
  BY <1>2, <1>3, <1>5, <1>6 DEF AccessInv

(* What a step makes of a handler, and of nobody else's.                    *)
Becomes(r, pc, user, session, sizes, again, dead) ==
  /\ request' \in [Request -> RequestState]
  /\ request'[r].pc = pc /\ request'[r].user = user /\ request'[r].session = session
  /\ request'[r].sizes = sizes /\ request'[r].again = again /\ request'[r].dead = dead
  /\ \A q \in Request \ {r} : request'[q] = request[q]

LEMMA RequestReplaced ==
  ASSUME request \in [Request -> RequestState], NEW r \in Request, NEW new \in RequestState,
         request' = [request EXCEPT ![r] = new]
  PROVE  Becomes(r, new.pc, new.user, new.session, new.sizes, new.again, new.dead)
BY DEF Becomes

LEMMA RequestMoves ==
  ASSUME request \in [Request -> RequestState], NEW r \in Request
  PROVE  /\ End(r) => Becomes(r, "idle", Nobody, Nobody, << >>, FALSE, FALSE)
         /\ \A pc \in Waiting \cup Ended \cup Asking \cup Allowed : Go(r, pc) =>
              Becomes(r, pc, request[r].user, request[r].session, request[r].sizes,
                      request[r].again, request[r].dead)
         /\ \A sizes \in Seq(Nat) : request' = [request EXCEPT ![r].sizes = sizes] =>
              Becomes(r, request[r].pc, request[r].user, request[r].session, sizes,
                      request[r].again, request[r].dead)
         /\ Received(r) =>
              \E dead \in {~ Live(request[r].session)} :
                Becomes(r, "asks", request[r].user, request[r].session, request[r].sizes,
                        TRUE, dead)
<1>. DEFINE x == request[r]
<1>0. x \in RequestState
  OBVIOUS
<1>1. ASSUME End(r) PROVE Becomes(r, "idle", Nobody, Nobody, << >>, FALSE, FALSE)
  BY <1>1, IdleOK, RequestReplaced DEF End
<1>2. ASSUME NEW pc \in Waiting \cup Ended \cup Asking \cup Allowed, Go(r, pc)
      PROVE  Becomes(r, pc, x.user, x.session, x.sizes, x.again, x.dead)
  <2>. DEFINE new == [x EXCEPT !.pc = pc]
  <2>1. /\ new \in RequestState /\ new.pc = pc /\ new.user = x.user /\ new.session = x.session
        /\ new.sizes = x.sizes /\ new.again = x.again /\ new.dead = x.dead
    BY <1>0 DEF RequestState
  <2>2. request' = [request EXCEPT ![r] = new]
    BY <1>2 DEF Go
  <2>. HIDE DEF new
  <2>. QED
    BY <2>1, <2>2, RequestReplaced
<1>3. ASSUME NEW sizes \in Seq(Nat), request' = [request EXCEPT ![r].sizes = sizes]
      PROVE  Becomes(r, x.pc, x.user, x.session, sizes, x.again, x.dead)
  <2>. DEFINE new == [x EXCEPT !.sizes = sizes]
  <2>1. /\ new \in RequestState /\ new.pc = x.pc /\ new.user = x.user /\ new.session = x.session
        /\ new.sizes = sizes /\ new.again = x.again /\ new.dead = x.dead
    BY <1>0 DEF RequestState
  <2>2. request' = [request EXCEPT ![r] = new]
    BY <1>3
  <2>. HIDE DEF new
  <2>. QED
    BY <2>1, <2>2, RequestReplaced
<1>4. ASSUME NEW dead \in BOOLEAN,
             request' = [request EXCEPT ![r].pc = "asks", ![r].again = TRUE, ![r].dead = dead]
      PROVE  Becomes(r, "asks", x.user, x.session, x.sizes, TRUE, dead)
  <2>. DEFINE new == [x EXCEPT !.pc = "asks", !.again = TRUE, !.dead = dead]
  <2>1. /\ new \in RequestState /\ new.pc = "asks" /\ new.user = x.user /\ new.session = x.session
        /\ new.sizes = x.sizes /\ new.again = TRUE /\ new.dead = dead
    BY <1>0 DEF RequestState, Asking
  <2>2. request' = [request EXCEPT ![r] = new]
    BY <1>4
  <2>. HIDE DEF new
  <2>. QED
    BY <2>1, <2>2, RequestReplaced
<1>5. (~ Live(x.session)) \in BOOLEAN
  BY DEF Live
<1>. QED
  BY <1>1, <1>2, <1>3, <1>4, <1>5 DEF Received

(* What an idle handler starts with.                                        *)
LEMMA RequestStarts ==
  ASSUME AccessTypeOK, NEW r \in Request, request[r].again = FALSE
  PROVE  /\ \A p \in Password : LookUp(r, p) =>
              \E session \in Session \cup {Nobody}, dead \in BOOLEAN :
                Becomes(r, "queued", p, session, request[r].sizes, FALSE, dead)
         /\ \A s \in Session : AskToken(r, s) =>
              \E user \in Password \cup {Nobody}, dead \in BOOLEAN :
                Becomes(r, "mint", user, s, request[r].sizes, FALSE, dead)
         /\ \A p \in Password : StartServer(r, p) =>
              \E session \in Session \cup {Nobody}, dead \in BOOLEAN :
                Becomes(r, IF users[p] = NoAccount THEN "bootstrap" ELSE "started",
                        p, session, request[r].sizes, FALSE, dead)
         /\ \A p \in Password : Provision(r, p) =>
              \E session \in Session \cup {Nobody}, dead \in BOOLEAN :
                Becomes(r, "provision", p, session, request[r].sizes, FALSE, dead)
         /\ \A s \in Session, kind \in Asking : Send(r, s, kind) =>
              \E user \in Password \cup {Nobody}, dead \in {~ Live(s)} :
                Becomes(r, kind, user, s, request[r].sizes, FALSE, dead)
<1>. DEFINE x == request[r]
<1>0. /\ request \in [Request -> RequestState] /\ x \in RequestState
      /\ x.user \in Password \cup {Nobody} /\ x.session \in Session \cup {Nobody}
      /\ x.dead \in BOOLEAN /\ x.again = FALSE
      /\ \A p \in Password : users[p] \in Hash \cup {NoAccount}
      /\ \A s \in Session : token[s] \in Int
  BY DEF AccessTypeOK, RequestState
<1>1. ASSUME NEW p \in Password, LookUp(r, p)
      PROVE  Becomes(r, "queued", p, x.session, request[r].sizes, FALSE, x.dead)
  <2>. DEFINE hash == users[p]
              new == [x EXCEPT !.pc = "queued", !.user = p, !.hash = hash]
  <2>1. /\ new \in RequestState /\ new.pc = "queued" /\ new.user = p /\ new.session = x.session
        /\ new.sizes = x.sizes /\ new.again = x.again /\ new.dead = x.dead
    <3>1. hash \in Hash \cup {NoAccount}
      BY <1>0
    <3>. HIDE DEF hash
    <3>. QED
      BY <1>0, <3>1 DEF RequestState, Waiting
  <2>2. request' = [request EXCEPT ![r] = new]
    BY <1>1 DEF LookUp
  <2>. HIDE DEF new
  <2>. QED
    BY <1>0, <2>1, <2>2, RequestReplaced
<1>2. ASSUME NEW s \in Session, AskToken(r, s)
      PROVE  Becomes(r, "mint", x.user, s, request[r].sizes, FALSE, x.dead)
  <2>. DEFINE new == [x EXCEPT !.pc = "mint", !.session = s]
  <2>1. /\ new \in RequestState /\ new.pc = "mint" /\ new.user = x.user /\ new.session = s
        /\ new.sizes = x.sizes /\ new.again = x.again /\ new.dead = x.dead
    BY <1>0 DEF RequestState, Waiting
  <2>2. request' = [request EXCEPT ![r] = new]
    BY <1>2 DEF AskToken
  <2>. HIDE DEF new
  <2>. QED
    BY <1>0, <2>1, <2>2, RequestReplaced
<1>3. ASSUME NEW p \in Password, NEW pc \in {"bootstrap", "started", "provision"},
             request' = [request EXCEPT ![r].user = p, ![r].pc = pc]
      PROVE  Becomes(r, pc, p, x.session, request[r].sizes, FALSE, x.dead)
  <2>. DEFINE new == [x EXCEPT !.user = p, !.pc = pc]
  <2>1. /\ new \in RequestState /\ new.pc = pc /\ new.user = p /\ new.session = x.session
        /\ new.sizes = x.sizes /\ new.again = x.again /\ new.dead = x.dead
    BY <1>0 DEF RequestState, Waiting, Ended
  <2>2. request' = [request EXCEPT ![r] = new]
    BY <1>3
  <2>. HIDE DEF new
  <2>. QED
    BY <1>0, <2>1, <2>2, RequestReplaced
<1>4. ASSUME NEW p \in Password, NEW pc \in {"bootstrap", "started", "provision"},
             request' = [request EXCEPT ![r].pc = pc, ![r].user = p]
      PROVE  Becomes(r, pc, p, x.session, request[r].sizes, FALSE, x.dead)
  <2>1. request' = [request EXCEPT ![r].user = p, ![r].pc = pc]
    BY <1>0, <1>4 DEF RequestState
  <2>. QED
    BY <1>3, <2>1
<1>5. ASSUME NEW s \in Session, NEW kind \in Asking, Send(r, s, kind)
      PROVE  \E dead \in {~ Live(s)} : Becomes(r, kind, x.user, s, request[r].sizes, FALSE, dead)
  <2>. DEFINE left == token[s]
              dead == ~ Live(s)
              new == [x EXCEPT !.pc = kind, !.session = s, !.left = left, !.dead = dead]
  <2>1. left \in Int /\ dead \in BOOLEAN
    BY <1>0 DEF Live
  <2>2. request' = [request EXCEPT ![r] = new]
    BY <1>5 DEF Send
  <2>. HIDE DEF left, dead
  <2>3. /\ new \in RequestState /\ new.pc = kind /\ new.user = x.user /\ new.session = s
        /\ new.sizes = x.sizes /\ new.again = x.again /\ new.dead = dead
    BY <1>0, <2>1 DEF RequestState
  <2>. HIDE DEF new
  <2>4. Becomes(r, kind, x.user, s, request[r].sizes, FALSE, dead)
    BY <1>0, <2>2, <2>3, RequestReplaced
  <2>. QED
    BY <2>4 DEF dead
<1>6. \A p \in Password : StartServer(r, p) =>
        \E pc \in {"bootstrap", "started"} :
          /\ pc = IF users[p] = NoAccount THEN "bootstrap" ELSE "started"
          /\ request' = [request EXCEPT ![r].user = p, ![r].pc = pc]
  BY DEF StartServer
<1>. QED
  BY <1>0, <1>1, <1>2, <1>3, <1>4, <1>5, <1>6 DEF Provision

--------------------------------------------------------------------------------
(* What a step does to what other handlers rely on: no session they hold    *)
(* begins to live, and no account goes.                                     *)
Calm ==
  /\ \A s \in Session : Live(s)' => Live(s) \/ \A q \in Request : request[q].session # s
  /\ \A p \in Password : users[p] # NoAccount => users'[p] # NoAccount

StoreTyped ==
  /\ users' \in [Password -> Hash \cup {NoAccount}]
  /\ sessions' \in [Session -> [user : Password \cup {Nobody}, left : Int]]
  /\ token' \in [Session -> Int]

LEMMA StoreRests ==
  ASSUME AccessTypeOK, UNCHANGED <<users, sessions>>, token' \in [Session -> Int]
  PROVE  Calm /\ StoreTyped
BY DEF AccessTypeOK, Calm, StoreTyped, Live

LEMMA OpenSessionStore ==
  ASSUME AccessTypeOK, NEW r \in Request, AccountOK(r), OpenSession(r)
  PROVE  Calm /\ StoreTyped
<1>. DEFINE p == request[r].user
            Row == [user : Password \cup {Nobody}, left : Int]
<1>1. /\ users \in [Password -> Hash \cup {NoAccount}] /\ sessions \in [Session -> Row]
      /\ token \in [Session -> Int]
  BY DEF AccessTypeOK
<1>2. p \in Password
  BY DEF OpenSession, AccountOK, At
<1>3. users' \in [Password -> Hash \cup {NoAccount}]
      /\ \A q \in Password : users[q] # NoAccount => users'[q] # NoAccount
  <2>1. users' = users \/ users' = [users EXCEPT ![p] = "current"]
    BY DEF OpenSession, Rehashed
  <2>. HIDE DEF p
  <2>. QED
    BY <1>1, <1>2, <2>1 DEF Hash, NoAccount
<1>. PICK s \in Session :
       /\ Fresh(s)
       /\ sessions' = Swept([sessions EXCEPT ![s] = [user |-> p, left |-> SessionTtl]])
       /\ token' = [token EXCEPT ![s] = NoToken]
  BY DEF OpenSession
<1>4. token' \in [Session -> Int]
  BY <1>1 DEF NoToken
<1>. DEFINE row  == [user |-> p, left |-> SessionTtl]
            rows == [sessions EXCEPT ![s] = row]
<1>5. row \in Row /\ NoRow \in Row
  BY <1>2, WebAssumption DEF NoRow
<1>. HIDE DEF row
<1>6. rows \in [Session -> Row] /\ \A t \in Session \ {s} : rows[t] = sessions[t]
  BY <1>1, <1>5
<1>. HIDE DEF rows
<1>7. \A t \in Session : sessions'[t] = IF rows[t].left <= 0 THEN NoRow ELSE rows[t]
  BY DEF Swept, rows, row
<1>8. sessions' \in [Session -> Row]
  <2>1. sessions' = [t \in Session |-> IF rows[t].left <= 0 THEN NoRow ELSE rows[t]]
    BY DEF Swept, rows, row
  <2>. HIDE DEF Row
  <2>. QED
    BY <1>5, <1>6, <2>1
<1>9. \A t \in Session \ {s} : Live(t)' => Live(t)
  <2>. TAKE t \in Session \ {s}
  <2>1. rows[t] = sessions[t] /\ NoRow.user = Nobody
    BY <1>6 DEF NoRow
  <2>2. sessions'[t] \in {NoRow, sessions[t]}
    BY <1>7, <2>1
  <2>. QED
    BY <2>1, <2>2 DEF Live
<1>10. \A q \in Request : request[q].session # s
  BY DEF Fresh
<1>. QED
  BY <1>3, <1>4, <1>8, <1>9, <1>10 DEF Calm, StoreTyped

LEMMA CreateUserStore ==
  ASSUME AccessTypeOK, NEW r \in Request, AccountOK(r), CreateUser(r)
  PROVE  Calm /\ StoreTyped /\ users'[request[r].user] # NoAccount
<1>. DEFINE p == request[r].user
<1>1. users \in [Password -> Hash \cup {NoAccount}]
  BY DEF AccessTypeOK
<1>2. p \in Password /\ users' = Inserted(p) /\ UNCHANGED <<sessions, token>>
  BY DEF CreateUser, AccountOK, At
<1>. HIDE DEF p
<1>3. /\ users' \in [Password -> Hash \cup {NoAccount}]
      /\ \A q \in Password : users[q] # NoAccount => users'[q] # NoAccount
      /\ users'[p] # NoAccount
  BY <1>1, <1>2 DEF Inserted, Hash, NoAccount
<1>. QED
  BY <1>2, <1>3 DEF AccessTypeOK, Calm, StoreTyped, Live, p

--------------------------------------------------------------------------------
(* What a step does to the handler itself, and to what it holds.            *)
OwnOK(r) == LivesOK(r)' /\ SizesOK(r)' /\ AccountOK(r)'

Permit(r) ==
  \/ permits' = permits /\ (Holds(r)' <=> Holds(r))
  \/ permits' = permits - 1 /\ permits > 0 /\ ~ Holds(r) /\ Holds(r)'
  \/ permits' = permits + 1 /\ Holds(r) /\ ~ Holds(r)'

StorePlace(r) ==
  \/ submitted' = submitted /\ (At(r, "filling")' => At(r, "filling"))
  \/ submitted' = submitted /\ Place
  \/ submitted' = submitted + 1 /\ At(r, "filling") /\ ~ At(r, "filling")'

Effect(r) ==
  /\ request' \in [Request -> RequestState]
  /\ \A q \in Request \ {r} : request'[q] = request[q]
  /\ OwnOK(r) /\ Permit(r) /\ StorePlace(r) /\ Calm /\ StoreTyped
  /\ At(r, "created")' => \/ At(r, "created") /\ request'[r].user = request[r].user
                          \/ users[request'[r].user] = NoAccount

(* A handler that is over holds nothing, and nothing is claimed of it.      *)
LEMMA EndOK ==
  ASSUME NEW r \in Request, Becomes(r, "idle", Nobody, Nobody, << >>, FALSE, FALSE)
  PROVE  OwnOK(r) /\ ~ Holds(r)' /\ ~ At(r, "filling")' /\ ~ At(r, "created")'
<1>1. /\ request'[r].pc = "idle" /\ request'[r].again = FALSE /\ request'[r].sizes = << >>
  BY DEF Becomes
<1>2. LivesOK(r)' /\ AccountOK(r)' /\ ~ Holds(r)' /\ ~ At(r, "filling")' /\ ~ At(r, "created")'
  BY <1>1 DEF LivesOK, AccountOK, Holds, Holding, Asking, Allowed, At
<1>3. Sizes(r)' = << >> /\ Len(<< >>) = 0 /\ Total(<< >>) = 0
  BY <1>1, TotalOfEmpty DEF Sizes
<1>4. SizesOK(r)'
  <2>1. Len(Sizes(r)') <= MaxJobFiles /\ Total(Sizes(r)') <= MaxJobUploadBytes
    BY <1>3, AccessAssumption
  <2>2. \A i \in 1 .. Len(Sizes(r)') : FALSE
    BY <1>3
  <2>. QED
    BY <1>1, <2>1, <2>2 DEF SizesOK, At
<1>. QED
  BY <1>2, <1>4 DEF OwnOK

(* A step that moves the handler within the same list of sizes.             *)
LEMMA SameSizes ==
  ASSUME NEW r \in Request, SizesOK(r), request'[r].sizes = request[r].sizes,
         request'[r].again => Complete(Sizes(r)) /\ request'[r].pc \in {"asks", "allowed", "filling"},
         request'[r].pc = "filling" => request'[r].again /\ Sizes(r) # << >>
  PROVE  SizesOK(r)'
BY DEF SizesOK, Sizes, At

(* Steps that take the handler to its end, with what it held.               *)
LEMMA EndEffect ==
  ASSUME AccessTypeOK, NEW r \in Request, End(r), Calm, StoreTyped,
         \/ permits' = Released(r)
         \/ ~ Holds(r) /\ permits' = permits,
         \/ submitted' = submitted
         \/ submitted' = submitted + 1 /\ At(r, "filling")
  PROVE  Effect(r)
<1>1. Becomes(r, "idle", Nobody, Nobody, << >>, FALSE, FALSE)
  BY RequestMoves DEF AccessTypeOK
<1>2. OwnOK(r) /\ ~ Holds(r)' /\ ~ At(r, "filling")' /\ ~ At(r, "created")'
  BY <1>1, EndOK
<1>3. Permit(r) /\ StorePlace(r)
  BY <1>2 DEF Permit, StorePlace, Released
<1>. QED
  BY <1>1, <1>2, <1>3 DEF Becomes, Effect

HandlerOK(r) == LivesOK(r) /\ SizesOK(r) /\ AccountOK(r)

(* A handler of the web server holds nothing of the Companion.              *)
LEMMA HoldsNothing ==
  ASSUME AccessTypeOK, NEW r \in Request, HandlerOK(r),
         request[r].pc \in {"idle"} \cup Waiting \cup Ended \cup {"reads", "serves"}
  PROVE  /\ request[r].again = FALSE /\ ~ Holds(r) /\ ~ At(r, "filling")
         /\ request \in [Request -> RequestState]
<1>1. request \in [Request -> RequestState] /\ request[r].again \in BOOLEAN
  BY DEF AccessTypeOK, RequestState
<1>2. request[r].again = FALSE
  BY <1>1 DEF HandlerOK, SizesOK, Waiting, Ended
<1>. QED
  BY <1>1, <1>2 DEF Holds, Holding, At, Waiting, Ended

(* Steps of the web server from one wait to the next.                       *)
LEMMA WebMove ==
  ASSUME AccessTypeOK, NEW r \in Request, HandlerOK(r),
         request[r].pc \in {"idle"} \cup Waiting \cup Ended,
         NEW pc \in Waiting \cup Ended, NEW user, NEW session, NEW dead,
         Becomes(r, pc, user, session, request[r].sizes, FALSE, dead),
         UNCHANGED <<permits, submitted>>, Calm, StoreTyped,
         pc \notin {"mint", "refused"} => user \in Password,
         pc \in {"started", "created"} => users'[user] # NoAccount,
         pc = "created" => users[user] = NoAccount
  PROVE  Effect(r)
<1>1. /\ request'[r].pc = pc /\ request'[r].user = user /\ request'[r].again = FALSE
      /\ request'[r].sizes = request[r].sizes
  BY DEF Becomes
<1>2. ~ Holds(r) /\ ~ Holds(r)' /\ ~ At(r, "filling")'
  BY <1>1, HoldsNothing DEF Holds, Holding, At, Waiting, Ended
<1>3. LivesOK(r)' /\ AccountOK(r)'
  BY <1>1 DEF LivesOK, AccountOK, Asking, Allowed, Waiting, Ended
<1>4. SizesOK(r)'
  BY <1>1, SameSizes DEF HandlerOK, Waiting, Ended
<1>. QED
  BY <1>1, <1>2, <1>3, <1>4 DEF Becomes, Effect, OwnOK, Permit, StorePlace, At

LEMMA StartsEffect ==
  ASSUME AccessTypeOK, NEW r \in Request, HandlerOK(r), At(r, "idle"),
         UNCHANGED <<permits, submitted>>,
         \/ \E p \in Password : LookUp(r, p) \/ StartServer(r, p) \/ Provision(r, p)
         \/ \E s \in Session : AskToken(r, s)
  PROVE  Effect(r)
<1>1. request[r].again = FALSE
  BY HoldsNothing DEF At
<1>2. Calm /\ StoreTyped /\ users' = users
  <2>1. UNCHANGED <<users, sessions, token>>
    BY DEF LookUp, StartServer, Provision, AskToken
  <2>. QED
    BY <2>1, StoreRests DEF AccessTypeOK
<1>3. request[r].pc \in {"idle"} \cup Waiting \cup Ended
  BY DEF At
<1>4. ASSUME NEW p \in Password, LookUp(r, p) PROVE Effect(r)
  <2>. PICK session \in Session \cup {Nobody}, dead \in BOOLEAN :
         Becomes(r, "queued", p, session, request[r].sizes, FALSE, dead)
    BY <1>1, <1>4, RequestStarts
  <2>1. "queued" \in Waiting \cup Ended
    BY DEF Waiting
  <2>. QED
    BY <1>2, <1>3, <2>1, WebMove
<1>5. ASSUME NEW p \in Password, StartServer(r, p) PROVE Effect(r)
  <2>. DEFINE pc == IF users[p] = NoAccount THEN "bootstrap" ELSE "started"
  <2>. PICK session \in Session \cup {Nobody}, dead \in BOOLEAN :
         Becomes(r, pc, p, session, request[r].sizes, FALSE, dead)
    BY <1>1, <1>5, RequestStarts
  <2>1. pc \in Waiting \cup Ended /\ pc # "created" /\ (pc = "started" => users[p] # NoAccount)
    BY DEF Waiting, Ended
  <2>. HIDE DEF pc
  <2>. QED
    BY <1>2, <1>3, <2>1, WebMove
<1>6. ASSUME NEW p \in Password, Provision(r, p) PROVE Effect(r)
  <2>. PICK session \in Session \cup {Nobody}, dead \in BOOLEAN :
         Becomes(r, "provision", p, session, request[r].sizes, FALSE, dead)
    BY <1>1, <1>6, RequestStarts
  <2>1. "provision" \in Waiting \cup Ended
    BY DEF Waiting
  <2>. QED
    BY <1>2, <1>3, <2>1, WebMove
<1>7. ASSUME NEW s \in Session, AskToken(r, s) PROVE Effect(r)
  <2>. PICK user \in Password \cup {Nobody}, dead \in BOOLEAN :
         Becomes(r, "mint", user, s, request[r].sizes, FALSE, dead)
    BY <1>1, <1>7, RequestStarts
  <2>1. "mint" \in Waiting \cup Ended
    BY DEF Waiting
  <2>. QED
    BY <1>2, <1>3, <2>1, WebMove
<1>. QED
  BY <1>4, <1>5, <1>6, <1>7

LEMMA HashingEffect ==
  ASSUME AccessTypeOK, NEW r \in Request, HandlerOK(r), UNCHANGED <<permits, submitted>>,
         StartHashing(r) \/ Hashed(r)
  PROVE  Effect(r)
<1>1. /\ request[r].pc \in {"queued", "hashing"}
      /\ request[r].pc \in {"idle"} \cup Waiting \cup Ended
  BY DEF StartHashing, Hashed, At, Waiting
<1>2. Calm /\ StoreTyped
  <2>1. UNCHANGED <<users, sessions, token>>
    BY DEF StartHashing, Hashed
  <2>. QED
    BY <2>1, StoreRests DEF AccessTypeOK
<1>3. /\ request[r].again = FALSE /\ ~ Holds(r) /\ request[r].user \in Password
      /\ request \in [Request -> RequestState]
  BY <1>1, HoldsNothing DEF HandlerOK, AccountOK
<1>4. CASE End(r)
  BY <1>2, <1>3, <1>4, EndEffect
<1>5. ASSUME NEW pc \in {"hashing", "commit"}, Go(r, pc) PROVE Effect(r)
  <2>1. pc \in Waiting \cup Ended
    BY DEF Waiting
  <2>2. Becomes(r, pc, request[r].user, request[r].session, request[r].sizes, FALSE, request[r].dead)
    BY <1>3, <1>5, <2>1, RequestMoves
  <2>. QED
    BY <1>1, <1>2, <1>3, <2>1, <2>2, WebMove
<1>. QED
  BY <1>4, <1>5 DEF StartHashing, Hashed

LEMMA CreateEffect ==
  ASSUME AccessTypeOK, NEW r \in Request, HandlerOK(r), UNCHANGED <<permits, submitted>>,
         CreateUser(r)
  PROVE  Effect(r)
<1>1. /\ request[r].pc \in {"bootstrap", "provision"}
      /\ request[r].pc \in {"idle"} \cup Waiting \cup Ended
  BY DEF CreateUser, At, Waiting
<1>2. Calm /\ StoreTyped /\ users'[request[r].user] # NoAccount
  BY CreateUserStore DEF HandlerOK
<1>3. /\ request[r].again = FALSE /\ request[r].user \in Password
      /\ request \in [Request -> RequestState]
  BY <1>1, HoldsNothing DEF HandlerOK, AccountOK
<1>4. \E pc \in {"refused", "started", "created"} :
        Go(r, pc) /\ (pc = "created" => users[request[r].user] = NoAccount)
  BY <1>1 DEF CreateUser, Accepts, At
<1>. PICK pc \in {"refused", "started", "created"} :
       Go(r, pc) /\ (pc = "created" => users[request[r].user] = NoAccount)
  BY <1>4
<1>5. pc \in Waiting \cup Ended
  BY DEF Ended
<1>6. Becomes(r, pc, request[r].user, request[r].session, request[r].sizes, FALSE, request[r].dead)
  BY <1>3, <1>5, RequestMoves
<1>. QED
  BY <1>1, <1>2, <1>3, <1>5, <1>6, WebMove

LEMMA WebEndEffect ==
  ASSUME AccessTypeOK, NEW r \in Request, HandlerOK(r), UNCHANGED <<permits, submitted>>,
         OpenSession(r) \/ Mint(r) \/ Exit(r) \/ DropRequest(r)
  PROVE  Effect(r)
<1>1. request[r].pc \in Waiting \cup Ended /\ End(r)
  BY DEF OpenSession, Mint, Exit, DropRequest, Waits, Waiting, Ended, At
<1>2. ~ Holds(r)
  BY <1>1, HoldsNothing
<1>3. Calm /\ StoreTyped
  <2>1. CASE OpenSession(r)
    BY <2>1, OpenSessionStore DEF HandlerOK
  <2>2. CASE Mint(r) \/ Exit(r) \/ DropRequest(r)
    <3>1. UNCHANGED <<users, sessions>>
      BY <2>2 DEF Mint, Exit, DropRequest
    <3>2. token' \in [Session -> Int]
      <4>1. token \in [Session -> Int] /\ TokenTtl \in Int
        BY WebAssumption DEF AccessTypeOK
      <4>. QED
        BY <2>2, <4>1 DEF Mint, Exit, DropRequest
    <3>. QED
      BY <3>1, <3>2, StoreRests
  <2>. QED
    BY <2>1, <2>2
<1>. QED
  BY <1>1, <1>2, <1>3, EndEffect

LEMMA WebEffect ==
  ASSUME AccessTypeOK, NEW r \in Request, HandlerOK(r), WebStep(r)
  PROVE  Effect(r)
<1>1. CASE \/ \E p \in Password : LookUp(r, p) \/ StartServer(r, p) \/ Provision(r, p)
           \/ \E s \in Session : AskToken(r, s)
  <2>1. At(r, "idle")
    BY <1>1 DEF LookUp, StartServer, Provision, AskToken
  <2>. QED
    BY <1>1, <2>1, StartsEffect DEF WebStep
<1>2. CASE StartHashing(r) \/ Hashed(r)
  BY <1>2, HashingEffect DEF WebStep
<1>3. CASE CreateUser(r)
  BY <1>3, CreateEffect DEF WebStep
<1>4. CASE OpenSession(r) \/ Mint(r) \/ Exit(r) \/ DropRequest(r)
  BY <1>4, WebEndEffect DEF WebStep
<1>. QED
  BY <1>1, <1>2, <1>3, <1>4 DEF WebStep

--------------------------------------------------------------------------------
(* The steps of the Companion touch no store of the web server.             *)
LEMMA OnlyRequestRests ==
  ASSUME AccessTypeOK, OnlyRequest
  PROVE  /\ Calm /\ StoreTyped /\ UNCHANGED <<users, sessions>>
         /\ \A s \in Session : Live(s)' <=> Live(s)
<1>1. UNCHANGED <<users, sessions, token>>
  BY DEF OnlyRequest
<1>. QED
  BY <1>1, StoreRests DEF AccessTypeOK, Live

(* A step within the Companion that keeps the list of sizes.                *)
LEMMA CompanionMove ==
  ASSUME AccessTypeOK, NEW r \in Request, HandlerOK(r), OnlyRequest, submitted' = submitted,
         request' \in [Request -> RequestState],
         \A q \in Request \ {r} : request'[q] = request[q],
         request'[r].pc \in Asking \cup Allowed,
         request'[r].session \in Session,
         request'[r].sizes = request[r].sizes,
         request'[r].pc \in Allowed => ~ request'[r].dead,
         request'[r].pc \in Asking /\ request'[r].dead => ~ Live(request'[r].session),
         request'[r].again =>
           Complete(Sizes(r)) /\ request'[r].pc \in {"asks", "allowed", "filling"},
         request'[r].pc = "filling" => request'[r].again /\ Sizes(r) # << >> /\ Place,
         Permit(r)
  PROVE  Effect(r)
<1>2. /\ Calm /\ StoreTyped /\ sessions' = sessions
  BY OnlyRequestRests
<1>3. LivesOK(r)'
  BY <1>2 DEF LivesOK, Live, Asking, Allowed
<1>4. AccountOK(r)' /\ ~ At(r, "created")'
  BY DEF AccountOK, Asking, Allowed, At
<1>5. SizesOK(r)'
  BY SameSizes DEF HandlerOK
<1>6. StorePlace(r)
  BY DEF StorePlace, At
<1>. QED
  BY <1>2, <1>3, <1>4, <1>5, <1>6 DEF Effect, OwnOK

LEMMA SendEffect ==
  ASSUME AccessTypeOK, NEW r \in Request, HandlerOK(r),
         NEW s \in Session, NEW kind \in Asking, Send(r, s, kind)
  PROVE  Effect(r)
<1>1. request[r].again = FALSE /\ ~ Holds(r)
  BY HoldsNothing DEF Send, At
<1>. PICK user \in Password \cup {Nobody}, dead \in {~ Live(s)} :
       Becomes(r, kind, user, s, request[r].sizes, FALSE, dead)
  BY <1>1, RequestStarts
<1>2. OnlyRequest /\ permits' = permits /\ submitted' = submitted
  BY DEF Send
<1>3. Permit(r)
  BY <1>1, <1>2 DEF Becomes, Permit, Holds, Holding, Asking
<1>4. kind \notin Allowed
  BY DEF Asking, Allowed
<1>5. kind \in Asking \cup Allowed /\ kind # "filling" /\ FALSE \in BOOLEAN
  BY DEF Asking
<1>. QED
  BY <1>2, <1>3, <1>4, <1>5, CompanionMove DEF Becomes

(* The steps from one wait of the Companion to the next.                    *)
LEMMA GoesOn ==
  ASSUME AccessTypeOK, NEW r \in Request, HandlerOK(r), OnlyRequest, submitted' = submitted,
         request[r].pc \in Asking \cup Allowed,
         NEW pc \in Allowed, Go(r, pc), ~ request[r].dead,
         request[r].again => pc \in {"allowed", "filling"},
         pc = "filling" => request[r].again /\ Sizes(r) # << >> /\ Place,
         \/ permits' = permits /\ (Holds(r) <=> pc \in Holding \/ request[r].again)
         \/ permits' = permits - 1 /\ permits > 0 /\ ~ Holds(r) /\ pc \in Holding
  PROVE  Effect(r)
<1>1. /\ request \in [Request -> RequestState] /\ request[r].session \in Session
      /\ request[r].again \in BOOLEAN
  BY DEF AccessTypeOK, RequestState, HandlerOK, LivesOK
<1>2. Becomes(r, pc, request[r].user, request[r].session, request[r].sizes, request[r].again,
              request[r].dead)
  BY <1>1, RequestMoves
<1>3. Permit(r)
  <2>1. Holds(r)' <=> pc \in Holding \/ request[r].again
    BY <1>2 DEF Becomes, Holds
  <2>. QED
    BY <2>1 DEF Permit
<1>4. pc \notin Asking
  BY DEF Asking, Allowed
<1>5. request[r].again => Complete(Sizes(r)) /\ pc \in {"asks", "allowed", "filling"}
  BY DEF HandlerOK, SizesOK
<1>. QED
  BY <1>1, <1>2, <1>3, <1>4, <1>5, CompanionMove DEF Becomes

LEMMA AllowEffect ==
  ASSUME AccessTypeOK, NEW r \in Request, HandlerOK(r), Allow(r)
  PROVE  Effect(r)
<1>. DEFINE pc == IF At(r, "reads") THEN "serves" ELSE "allowed"
<1>1. /\ request[r].pc \in Asking /\ Go(r, pc) /\ OnlyRequest
      /\ permits' = permits /\ submitted' = submitted /\ Live(request[r].session)
  BY DEF Allow, Asks, Asking, Verified
<1>2. ~ request[r].dead
  BY <1>1 DEF HandlerOK, LivesOK
<1>3. /\ request[r].again => pc \in {"allowed", "filling"}
      /\ pc \in Allowed /\ pc # "filling"
      /\ Holds(r) <=> pc \in Holding \/ request[r].again
  BY <1>1 DEF HandlerOK, SizesOK, At, Allowed, Asking, Holds, Holding
<1>. HIDE DEF pc
<1>. QED
  BY <1>1, <1>2, <1>3, GoesOn

(* The permit goes with the handler.                                        *)
LEMMA AnswerEffect ==
  ASSUME AccessTypeOK, NEW r \in Request, Answer(r),
         \/ submitted' = submitted
         \/ submitted' = submitted + 1 /\ At(r, "filling")
  PROVE  Effect(r)
BY OnlyRequestRests, EndEffect DEF Answer

LEMMA TakePermitEffect ==
  ASSUME AccessTypeOK, NEW r \in Request, HandlerOK(r), TakePermit(r)
  PROVE  Effect(r)
<1>1. /\ OnlyRequest /\ submitted' = submitted
      /\ request[r].pc = "allowed" /\ ~ request[r].again
  BY DEF TakePermit, At
<1>2. ~ Holds(r) /\ ~ request[r].dead /\ request[r].pc \in Asking \cup Allowed
  BY <1>1 DEF Holds, Holding, HandlerOK, LivesOK, Allowed
<1>3. CASE Go(r, "access") /\ permits > 0 /\ permits' = permits - 1
  <2>1. "access" \in Allowed /\ "access" \in Holding
    BY DEF Allowed, Holding
  <2>. QED
    BY <1>1, <1>2, <1>3, <2>1, GoesOn
<1>4. CASE End(r) /\ permits' = permits
  BY <1>1, <1>2, <1>4, OnlyRequestRests, EndEffect
<1>. QED
  BY <1>3, <1>4 DEF TakePermit

LEMMA CheckEffect ==
  ASSUME AccessTypeOK, NEW r \in Request, HandlerOK(r), CheckNotebookLM(r)
  PROVE  Effect(r)
<1>1. request[r].pc = "access" /\ submitted' = submitted
  BY DEF CheckNotebookLM, At
<1>2. CASE Go(r, "receiving") /\ permits' = permits /\ OnlyRequest
  <2>1. "receiving" \in Allowed /\ "receiving" \in Holding
    BY DEF Allowed, Holding
  <2>2. /\ Holds(r) /\ ~ request[r].dead /\ request[r].pc \in Asking \cup Allowed
        /\ ~ request[r].again
    BY <1>1 DEF Holds, Holding, HandlerOK, LivesOK, SizesOK, Allowed
  <2>. QED
    BY <1>1, <1>2, <2>1, <2>2, GoesOn
<1>3. CASE Answer(r)
  BY <1>1, <1>3, AnswerEffect
<1>. QED
  BY <1>2, <1>3 DEF CheckNotebookLM

LEMMA ReserveEffect ==
  ASSUME AccessTypeOK, NEW r \in Request, HandlerOK(r), ReservePlace(r)
  PROVE  Effect(r)
<1>1. request[r].pc = "allowed" /\ request[r].again /\ submitted' = submitted
  BY DEF ReservePlace, At
<1>2. CASE Go(r, "filling") /\ permits' = permits /\ OnlyRequest /\ Sizes(r) # << >> /\ Place
  <2>1. "filling" \in Allowed /\ "filling" \in Holding
    BY DEF Allowed, Holding
  <2>2. Holds(r) /\ ~ request[r].dead /\ request[r].pc \in Asking \cup Allowed
    BY <1>1 DEF Holds, HandlerOK, LivesOK, Allowed
  <2>. QED
    BY <1>1, <1>2, <2>1, <2>2, GoesOn
<1>3. CASE Answer(r)
  BY <1>1, <1>3, AnswerEffect
<1>. QED
  BY <1>2, <1>3 DEF ReservePlace

(* What arrives is within the limits.                                       *)
LEMMA ReceivesEffect ==
  ASSUME AccessTypeOK, NEW r \in Request, HandlerOK(r), NEW sizes \in Seq(Nat),
         Receives(r, sizes), Len(sizes) <= MaxJobFiles,
         \A i \in 1 .. Len(sizes) : sizes[i] <= MaxDocumentBytes,
         Total(sizes) <= MaxJobUploadBytes
  PROVE  Effect(r)
<1>1. /\ request[r].pc = "receiving" /\ OnlyRequest /\ permits' = permits
      /\ submitted' = submitted
  BY DEF Receives, At
<1>2. /\ request[r].again = FALSE /\ ~ request[r].dead
      /\ request \in [Request -> RequestState] /\ request[r].session \in Session
  <2>1. request \in [Request -> RequestState] /\ request[r].again \in BOOLEAN
    BY DEF AccessTypeOK, RequestState
  <2>. QED
    BY <1>1, <2>1 DEF HandlerOK, SizesOK, LivesOK, Allowed
<1>3. Becomes(r, "receiving", request[r].user, request[r].session, sizes, FALSE, request[r].dead)
  BY <1>1, <1>2, RequestMoves DEF Receives
<1>4. /\ request'[r].pc = "receiving" /\ request'[r].again = FALSE /\ ~ request'[r].dead
      /\ request'[r].session \in Session /\ Sizes(r)' = sizes
  BY <1>2, <1>3 DEF Becomes, Sizes
<1>5. LivesOK(r)' /\ AccountOK(r)' /\ ~ At(r, "created")'
  BY <1>4 DEF LivesOK, AccountOK, Asking, At
<1>6. SizesOK(r)'
  BY <1>4 DEF SizesOK, At
<1>7. Permit(r) /\ StorePlace(r)
  BY <1>1, <1>4 DEF Permit, StorePlace, Holds, Holding, At
<1>. QED
  BY <1>1, <1>3, <1>5, <1>6, <1>7, OnlyRequestRests DEF Becomes, Effect, OwnOK

LEMMA StartFileEffect ==
  ASSUME AccessTypeOK, NEW r \in Request, HandlerOK(r), StartFile(r)
  PROVE  Effect(r)
<1>. DEFINE sizes == Sizes(r)  new == Append(sizes, 0)
<1>1. sizes \in Seq(Nat) /\ MaxDocumentBytes \in Nat /\ MaxJobFiles \in Nat
  BY AccessAssumption DEF AccessTypeOK, RequestState, Sizes
<1>2. /\ Receives(r, new) /\ Len(sizes) < MaxJobFiles
      /\ \A i \in 1 .. Len(sizes) : sizes[i] <= MaxDocumentBytes
      /\ Total(sizes) <= MaxJobUploadBytes
  BY DEF StartFile, HandlerOK, SizesOK
<1>. HIDE DEF sizes
<1>3. /\ new \in Seq(Nat) /\ Len(new) <= MaxJobFiles
      /\ \A i \in 1 .. Len(new) : new[i] <= MaxDocumentBytes
  BY <1>1, <1>2
<1>4. Total(new) <= MaxJobUploadBytes
  BY <1>1, <1>2, TotalOfNew
<1>. HIDE DEF new
<1>. QED
  BY <1>2, <1>3, <1>4, ReceivesEffect

LEMMA WriteChunkEffect ==
  ASSUME AccessTypeOK, NEW r \in Request, HandlerOK(r), WriteChunk(r)
  PROVE  Effect(r)
<1>. DEFINE sizes == Sizes(r)
<1>1. /\ sizes \in Seq(Nat) /\ MaxDocumentBytes \in Nat /\ MaxJobUploadBytes \in Nat
      /\ sizes # << >>
  BY AccessAssumption DEF AccessTypeOK, RequestState, Sizes, WriteChunk
<1>2. /\ Len(sizes) <= MaxJobFiles
      /\ \A i \in 1 .. Len(sizes) : sizes[i] <= MaxDocumentBytes
      /\ Total(sizes) <= MaxJobUploadBytes
  BY DEF HandlerOK, SizesOK
<1>3. PICK n \in 1 .. MaxDocumentBytes :
        Fits(sizes, n) /\ Receives(r, [sizes EXCEPT ![Len(sizes)] = @ + n])
  BY DEF WriteChunk
<1>. HIDE DEF sizes
<1>. DEFINE new == [sizes EXCEPT ![Len(sizes)] = @ + n]
<1>4. n \in Nat
  BY <1>1
<1>5. /\ new \in Seq(Nat) /\ Len(new) = Len(sizes)
      /\ new[Len(sizes)] = sizes[Len(sizes)] + n
      /\ \A i \in 1 .. Len(sizes) - 1 : new[i] = sizes[i]
      /\ Total(new) = Total(sizes) + n
  BY <1>1, <1>4, TotalOfChunk
<1>6. Receives(r, new)
  BY <1>3
<1>. HIDE DEF new
<1>7. Total(sizes) \in Nat
  BY <1>1, TotalIsNat
<1>8. Total(new) <= MaxJobUploadBytes
  BY <1>1, <1>3, <1>4, <1>5, <1>7 DEF Fits
<1>9. \A i \in 1 .. Len(new) : new[i] <= MaxDocumentBytes
  <2>1. Len(sizes) \in Nat /\ sizes[Len(sizes)] \in Nat
    BY <1>1
  <2>2. new[Len(sizes)] <= MaxDocumentBytes
    BY <1>1, <1>3, <1>4, <1>5, <2>1 DEF Fits
  <2>3. \A i \in 1 .. Len(sizes) : i = Len(sizes) \/ i \in 1 .. Len(sizes) - 1
    BY <2>1
  <2>. QED
    BY <1>2, <1>5, <2>1, <2>2, <2>3
<1>. QED
  BY <1>2, <1>5, <1>6, <1>8, <1>9, ReceivesEffect

(* Everything has arrived: the second question remembers the session as it   *)
(* is now.                                                                  *)
LEMMA ReceivedEffect ==
  ASSUME AccessTypeOK, NEW r \in Request, HandlerOK(r), Received(r)
  PROVE  Effect(r)
<1>1. /\ request[r].pc = "receiving" /\ OnlyRequest /\ permits' = permits
      /\ submitted' = submitted /\ Complete(Sizes(r))
  BY DEF Received, At
<1>2. /\ request \in [Request -> RequestState] /\ request[r].session \in Session
      /\ Holds(r)
  BY <1>1 DEF AccessTypeOK, HandlerOK, LivesOK, Allowed, Holds, Holding
<1>. PICK dead \in {~ Live(request[r].session)} :
       Becomes(r, "asks", request[r].user, request[r].session, request[r].sizes, TRUE, dead)
  BY <1>2, RequestMoves
<1>4. /\ request' \in [Request -> RequestState]
      /\ \A q \in Request \ {r} : request'[q] = request[q]
      /\ request'[r].pc = "asks" /\ request'[r].session = request[r].session
      /\ request'[r].sizes = request[r].sizes /\ request'[r].again = TRUE
      /\ request'[r].dead = dead
  BY DEF Becomes
<1>5. Permit(r)
  BY <1>1, <1>2, <1>4 DEF Permit, Holds
<1>6. /\ request'[r].pc \in Asking \cup Allowed /\ request'[r].pc \notin Allowed
      /\ request'[r].pc # "filling"
  BY <1>4 DEF Asking, Allowed
<1>7. request'[r].dead => ~ Live(request'[r].session)
  BY <1>4
<1>. QED
  BY <1>1, <1>2, <1>4, <1>5, <1>6, <1>7, CompanionMove

LEMMA CompanionEffect ==
  ASSUME AccessTypeOK, NEW r \in Request, HandlerOK(r), CompanionStep(r)
  PROVE  Effect(r)
<1>1. ASSUME NEW s \in Session, NEW kind \in {"asks", "reads"}, Send(r, s, kind)
      PROVE  Effect(r)
  BY <1>1, SendEffect DEF Asking
<1>2. CASE Allow(r)
  BY <1>2, AllowEffect
<1>3. CASE Deny(r) \/ Serve(r) \/ Fail(r)
  BY <1>3, AnswerEffect DEF Deny, Serve, Fail
<1>4. CASE SubmitUpload(r)
  BY <1>4, AnswerEffect DEF SubmitUpload
<1>5. CASE TakePermit(r)
  BY <1>5, TakePermitEffect
<1>6. CASE CheckNotebookLM(r)
  BY <1>6, CheckEffect
<1>7. CASE StartFile(r)
  BY <1>7, StartFileEffect
<1>8. CASE WriteChunk(r)
  BY <1>8, WriteChunkEffect
<1>9. CASE Received(r)
  BY <1>9, ReceivedEffect
<1>10. CASE ReservePlace(r)
  BY <1>10, ReserveEffect
<1>. QED
  BY <1>1, <1>2, <1>3, <1>4, <1>5, <1>6, <1>7, <1>8, <1>9, <1>10 DEF CompanionStep

--------------------------------------------------------------------------------
(* A handler that does not step keeps what is claimed of it.                *)
Kept(q) ==
  /\ request'[q].pc = request[q].pc /\ request'[q].user = request[q].user
  /\ request'[q].session = request[q].session /\ request'[q].sizes = request[q].sizes
  /\ request'[q].again = request[q].again /\ request'[q].dead = request[q].dead

LEMMA OtherKeeps ==
  ASSUME Calm, NEW q \in Request, HandlerOK(q), Kept(q)
  PROVE  HandlerOK(q)'
<1>1. SizesOK(q)'
  BY DEF HandlerOK, SizesOK, Sizes, At, Kept
<1>2. AccountOK(q)'
  BY DEF HandlerOK, AccountOK, Kept, Calm
<1>3. LivesOK(q)'
  <2>1. /\ request[q].pc \in Asking \cup Allowed => request[q].session \in Session
        /\ request[q].pc \in Asking /\ request[q].dead => ~ Live(request[q].session)
        /\ request[q].pc \in Allowed => ~ request[q].dead
    BY DEF HandlerOK, LivesOK
  <2>2. ASSUME NEW s \in Session, s = request[q].session, ~ Live(s)
        PROVE  ~ Live(request[q].session)'
    <3>1. ~ Live(s)'
      BY <2>2 DEF Calm
    <3>2. request'[q].session = s
      BY <2>2 DEF Kept
    <3>. QED
      BY <3>1, <3>2 DEF Live
  <2>3. request[q].pc \in Asking /\ request[q].dead => ~ Live(request[q].session)'
    BY <2>1, <2>2
  <2>. QED
    BY <2>1, <2>3 DEF LivesOK, Kept
<1>. QED
  BY <1>1, <1>2, <1>3 DEF HandlerOK

LEMMA PermitsKept ==
  ASSUME AccessInv, NEW r \in Request, Effect(r)
  PROVE  HoldersOK'
<1>. DEFINE H == {q \in Request : Holds(q)}  F == Filling
<1>1. \A q \in Request \ {r} : (Holds(q)' <=> Holds(q)) /\ (At(q, "filling")' <=> At(q, "filling"))
  BY DEF Effect, Holds, At
<1>2. /\ IsFiniteSet(H) /\ F \subseteq H /\ permits \in Nat /\ submitted \in Nat
      /\ permits + Cardinality(H) = UploadPermits /\ submitted + Cardinality(F) <= MaxActive
      /\ MaxActive \in Nat
  BY AccessAssumption DEF AccessInv, AccessTypeOK, HoldersOK, PermitsComeBack, Filling, Holds, Holding
<1>3. /\ IsFiniteSet(F) /\ Cardinality(F) \in Nat /\ Cardinality(H) \in Nat
      /\ IsFiniteSet(H \cup {r}) /\ IsFiniteSet(H \ {r}) /\ IsFiniteSet(F \cup {r})
      /\ r \notin H => Cardinality(H \cup {r}) = Cardinality(H) + 1
      /\ r \in H => Cardinality(H \ {r}) = Cardinality(H) - 1
      /\ Cardinality(F \cup {r}) <= Cardinality(F) + 1
      /\ r \in F => Cardinality(F \ {r}) = Cardinality(F) - 1
  <2>1. IsFiniteSet(F)
    BY <1>2, FS_Subset
  <2>. HIDE DEF H, F
  <2>2. Cardinality(F) \in Nat /\ Cardinality(H) \in Nat
    BY <1>2, <2>1, FS_CardinalityType
  <2>3. /\ IsFiniteSet(H \cup {r})
        /\ r \notin H => Cardinality(H \cup {r}) = Cardinality(H) + 1
    BY <1>2, FS_AddElement
  <2>4. /\ IsFiniteSet(F \cup {r})
        /\ r \notin F => Cardinality(F \cup {r}) = Cardinality(F) + 1
        /\ r \in F => Cardinality(F \cup {r}) = Cardinality(F)
    BY <2>1, FS_AddElement
  <2>5. /\ IsFiniteSet(H \ {r})
        /\ r \in H => Cardinality(H \ {r}) = Cardinality(H) - 1
        /\ r \in F => Cardinality(F \ {r}) = Cardinality(F) - 1
    BY <1>2, <2>1, FS_RemoveElement
  <2>. QED
    BY <2>1, <2>2, <2>3, <2>4, <2>5
<1>4. /\ IsFiniteSet(H') /\ permits' + Cardinality(H') = UploadPermits
  <2>1. CASE permits' = permits /\ (Holds(r)' <=> Holds(r))
    <3>1. H' = H
      BY <1>1, <2>1
    <3>. HIDE DEF H
    <3>. QED
      BY <1>2, <2>1, <3>1
  <2>2. CASE permits' = permits - 1 /\ permits > 0 /\ ~ Holds(r) /\ Holds(r)'
    <3>1. H' = H \cup {r} /\ r \notin H
      BY <1>1, <2>2
    <3>. HIDE DEF H
    <3>. QED
      BY <1>2, <1>3, <2>2, <3>1
  <2>3. CASE permits' = permits + 1 /\ Holds(r) /\ ~ Holds(r)'
    <3>1. H' = H \ {r} /\ r \in H
      BY <1>1, <2>3
    <3>. HIDE DEF H
    <3>. QED
      BY <1>2, <1>3, <2>3, <3>1
  <2>. QED
    BY <2>1, <2>2, <2>3 DEF Effect, Permit
<1>5. submitted' + Cardinality(F') <= MaxActive
  <2>1. CASE submitted' = submitted /\ (At(r, "filling")' => At(r, "filling"))
    <3>1. F' \subseteq F
      BY <1>1, <2>1 DEF Filling, At
    <3>2. Cardinality(F') <= Cardinality(F) /\ Cardinality(F') \in Nat
      BY <1>3, <3>1, FS_Subset, FS_CardinalityType
    <3>. HIDE DEF F
    <3>. QED
      BY <1>2, <1>3, <2>1, <3>2
  <2>2. CASE submitted' = submitted /\ Place
    <3>1. F' \subseteq F \cup {r}
      BY <1>1 DEF Filling, At
    <3>2. Cardinality(F') <= Cardinality(F \cup {r}) /\ Cardinality(F') \in Nat
          /\ Cardinality(F \cup {r}) \in Nat
      BY <1>3, <3>1, FS_Subset, FS_CardinalityType
    <3>3. submitted + Cardinality(F) < MaxActive
      BY <2>2 DEF Place
    <3>. HIDE DEF F
    <3>. QED
      BY <1>2, <1>3, <2>2, <3>2, <3>3
  <2>3. CASE submitted' = submitted + 1 /\ At(r, "filling") /\ ~ At(r, "filling")'
    <3>1. F' = F \ {r} /\ r \in F
      BY <1>1, <2>3 DEF Filling, At
    <3>. HIDE DEF F
    <3>. QED
      BY <1>2, <1>3, <2>3, <3>1
  <2>. QED
    BY <2>1, <2>2, <2>3 DEF Effect, StorePlace
<1>. QED
  BY <1>4, <1>5 DEF HoldersOK, PermitsComeBack

LEMMA CreatedKept ==
  ASSUME AccessInv, NEW r \in Request, Effect(r)
  PROVE  CreatedOnce'
<1>1. \A q \in Request \ {r} : request'[q] = request[q]
  BY DEF Effect
<1>2. \A q \in Request : At(q, "created") => users[request[q].user] # NoAccount
  BY DEF AccessInv, AccountOK, At
<1>3. At(r, "created")' => \/ At(r, "created") /\ request'[r].user = request[r].user
                           \/ users[request'[r].user] = NoAccount
  BY DEF Effect
<1>4. ASSUME NEW q \in Request \ {r}, At(r, "created")', At(q, "created")',
             request'[r].user = request'[q].user
      PROVE  FALSE
  <2>1. At(q, "created") /\ request'[q].user = request[q].user
    BY <1>1, <1>4 DEF At
  <2>2. CASE At(r, "created") /\ request'[r].user = request[r].user
    BY <1>4, <2>1, <2>2 DEF AccessInv, CreatedOnce
  <2>3. CASE users[request'[r].user] = NoAccount
    BY <1>2, <1>4, <2>1, <2>3
  <2>. QED
    BY <1>3, <1>4, <2>2, <2>3
<1>5. ASSUME NEW p \in Request, NEW q \in Request, At(p, "created")', At(q, "created")',
             request'[p].user = request'[q].user
      PROVE  p = q
  <2>1. CASE p = r \/ q = r
    BY <1>4, <1>5, <2>1
  <2>2. CASE p # r /\ q # r
    BY <1>1, <1>5, <2>2 DEF At, AccessInv, CreatedOnce
  <2>. QED
    BY <2>1, <2>2
<1>. QED
  BY <1>5 DEF CreatedOnce, At

(* Steps of a handler keep the invariant.                                   *)
LEMMA EffectKeeps ==
  ASSUME AccessInv, NEW r \in Request, Effect(r)
  PROVE  AccessInv'
<1>1. AccessTypeOK'
  <2>1. permits' \in Nat
    BY DEF Effect, Permit, AccessInv, AccessTypeOK
  <2>2. submitted' \in Nat
    BY DEF Effect, StorePlace, AccessInv, AccessTypeOK
  <2>. QED
    BY <2>1, <2>2 DEF Effect, StoreTyped, AccessTypeOK
<1>2. ASSUME NEW q \in Request PROVE HandlerOK(q)'
  <2>1. CASE q = r
    BY <2>1 DEF Effect, OwnOK, HandlerOK
  <2>2. CASE q # r
    BY <2>2, OtherKeeps DEF Effect, Kept, AccessInv, HandlerOK
  <2>. QED
    BY <2>1, <2>2
<1>. QED
  BY <1>1, <1>2, PermitsKept, CreatedKept DEF AccessInv, HandlerOK

(* Steps that are nobody's.                                                 *)
LEMMA NobodysKeep ==
  ASSUME AccessInv, Calm, StoreTyped, request' \in [Request -> RequestState],
         \A q \in Request : Kept(q), permits' = permits,
         submitted' \in Nat, submitted' <= submitted
  PROVE  AccessInv'
<1>1. AccessTypeOK'
  BY DEF AccessInv, AccessTypeOK, StoreTyped
<1>2. \A q \in Request : HandlerOK(q)'
  BY OtherKeeps DEF AccessInv, HandlerOK
<1>3. HoldersOK'
  <2>1. /\ {q \in Request : Holds(q)}' = {q \in Request : Holds(q)} /\ Filling' = Filling
    BY DEF Kept, Holds, Filling
  <2>2. Cardinality(Filling) \in Nat
    <3>1. Filling \subseteq {q \in Request : Holds(q)}
      BY DEF Filling, Holds, Holding
    <3>. QED
      BY <3>1, FS_Subset, FS_CardinalityType DEF AccessInv, HoldersOK
  <2>3. submitted \in Nat /\ MaxActive \in Nat
    BY AccessAssumption DEF AccessInv, AccessTypeOK
  <2>4. submitted' + Cardinality(Filling') <= MaxActive
    BY <2>1, <2>2, <2>3 DEF AccessInv, HoldersOK
  <2>. QED
    BY <2>1, <2>4 DEF AccessInv, HoldersOK, PermitsComeBack
<1>4. CreatedOnce'
  BY DEF AccessInv, CreatedOnce, At, Kept
<1>. QED
  BY <1>1, <1>2, <1>3, <1>4 DEF AccessInv, HandlerOK

(* Time passes: nothing that was over lives again.                          *)
LEMMA TickKeeps ==
  ASSUME AccessInv, Tick, UNCHANGED <<permits, submitted>>
  PROVE  AccessInv'
<1>. DEFINE Row == [user : Password \cup {Nobody}, left : Int]
<1>1. /\ users \in [Password -> Hash \cup {NoAccount}] /\ sessions \in [Session -> Row]
      /\ token \in [Session -> Int] /\ request \in [Request -> RequestState] /\ submitted \in Nat
  BY DEF AccessInv, AccessTypeOK
<1>2. \A n \in Int : Less(n) \in Int /\ (Less(n) > 0 => n > 0)
  BY DEF Less
<1>3. ASSUME NEW s \in Session
      PROVE  sessions'[s] \in Row /\ (Live(s)' => Live(s)) /\ token'[s] \in Int
  <2>. DEFINE row == sessions[s]  new == [row EXCEPT !.left = Less(@)]
  <2>1. row \in Row /\ row.left \in Int
    BY <1>1
  <2>. HIDE DEF row
  <2>2. new \in Row /\ new.user = row.user /\ new.left = Less(row.left)
    BY <1>2, <2>1
  <2>3. sessions'[s] = new
    BY DEF Tick, row
  <2>4. token'[s] \in Int
    BY <1>1, <1>2 DEF Tick
  <2>. HIDE DEF new
  <2>5. Live(s)' => Live(s)
    BY <1>2, <2>1, <2>2, <2>3 DEF Live, row
  <2>. QED
    BY <2>2, <2>3, <2>4, <2>5
<1>4. StoreTyped /\ Calm
  <2>1. /\ sessions' = [s \in Session |-> sessions'[s]] /\ token' = [s \in Session |-> token'[s]]
        /\ users' = users
    BY DEF Tick
  <2>2. sessions' \in [Session -> Row] /\ token' \in [Session -> Int]
    BY <1>3, <2>1
  <2>. QED
    BY <1>1, <1>3, <2>1, <2>2 DEF StoreTyped, Calm
<1>5. ASSUME NEW q \in Request PROVE request'[q] \in RequestState /\ Kept(q)
  <2>. DEFINE x == request[q]  new == [x EXCEPT !.left = Less(@)]
  <2>1. x \in RequestState /\ x.left \in Int
    BY <1>1 DEF RequestState
  <2>2. request'[q] = new
    BY DEF Tick
  <2>. HIDE DEF x
  <2>3. /\ new \in RequestState /\ new.pc = x.pc /\ new.user = x.user /\ new.session = x.session
        /\ new.sizes = x.sizes /\ new.again = x.again /\ new.dead = x.dead
    BY <1>2, <2>1 DEF RequestState
  <2>. HIDE DEF new
  <2>. QED
    BY <2>2, <2>3 DEF Kept, x
<1>6. request' \in [Request -> RequestState]
  <2>1. request' = [q \in Request |-> request'[q]]
    BY DEF Tick
  <2>. QED
    BY <1>5, <2>1
<1>. QED
  BY <1>1, <1>4, <1>5, <1>6, NobodysKeep

LEMMA LogOutKeeps ==
  ASSUME AccessInv, NEW s \in Session, LogOut(s), UNCHANGED <<permits, submitted>>
  PROVE  AccessInv'
<1>. DEFINE Row == [user : Password \cup {Nobody}, left : Int]
<1>1. /\ users \in [Password -> Hash \cup {NoAccount}] /\ sessions \in [Session -> Row]
      /\ token \in [Session -> Int] /\ request \in [Request -> RequestState] /\ submitted \in Nat
  BY DEF AccessInv, AccessTypeOK
<1>2. NoRow \in Row /\ NoRow.user = Nobody
  BY DEF NoRow
<1>3. /\ sessions' \in [Session -> Row] /\ sessions'[s] = NoRow
      /\ \A t \in Session \ {s} : sessions'[t] = sessions[t]
  BY <1>1, <1>2 DEF LogOut
<1>4. \A t \in Session : Live(t)' => Live(t)
  BY <1>2, <1>3 DEF Live
<1>5. UNCHANGED <<users, token, request>>
  BY DEF LogOut
<1>6. Calm /\ StoreTyped
  BY <1>1, <1>3, <1>4, <1>5 DEF Calm, StoreTyped
<1>. QED
  BY <1>1, <1>5, <1>6, NobodysKeep DEF Kept

LEMMA RestsKeeps ==
  ASSUME AccessInv, UNCHANGED <<users, sessions, token, request, permits>>,
         submitted' \in Nat, submitted' <= submitted
  PROVE  AccessInv'
<1>1. Calm /\ StoreTyped /\ request' \in [Request -> RequestState]
  BY StoreRests DEF AccessInv, AccessTypeOK
<1>. QED
  BY <1>1, NobodysKeep DEF Kept

(* Every state keeps every part.                                            *)
LEMMA AccessKept == AccessSpec => []AccessInv
<1>1. AccessInv /\ [Next]_vars => AccessInv'
  <2>. SUFFICES ASSUME AccessInv, [Next]_vars PROVE AccessInv'
    OBVIOUS
  <2>0. submitted \in Nat /\ AccessTypeOK /\ \A r \in Request : HandlerOK(r)
    BY DEF AccessInv, AccessTypeOK, HandlerOK
  <2>1. ASSUME NEW r \in Request, WebStep(r) PROVE AccessInv'
    BY <2>0, <2>1, WebEffect, EffectKeeps
  <2>2. ASSUME NEW r \in Request, CompanionStep(r) PROVE AccessInv'
    BY <2>0, <2>2, CompanionEffect, EffectKeeps
  <2>3. CASE Tick /\ UNCHANGED <<permits, submitted>>
    BY <2>3, TickKeeps
  <2>4. CASE OrphanHashed /\ UNCHANGED <<permits, submitted>>
    BY <2>0, <2>4, RestsKeeps DEF OrphanHashed
  <2>5. ASSUME NEW s \in Session, LogOut(s), UNCHANGED <<permits, submitted>>
        PROVE  AccessInv'
    BY <2>5, LogOutKeeps
  <2>6. CASE JobEnds
    BY <2>0, <2>6, RestsKeeps DEF JobEnds
  <2>7. CASE UNCHANGED vars
    BY <2>0, <2>7, RestsKeeps DEF vars
  <2>. QED
    BY <2>1, <2>2, <2>3, <2>4, <2>5, <2>6, <2>7 DEF Next, Others
<1>. QED
  BY <1>1, InitAccess, PTL DEF AccessSpec

--------------------------------------------------------------------------------
(* A session that is over when it is asked about opens nothing, however the *)
(* web server, its clock and other handlers act in between                  *)
(* (companion_auth.rs, authorize).                                          *)
THEOREM DeadServesNothing == AccessSpec => []ServedWhileLive
<1>1. AccessInv => ServedWhileLive
  BY DEF AccessInv, LivesOK, ServedWhileLive, Allowed
<1>. QED
  BY <1>1, AccessKept, PTL

(* Every permit for an upload is free or held by one handler, however the   *)
(* handlers end (companion/uploads.rs, create_job).                         *)
THEOREM PermitsBalance == AccessSpec => []PermitsComeBack
<1>1. AccessInv => PermitsComeBack
  BY DEF AccessInv, HoldersOK
<1>. QED
  BY <1>1, AccessKept, PTL

(* A job is submitted within every limit, and the store has a place for     *)
(* each one that is being stored (job_uploads.rs).                          *)
THEOREM UploadsAreBounded == AccessSpec => []WithinLimits
<1>1. AccessInv => WithinLimits
  <2>. SUFFICES ASSUME AccessInv PROVE WithinLimits
    OBVIOUS
  <2>1. submitted + Cardinality(Filling) <= MaxActive
    BY DEF AccessInv, HoldersOK
  <2>2. ASSUME NEW r \in Filling
        PROVE  /\ Len(Sizes(r)) \in 1 .. MaxJobFiles
               /\ \A i \in DOMAIN Sizes(r) : Sizes(r)[i] \in 1 .. MaxDocumentBytes
               /\ Total(Sizes(r)) <= MaxJobUploadBytes
    <3>. DEFINE sizes == Sizes(r)
    <3>1. sizes \in Seq(Nat) /\ r \in Request /\ MaxJobFiles \in Nat /\ MaxDocumentBytes \in Nat
      BY AccessAssumption DEF Filling, AccessInv, AccessTypeOK, RequestState, Sizes
    <3>2. /\ sizes # << >> /\ Complete(sizes) /\ Len(sizes) <= MaxJobFiles
          /\ \A i \in 1 .. Len(sizes) : sizes[i] <= MaxDocumentBytes
          /\ Total(sizes) <= MaxJobUploadBytes
      BY <3>1 DEF Filling, AccessInv, SizesOK, At
    <3>. HIDE DEF sizes
    <3>3. Len(sizes) \in 1 .. MaxJobFiles
      BY <3>1, <3>2
    <3>4. \A i \in DOMAIN sizes : sizes[i] \in 1 .. MaxDocumentBytes
      BY <3>1, <3>2 DEF Complete
    <3>. QED
      BY <3>2, <3>3, <3>4 DEF sizes
  <2>. QED
    BY <2>1, <2>2 DEF WithinLimits
<1>. QED
  BY <1>1, AccessKept, PTL

(* One of those that provision the same password is told so, and a server   *)
(* that serves has its account (web_database.rs, create_user).              *)
THEOREM OneProvisions == AccessSpec => []ProvisionedOnce
<1>1. AccessInv => ProvisionedOnce
  BY DEF AccessInv, AccountOK, CreatedOnce, ProvisionedOnce, At
<1>. QED
  BY <1>1, AccessKept, PTL
================================================================================
