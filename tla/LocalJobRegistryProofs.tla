------------------------- MODULE LocalJobRegistryProofs ------------------------
(***************************************************************************)
(* The registry's invariants, for every set of identifiers and owners and  *)
(* for every value of the limits.  First what the transitions of one job   *)
(* keep, for every number of sources; then what the operations of the      *)
(* queue do to it, whatever its length: `VecDeque::retain` is a recursive  *)
(* function, whose existence and effect follow by the least                *)
(* counterexample, a natural number; then the registry itself, and that it *)
(* implements JobLifecycle.                                                *)
(***************************************************************************)
EXTENDS LocalJobRegistry, TLAPS, WellFoundedInduction, FiniteSetTheorems

(* The accounts of a job: no outcome before the start, never more outcomes  *)
(* than sources, and success only when every source is done or skipped.     *)
Accounted(job) ==
  /\ Recorded(job) <= job.discovered
  /\ job.discovered \in {0, job.files}
  /\ job.status = "queued" => job.discovered = 0
  /\ job.status = "running" => job.discovered = job.files
  /\ job.status = "completed" =>
       job.outcomes["failed"] = 0 /\ Recorded(job) = job.files

JobOK(job) == job \in Job /\ Accounted(job)

LEMMA NewJobOK ==
  ASSUME NEW n \in 1 .. MaxJobFiles
  PROVE  JobOK(NewJob(n)) /\ NewJob(n).status = "queued"
BY JobStateAssumption
DEF JobOK, Accounted, Recorded, Job, NewJob, Status, Terminal, Outcome

LEMMA StartOK ==
  ASSUME NEW job, JobOK(job), MayStart(job)
  PROVE  JobOK(Start(job)) /\ Start(job).status = "running"
<1>1. /\ job \in Job
      /\ job.files \in 0 .. MaxJobFiles
      /\ \A o \in Outcome : job.outcomes[o] \in 0 .. MaxJobFiles
  BY JobStateAssumption DEF JobOK, Job
<1>2. /\ Start(job).outcomes = job.outcomes
      /\ Start(job).files = job.files
      /\ Start(job).discovered = job.files
      /\ Start(job).status = "running"
      /\ Start(job).artifacts = job.artifacts
  BY <1>1 DEF Job, Start
<1>3. Start(job) \in Job
  BY <1>1 DEF Job, Start, Status
<1>4. Recorded(Start(job)) = Recorded(job)
  BY <1>2 DEF Recorded
<1>5. Recorded(job) \in Int /\ Recorded(job) <= 0
  BY <1>1 DEF JobOK, Accounted, MayStart, Recorded, Outcome
<1>6. Recorded(job) <= job.files
  BY <1>1, <1>5
<1>. QED
  BY <1>2, <1>3, <1>4, <1>6 DEF JobOK, Accounted

LEMMA RecordOK ==
  ASSUME NEW job, JobOK(job), MayRecord(job), NEW outcome \in Outcome
  PROVE  JobOK(RecordSource(job, outcome)) /\ RecordSource(job, outcome).status = "running"
<1>. DEFINE new == RecordSource(job, outcome)
<1>1. /\ job \in Job
      /\ job.status = "running"
      /\ Recorded(job) < job.discovered
      /\ job.discovered = job.files
      /\ job.files \in 1 .. MaxJobFiles
  BY DEF JobOK, Accounted, MayRecord, Job
<1>2. /\ new.status = job.status
      /\ new.files = job.files
      /\ new.discovered = job.discovered
      /\ new.outcomes = [job.outcomes EXCEPT ![outcome] = @ + 1]
  <2>. DEFINE more == [job.outcomes EXCEPT ![outcome] = @ + 1]
  <2>1. new = [job EXCEPT !.outcomes = more]
    BY DEF RecordSource
  <2>. HIDE DEF new, more
  <2>2. /\ new.status = job.status
        /\ new.files = job.files
        /\ new.discovered = job.discovered
        /\ new.outcomes = more
    BY <1>1, <2>1 DEF Job
  <2>. QED
    BY <2>2 DEF more
<1>3. \A o \in Outcome : job.outcomes[o] \in 0 .. MaxJobFiles
  BY <1>1 DEF Job
<1>4. Recorded(new) = Recorded(job) + 1
  BY <1>1, <1>2, <1>3 DEF Recorded, Outcome, Job
<1>5. job.outcomes[outcome] < MaxJobFiles
  BY <1>1, <1>3, JobStateAssumption DEF Recorded, Outcome
<1>6. new.outcomes \in [Outcome -> 0 .. MaxJobFiles]
  BY <1>1, <1>2, <1>3, <1>5, JobStateAssumption DEF Job
<1>7. new \in Job
  BY <1>1, <1>6 DEF RecordSource, Job
<1>8. Recorded(job) \in Int
  BY <1>3 DEF Recorded, Outcome
<1>. HIDE DEF new
<1>9. JobOK(new)
  BY <1>1, <1>2, <1>4, <1>7, <1>8 DEF JobOK, Accounted
<1>. QED
  BY <1>1, <1>2, <1>9 DEF new

LEMMA FinishOK ==
  ASSUME NEW job, JobOK(job), NEW status, MayFinish(job, status),
         NEW artifacts \in SUBSET Artifact
  PROVE  JobOK(FinishJob(job, status, artifacts))
           /\ FinishJob(job, status, artifacts).status = status
<1>. DEFINE new == FinishJob(job, status, artifacts)
<1>1. /\ job \in Job
      /\ status \in Terminal
      /\ job.status \in {"queued", "running"}
  BY DEF JobOK, MayFinish, IsTerminal, Job, Status
<1>2. /\ new.status = status
      /\ new.files = job.files
      /\ new.discovered = job.discovered
      /\ new.outcomes = job.outcomes
      /\ new \in Job
  BY <1>1 DEF FinishJob, Job, Status
<1>3. \A o \in Outcome : job.outcomes[o] \in Int
  BY <1>1 DEF Job
<1>4. status = "completed" =>
        job.outcomes["failed"] = 0 /\ Recorded(job) = job.files
  BY <1>1, <1>3 DEF MayFinish, JobOK, Accounted, Recorded, Outcome
<1>5. Recorded(new) = Recorded(job)
  BY <1>2 DEF Recorded
<1>. HIDE DEF new
<1>6. Accounted(new)
  BY <1>1, <1>2, <1>4, <1>5 DEF JobOK, Accounted, Terminal
<1>. QED
  BY <1>2, <1>6 DEF JobOK, new

--------------------------------------------------------------------------------
(* Membership and order in a sequence: what the registry's invariants say   *)
(* about the queue.                                                         *)
Lists(line, x) == \E i \in 1 .. Len(line) : line[i] = x

Precedes(line, x, y) ==
  \E i, j \in 1 .. Len(line) : i < j /\ line[i] = x /\ line[j] = y

(* What the other operations of the queue do to membership and order.       *)
LEMMA AppendOrders ==
  ASSUME NEW S, NEW K \in Seq(S), NEW e \in S
  PROVE  /\ \A x : Lists(Append(K, e), x) <=> Lists(K, x) \/ x = e
         /\ \A x, y : Precedes(Append(K, e), x, y)
                        <=> Precedes(K, x, y) \/ (Lists(K, x) /\ y = e)
<1>. DEFINE A == Append(K, e)
<1>2. /\ Len(A) = Len(K) + 1
      /\ \A i \in 1 .. Len(K) : A[i] = K[i]
      /\ A[Len(K) + 1] = e
      /\ Len(K) \in Nat
  OBVIOUS
<1>. HIDE DEF A
<1>3. \A x : Lists(A, x) <=> Lists(K, x) \/ x = e
  BY <1>2 DEF Lists
<1>4. \A x, y : Precedes(A, x, y) <=> Precedes(K, x, y) \/ (Lists(K, x) /\ y = e)
  <2>. TAKE x, y
  <2>1. ASSUME NEW i \in 1 .. Len(A), NEW j \in 1 .. Len(A), i < j, A[i] = x, A[j] = y
        PROVE  Precedes(K, x, y) \/ (Lists(K, x) /\ y = e)
    <3>1. i \in 1 .. Len(K)
      BY <1>2, <2>1
    <3>2. CASE j \in 1 .. Len(K)
      BY <1>2, <2>1, <3>1, <3>2 DEF Precedes
    <3>3. CASE j = Len(K) + 1
      BY <1>2, <2>1, <3>1, <3>3 DEF Lists
    <3>. QED
      BY <1>2, <3>2, <3>3
  <2>2. ASSUME NEW i \in 1 .. Len(K), NEW j \in 1 .. Len(K), i < j, K[i] = x, K[j] = y
        PROVE  Precedes(A, x, y)
    BY <1>2, <2>2 DEF Precedes
  <2>3. ASSUME NEW i \in 1 .. Len(K), K[i] = x, y = e
        PROVE  Precedes(A, x, y)
    <3>1. /\ i \in 1 .. Len(A) /\ Len(K) + 1 \in 1 .. Len(A) /\ i < Len(K) + 1
      BY <1>2
    <3>. QED
      BY <1>2, <2>3, <3>1 DEF Precedes
  <2>. QED
    BY <2>1, <2>2, <2>3 DEF Precedes, Lists
<1>. QED
  BY <1>3, <1>4 DEF A

LEMMA TailOrders ==
  ASSUME NEW S, NEW line \in Seq(S), line # << >>, \A x : ~ Precedes(line, x, x)
  PROVE  /\ Tail(line) \in Seq(S) /\ Head(line) \in S /\ Lists(line, Head(line))
         /\ \A x : Lists(Tail(line), x) <=> Lists(line, x) /\ x # Head(line)
         /\ \A x, y : Precedes(Tail(line), x, y)
                        <=> Precedes(line, x, y) /\ x # Head(line)
<1>1. /\ Tail(line) \in Seq(S)
      /\ Head(line) = line[1] /\ line[1] \in S
      /\ Len(line) \in Nat \ {0}
      /\ Len(Tail(line)) = Len(line) - 1
      /\ \A i \in 1 .. Len(line) - 1 : Tail(line)[i] = line[i + 1]
  OBVIOUS
<1>2. \A i \in 1 .. Len(line) : line[i] = line[1] => i = 1
  BY <1>1 DEF Precedes
<1>. DEFINE tail == Tail(line)
<1>. HIDE DEF tail
<1>3. \A i \in 2 .. Len(line) : i - 1 \in 1 .. Len(tail) /\ tail[i - 1] = line[i]
  BY <1>1 DEF tail
<1>4. \A i \in 1 .. Len(tail) : i + 1 \in 2 .. Len(line) /\ tail[i] = line[i + 1]
  BY <1>1 DEF tail
<1>5. \A x : Lists(tail, x) <=> Lists(line, x) /\ x # line[1]
  <2>. TAKE x
  <2>1. ASSUME NEW i \in 1 .. Len(line), line[i] = x, x # line[1]
        PROVE  Lists(tail, x)
    <3>1. i \in 2 .. Len(line)
      BY <1>1, <2>1
    <3>. QED
      BY <1>3, <2>1, <3>1 DEF Lists
  <2>2. ASSUME NEW i \in 1 .. Len(tail), tail[i] = x
        PROVE  Lists(line, x) /\ x # line[1]
    <3>1. i + 1 \in 1 .. Len(line) /\ i + 1 # 1
      BY <1>4
    <3>. QED
      BY <1>2, <1>4, <2>2, <3>1 DEF Lists
  <2>. QED
    BY <2>1, <2>2 DEF Lists
<1>6. \A x, y : Precedes(tail, x, y) <=> Precedes(line, x, y) /\ x # line[1]
  <2>. TAKE x, y
  <2>1. ASSUME NEW i \in 1 .. Len(line), NEW j \in 1 .. Len(line), i < j,
               line[i] = x, line[j] = y, x # line[1]
        PROVE  Precedes(tail, x, y)
    <3>1. i \in 2 .. Len(line) /\ j \in 2 .. Len(line) /\ i - 1 < j - 1
      BY <1>1, <2>1
    <3>. QED
      BY <1>3, <2>1, <3>1 DEF Precedes
  <2>2. ASSUME NEW i \in 1 .. Len(tail), NEW j \in 1 .. Len(tail), i < j,
               tail[i] = x, tail[j] = y
        PROVE  Precedes(line, x, y) /\ x # line[1]
    <3>1. i + 1 \in 1 .. Len(line) /\ j + 1 \in 1 .. Len(line) /\ i + 1 < j + 1 /\ i + 1 # 1
      BY <1>1, <1>4, <2>2 DEF tail
    <3>. QED
      BY <1>2, <1>4, <2>2, <3>1 DEF Precedes
  <2>. QED
    BY <2>1, <2>2 DEF Precedes
<1>. QED
  BY <1>1, <1>5, <1>6 DEF tail, Lists

LEMMA LeastNatural ==
  ASSUME NEW T, T \subseteq Nat, T # {}
  PROVE  \E m \in T : \A n \in T : m <= n
<1>1. PICK m \in T : \A n \in T : ~ (<<n, m>> \in OpToRel(<, Nat))
  BY WFMin, NatLessThanWellFounded
<1>2. \A n \in T : ~ (n < m)
  BY <1>1 DEF OpToRel
<1>. QED
  BY <1>2

(* The equation of the recursive function on the first k places of a line.  *)
Step(line, ids, f, i) ==
  IF i = 0 THEN << >>
  ELSE IF line[i] \in ids THEN f[i - 1]
  ELSE Append(f[i - 1], line[i])

Solves(f, line, ids, k) == f = [i \in 0 .. k |-> Step(line, ids, f, i)]

LEMMA SolutionExists ==
  ASSUME NEW line, NEW ids, NEW n \in Nat
  PROVE  \E f : Solves(f, line, ids, n)
<1>. DEFINE Bad == {k \in Nat : ~ \E f : Solves(f, line, ids, k)}
<1>1. SUFFICES ASSUME Bad # {} PROVE FALSE
  OBVIOUS
<1>2. PICK m \in Bad : \A k \in Bad : m <= k
  <2>. HIDE DEF Bad
  <2>1. Bad \subseteq Nat
    BY DEF Bad
  <2>. QED
    BY <1>1, <2>1, LeastNatural
<1>3. CASE m = 0
  <2>. DEFINE f == [i \in 0 .. 0 |-> << >>]
  <2>1. f = [i \in 0 .. 0 |-> Step(line, ids, f, i)]
    BY DEF Step
  <2>. QED
    BY <1>2, <1>3, <2>1 DEF Solves
<1>4. CASE m # 0
  <2>1. m - 1 \in Nat /\ m - 1 \notin Bad
    BY <1>2, <1>4
  <2>2. PICK f : f = [i \in 0 .. m - 1 |-> Step(line, ids, f, i)]
    BY <2>1 DEF Solves
  <2>. DEFINE g == [i \in 0 .. m |-> IF i < m THEN f[i] ELSE Step(line, ids, f, m)]
  <2>3. \A i \in 0 .. m : Step(line, ids, g, i) = Step(line, ids, f, i)
    BY <1>2 DEF Step
  <2>4. \A i \in 0 .. m : g[i] = Step(line, ids, g, i)
    <3>1. \A i \in 0 .. m - 1 : f[i] = Step(line, ids, f, i)
      <4>. HIDE DEF g
      <4>. QED
        BY <2>2
    <3>2. \A i \in 0 .. m : i < m => i \in 0 .. m - 1
      BY <1>2
    <3>3. \A i \in 0 .. m : ~ (i < m) => i = m
      BY <1>2
    <3>. QED
      BY <2>3, <3>1, <3>2, <3>3
  <2>5. g = [i \in 0 .. m |-> Step(line, ids, g, i)]
    <3>1. g = [i \in 0 .. m |-> g[i]]
      OBVIOUS
    <3>. HIDE DEF g
    <3>. QED
      BY <2>4, <3>1
  <2>. QED
    <3>. HIDE DEF g
    <3>. QED
      BY <1>2, <2>5 DEF Solves
<1>. QED
  BY <1>3, <1>4

LEMMA KeptSolves ==
  ASSUME NEW line, NEW ids, Len(line) \in Nat
  PROVE  Solves(Kept(line, ids), line, ids, Len(line))
<1>1. Kept(line, ids) = CHOOSE f : Solves(f, line, ids, Len(line))
  BY DEF Kept, Solves, Step
<1>2. \E f : Solves(f, line, ids, Len(line))
  BY SolutionExists
<1>. QED
  BY <1>1, <1>2

(* The prefix of length k, filtered.                                        *)
Filtered(K, S, line, ids, k) ==
  /\ K \in Seq(S)
  /\ \A x : Lists(K, x) <=> x \notin ids /\ \E i \in 1 .. k : line[i] = x
  /\ \A x, y : Precedes(K, x, y) <=>
       /\ x \notin ids /\ y \notin ids
       /\ \E i, j \in 1 .. k : i < j /\ line[i] = x /\ line[j] = y

LEMMA FilteredAppend ==
  ASSUME NEW S, NEW line \in Seq(S), NEW ids, NEW k \in 1 .. Len(line),
         NEW K, Filtered(K, S, line, ids, k - 1), line[k] \notin ids
  PROVE  Filtered(Append(K, line[k]), S, line, ids, k)
<1>. DEFINE A == Append(K, line[k])
<1>1. K \in Seq(S) /\ line[k] \in S
  BY DEF Filtered
<1>2. A \in Seq(S)
  BY <1>1
<1>3. \A x : Lists(A, x) <=> Lists(K, x) \/ x = line[k]
  BY <1>1, AppendOrders
<1>4. \A x, y : Precedes(A, x, y) <=> Precedes(K, x, y) \/ (Lists(K, x) /\ y = line[k])
  BY <1>1, AppendOrders
<1>. HIDE DEF A
<1>5. \A x : (\E i \in 1 .. k : line[i] = x)
               <=> (\E i \in 1 .. k - 1 : line[i] = x) \/ x = line[k]
  OBVIOUS
<1>6. \A x, y : (\E i, j \in 1 .. k : i < j /\ line[i] = x /\ line[j] = y)
                 <=> \/ \E i, j \in 1 .. k - 1 : i < j /\ line[i] = x /\ line[j] = y
                     \/ (\E i \in 1 .. k - 1 : line[i] = x) /\ y = line[k]
  <2>. TAKE x, y
  <2>1. ASSUME NEW i \in 1 .. k, NEW j \in 1 .. k, i < j, line[i] = x, line[j] = y
        PROVE  \/ \E a, b \in 1 .. k - 1 : a < b /\ line[a] = x /\ line[b] = y
               \/ (\E a \in 1 .. k - 1 : line[a] = x) /\ y = line[k]
    <3>1. i \in 1 .. k - 1
      BY <2>1
    <3>2. j = k \/ j \in 1 .. k - 1
      OBVIOUS
    <3>. QED
      BY <2>1, <3>1, <3>2
  <2>2. ASSUME NEW i \in 1 .. k - 1, line[i] = x, y = line[k]
        PROVE  \E a, b \in 1 .. k : a < b /\ line[a] = x /\ line[b] = y
    <3>1. i \in 1 .. k /\ k \in 1 .. k /\ i < k
      OBVIOUS
    <3>. QED
      BY <2>2, <3>1
  <2>. QED
    BY <2>1, <2>2
<1>7. /\ \A x : Lists(K, x) <=> x \notin ids /\ \E i \in 1 .. k - 1 : line[i] = x
      /\ \A x, y : Precedes(K, x, y) <=>
           /\ x \notin ids /\ y \notin ids
           /\ \E i, j \in 1 .. k - 1 : i < j /\ line[i] = x /\ line[j] = y
  BY DEF Filtered
<1>8. \A x : Lists(A, x) <=> x \notin ids /\ \E i \in 1 .. k : line[i] = x
  BY <1>3, <1>5, <1>7
<1>9. \A x, y : Precedes(A, x, y) <=>
        /\ x \notin ids /\ y \notin ids
        /\ \E i, j \in 1 .. k : i < j /\ line[i] = x /\ line[j] = y
  BY <1>4, <1>6, <1>7
<1>10. Filtered(A, S, line, ids, k)
  BY <1>2, <1>8, <1>9 DEF Filtered
<1>. QED
  BY <1>10 DEF A

LEMMA FilteredSkip ==
  ASSUME NEW S, NEW line \in Seq(S), NEW ids, NEW k \in 1 .. Len(line),
         NEW K, Filtered(K, S, line, ids, k - 1), line[k] \in ids
  PROVE  Filtered(K, S, line, ids, k)
<1>1. \A x : x \notin ids =>
        ((\E i \in 1 .. k : line[i] = x) <=> \E i \in 1 .. k - 1 : line[i] = x)
  OBVIOUS
<1>2. \A x, y : x \notin ids /\ y \notin ids =>
        ((\E i, j \in 1 .. k : i < j /\ line[i] = x /\ line[j] = y)
          <=> \E i, j \in 1 .. k - 1 : i < j /\ line[i] = x /\ line[j] = y)
  OBVIOUS
<1>. QED
  BY <1>1, <1>2 DEF Filtered

(* Retain keeps the others, in their order, and only them.                  *)
THEOREM RetainFilters ==
  ASSUME NEW S, NEW line \in Seq(S), NEW ids
  PROVE  /\ Retain(line, ids) \in Seq(S)
         /\ \A x : Lists(Retain(line, ids), x) <=> Lists(line, x) /\ x \notin ids
         /\ \A x, y : Precedes(Retain(line, ids), x, y)
                        <=> Precedes(line, x, y) /\ x \notin ids /\ y \notin ids
<1>. DEFINE kept == Kept(line, ids)
            Bad  == {k \in 0 .. Len(line) : ~ Filtered(kept[k], S, line, ids, k)}
<1>1. \A i \in 0 .. Len(line) : kept[i] = Step(line, ids, kept, i)
  BY KeptSolves DEF Solves
<1>. HIDE DEF kept
<1>2. Bad = {}
  <2>1. SUFFICES ASSUME Bad # {} PROVE FALSE
    OBVIOUS
  <2>2. PICK k \in Bad : \A other \in Bad : k <= other
    <3>. HIDE DEF Bad
    <3>1. Bad \subseteq Nat
      BY DEF Bad
    <3>. QED
      BY <2>1, <3>1, LeastNatural
  <2>3. CASE k = 0
    <3>1. kept[0] = << >>
      <4>1. 0 \in 0 .. Len(line)
        OBVIOUS
      <4>2. kept[0] = Step(line, ids, kept, 0)
        BY <1>1, <4>1
      <4>. QED
        BY <4>2, Zenon DEF Step
    <3>2. Filtered(<< >>, S, line, ids, 0)
      BY DEF Filtered, Lists, Precedes
    <3>. QED
      BY <2>2, <2>3, <3>1, <3>2
  <2>4. CASE k \in 1 .. Len(line)
    <3>1. Filtered(kept[k - 1], S, line, ids, k - 1)
      BY <2>2, <2>4
    <3>2. CASE line[k] \in ids
      <4>1. kept[k] = kept[k - 1]
        BY <1>1, <2>4, <3>2 DEF Step
      <4>. QED
        BY <2>2, <2>4, <3>1, <3>2, <4>1, FilteredSkip
    <3>3. CASE line[k] \notin ids
      <4>1. kept[k] = Append(kept[k - 1], line[k])
        <5>1. kept[k] = Step(line, ids, kept, k)
          BY <1>1, <2>4
        <5>2. k # 0
          BY <2>4
        <5>. QED
          BY <5>1, <5>2, <3>3, Zenon DEF Step
      <4>. QED
        BY <2>2, <2>4, <3>1, <3>3, <4>1, FilteredAppend
    <3>. QED
      BY <3>2, <3>3
  <2>. QED
    BY <2>2, <2>3, <2>4
<1>3. Filtered(kept[Len(line)], S, line, ids, Len(line))
  BY <1>2
<1>4. Filtered(Retain(line, ids), S, line, ids, Len(line))
  BY <1>3 DEF Retain, kept
<1>. QED
  BY <1>4 DEF Filtered, Lists, Precedes

--------------------------------------------------------------------------------
(* The inductive invariant, in named parts.  An entry's accounts balance,   *)
(* and its finishing time is stamped exactly when the job is finished;      *)
(* the queue repeats nothing and lists the waiting jobs.                    *)
EntryOK(entry) ==
  /\ entry \in Entry
  /\ JobOK(entry.job)
  /\ IsTerminal(entry.job) <=> entry.age # Unfinished

Waiting(id) ==
  id \in Known(jobs) /\ jobs[id].submitted /\ jobs[id].job.status = "queued"

TableOK == /\ jobs \in [JobId -> Entry \cup {NoEntry}]
           /\ \A id \in Known(jobs) : EntryOK(jobs[id])

QueueOK == /\ queue \in Seq(JobId)
           /\ \A x : ~ Precedes(queue, x, x)
           /\ \A id \in JobId : Lists(queue, id) <=> Waiting(id)

ClosedOK == closed \in BOOLEAN /\ ClosedStaysEmpty

RegistryInv == TableOK /\ QueueOK /\ OneRunning /\ ClosedOK

--------------------------------------------------------------------------------
(* Entries.                                                                 *)

LEMMA NoEntryUnknown ==
  /\ NoEntry.owner = NoOwner
  /\ NoEntry \notin Entry
  /\ \A entry \in Entry : entry.owner # NoOwner
BY JobStateAssumption DEF NoEntry, Entry

LEMMA KnownEntry ==
  ASSUME NEW table \in [JobId -> Entry \cup {NoEntry}], NEW id \in JobId
  PROVE  id \in Known(table) <=> table[id] \in Entry
BY NoEntryUnknown DEF Known

LEMMA OwnedIsKnown ==
  ASSUME TableOK, NEW owner, NEW id \in JobId, Owns(owner, id)
  PROVE  id \in Known(jobs) /\ jobs[id] \in Entry /\ EntryOK(jobs[id])
BY JobStateAssumption, KnownEntry DEF TableOK, Owns, Known

LEMMA WithoutKnown ==
  ASSUME NEW table \in [JobId -> Entry \cup {NoEntry}], NEW ids
  PROVE  /\ Without(table, ids) \in [JobId -> Entry \cup {NoEntry}]
         /\ Known(Without(table, ids)) = Known(table) \ ids
         /\ \A id \in Known(table) \ ids : Without(table, ids)[id] = table[id]
BY NoEntryUnknown DEF Without, Known

(* An action that changes the job of one entry and its stamp.               *)
LEMMA OneEntryChanged ==
  ASSUME TableOK, NEW id \in Known(jobs), NEW new \in Entry, EntryOK(new),
         jobs' = [jobs EXCEPT ![id] = new]
  PROVE  /\ TableOK'
         /\ Known(jobs)' = Known(jobs)
         /\ jobs'[id] = new
         /\ \A other \in Known(jobs) \ {id} : jobs'[other] = jobs[other]
<1>1. id \in JobId
  BY DEF Known
<1>2. jobs' \in [JobId -> Entry \cup {NoEntry}]
  BY <1>1 DEF TableOK
<1>3. /\ jobs'[id] = new
      /\ \A other \in JobId \ {id} : jobs'[other] = jobs[other]
  BY <1>1 DEF TableOK
<1>4. Known(jobs)' = Known(jobs)
  BY <1>1, <1>3, NoEntryUnknown DEF Known
<1>5. \A other \in Known(jobs) : EntryOK(jobs'[other])
  BY <1>3 DEF TableOK, Known
<1>. QED
  BY <1>2, <1>3, <1>4, <1>5 DEF TableOK, Known

LEMMA EmptyListsNothing ==
  ASSUME NEW line \in Seq(JobId)
  PROVE  line = << >> <=> \A x : ~ Lists(line, x)
<1>1. line = << >> => \A x : ~ Lists(line, x)
  BY DEF Lists
<1>2. ASSUME line # << >>
      PROVE  Lists(line, line[1])
  BY <1>2 DEF Lists
<1>. QED
  BY <1>1, <1>2

--------------------------------------------------------------------------------
(* Forgetting, whatever is forgotten: pruning, discarding, evicting.        *)

LEMMA ForgetTable ==
  ASSUME TableOK, NEW ids, jobs' = Without(jobs, ids)
  PROVE  /\ TableOK'
         /\ Known(jobs)' = Known(jobs) \ ids
         /\ \A id \in Known(jobs)' : jobs'[id] = jobs[id]
BY WithoutKnown DEF TableOK

LEMMA ForgetKeeps ==
  ASSUME RegistryInv, NEW ids, Forget(ids), UNCHANGED closed
  PROVE  RegistryInv'
<1>1. /\ TableOK'
      /\ Known(jobs)' = Known(jobs) \ ids
      /\ \A id \in Known(jobs)' : jobs'[id] = jobs[id]
  BY ForgetTable DEF RegistryInv, Forget
<1>2. QueueOK'
  <2>1. /\ queue' \in Seq(JobId)
        /\ \A x : Lists(queue', x) <=> Lists(queue, x) /\ x \notin ids
        /\ \A x, y : Precedes(queue', x, y)
                       <=> Precedes(queue, x, y) /\ x \notin ids /\ y \notin ids
    BY RetainFilters DEF RegistryInv, QueueOK, Forget
  <2>2. \A id \in JobId : Waiting(id)' <=> Waiting(id) /\ id \notin ids
    BY <1>1 DEF Waiting
  <2>. QED
    BY <2>1, <2>2 DEF RegistryInv, QueueOK
<1>3. OneRunning'
  BY <1>1 DEF RegistryInv, OneRunning, Running
<1>4. ClosedOK'
  <2>1. closed => queue' = << >>
    <3>1. SUFFICES ASSUME closed PROVE queue' = << >>
      OBVIOUS
    <3>2. queue \in Seq(JobId) /\ \A x : ~ Lists(queue, x)
      BY <3>1, EmptyListsNothing DEF RegistryInv, QueueOK, ClosedOK, ClosedStaysEmpty
    <3>3. queue' \in Seq(JobId) /\ \A x : ~ Lists(queue', x)
      BY <3>2, RetainFilters DEF Forget
    <3>. QED
      BY <3>3, EmptyListsNothing
  <2>. QED
    BY <1>1, <2>1 DEF RegistryInv, ClosedOK, ClosedStaysEmpty
<1>. QED
  BY <1>1, <1>2, <1>3, <1>4 DEF RegistryInv

LEMMA PruneKeeps ==
  ASSUME RegistryInv, Prune
  PROVE  RegistryInv'
BY ForgetKeeps DEF Prune

LEMMA DiscardKeeps ==
  ASSUME RegistryInv, NEW owner \in Owner, NEW id \in JobId, DiscardReservation(owner, id)
  PROVE  RegistryInv'
BY ForgetKeeps DEF DiscardReservation

--------------------------------------------------------------------------------
(* The other operations.                                                    *)

LEMMA ReserveKeeps ==
  ASSUME RegistryInv, NEW owner \in Owner, NEW id \in JobId,
         NEW n \in 1 .. MaxJobFiles, Reserve(owner, id, n)
  PROVE  RegistryInv'
<1>. DEFINE new == [owner |-> owner, job |-> NewJob(n), submitted |-> FALSE,
                    age |-> Unfinished]
<1>1. PICK victim \in Victims :
        /\ jobs' = [Without(AfterPrune, victim) EXCEPT ![id] = new]
        /\ queue' = Retain(queue, Expired(jobs) \cup victim)
  BY DEF Reserve
<1>2. id \notin Known(AfterPrune) /\ ~ closed /\ UNCHANGED closed
  BY DEF Reserve, Admissible, Open
<1>. DEFINE gone  == Expired(jobs) \cup victim
            table == Without(AfterPrune, victim)
<1>3. EntryOK(new)
  <2>1. JobOK(NewJob(n)) /\ NewJob(n).status = "queued" /\ NewJob(n) \in Job
    BY NewJobOK DEF JobOK
  <2>. HIDE DEF NewJob
  <2>2. new \in Entry
    BY <2>1 DEF Entry, Age
  <2>3. ~ IsTerminal(new.job)
    BY <2>1 DEF IsTerminal, Terminal
  <2>. QED
    BY <2>1, <2>2, <2>3 DEF EntryOK
<1>4. /\ new.owner = owner
      /\ new.submitted = FALSE
      /\ new.job.status = "queued"
  BY NewJobOK
<1>5. /\ table \in [JobId -> Entry \cup {NoEntry}]
      /\ Known(table) = Known(jobs) \ gone
      /\ \A other \in Known(table) : table[other] = jobs[other]
  <2>1. /\ AfterPrune \in [JobId -> Entry \cup {NoEntry}]
        /\ Known(AfterPrune) = Known(jobs) \ Expired(jobs)
        /\ \A other \in Known(AfterPrune) : AfterPrune[other] = jobs[other]
    BY WithoutKnown DEF RegistryInv, TableOK, AfterPrune
  <2>2. /\ table \in [JobId -> Entry \cup {NoEntry}]
        /\ Known(table) = Known(AfterPrune) \ victim
        /\ \A other \in Known(AfterPrune) \ victim : table[other] = AfterPrune[other]
    BY <2>1, WithoutKnown
  <2>. QED
    BY <2>1, <2>2
<1>6. id \notin Known(table) /\ (id \in gone \/ id \notin Known(jobs))
  BY <1>2, <1>5, WithoutKnown DEF RegistryInv, TableOK, AfterPrune
<1>7. new \in Entry
  BY <1>3 DEF EntryOK
<1>. HIDE DEF new, table
<1>8. /\ jobs' \in [JobId -> Entry \cup {NoEntry}]
      /\ jobs'[id] = new
      /\ \A other \in JobId \ {id} : jobs'[other] = table[other]
  BY <1>1, <1>5, <1>7 DEF table
<1>9. Known(jobs)' = (Known(jobs) \ gone) \cup {id}
  BY <1>5, <1>7, <1>8, NoEntryUnknown DEF Known
<1>10. \A other \in Known(jobs)' \ {id} : jobs'[other] = jobs[other]
  BY <1>5, <1>8, <1>9 DEF Known
<1>11. TableOK'
  BY <1>3, <1>8, <1>9, <1>10 DEF TableOK, RegistryInv
<1>12. QueueOK'
  <2>1. /\ queue' \in Seq(JobId)
        /\ \A x : Lists(queue', x) <=> Lists(queue, x) /\ x \notin gone
        /\ \A x, y : Precedes(queue', x, y)
                       <=> Precedes(queue, x, y) /\ x \notin gone /\ y \notin gone
    BY <1>1, RetainFilters DEF RegistryInv, QueueOK
  <2>2. ~ Waiting(id)' /\ ~ Lists(queue', id)
    BY <1>4, <1>6, <1>8, <2>1 DEF Waiting, RegistryInv, QueueOK
  <2>3. \A other \in JobId \ {id} : Waiting(other)' <=> Waiting(other) /\ other \notin gone
    BY <1>9, <1>10 DEF Waiting
  <2>. QED
    BY <2>1, <2>2, <2>3 DEF RegistryInv, QueueOK
<1>13. OneRunning'
  BY <1>4, <1>8, <1>9, <1>10 DEF RegistryInv, OneRunning, Running
<1>14. ClosedOK'
  BY <1>2 DEF RegistryInv, ClosedOK, ClosedStaysEmpty
<1>. QED
  BY <1>11, <1>12, <1>13, <1>14 DEF RegistryInv

--------------------------------------------------------------------------------
(* A new job in an entry, with the rest of the entry kept or stamped.       *)

LEMMA NewJobInEntry ==
  ASSUME NEW entry \in Entry, NEW job \in Job
  PROVE  /\ [entry EXCEPT !.job = job] \in Entry
         /\ [entry EXCEPT !.job = job].job = job
         /\ [entry EXCEPT !.job = job].age = entry.age
         /\ [entry EXCEPT !.job = job].submitted = entry.submitted
BY DEF Entry

LEMMA SubmitKeeps ==
  ASSUME RegistryInv, NEW owner \in Owner, NEW id \in JobId, Submit(owner, id)
  PROVE  RegistryInv'
<1>. DEFINE new == [jobs[id] EXCEPT !.submitted = TRUE]
<1>1. id \in Known(jobs) /\ jobs[id] \in Entry /\ EntryOK(jobs[id])
  BY OwnedIsKnown DEF RegistryInv, Submit
<1>2. /\ new \in Entry
      /\ new.job = jobs[id].job /\ new.age = jobs[id].age /\ new.submitted = TRUE
  BY <1>1 DEF Entry
<1>3. jobs' = [jobs EXCEPT ![id] = new] /\ queue' = Append(queue, id)
      /\ ~ jobs[id].submitted /\ jobs[id].job.status = "queued" /\ ~ closed
      /\ UNCHANGED closed
  BY DEF Submit, Open
<1>. HIDE DEF new
<1>4. EntryOK(new)
  BY <1>1, <1>2 DEF EntryOK
<1>5. /\ TableOK'
      /\ Known(jobs)' = Known(jobs)
      /\ jobs'[id] = new
      /\ \A other \in Known(jobs) \ {id} : jobs'[other] = jobs[other]
  BY <1>1, <1>2, <1>3, <1>4, OneEntryChanged DEF RegistryInv
<1>6. QueueOK'
  <2>1. /\ queue' \in Seq(JobId)
        /\ \A x : Lists(queue', x) <=> Lists(queue, x) \/ x = id
        /\ \A x, y : Precedes(queue', x, y)
                       <=> Precedes(queue, x, y) \/ (Lists(queue, x) /\ y = id)
    BY <1>3, AppendOrders DEF RegistryInv, QueueOK
  <2>2. ~ Lists(queue, id)
    BY <1>3 DEF RegistryInv, QueueOK, Waiting
  <2>3. \A other \in JobId : Waiting(other)' <=> Waiting(other) \/ other = id
    BY <1>1, <1>2, <1>3, <1>5 DEF Waiting
  <2>. QED
    BY <2>1, <2>2, <2>3 DEF RegistryInv, QueueOK
<1>7. OneRunning'
  BY <1>2, <1>3, <1>5 DEF RegistryInv, OneRunning, Running
<1>8. ClosedOK'
  BY <1>3 DEF RegistryInv, ClosedOK, ClosedStaysEmpty
<1>. QED
  BY <1>5, <1>6, <1>7, <1>8 DEF RegistryInv

LEMMA StartNextKeeps ==
  ASSUME RegistryInv, StartNext
  PROVE  RegistryInv'
<1>. DEFINE id  == Head(queue)
            new == [jobs[id] EXCEPT !.job = Start(jobs[id].job)]
<1>1. /\ id \in JobId
      /\ queue' \in Seq(JobId)
      /\ \A x : Lists(queue', x) <=> Lists(queue, x) /\ x # id
      /\ \A x, y : Precedes(queue', x, y) <=> Precedes(queue, x, y) /\ x # id
      /\ Lists(queue, id)
  BY TailOrders DEF RegistryInv, QueueOK, StartNext, MayStartNext
<1>2. id \in Known(jobs) /\ MayStart(jobs[id].job) /\ Running(jobs) = {} /\ ~ closed
      /\ UNCHANGED closed
  BY DEF StartNext, MayStartNext, Open
<1>3. jobs[id] \in Entry /\ EntryOK(jobs[id])
  BY <1>2 DEF RegistryInv, TableOK, EntryOK
<1>4. jobs' = [jobs EXCEPT ![id] = new]
  BY DEF StartNext
<1>. HIDE DEF id
<1>5. JobOK(Start(jobs[id].job)) /\ Start(jobs[id].job).status = "running"
  BY <1>2, <1>3, StartOK DEF EntryOK
<1>6. /\ new \in Entry
      /\ new.job = Start(jobs[id].job)
      /\ new.age = jobs[id].age
  BY <1>3, <1>5, NewJobInEntry DEF JobOK
<1>. HIDE DEF new
<1>7. EntryOK(new)
  BY <1>2, <1>3, <1>5, <1>6 DEF EntryOK, IsTerminal, Terminal, MayStart
<1>8. /\ TableOK'
      /\ Known(jobs)' = Known(jobs)
      /\ jobs'[id] = new
      /\ \A other \in Known(jobs) \ {id} : jobs'[other] = jobs[other]
  BY <1>2, <1>4, <1>6, <1>7, OneEntryChanged DEF RegistryInv
<1>9. QueueOK'
  <2>1. \A other \in JobId : Waiting(other)' <=> Waiting(other) /\ other # id
    BY <1>2, <1>5, <1>6, <1>8 DEF Waiting
  <2>. QED
    BY <1>1, <2>1 DEF RegistryInv, QueueOK
<1>10. OneRunning'
  <2>1. Running(jobs)' \subseteq {id}
    BY <1>2, <1>8 DEF Running
  <2>. QED
    BY <2>1 DEF OneRunning
<1>11. ClosedOK'
  BY <1>2 DEF RegistryInv, ClosedOK, ClosedStaysEmpty
<1>. QED
  BY <1>8, <1>9, <1>10, <1>11 DEF RegistryInv

LEMMA RecordKeeps ==
  ASSUME RegistryInv, NEW owner \in Owner, NEW id \in JobId,
         NEW outcome \in Outcome, Record(owner, id, outcome)
  PROVE  RegistryInv'
<1>. DEFINE new == [jobs[id] EXCEPT !.job = RecordSource(jobs[id].job, outcome)]
<1>1. id \in Known(jobs) /\ jobs[id] \in Entry /\ EntryOK(jobs[id])
  BY OwnedIsKnown DEF RegistryInv, Record
<1>2. jobs' = [jobs EXCEPT ![id] = new] /\ MayRecord(jobs[id].job)
      /\ UNCHANGED <<queue, closed>>
  BY DEF Record
<1>3. /\ JobOK(RecordSource(jobs[id].job, outcome))
      /\ RecordSource(jobs[id].job, outcome).status = "running"
  BY <1>1, <1>2, RecordOK DEF EntryOK
<1>4. /\ new \in Entry
      /\ new.job = RecordSource(jobs[id].job, outcome)
      /\ new.age = jobs[id].age
  BY <1>1, <1>3, NewJobInEntry DEF JobOK
<1>. HIDE DEF new
<1>5. jobs[id].job.status = "running"
  BY <1>2 DEF MayRecord
<1>6. EntryOK(new)
  BY <1>1, <1>3, <1>4, <1>5 DEF EntryOK, IsTerminal, Terminal
<1>7. /\ TableOK'
      /\ Known(jobs)' = Known(jobs)
      /\ jobs'[id] = new
      /\ \A other \in Known(jobs) \ {id} : jobs'[other] = jobs[other]
  BY <1>1, <1>2, <1>4, <1>6, OneEntryChanged DEF RegistryInv
<1>8. QueueOK'
  <2>1. \A other \in JobId : Waiting(other)' <=> Waiting(other)
    BY <1>3, <1>4, <1>5, <1>7 DEF Waiting
  <2>. QED
    BY <1>2, <2>1 DEF RegistryInv, QueueOK
<1>9. OneRunning'
  <2>1. Running(jobs)' = Running(jobs)
    BY <1>3, <1>4, <1>5, <1>7 DEF Running
  <2>. QED
    BY <2>1 DEF RegistryInv, OneRunning
<1>10. ClosedOK'
  BY <1>2, <1>7 DEF RegistryInv, ClosedOK, ClosedStaysEmpty
<1>. QED
  BY <1>7, <1>8, <1>9, <1>10 DEF RegistryInv

LEMMA FinishKeeps ==
  ASSUME RegistryInv, NEW owner \in Owner, NEW id \in JobId, NEW status \in Terminal,
         NEW artifacts \in SUBSET Artifact, Finish(owner, id, status, artifacts)
  PROVE  RegistryInv'
<1>. DEFINE job == FinishJob(jobs[id].job, status, artifacts)
            new == [jobs[id] EXCEPT !.job = job, !.age = 0]
<1>1. id \in Known(jobs) /\ jobs[id] \in Entry /\ EntryOK(jobs[id])
  BY OwnedIsKnown DEF RegistryInv, Finish
<1>2. MayFinish(jobs[id].job, status) /\ queue' = Retain(queue, {id}) /\ UNCHANGED closed
  BY DEF Finish
<1>3. jobs' = [jobs EXCEPT ![id] = new]
  <2>1. jobs' = [jobs EXCEPT ![id].job = job, ![id].age = 0]
    BY DEF Finish
  <2>. HIDE DEF job
  <2>. QED
    BY <1>1, <2>1 DEF RegistryInv, TableOK, Known
<1>4. JobOK(job) /\ job.status = status
  BY <1>1, <1>2, FinishOK DEF EntryOK
<1>. HIDE DEF job
<1>5. 0 \in Age /\ 0 # Unfinished
  BY RegistryAssumption DEF Age, Unfinished
<1>6. /\ new \in Entry
      /\ new.job = job
      /\ new.age = 0
  BY <1>1, <1>4, <1>5 DEF Entry, JobOK
<1>. HIDE DEF new
<1>7. EntryOK(new)
  BY <1>4, <1>5, <1>6 DEF EntryOK, IsTerminal
<1>8. /\ TableOK'
      /\ Known(jobs)' = Known(jobs)
      /\ jobs'[id] = new
      /\ \A other \in Known(jobs) \ {id} : jobs'[other] = jobs[other]
  BY <1>1, <1>3, <1>6, <1>7, OneEntryChanged DEF RegistryInv
<1>9. status # "queued" /\ status # "running"
  BY DEF Terminal
<1>10. QueueOK'
  <2>1. /\ queue' \in Seq(JobId)
        /\ \A x : Lists(queue', x) <=> Lists(queue, x) /\ x # id
        /\ \A x, y : Precedes(queue', x, y) => Precedes(queue, x, y)
    BY <1>2, RetainFilters DEF RegistryInv, QueueOK
  <2>2. \A other \in JobId : Waiting(other)' <=> Waiting(other) /\ other # id
    BY <1>4, <1>6, <1>8, <1>9 DEF Waiting
  <2>. QED
    BY <2>1, <2>2 DEF RegistryInv, QueueOK
<1>11. OneRunning'
  <2>1. Running(jobs)' \subseteq Running(jobs)
    BY <1>4, <1>6, <1>8, <1>9 DEF Running
  <2>. QED
    BY <2>1 DEF RegistryInv, OneRunning
<1>12. ClosedOK'
  BY <1>1, <1>2 DEF RegistryInv, ClosedOK, ClosedStaysEmpty
<1>. QED
  BY <1>8, <1>10, <1>11, <1>12 DEF RegistryInv

LEMMA CloseKeeps ==
  ASSUME Close
  PROVE  RegistryInv'
<1>1. Known(jobs)' = {} /\ jobs' \in [JobId -> Entry \cup {NoEntry}] /\ queue' = << >>
      /\ closed' = TRUE
  BY NoEntryUnknown DEF Close, Known
<1>2. queue' \in Seq(JobId) /\ \A x, y : ~ Lists(queue', x) /\ ~ Precedes(queue', x, y)
  BY <1>1 DEF Lists, Precedes
<1>. QED
  BY <1>1, <1>2 DEF RegistryInv, TableOK, QueueOK, OneRunning, ClosedOK,
                    ClosedStaysEmpty, Waiting, Running

LEMMA TickKeepsEntry ==
  ASSUME NEW entry \in Entry
  PROVE  LET older == IF entry.age \in 0 .. Retention - 1
                      THEN [entry EXCEPT !.age = @ + 1] ELSE entry
         IN  /\ older \in Entry
             /\ older.job = entry.job
             /\ older.owner = entry.owner
             /\ older.submitted = entry.submitted
             /\ older.age = Unfinished <=> entry.age = Unfinished
BY RegistryAssumption DEF Entry, Age, Unfinished

LEMMA TickTable ==
  ASSUME TableOK, Tick
  PROVE  /\ TableOK'
         /\ Known(jobs)' = Known(jobs)
         /\ \A id \in Known(jobs) :
              /\ jobs'[id].job = jobs[id].job
              /\ jobs'[id].owner = jobs[id].owner
              /\ jobs'[id].submitted = jobs[id].submitted
              /\ jobs'[id].age = Unfinished <=> jobs[id].age = Unfinished
<1>1. ASSUME NEW id \in JobId, jobs[id] \in Entry
      PROVE  /\ jobs'[id] \in Entry
             /\ jobs'[id].job = jobs[id].job
             /\ jobs'[id].owner = jobs[id].owner
             /\ jobs'[id].submitted = jobs[id].submitted
             /\ jobs'[id].age = Unfinished <=> jobs[id].age = Unfinished
  BY <1>1, TickKeepsEntry DEF Tick
<1>2. ASSUME NEW id \in JobId, jobs[id] = NoEntry
      PROVE  jobs'[id] = NoEntry
  <2>1. NoEntry.age \notin 0 .. Retention - 1
    BY RegistryAssumption DEF NoEntry, Unfinished
  <2>. QED
    BY <1>2, <2>1 DEF Tick
<1>3. jobs' \in [JobId -> Entry \cup {NoEntry}]
  <2>1. jobs' = [id \in JobId |-> jobs'[id]]
    BY DEF Tick
  <2>2. \A id \in JobId : jobs'[id] \in Entry \cup {NoEntry}
    BY <1>1, <1>2 DEF TableOK
  <2>. QED
    BY <2>1, <2>2
<1>4. Known(jobs)' = Known(jobs)
  BY <1>1, <1>2, NoEntryUnknown DEF Known, TableOK
<1>5. \A id \in Known(jobs) : id \in JobId /\ jobs[id] \in Entry /\ EntryOK(jobs[id])
  BY DEF TableOK, EntryOK, Known
<1>6. \A id \in Known(jobs) : EntryOK(jobs'[id])
  BY <1>1, <1>5 DEF EntryOK
<1>. QED
  BY <1>1, <1>3, <1>4, <1>5, <1>6 DEF TableOK

LEMMA TickKeeps ==
  ASSUME RegistryInv, Tick
  PROVE  RegistryInv'
<1>1. /\ TableOK'
      /\ Known(jobs)' = Known(jobs)
      /\ \A id \in Known(jobs) :
           /\ jobs'[id].job = jobs[id].job
           /\ jobs'[id].submitted = jobs[id].submitted
  BY TickTable DEF RegistryInv
<1>2. UNCHANGED <<queue, closed>>
  BY DEF Tick
<1>3. \A id \in JobId : Waiting(id)' <=> Waiting(id)
  BY <1>1 DEF Waiting
<1>4. QueueOK'
  BY <1>2, <1>3 DEF RegistryInv, QueueOK
<1>5. OneRunning'
  BY <1>1 DEF RegistryInv, OneRunning, Running
<1>6. ClosedOK'
  BY <1>1, <1>2 DEF RegistryInv, ClosedOK, ClosedStaysEmpty
<1>. QED
  BY <1>1, <1>4, <1>5, <1>6 DEF RegistryInv

--------------------------------------------------------------------------------
LEMMA InitInv == Init => RegistryInv
<1>. SUFFICES ASSUME Init PROVE RegistryInv
  OBVIOUS
<1>1. Known(jobs) = {} /\ jobs \in [JobId -> Entry \cup {NoEntry}] /\ queue = << >>
      /\ closed = FALSE
  BY NoEntryUnknown DEF Init, Known
<1>2. queue \in Seq(JobId) /\ \A x, y : ~ Lists(queue, x) /\ ~ Precedes(queue, x, y)
  BY <1>1 DEF Lists, Precedes
<1>. QED
  BY <1>1, <1>2 DEF RegistryInv, TableOK, QueueOK, OneRunning, ClosedOK,
                    ClosedStaysEmpty, Waiting, Running

LEMMA StepInv == RegistryInv /\ [Next]_registryVars => RegistryInv'
<1>. SUFFICES ASSUME RegistryInv, [Next]_registryVars PROVE RegistryInv'
  OBVIOUS
<1>1. ASSUME NEW id \in JobId, NEW n \in 1 .. MaxJobFiles, NEW owner \in Owner,
             Reserve(owner, id, n)
      PROVE  RegistryInv'
  BY <1>1, ReserveKeeps
<1>2. ASSUME NEW id \in JobId, NEW n \in 1 .. MaxJobFiles, ReserveRejected(id, n)
      PROVE  RegistryInv'
  BY <1>2, PruneKeeps DEF ReserveRejected
<1>3. ASSUME NEW owner \in Owner, NEW id \in JobId, Submit(owner, id)
      PROVE  RegistryInv'
  BY <1>3, SubmitKeeps
<1>4. ASSUME NEW owner \in Owner, NEW id \in JobId, DiscardReservation(owner, id)
      PROVE  RegistryInv'
  BY <1>4, DiscardKeeps
<1>5. ASSUME NEW owner \in Owner, NEW id \in JobId, NEW outcome \in Outcome,
             Record(owner, id, outcome)
      PROVE  RegistryInv'
  BY <1>5, RecordKeeps
<1>6. ASSUME NEW owner \in Owner, NEW id \in JobId, NEW status \in Terminal,
             NEW artifacts \in SUBSET Artifact, Finish(owner, id, status, artifacts)
      PROVE  RegistryInv'
  BY <1>6, FinishKeeps
<1>7. CASE StartNext
  BY <1>7, StartNextKeeps
<1>8. CASE Prune
  BY <1>8, PruneKeeps
<1>9. CASE Close
  BY <1>9, CloseKeeps
<1>10. CASE Tick
  BY <1>10, TickKeeps
<1>11. CASE UNCHANGED registryVars
  BY <1>11 DEF registryVars, RegistryInv, TableOK, QueueOK, OneRunning, ClosedOK,
               ClosedStaysEmpty, Waiting, Running, Known
<1>. QED
  BY <1>1, <1>2, <1>3, <1>4, <1>5, <1>6, <1>7, <1>8, <1>9, <1>10, <1>11 DEF Next

(* The table, the queue and the closed flag stay consistent for ever.       *)
THEOREM RegistryInvariant == Spec => []RegistryInv
BY InitInv, StepInv, PTL DEF Spec

(* Type correctness: no counter leaves its range, whatever is recorded.     *)
THEOREM TypeCorrect == Spec => []TypeOK
<1>1. RegistryInv => TypeOK
  BY DEF RegistryInv, TableOK, QueueOK, ClosedOK, TypeOK
<1>. QED
  BY <1>1, RegistryInvariant, PTL

(* The queue and the table never drift apart.                               *)
THEOREM QueueIsExact == Spec => []QueueExact
<1>1. RegistryInv => QueueExact
  <2>. SUFFICES ASSUME RegistryInv PROVE QueueExact
    OBVIOUS
  <2>1. \A i, j \in 1 .. Len(queue) : i < j => queue[i] # queue[j]
    BY DEF RegistryInv, QueueOK, Precedes
  <2>2. Len(queue) \in Nat
    BY DEF RegistryInv, QueueOK
  <2>3. \A i, j \in 1 .. Len(queue) : i # j => queue[i] # queue[j]
    BY <2>1, <2>2
  <2>. QED
    BY <2>3 DEF RegistryInv, QueueOK, QueueExact, Lists, Waiting
<1>. QED
  BY <1>1, RegistryInvariant, PTL

(* At most one job of the table is running.                                 *)
THEOREM OneRuns == Spec => []OneRunning
BY RegistryInvariant, PTL DEF RegistryInv

(* No source is counted twice, and success accounts for every source.       *)
THEOREM SourcesBalance == Spec => []SourcesAccounted
<1>1. RegistryInv => SourcesAccounted
  BY DEF RegistryInv, TableOK, EntryOK, JobOK, Accounted, SourcesAccounted
<1>. QED
  BY <1>1, RegistryInvariant, PTL

--------------------------------------------------------------------------------
(* The limits.                                                              *)

LEMMA SetsAreFinite ==
  ASSUME NEW table
  PROVE  /\ IsFiniteSet(Known(table)) /\ IsFiniteSet(Active(table))
         /\ Cardinality(Known(table)) \in Nat /\ Cardinality(Active(table)) \in Nat
BY FS_Subset, FS_CardinalityType, RegistryAssumption DEF Known, Active

LEMMA FewerIfSubset ==
  ASSUME NEW S, NEW T, IsFiniteSet(S), T \subseteq S
  PROVE  IsFiniteSet(T) /\ Cardinality(T) <= Cardinality(S)
         /\ Cardinality(T) \in Nat /\ Cardinality(S) \in Nat
BY FS_Subset, FS_CardinalityType

LEMMA AtMostOneMore ==
  ASSUME NEW S, NEW x, IsFiniteSet(S)
  PROVE  /\ IsFiniteSet(S \cup {x}) /\ Cardinality(S \cup {x}) \in Nat
         /\ Cardinality(S \cup {x}) <= Cardinality(S) + 1
<1>1. IsFiniteSet(S \cup {x}) /\ Cardinality(S) \in Nat
  BY FS_AddElement, FS_CardinalityType
<1>2. Cardinality(S \cup {x}) \in Nat
  BY <1>1, FS_CardinalityType
<1>3. Cardinality(S \cup {x}) = IF x \in S THEN Cardinality(S) ELSE Cardinality(S) + 1
  BY FS_AddElement
<1>. QED
  BY <1>1, <1>2, <1>3

(* Steps that bring no new active or known job keep the bounds.             *)
LEMMA BoundedIfNoneNew ==
  ASSUME Bounded, Known(jobs)' \subseteq Known(jobs), Active(jobs)' \subseteq Active(jobs)
  PROVE  Bounded'
<1>1. /\ Cardinality(Known(jobs)') <= Cardinality(Known(jobs))
      /\ Cardinality(Active(jobs)') <= Cardinality(Active(jobs))
      /\ Cardinality(Known(jobs)') \in Nat /\ Cardinality(Known(jobs)) \in Nat
      /\ Cardinality(Active(jobs)') \in Nat /\ Cardinality(Active(jobs)) \in Nat
  BY FewerIfSubset, SetsAreFinite
<1>. QED
  BY <1>1, RegistryAssumption DEF Bounded

LEMMA PrunedTable ==
  ASSUME TableOK
  PROVE  /\ AfterPrune \in [JobId -> Entry \cup {NoEntry}]
         /\ Known(AfterPrune) = Known(jobs) \ Expired(jobs)
         /\ \A id \in Known(AfterPrune) : AfterPrune[id] = jobs[id]
BY WithoutKnown DEF TableOK, AfterPrune

(* What a successful reservation leaves in the table.                       *)
LEMMA ReservedTable ==
  ASSUME TableOK, NEW owner \in Owner, NEW id \in JobId, NEW n \in 1 .. MaxJobFiles,
         NEW victim, jobs' = [Without(AfterPrune, victim) EXCEPT
                                ![id] = [owner |-> owner, job |-> NewJob(n),
                                         submitted |-> FALSE, age |-> Unfinished]]
  PROVE  /\ Known(jobs)' = (Known(AfterPrune) \ victim) \cup {id}
         /\ \A other \in Known(AfterPrune) \ (victim \cup {id}) : jobs'[other] = jobs[other]
<1>. DEFINE new   == [owner |-> owner, job |-> NewJob(n), submitted |-> FALSE,
                      age |-> Unfinished]
            table == Without(AfterPrune, victim)
<1>1. /\ table \in [JobId -> Entry \cup {NoEntry}]
      /\ Known(table) = Known(AfterPrune) \ victim
      /\ \A other \in Known(AfterPrune) \ victim : table[other] = jobs[other]
  BY PrunedTable, WithoutKnown
<1>2. new.owner # NoOwner
  BY JobStateAssumption
<1>. HIDE DEF new, table
<1>3. jobs' = [table EXCEPT ![id] = new]
  BY DEF table, new
<1>4. /\ jobs'[id] = new
      /\ \A other \in JobId \ {id} : jobs'[other] = table[other]
  BY <1>1, <1>3
<1>. QED
  BY <1>1, <1>2, <1>4 DEF Known

LEMMA ReserveBounded ==
  ASSUME TableOK, Bounded, NEW owner \in Owner, NEW id \in JobId,
         NEW n \in 1 .. MaxJobFiles, Reserve(owner, id, n)
  PROVE  Bounded'
<1>1. PICK victim \in Victims :
        jobs' = [Without(AfterPrune, victim) EXCEPT
                   ![id] = [owner |-> owner, job |-> NewJob(n),
                            submitted |-> FALSE, age |-> Unfinished]]
  BY DEF Reserve
<1>2. /\ id \notin Known(AfterPrune)
      /\ Cardinality(Active(AfterPrune)) < MaxActive
  BY DEF Reserve, Admissible
<1>3. /\ Known(jobs)' = (Known(AfterPrune) \ victim) \cup {id}
      /\ \A other \in Known(AfterPrune) \ (victim \cup {id}) : jobs'[other] = jobs[other]
  BY <1>1, ReservedTable
<1>4. Known(AfterPrune) \subseteq Known(jobs)
      /\ \A other \in Known(AfterPrune) : AfterPrune[other] = jobs[other]
  BY PrunedTable
<1>5. Active(jobs)' \subseteq Active(AfterPrune) \cup {id}
  BY <1>3, <1>4 DEF Active
<1>6. Cardinality(Active(jobs)') <= MaxActive
  <2>1. /\ IsFiniteSet(Active(AfterPrune) \cup {id})
        /\ Cardinality(Active(AfterPrune) \cup {id}) <= Cardinality(Active(AfterPrune)) + 1
    BY SetsAreFinite, AtMostOneMore
  <2>2. /\ Cardinality(Active(jobs)') <= Cardinality(Active(AfterPrune) \cup {id})
        /\ Cardinality(Active(jobs)') \in Nat
        /\ Cardinality(Active(AfterPrune) \cup {id}) \in Nat
    BY <1>5, <2>1, FewerIfSubset
  <2>. QED
    BY <1>2, <2>1, <2>2, SetsAreFinite, RegistryAssumption
<1>7. Cardinality(Known(jobs)') <= MaxRetained
  <2>. DEFINE left == Known(AfterPrune) \ victim
  <2>1. IsFiniteSet(left) /\ Cardinality(left) \in Nat /\ Cardinality(left) + 1 <= MaxRetained
    <3>1. CASE Cardinality(Known(AfterPrune)) < MaxRetained
      <4>1. /\ IsFiniteSet(left)
            /\ Cardinality(left) <= Cardinality(Known(AfterPrune))
            /\ Cardinality(left) \in Nat
        BY SetsAreFinite, FewerIfSubset
      <4>. QED
        BY <3>1, <4>1, SetsAreFinite, RegistryAssumption
    <3>2. CASE ~ (Cardinality(Known(AfterPrune)) < MaxRetained)
      <4>1. PICK oldest \in Oldest(AfterPrune) : victim = {oldest}
        BY <3>2 DEF Victims
      <4>2. oldest \in Known(AfterPrune)
        BY DEF Oldest, FinishedIds
      <4>3. IsFiniteSet(left) /\ Cardinality(left) = Cardinality(Known(AfterPrune)) - 1
        BY <4>1, <4>2, SetsAreFinite, FS_RemoveElement
      <4>4. Cardinality(Known(AfterPrune)) <= Cardinality(Known(jobs))
        BY <1>4, SetsAreFinite, FewerIfSubset
      <4>5. Cardinality(left) \in Nat
        BY <4>3, FS_CardinalityType
      <4>. HIDE DEF left
      <4>. QED
        BY <4>3, <4>4, <4>5, SetsAreFinite, RegistryAssumption DEF Bounded
    <3>. QED
      BY <3>1, <3>2
  <2>. HIDE DEF left
  <2>2. Cardinality(left \cup {id}) <= Cardinality(left) + 1
        /\ Cardinality(left \cup {id}) \in Nat
    BY <2>1, AtMostOneMore
  <2>3. Known(jobs)' = left \cup {id}
    BY <1>3 DEF left
  <2>. QED
    BY <2>1, <2>2, <2>3, RegistryAssumption
<1>. QED
  BY <1>6, <1>7 DEF Bounded

LEMMA ForgetBounded ==
  ASSUME TableOK, Bounded, NEW ids, Forget(ids)
  PROVE  Bounded'
<1>1. /\ Known(jobs)' = Known(jobs) \ ids
      /\ \A id \in Known(jobs)' : jobs'[id] = jobs[id]
  BY ForgetTable DEF Forget
<1>. QED
  BY <1>1, BoundedIfNoneNew DEF Active

LEMMA StepBounded == RegistryInv /\ Bounded /\ [Next]_registryVars => Bounded'
<1>. SUFFICES ASSUME RegistryInv, Bounded, [Next]_registryVars PROVE Bounded'
  OBVIOUS
<1>0. TableOK
  BY DEF RegistryInv
<1>1. ASSUME NEW id \in JobId, NEW n \in 1 .. MaxJobFiles, NEW owner \in Owner,
             Reserve(owner, id, n)
      PROVE  Bounded'
  BY <1>0, <1>1, ReserveBounded
<1>2. ASSUME NEW id \in JobId, NEW n \in 1 .. MaxJobFiles, ReserveRejected(id, n)
      PROVE  Bounded'
  BY <1>0, <1>2, ForgetBounded DEF ReserveRejected, Prune
<1>3. ASSUME NEW owner \in Owner, NEW id \in JobId, DiscardReservation(owner, id)
      PROVE  Bounded'
  BY <1>0, <1>3, ForgetBounded DEF DiscardReservation
<1>4. CASE Prune
  BY <1>0, <1>4, ForgetBounded DEF Prune
<1>5. ASSUME NEW id \in JobId, id \in Known(jobs), NEW new,
             new.owner = jobs[id].owner, IsTerminal(jobs[id].job) => IsTerminal(new.job),
             jobs' = [jobs EXCEPT ![id] = new]
      PROVE  Bounded'
  <2>1. /\ jobs'[id] = new
        /\ \A other \in JobId \ {id} : jobs'[other] = jobs[other]
    BY <1>0, <1>5 DEF TableOK
  <2>2. Known(jobs)' \subseteq Known(jobs) /\ Active(jobs)' \subseteq Active(jobs)
    BY <1>5, <2>1 DEF Known, Active
  <2>. QED
    BY <2>2, BoundedIfNoneNew
<1>6. ASSUME NEW owner \in Owner, NEW id \in JobId, Submit(owner, id)
      PROVE  Bounded'
  <2>. DEFINE new == [jobs[id] EXCEPT !.submitted = TRUE]
  <2>1. id \in Known(jobs) /\ jobs[id] \in Entry
    BY <1>0, <1>6, OwnedIsKnown DEF Submit
  <2>2. new.owner = jobs[id].owner /\ new.job = jobs[id].job
    BY <2>1 DEF Entry
  <2>3. jobs' = [jobs EXCEPT ![id] = new]
    BY <1>6 DEF Submit
  <2>. HIDE DEF new
  <2>. QED
    BY <1>5, <2>1, <2>2, <2>3
<1>7. CASE StartNext
  <2>. DEFINE id  == Head(queue)
              new == [jobs[id] EXCEPT !.job = Start(jobs[id].job)]
  <2>1. id \in Known(jobs) /\ ~ IsTerminal(jobs[id].job) /\ jobs' = [jobs EXCEPT ![id] = new]
    BY <1>7 DEF StartNext, MayStart, IsTerminal, Terminal
  <2>2. id \in JobId /\ jobs[id] \in Entry
    BY <1>0, <2>1 DEF TableOK, EntryOK, Known
  <2>. HIDE DEF id
  <2>3. new.owner = jobs[id].owner
    BY <2>2 DEF Entry
  <2>. HIDE DEF new
  <2>. QED
    BY <1>5, <2>1, <2>2, <2>3
<1>8. ASSUME NEW owner \in Owner, NEW id \in JobId, NEW outcome \in Outcome,
             Record(owner, id, outcome)
      PROVE  Bounded'
  <2>. DEFINE new == [jobs[id] EXCEPT !.job = RecordSource(jobs[id].job, outcome)]
  <2>1. id \in Known(jobs) /\ jobs[id] \in Entry
    BY <1>0, <1>8, OwnedIsKnown DEF Record
  <2>2. new.owner = jobs[id].owner /\ ~ IsTerminal(jobs[id].job)
    BY <1>8, <2>1 DEF Entry, Record, MayRecord, IsTerminal, Terminal
  <2>3. jobs' = [jobs EXCEPT ![id] = new]
    BY <1>8 DEF Record
  <2>. HIDE DEF new
  <2>. QED
    BY <1>5, <2>1, <2>2, <2>3
<1>9. ASSUME NEW owner \in Owner, NEW id \in JobId, NEW status \in Terminal,
             NEW artifacts \in SUBSET Artifact, Finish(owner, id, status, artifacts)
      PROVE  Bounded'
  <2>. DEFINE job == FinishJob(jobs[id].job, status, artifacts)
              new == [jobs[id] EXCEPT !.job = job, !.age = 0]
  <2>1. id \in Known(jobs) /\ jobs[id] \in Entry
    BY <1>0, <1>9, OwnedIsKnown DEF Finish
  <2>2. ~ IsTerminal(jobs[id].job) /\ jobs' = [jobs EXCEPT ![id].job = job, ![id].age = 0]
    BY <1>9 DEF Finish, MayFinish
  <2>. HIDE DEF job
  <2>3. new.owner = jobs[id].owner /\ jobs' = [jobs EXCEPT ![id] = new]
    BY <1>0, <2>1, <2>2 DEF Entry, TableOK
  <2>. HIDE DEF new
  <2>. QED
    BY <1>5, <2>1, <2>2, <2>3
<1>10. CASE Close
  <2>1. Known(jobs)' = {}
    BY <1>10, NoEntryUnknown DEF Close, Known
  <2>. QED
    BY <2>1, BoundedIfNoneNew DEF Active
<1>11. CASE Tick
  BY <1>0, <1>11, TickTable, BoundedIfNoneNew DEF Active
<1>12. CASE UNCHANGED registryVars
  BY <1>12 DEF registryVars, Bounded, Known, Active
<1>. QED
  BY <1>1, <1>2, <1>3, <1>4, <1>6, <1>7, <1>8, <1>9, <1>10, <1>11, <1>12 DEF Next

(* Memory and disk stay bounded: no interleaving of reservations, ends and  *)
(* evictions lets the table outgrow MaxActive and MaxRetained.              *)
THEOREM StaysBounded == Spec => []Bounded
<1>1. Init => Bounded
  <2>. SUFFICES ASSUME Init PROVE Bounded
    OBVIOUS
  <2>1. Known(jobs) = {} /\ Active(jobs) = {}
    BY NoEntryUnknown DEF Init, Known, Active
  <2>. QED
    BY <2>1, FS_EmptySet, RegistryAssumption DEF Bounded
<1>. QED
  BY <1>1, StepBounded, RegistryInvariant, PTL DEF Spec

--------------------------------------------------------------------------------
(* Among finished jobs one is the oldest: ages are bounded numbers.         *)
LEMMA OldestExists ==
  ASSUME NEW table \in [JobId -> Entry \cup {NoEntry}], FinishedIds(table) # {}
  PROVE  Oldest(table) # {}
<1>1. \A id \in FinishedIds(table) : table[id].age \in 0 .. Retention
  BY KnownEntry DEF FinishedIds, Known, Entry, Age
<1>. DEFINE Youth == {Retention - table[id].age : id \in FinishedIds(table)}
<1>2. Youth \subseteq Nat /\ Youth # {}
  BY <1>1, RegistryAssumption
<1>3. PICK least \in Youth : \A other \in Youth : least <= other
  <2>. HIDE DEF Youth
  <2>. QED
    BY <1>2, LeastNatural
<1>4. PICK id \in FinishedIds(table) : least = Retention - table[id].age
  OBVIOUS
<1>5. \A other \in FinishedIds(table) : Retention - table[id].age <= Retention - table[other].age
  BY <1>3, <1>4
<1>6. \A other \in FinishedIds(table) : table[other].age <= table[id].age
  BY <1>1, <1>5, RegistryAssumption
<1>. QED
  BY <1>6 DEF Oldest

(* Retained history never locks users out: a full table with a free active  *)
(* place always has a finished job to evict.  This needs the limits to be   *)
(* ordered, MaxActive <= MaxRetained, and the stamp to match the status.    *)
THEOREM HistoryIsEvicted == Spec => []HistoryNeverBlocks
<1>1. RegistryInv => HistoryNeverBlocks
  <2>. SUFFICES ASSUME RegistryInv, Cardinality(Active(AfterPrune)) < MaxActive,
                       ~ (Cardinality(Known(AfterPrune)) < MaxRetained)
                PROVE  Oldest(AfterPrune) # {}
    BY DEF HistoryNeverBlocks, Victims
  <2>1. /\ AfterPrune \in [JobId -> Entry \cup {NoEntry}]
        /\ Known(AfterPrune) \subseteq Known(jobs)
        /\ \A id \in Known(AfterPrune) : AfterPrune[id] = jobs[id]
    BY PrunedTable DEF RegistryInv
  <2>2. Active(AfterPrune) # Known(AfterPrune)
    BY SetsAreFinite, RegistryAssumption
  <2>3. PICK id \in Known(AfterPrune) : IsTerminal(AfterPrune[id].job)
    BY <2>2 DEF Active
  <2>4. id \in FinishedIds(AfterPrune)
    BY <2>1, <2>3 DEF FinishedIds, RegistryInv, TableOK, EntryOK
  <2>. QED
    BY <2>1, <2>4, OldestExists
<1>. QED
  BY <1>1, RegistryInvariant, PTL

(* What the limits promise at once: well typed, they bound the table, and   *)
(* history gives way to new work (reserve in local_job_registry.rs).        *)
THEOREM LimitsAreKept == Spec => []LimitsHold
<1>1. TypeOK /\ Bounded /\ HistoryNeverBlocks => LimitsHold
  BY DEF LimitsHold
<1>. QED
  BY <1>1, TypeCorrect, StaysBounded, HistoryIsEvicted, PTL

--------------------------------------------------------------------------------
(* The refinement: the registry implements JobLifecycle, each of its        *)
(* operations is one step of the promise or none.  The mapping is the one   *)
(* of LocalJobRegistry: phases from the entries, the order of the waiting   *)
(* jobs from their places in the queue.                                     *)

Phases == [id \in JobId |-> PhaseOf(id)]
Before == {<<queue[place[1]], queue[place[2]]>> : place \in Places}

(* The phases, read from the table.                                         *)
LEMMA PhaseCases ==
  ASSUME TableOK, NEW id \in JobId
  PROVE  /\ PhaseOf(id) = "absent" <=> id \notin Known(jobs)
         /\ PhaseOf(id) = "done" <=> id \in Known(jobs) /\ IsTerminal(jobs[id].job)
         /\ PhaseOf(id) = "running" <=> id \in Running(jobs)
         /\ PhaseOf(id) = "waiting" <=> Waiting(id)
         /\ PhaseOf(id) = "reserved" <=>
              /\ id \in Known(jobs) /\ ~ jobs[id].submitted
              /\ jobs[id].job.status = "queued"
<1>1. id \in Known(jobs) => jobs[id].job.status \in Status /\ jobs[id].submitted \in BOOLEAN
  BY DEF TableOK, EntryOK, Entry, Job
<1>. QED
  BY <1>1 DEF PhaseOf, Waiting, Running, IsTerminal, Status, Terminal

(* The order, read from the queue.                                          *)
LEMMA BeforeIsPrecedes ==
  /\ \A x, y : <<x, y>> \in Before <=> Precedes(queue, x, y)
  /\ \A pair \in Before : pair = <<pair[1], pair[2]>>
<1>1. ASSUME NEW x, NEW y, Precedes(queue, x, y)
      PROVE  <<x, y>> \in Before
  <2>1. PICK i, j \in 1 .. Len(queue) : i < j /\ queue[i] = x /\ queue[j] = y
    BY <1>1 DEF Precedes
  <2>2. <<i, j>> \in Places
    BY <2>1 DEF Places
  <2>. QED
    BY <2>1, <2>2 DEF Before
<1>2. ASSUME NEW x, NEW y, <<x, y>> \in Before
      PROVE  Precedes(queue, x, y)
  <2>1. PICK place \in Places : <<x, y>> = <<queue[place[1]], queue[place[2]]>>
    BY <1>2 DEF Before
  <2>. QED
    BY <2>1 DEF Places, Precedes
<1>3. \A pair \in Before : pair = <<pair[1], pair[2]>>
  BY DEF Before
<1>. QED
  BY <1>1, <1>2, <1>3

LEMMA BeforeIsPrecedesNext ==
  /\ \A x, y : <<x, y>> \in Before' <=> Precedes(queue', x, y)
  /\ \A pair \in Before' : pair = <<pair[1], pair[2]>>
<1>1. ASSUME NEW x, NEW y, Precedes(queue', x, y)
      PROVE  <<x, y>> \in Before'
  <2>1. PICK i, j \in 1 .. Len(queue') : i < j /\ queue'[i] = x /\ queue'[j] = y
    BY <1>1 DEF Precedes
  <2>2. <<i, j>> \in Places'
    BY <2>1 DEF Places
  <2>. QED
    BY <2>1, <2>2 DEF Before
<1>2. ASSUME NEW x, NEW y, <<x, y>> \in Before'
      PROVE  Precedes(queue', x, y)
  <2>1. PICK place \in Places' : <<x, y>> = <<queue'[place[1]], queue'[place[2]]>>
    BY <1>2 DEF Before
  <2>. QED
    BY <2>1 DEF Places, Precedes
<1>3. \A pair \in Before' : pair = <<pair[1], pair[2]>>
  BY DEF Before
<1>. QED
  BY <1>1, <1>2, <1>3

LEMMA SameOrder ==
  ASSUME \A x, y : Precedes(queue', x, y) <=> Precedes(queue, x, y)
  PROVE  Before' = Before
BY BeforeIsPrecedes, BeforeIsPrecedesNext

(* Only waiting jobs stand in the order.                                    *)
LEMMA OrderOfWaiting ==
  ASSUME QueueOK, NEW x, NEW y, Precedes(queue, x, y)
  PROVE  /\ x \in JobId /\ y \in JobId /\ x # y
         /\ Lists(queue, x) /\ Lists(queue, y)
         /\ Waiting(x) /\ Waiting(y)
<1>1. x # y
  BY DEF QueueOK
<1>2. PICK i, j \in 1 .. Len(queue) : i < j /\ queue[i] = x /\ queue[j] = y
  BY DEF Precedes
<1>3. x \in JobId /\ y \in JobId
  BY <1>2 DEF QueueOK
<1>4. Lists(queue, x) /\ Lists(queue, y)
  BY <1>2 DEF Lists
<1>. QED
  BY <1>1, <1>3, <1>4 DEF QueueOK

LEMMA HeadIsFirst ==
  ASSUME QueueOK, queue # << >>, NEW x
  PROVE  ~ Precedes(queue, x, Head(queue))
<1>. SUFFICES ASSUME NEW i \in 1 .. Len(queue), NEW j \in 1 .. Len(queue), i < j,
                     queue[i] = x, queue[j] = Head(queue)
              PROVE  FALSE
  BY DEF Precedes
<1>1. queue \in Seq(JobId) /\ Len(queue) \in Nat /\ 1 \in 1 .. Len(queue) /\ 1 < j
      /\ Head(queue) = queue[1]
  BY DEF QueueOK
<1>2. Precedes(queue, Head(queue), Head(queue))
  BY <1>1 DEF Precedes
<1>. QED
  BY <1>2 DEF QueueOK

--------------------------------------------------------------------------------
(* Forgetting done jobs.                                                    *)

Done(ids) == \A id \in ids : id \in Known(jobs) /\ IsTerminal(jobs[id].job)

LEMMA ForgottenInOrder ==
  ASSUME RegistryInv, NEW ids, Done(ids), queue' = Retain(queue, ids)
  PROVE  Before' = Before
<1>1. \A x, y : Precedes(queue', x, y)
                  <=> Precedes(queue, x, y) /\ x \notin ids /\ y \notin ids
  BY RetainFilters DEF RegistryInv, QueueOK
<1>2. \A x, y : Precedes(queue, x, y) => x \notin ids /\ y \notin ids
  BY OrderOfWaiting DEF RegistryInv, Done, Waiting, IsTerminal, Terminal
<1>. QED
  BY <1>1, <1>2, SameOrder

LEMMA ExpiredAreDone ==
  ASSUME RegistryInv
  PROVE  Done(Expired(jobs))
BY DEF RegistryInv, TableOK, EntryOK, Done, Expired, FinishedIds

LEMMA VictimsAreDone ==
  ASSUME RegistryInv, NEW victim \in Victims
  PROVE  Done(victim)
<1>1. \A id \in Oldest(AfterPrune) : id \in Known(AfterPrune) /\ AfterPrune[id].age # Unfinished
  BY DEF Oldest, FinishedIds
<1>2. \A id \in Oldest(AfterPrune) : id \in Known(jobs) /\ jobs[id].age # Unfinished
  BY <1>1, PrunedTable DEF RegistryInv
<1>3. \A id \in victim : id \in Oldest(AfterPrune)
  BY DEF Victims
<1>. QED
  BY <1>2, <1>3 DEF RegistryInv, TableOK, EntryOK, Done

LEMMA DoneInPhases ==
  ASSUME RegistryInv, NEW ids, Done(ids)
  PROVE  ids \in SUBSET Lifecycle!In("done")
<1>1. \A id \in ids : id \in JobId /\ PhaseOf(id) = "done"
  BY PhaseCases DEF RegistryInv, Done, Known
<1>. QED
  BY <1>1 DEF Lifecycle!In

LEMMA PruneForgets ==
  ASSUME RegistryInv, Prune
  PROVE  \E ids \in SUBSET Lifecycle!In("done") : Lifecycle!Forgotten(ids)
<1>. DEFINE ids == Expired(jobs)
<1>1. Done(ids) /\ ids \in SUBSET Lifecycle!In("done")
  BY ExpiredAreDone, DoneInPhases
<1>2. Before' = Before /\ UNCHANGED closed
  BY <1>1, ForgottenInOrder DEF Prune, Forget
<1>3. /\ Known(jobs)' = Known(jobs) \ ids
      /\ \A id \in Known(jobs)' : jobs'[id] = jobs[id]
  BY ForgetTable DEF RegistryInv, Prune, Forget
<1>. HIDE DEF ids
<1>4. \A id \in JobId : PhaseOf(id)' = IF id \in ids THEN "absent" ELSE PhaseOf(id)
  BY <1>3 DEF PhaseOf
<1>5. Phases' = [id \in JobId |-> IF id \in ids THEN "absent" ELSE Phases[id]]
  BY <1>4 DEF Phases
<1>6. Lifecycle!Forgotten(ids)
  BY <1>2, <1>5 DEF Lifecycle!Forgotten, Phases, Before
<1>. QED
  BY <1>1, <1>6

LEMMA DiscardAbandons ==
  ASSUME RegistryInv, NEW owner \in Owner, NEW id \in JobId, DiscardReservation(owner, id)
  PROVE  Lifecycle!Abandon(id)
<1>1. id \in Known(jobs) /\ PhaseOf(id) = "reserved" /\ UNCHANGED closed
  BY OwnedIsKnown, PhaseCases DEF RegistryInv, DiscardReservation
<1>2. /\ Known(jobs)' = Known(jobs) \ {id}
      /\ \A other \in Known(jobs)' : jobs'[other] = jobs[other]
  BY ForgetTable DEF RegistryInv, DiscardReservation, Forget
<1>3. Before' = Before
  <2>1. \A x, y : Precedes(queue', x, y)
                    <=> Precedes(queue, x, y) /\ x # id /\ y # id
    BY RetainFilters DEF RegistryInv, QueueOK, DiscardReservation, Forget
  <2>2. ~ Waiting(id)
    BY DEF DiscardReservation, Waiting
  <2>. QED
    BY <2>1, <2>2, OrderOfWaiting, SameOrder DEF RegistryInv
<1>4. \A other \in JobId : PhaseOf(other)' = IF other = id THEN "absent" ELSE PhaseOf(other)
  BY <1>2 DEF PhaseOf
<1>5. Phases' = [Phases EXCEPT ![id] = "absent"]
  BY <1>4 DEF Phases
<1>. QED
  BY <1>1, <1>3, <1>5 DEF Lifecycle!Abandon, Phases, Before

LEMMA ReserveAccepts ==
  ASSUME RegistryInv, NEW owner \in Owner, NEW id \in JobId,
         NEW n \in 1 .. MaxJobFiles, Reserve(owner, id, n)
  PROVE  \E forgotten \in SUBSET Lifecycle!In("done") : Lifecycle!Accept(id, forgotten)
<1>1. PICK victim \in Victims :
        /\ jobs' = [Without(AfterPrune, victim) EXCEPT
                      ![id] = [owner |-> owner, job |-> NewJob(n),
                               submitted |-> FALSE, age |-> Unfinished]]
        /\ queue' = Retain(queue, Expired(jobs) \cup victim)
  BY DEF Reserve
<1>. DEFINE gone == Expired(jobs) \cup victim
<1>2. Done(gone)
  BY ExpiredAreDone, VictimsAreDone DEF Done
<1>3. gone \in SUBSET Lifecycle!In("done")
  BY <1>2, DoneInPhases
<1>4. Before' = Before /\ ~ closed /\ UNCHANGED closed
  BY <1>1, <1>2, ForgottenInOrder DEF Reserve, Open
<1>5. /\ Known(jobs)' = (Known(AfterPrune) \ victim) \cup {id}
      /\ \A other \in Known(AfterPrune) \ (victim \cup {id}) : jobs'[other] = jobs[other]
  BY <1>1, ReservedTable DEF RegistryInv
<1>6. Known(AfterPrune) = Known(jobs) \ Expired(jobs) /\ id \notin Known(AfterPrune)
  BY PrunedTable DEF RegistryInv, Reserve, Admissible
<1>7. PhaseOf(id)' = "reserved"
  <2>. DEFINE new == [owner |-> owner, job |-> NewJob(n), submitted |-> FALSE,
                      age |-> Unfinished]
  <2>1. Without(AfterPrune, victim) \in [JobId -> Entry \cup {NoEntry}]
    BY PrunedTable, WithoutKnown DEF RegistryInv
  <2>2. new.job.status = "queued" /\ new.submitted = FALSE
    BY NewJobOK
  <2>. HIDE DEF new
  <2>3. jobs'[id] = new
    BY <1>1, <2>1 DEF new
  <2>4. id \in Known(jobs)'
    BY <1>5
  <2>. QED
    BY <2>2, <2>3, <2>4 DEF PhaseOf, IsTerminal, Terminal
<1>8. PhaseOf(id) = "absent" \/ id \in gone
  BY <1>6, PhaseCases DEF RegistryInv
<1>. HIDE DEF gone
<1>9. \A other \in JobId \ {id} :
        PhaseOf(other)' = IF other \in gone THEN "absent" ELSE PhaseOf(other)
  BY <1>5, <1>6 DEF PhaseOf, gone
<1>10. Phases' = [other \in JobId |-> IF other = id THEN "reserved"
                                    ELSE IF other \in gone THEN "absent" ELSE Phases[other]]
  BY <1>7, <1>9 DEF Phases
<1>11. Lifecycle!Accept(id, gone)
  BY <1>4, <1>8, <1>10 DEF Lifecycle!Accept, Phases, Before
<1>. QED
  BY <1>3, <1>11

LEMMA SubmitEnqueues ==
  ASSUME RegistryInv, NEW owner \in Owner, NEW id \in JobId, Submit(owner, id)
  PROVE  Lifecycle!Enqueue(id)
<1>1. id \in Known(jobs) /\ jobs[id] \in Entry
  BY OwnedIsKnown DEF RegistryInv, Submit
<1>2. PhaseOf(id) = "reserved" /\ ~ closed /\ UNCHANGED closed
  BY <1>1, PhaseCases DEF RegistryInv, Submit, Open
<1>3. /\ jobs'[id].owner = jobs[id].owner
      /\ jobs'[id].job = jobs[id].job
      /\ jobs'[id].submitted = TRUE
      /\ \A other \in JobId \ {id} : jobs'[other] = jobs[other]
  BY <1>1 DEF Submit, RegistryInv, TableOK, Entry
<1>4. \A other \in JobId : PhaseOf(other)' = IF other = id THEN "waiting" ELSE PhaseOf(other)
  <2>1. Known(jobs)' = Known(jobs)
    BY <1>3 DEF Known
  <2>2. PhaseOf(id)' = "waiting"
    BY <1>1, <1>3, <2>1 DEF PhaseOf, Submit, IsTerminal, Terminal
  <2>. QED
    BY <1>3, <2>1, <2>2 DEF PhaseOf
<1>5. Phases' = [Phases EXCEPT ![id] = "waiting"]
  BY <1>4 DEF Phases
<1>6. Lifecycle!In("waiting") = {other \in JobId : Lists(queue, other)}
  BY PhaseCases DEF RegistryInv, QueueOK, Lifecycle!In
<1>7. \A x, y : Precedes(queue', x, y)
                  <=> Precedes(queue, x, y) \/ (Lists(queue, x) /\ y = id)
  BY AppendOrders DEF RegistryInv, QueueOK, Submit
<1>8. \A x : Lists(queue, x) => x \in JobId
  BY DEF RegistryInv, QueueOK, Lists
<1>9. Before' = Before \cup (Lifecycle!In("waiting") \X {id})
  <2>1. \A x, y : <<x, y>> \in Before'
                    <=> <<x, y>> \in Before \/ <<x, y>> \in Lifecycle!In("waiting") \X {id}
    BY <1>6, <1>7, <1>8, BeforeIsPrecedes, BeforeIsPrecedesNext
  <2>. QED
    BY <2>1, BeforeIsPrecedes, BeforeIsPrecedesNext
<1>. QED
  BY <1>2, <1>5, <1>9 DEF Lifecycle!Enqueue, Phases, Before

(* The order without one job, as a job leaves the line by starting or by    *)
(* ending.                                                                  *)
LEMMA LeavesLine ==
  ASSUME NEW id,
         \A x, y : Precedes(queue', x, y) <=> Precedes(queue, x, y) /\ x # id /\ y # id
  PROVE  Before' = Lifecycle!LeaveLine(id)
<1>1. \A x, y : <<x, y>> \in Before' <=> <<x, y>> \in Before /\ x # id /\ y # id
  BY BeforeIsPrecedes, BeforeIsPrecedesNext
<1>2. Lifecycle!LeaveLine(id) = {pair \in Before : pair[1] # id /\ pair[2] # id}
  BY DEF Lifecycle!LeaveLine, Before
<1>. QED
  BY <1>1, <1>2, BeforeIsPrecedes, BeforeIsPrecedesNext

LEMMA StartNextBegins ==
  ASSUME RegistryInv, StartNext
  PROVE  \E id \in JobId : Lifecycle!Begin(id)
<1>1. PICK id \in JobId :
      /\ id = Head(queue)
      /\ Lists(queue, id)
      /\ \A x, y : Precedes(queue', x, y) <=> Precedes(queue, x, y) /\ x # id
      /\ \A x : ~ Precedes(queue, x, id)
  BY TailOrders, HeadIsFirst DEF RegistryInv, QueueOK, StartNext, MayStartNext
<1>2. id \in Known(jobs) /\ Running(jobs) = {} /\ ~ closed /\ UNCHANGED closed
      /\ jobs' = [jobs EXCEPT ![id].job = Start(@)]
  BY <1>1 DEF StartNext, MayStartNext, Open
<1>3. jobs[id] \in Entry /\ EntryOK(jobs[id]) /\ MayStart(jobs[id].job)
  BY <1>1, <1>2 DEF RegistryInv, TableOK, EntryOK, StartNext
<1>4. PhaseOf(id) = "waiting"
  BY <1>1, PhaseCases DEF RegistryInv, QueueOK
<1>5. Start(jobs[id].job).status = "running"
  BY <1>3, StartOK DEF EntryOK
<1>6. /\ jobs'[id].job = Start(jobs[id].job)
      /\ jobs'[id].owner = jobs[id].owner
      /\ \A other \in JobId \ {id} : jobs'[other] = jobs[other]
  BY <1>1, <1>2, <1>3 DEF RegistryInv, TableOK, Entry
<1>7. \A other \in JobId : PhaseOf(other)' = IF other = id THEN "running" ELSE PhaseOf(other)
  <2>1. Known(jobs)' = Known(jobs)
    BY <1>6 DEF Known
  <2>2. PhaseOf(id)' = "running"
    BY <1>2, <1>5, <1>6, <2>1 DEF PhaseOf, IsTerminal, Terminal
  <2>. QED
    BY <1>6, <2>1, <2>2 DEF PhaseOf
<1>8. Phases' = [Phases EXCEPT ![id] = "running"]
  BY <1>7 DEF Phases
<1>9. Lifecycle!In("running") = {}
  BY <1>2, PhaseCases DEF RegistryInv, Lifecycle!In
<1>10. \A other \in Lifecycle!In("waiting") : <<other, id>> \notin Before
  BY <1>1, BeforeIsPrecedes
<1>11. Before' = Lifecycle!LeaveLine(id)
  BY <1>1, LeavesLine
<1>12. Lifecycle!Begin(id)
  BY <1>1, <1>2, <1>4, <1>8, <1>9, <1>10, <1>11 DEF Lifecycle!Begin, Phases, Before
<1>. QED
  BY <1>1, <1>12

LEMMA RecordStutters ==
  ASSUME RegistryInv, NEW owner \in Owner, NEW id \in JobId,
         NEW outcome \in Outcome, Record(owner, id, outcome)
  PROVE  Phases' = Phases /\ Before' = Before /\ UNCHANGED closed
<1>1. id \in Known(jobs) /\ jobs[id] \in Entry /\ EntryOK(jobs[id])
  BY OwnedIsKnown DEF RegistryInv, Record
<1>2. MayRecord(jobs[id].job) /\ jobs[id].job.status = "running"
      /\ UNCHANGED <<queue, closed>>
  BY DEF Record, MayRecord
<1>3. RecordSource(jobs[id].job, outcome).status = "running"
  BY <1>1, <1>2, RecordOK DEF EntryOK
<1>4. /\ jobs'[id].job = RecordSource(jobs[id].job, outcome)
      /\ jobs'[id].owner = jobs[id].owner
      /\ \A other \in JobId \ {id} : jobs'[other] = jobs[other]
  BY <1>1 DEF Record, RegistryInv, TableOK, Entry
<1>5. Known(jobs)' = Known(jobs)
  BY <1>4 DEF Known
<1>6. PhaseOf(id)' = PhaseOf(id)
  BY <1>1, <1>2, <1>3, <1>4, <1>5 DEF PhaseOf, IsTerminal, Terminal
<1>7. \A other \in JobId : PhaseOf(other)' = PhaseOf(other)
  BY <1>4, <1>5, <1>6 DEF PhaseOf
<1>. QED
  BY <1>2, <1>7 DEF Phases, Before, Places

LEMMA FinishEnds ==
  ASSUME RegistryInv, NEW owner \in Owner, NEW id \in JobId, NEW status \in Terminal,
         NEW artifacts \in SUBSET Artifact, Finish(owner, id, status, artifacts)
  PROVE  Lifecycle!End(id)
<1>1. id \in Known(jobs) /\ jobs[id] \in Entry /\ EntryOK(jobs[id])
  BY OwnedIsKnown DEF RegistryInv, Finish
<1>2. MayFinish(jobs[id].job, status) /\ UNCHANGED closed
  BY DEF Finish
<1>3. PhaseOf(id) \in {"reserved", "waiting", "running"}
  BY <1>1, <1>2 DEF PhaseOf, MayFinish
<1>4. /\ jobs'[id].job = FinishJob(jobs[id].job, status, artifacts)
      /\ jobs'[id].owner = jobs[id].owner
      /\ \A other \in JobId \ {id} : jobs'[other] = jobs[other]
  BY <1>1 DEF Finish, RegistryInv, TableOK, Entry
<1>5. FinishJob(jobs[id].job, status, artifacts).status = status
  BY <1>1, <1>2, FinishOK DEF EntryOK
<1>6. \A other \in JobId : PhaseOf(other)' = IF other = id THEN "done" ELSE PhaseOf(other)
  <2>1. Known(jobs)' = Known(jobs)
    BY <1>4 DEF Known
  <2>2. PhaseOf(id)' = "done"
    BY <1>1, <1>4, <1>5, <2>1 DEF PhaseOf, IsTerminal
  <2>. QED
    BY <1>4, <2>1, <2>2 DEF PhaseOf
<1>7. Phases' = [Phases EXCEPT ![id] = "done"]
  BY <1>6 DEF Phases
<1>8. Before' = Lifecycle!LeaveLine(id)
  <2>1. \A x, y : Precedes(queue', x, y) <=> Precedes(queue, x, y) /\ x # id /\ y # id
    BY RetainFilters DEF RegistryInv, QueueOK, Finish
  <2>. QED
    BY <2>1, LeavesLine
<1>. QED
  BY <1>2, <1>3, <1>7, <1>8 DEF Lifecycle!End, Phases, Before

LEMMA CloseShutsDown ==
  ASSUME Close
  PROVE  Lifecycle!ShutDown
<1>1. Known(jobs)' = {} /\ queue' = << >> /\ closed' = TRUE
  BY NoEntryUnknown DEF Close, Known
<1>2. Phases' = [id \in JobId |-> "absent"]
  BY <1>1 DEF Phases, PhaseOf
<1>3. Before' = {}
  <2>1. \A x, y : ~ Precedes(queue', x, y)
    BY <1>1 DEF Precedes
  <2>. QED
    BY <2>1, BeforeIsPrecedesNext
<1>. QED
  BY <1>1, <1>2, <1>3 DEF Lifecycle!ShutDown, Phases, Before

LEMMA TickStutters ==
  ASSUME RegistryInv, Tick
  PROVE  Phases' = Phases /\ Before' = Before /\ UNCHANGED closed
<1>1. /\ Known(jobs)' = Known(jobs)
      /\ \A id \in Known(jobs) :
           jobs'[id].job = jobs[id].job /\ jobs'[id].submitted = jobs[id].submitted
  BY TickTable DEF RegistryInv
<1>2. \A id \in JobId : PhaseOf(id)' = PhaseOf(id)
  BY <1>1 DEF PhaseOf
<1>. QED
  BY <1>2 DEF Phases, Before, Places, Tick

--------------------------------------------------------------------------------
LEMMA InitPromise == Init => Lifecycle!LifecycleInit
<1>. SUFFICES ASSUME Init PROVE Lifecycle!LifecycleInit
  OBVIOUS
<1>1. Known(jobs) = {} /\ queue = << >> /\ closed = FALSE
  BY NoEntryUnknown DEF Init, Known
<1>2. Phases = [id \in JobId |-> "absent"]
  BY <1>1 DEF Phases, PhaseOf
<1>3. Before = {}
  <2>1. \A x, y : ~ Precedes(queue, x, y)
    BY <1>1 DEF Precedes
  <2>. QED
    BY <2>1, BeforeIsPrecedes
<1>. QED
  BY <1>1, <1>2, <1>3 DEF Lifecycle!LifecycleInit, Phases, Before

LEMMA StepPromise ==
  RegistryInv /\ [Next]_registryVars => [Lifecycle!LifecycleNext]_Lifecycle!lifecycleVars
<1>. SUFFICES ASSUME RegistryInv, [Next]_registryVars
              PROVE  Lifecycle!LifecycleNext \/ UNCHANGED Lifecycle!lifecycleVars
  OBVIOUS
<1>. USE DEF Lifecycle!LifecycleNext
<1>0. Phases' = Phases /\ Before' = Before /\ UNCHANGED closed
        => UNCHANGED Lifecycle!lifecycleVars
  BY DEF Lifecycle!lifecycleVars, Phases, Before
<1>1. ASSUME NEW id \in JobId, NEW n \in 1 .. MaxJobFiles, NEW owner \in Owner,
             Reserve(owner, id, n)
      PROVE  Lifecycle!LifecycleNext
  BY <1>1, ReserveAccepts
<1>2. ASSUME NEW id \in JobId, NEW n \in 1 .. MaxJobFiles, ReserveRejected(id, n)
      PROVE  Lifecycle!LifecycleNext
  BY <1>2, PruneForgets DEF ReserveRejected
<1>3. ASSUME NEW owner \in Owner, NEW id \in JobId, Submit(owner, id)
      PROVE  Lifecycle!LifecycleNext
  BY <1>3, SubmitEnqueues
<1>4. ASSUME NEW owner \in Owner, NEW id \in JobId, DiscardReservation(owner, id)
      PROVE  Lifecycle!LifecycleNext
  BY <1>4, DiscardAbandons
<1>5. ASSUME NEW owner \in Owner, NEW id \in JobId, NEW outcome \in Outcome,
             Record(owner, id, outcome)
      PROVE  UNCHANGED Lifecycle!lifecycleVars
  BY <1>0, <1>5, RecordStutters
<1>6. ASSUME NEW owner \in Owner, NEW id \in JobId, NEW status \in Terminal,
             NEW artifacts \in SUBSET Artifact, Finish(owner, id, status, artifacts)
      PROVE  Lifecycle!LifecycleNext
  BY <1>6, FinishEnds
<1>7. CASE StartNext
  BY <1>7, StartNextBegins
<1>8. CASE Prune
  BY <1>8, PruneForgets
<1>9. CASE Close
  BY <1>9, CloseShutsDown
<1>10. CASE Tick
  BY <1>0, <1>10, TickStutters
<1>11. CASE UNCHANGED registryVars
  BY <1>11 DEF registryVars, Lifecycle!lifecycleVars, PhaseOf, Known, Places
<1>. QED
  BY <1>1, <1>2, <1>3, <1>4, <1>5, <1>6, <1>7, <1>8, <1>9, <1>10, <1>11 DEF Next

(* Every behaviour of the registry keeps the promise of JobLifecycle: one   *)
(* job at a time, first come first served, done before forgotten, nothing   *)
(* after the shutdown.                                                      *)
THEOREM RegistryKeepsPromise == Spec => KeepsPromise
BY InitPromise, StepPromise, RegistryInvariant, PTL
DEF Spec, KeepsPromise, Lifecycle!LifecycleSpec

--------------------------------------------------------------------------------
(* What a step may do to one entry.                                         *)

LEMMA ReserveForgetsDone ==
  ASSUME RegistryInv, NEW owner \in Owner, NEW new \in JobId,
         NEW n \in 1 .. MaxJobFiles, Reserve(owner, new, n),
         NEW id \in Known(jobs), id \notin Known(jobs)'
  PROVE  IsTerminal(jobs[id].job)
<1>1. PICK victim \in Victims :
        jobs' = [Without(AfterPrune, victim) EXCEPT
                   ![new] = [owner |-> owner, job |-> NewJob(n),
                             submitted |-> FALSE, age |-> Unfinished]]
  BY DEF Reserve
<1>2. /\ Known(jobs)' = (Known(AfterPrune) \ victim) \cup {new}
      /\ \A other \in Known(AfterPrune) \ (victim \cup {new}) : jobs'[other] = jobs[other]
  BY <1>1, ReservedTable DEF RegistryInv
<1>3. Known(AfterPrune) = Known(jobs) \ Expired(jobs)
  BY PrunedTable DEF RegistryInv
<1>4. id \in Expired(jobs) \/ id \in victim
  BY <1>2, <1>3
<1>. QED
  BY <1>4, ExpiredAreDone, VictimsAreDone DEF Done

LEMMA WhatGoes ==
  ASSUME RegistryInv, [Next]_registryVars, NEW id \in Known(jobs), id \notin Known(jobs)'
  PROVE  \/ IsTerminal(jobs[id].job)
         \/ closed'
         \/ ~ jobs[id].submitted
<1>0. /\ id \in JobId
      /\ TableOK
      /\ jobs[id].owner # NoOwner
  BY DEF RegistryInv, Known
<1>1. ASSUME NEW owner \in Owner, NEW new \in JobId, NEW n \in 1 .. MaxJobFiles,
             Reserve(owner, new, n)
      PROVE  IsTerminal(jobs[id].job)
  BY <1>1, ReserveForgetsDone
<1>2. CASE Prune
  <2>1. id \in Expired(jobs)
    BY <1>0, <1>2, ForgetTable DEF Prune, Forget
  <2>. QED
    BY <2>1, ExpiredAreDone DEF Done
<1>3. ASSUME NEW owner \in Owner, NEW other \in JobId, DiscardReservation(owner, other)
      PROVE  ~ jobs[id].submitted
  BY <1>0, <1>3, ForgetTable DEF DiscardReservation, Forget
<1>4. ASSUME NEW owner \in Owner, NEW other \in JobId, Submit(owner, other)
      PROVE  FALSE
  BY <1>0, <1>4 DEF Submit, Known, TableOK, Entry, NoEntry
<1>5. ASSUME NEW owner \in Owner, NEW other \in JobId, NEW outcome \in Outcome,
             Record(owner, other, outcome)
      PROVE  FALSE
  BY <1>0, <1>5 DEF Record, Known, TableOK, Entry, NoEntry
<1>6. ASSUME NEW owner \in Owner, NEW other \in JobId, NEW status \in Terminal,
             NEW artifacts \in SUBSET Artifact, Finish(owner, other, status, artifacts)
      PROVE  FALSE
  BY <1>0, <1>6 DEF Finish, Known, TableOK, Entry, NoEntry
<1>7. CASE StartNext
  BY <1>0, <1>7 DEF StartNext, Known, TableOK, Entry, NoEntry
<1>8. CASE Close
  BY <1>8 DEF Close
<1>9. CASE Tick
  BY <1>0, <1>9, TickTable
<1>10. CASE UNCHANGED registryVars
  BY <1>10 DEF registryVars, Known
<1>. QED
  BY <1>1, <1>2, <1>3, <1>4, <1>5, <1>6, <1>7, <1>8, <1>9, <1>10 DEF Next, ReserveRejected

(* No job that waits or runs is lost, except by the shutdown.               *)
THEOREM ActiveIsNeverLost == Spec => ActiveNeverLost
<1>1. RegistryInv /\ [Next]_registryVars =>
        [\A id \in Active(jobs) :
           id \notin Known(jobs') => closed' \/ ~ jobs[id].submitted]_registryVars
  BY WhatGoes DEF Active, Known
<1>. QED
  BY <1>1, RegistryInvariant, PTL DEF Spec, ActiveNeverLost

--------------------------------------------------------------------------------
(* What becomes of finished jobs.                                           *)

LEMMA FinishedEntry ==
  ASSUME RegistryInv, NEW id \in FinishedIds(jobs)
  PROVE  /\ id \in JobId /\ id \in Known(jobs) /\ IsTerminal(jobs[id].job)
         /\ jobs[id].job.status \notin {"queued", "running"}
BY DEF RegistryInv, TableOK, EntryOK, FinishedIds, Known, IsTerminal, Terminal

(* What a reservation leaves: the new job, and others as they were.         *)
LEMMA ReserveLeaves ==
  ASSUME RegistryInv, NEW owner \in Owner, NEW new \in JobId,
         NEW n \in 1 .. MaxJobFiles, Reserve(owner, new, n)
  PROVE  \E victim \in Victims :
           /\ Known(jobs)' = (Known(AfterPrune) \ victim) \cup {new}
           /\ new \notin FinishedIds(jobs)'
           /\ \A other \in Known(jobs)' \ {new} :
                /\ other \in Known(AfterPrune)
                /\ AfterPrune[other] = jobs[other]
                /\ jobs'[other] = jobs[other]
<1>1. PICK victim \in Victims :
        jobs' = [Without(AfterPrune, victim) EXCEPT
                   ![new] = [owner |-> owner, job |-> NewJob(n),
                             submitted |-> FALSE, age |-> Unfinished]]
  BY DEF Reserve
<1>2. /\ Known(jobs)' = (Known(AfterPrune) \ victim) \cup {new}
      /\ \A other \in Known(AfterPrune) \ (victim \cup {new}) : jobs'[other] = jobs[other]
      /\ \A other \in Known(AfterPrune) : AfterPrune[other] = jobs[other]
  BY <1>1, ReservedTable, PrunedTable DEF RegistryInv
<1>3. jobs'[new].age = Unfinished
  <2>. DEFINE entry == [owner |-> owner, job |-> NewJob(n), submitted |-> FALSE,
                        age |-> Unfinished]
  <2>1. Without(AfterPrune, victim) \in [JobId -> Entry \cup {NoEntry}]
    BY PrunedTable, WithoutKnown DEF RegistryInv
  <2>2. entry.age = Unfinished
    OBVIOUS
  <2>. HIDE DEF entry
  <2>. QED
    BY <1>1, <2>1, <2>2 DEF entry
<1>. QED
  BY <1>2, <1>3 DEF FinishedIds

LEMMA FinishedStays ==
  ASSUME RegistryInv, [Next]_registryVars,
         NEW id \in FinishedIds(jobs), id \in FinishedIds(jobs)'
  PROVE  jobs'[id].job = jobs[id].job /\ jobs'[id].owner = jobs[id].owner
<1>0. /\ id \in JobId /\ TableOK /\ jobs[id].job.status \notin {"queued", "running"}
      /\ IsTerminal(jobs[id].job) /\ id \in Known(jobs) /\ id \in Known(jobs)'
  BY FinishedEntry DEF RegistryInv, FinishedIds
<1>1. ASSUME NEW owner \in Owner, NEW new \in JobId, NEW n \in 1 .. MaxJobFiles,
             Reserve(owner, new, n)
      PROVE  jobs'[id] = jobs[id]
  BY <1>0, <1>1, ReserveLeaves
<1>2. CASE Prune
  BY <1>0, <1>2, ForgetTable DEF Prune, Forget
<1>3. ASSUME NEW owner \in Owner, NEW other \in JobId, DiscardReservation(owner, other)
      PROVE  jobs'[id] = jobs[id]
  BY <1>0, <1>3, ForgetTable DEF DiscardReservation, Forget
<1>4. ASSUME NEW owner \in Owner, NEW other \in JobId, Submit(owner, other)
      PROVE  jobs'[id] = jobs[id]
  BY <1>0, <1>4 DEF Submit, TableOK
<1>5. ASSUME NEW owner \in Owner, NEW other \in JobId, NEW outcome \in Outcome,
             Record(owner, other, outcome)
      PROVE  jobs'[id] = jobs[id]
  BY <1>0, <1>5 DEF Record, MayRecord, TableOK
<1>6. ASSUME NEW owner \in Owner, NEW other \in JobId, NEW status \in Terminal,
             NEW artifacts \in SUBSET Artifact, Finish(owner, other, status, artifacts)
      PROVE  jobs'[id] = jobs[id]
  BY <1>0, <1>6 DEF Finish, MayFinish, TableOK
<1>7. CASE StartNext
  BY <1>0, <1>7 DEF StartNext, MayStart, TableOK
<1>8. CASE Close
  BY <1>0, <1>8, NoEntryUnknown DEF Close, Known
<1>9. CASE Tick
  BY <1>0, <1>9, TickTable
<1>10. CASE UNCHANGED registryVars
  BY <1>10 DEF registryVars
<1>. QED
  BY <1>1, <1>2, <1>3, <1>4, <1>5, <1>6, <1>7, <1>8, <1>9, <1>10 DEF Next, ReserveRejected

(* A finished job makes room as the oldest of a full table.                 *)
LEMMA OldestMakesRoom ==
  ASSUME RegistryInv, Bounded, NEW owner \in Owner, NEW new \in JobId,
         NEW n \in 1 .. MaxJobFiles, Reserve(owner, new, n),
         NEW id \in FinishedIds(jobs), id \notin Known(jobs)', id \notin Expired(jobs)
  PROVE  /\ Cardinality(Known(AfterPrune)) = MaxRetained
         /\ \A other \in FinishedIds(jobs)' : jobs[other].age <= jobs[id].age
<1>. PICK victim \in Victims :
       /\ Known(jobs)' = (Known(AfterPrune) \ victim) \cup {new}
       /\ new \notin FinishedIds(jobs)'
       /\ \A other \in Known(jobs)' \ {new} :
            /\ other \in Known(AfterPrune)
            /\ AfterPrune[other] = jobs[other]
            /\ jobs'[other] = jobs[other]
  BY ReserveLeaves
<1>1. /\ Known(AfterPrune) = Known(jobs) \ Expired(jobs)
      /\ \A other \in Known(AfterPrune) : AfterPrune[other] = jobs[other]
  BY PrunedTable DEF RegistryInv
<1>2. id \in victim /\ AfterPrune[id] = jobs[id]
  BY <1>1, FinishedEntry
<1>3. ~ (Cardinality(Known(AfterPrune)) < MaxRetained) /\ id \in Oldest(AfterPrune)
  BY <1>2 DEF Victims
<1>4. Cardinality(Known(AfterPrune)) = MaxRetained
  <2>1. Cardinality(Known(AfterPrune)) <= Cardinality(Known(jobs))
    BY <1>1, SetsAreFinite, FewerIfSubset
  <2>. QED
    BY <1>3, <2>1, SetsAreFinite, RegistryAssumption DEF Bounded
<1>5. ASSUME NEW other \in FinishedIds(jobs)' PROVE jobs[other].age <= jobs[id].age
  <2>1. other \in Known(jobs)' \ {new} /\ jobs'[other].age # Unfinished
    BY DEF FinishedIds
  <2>2. other \in FinishedIds(AfterPrune) /\ AfterPrune[other] = jobs[other]
    BY <2>1 DEF FinishedIds
  <2>. QED
    BY <1>2, <1>3, <2>2 DEF Oldest
<1>. QED
  BY <1>4, <1>5

LEMMA FinishedGoes ==
  ASSUME RegistryInv, Bounded, [Next]_registryVars,
         NEW id \in FinishedIds(jobs), id \notin Known(jobs)', ~ closed', id \notin Expired(jobs)
  PROVE  /\ Cardinality(Known(AfterPrune)) = MaxRetained
         /\ \A other \in FinishedIds(jobs)' : jobs[other].age <= jobs[id].age
<1>0. /\ id \in JobId /\ TableOK /\ jobs[id].job.status \notin {"queued", "running"}
      /\ id \in Known(jobs) /\ jobs[id].owner # NoOwner
  BY FinishedEntry DEF RegistryInv, Known
<1>1. ASSUME NEW owner \in Owner, NEW new \in JobId, NEW n \in 1 .. MaxJobFiles,
             Reserve(owner, new, n)
      PROVE  /\ Cardinality(Known(AfterPrune)) = MaxRetained
             /\ \A other \in FinishedIds(jobs)' : jobs[other].age <= jobs[id].age
  BY <1>1, OldestMakesRoom
<1>2. CASE Prune
  BY <1>0, <1>2, ForgetTable DEF Prune, Forget
<1>3. ASSUME NEW owner \in Owner, NEW other \in JobId, DiscardReservation(owner, other)
      PROVE  FALSE
  BY <1>0, <1>3, ForgetTable DEF DiscardReservation, Forget
<1>4. ASSUME NEW owner \in Owner, NEW other \in JobId,
             \/ Submit(owner, other)
             \/ \E outcome \in Outcome : Record(owner, other, outcome)
             \/ \E status \in Terminal, artifacts \in SUBSET Artifact :
                  Finish(owner, other, status, artifacts)
      PROVE  FALSE
  <2>1. CASE Submit(owner, other)
    BY <1>0, <2>1 DEF Submit, Known, TableOK, Entry, NoEntry
  <2>2. ASSUME NEW outcome \in Outcome, Record(owner, other, outcome)
        PROVE  FALSE
    BY <1>0, <2>2 DEF Record, Known, TableOK, Entry, NoEntry
  <2>3. ASSUME NEW status \in Terminal, NEW artifacts \in SUBSET Artifact,
               Finish(owner, other, status, artifacts)
        PROVE  FALSE
    BY <1>0, <2>3 DEF Finish, Known, TableOK, Entry, NoEntry
  <2>. QED
    BY <1>4, <2>1, <2>2, <2>3
<1>5. CASE StartNext
  BY <1>0, <1>5 DEF StartNext, Known, TableOK, Entry, NoEntry
<1>6. CASE Close
  BY <1>6 DEF Close
<1>7. CASE Tick
  BY <1>0, <1>7, TickTable
<1>8. CASE UNCHANGED registryVars
  BY <1>0, <1>8 DEF registryVars, Known
<1>. QED
  BY <1>1, <1>2, <1>3, <1>4, <1>5, <1>6, <1>7, <1>8 DEF Next, ReserveRejected

(* A user's history is kept as it was, and goes when it expires or, the     *)
(* oldest first, to make room in a full table (prune, evict, record and     *)
(* finish in local_job_registry.rs).                                        *)
THEOREM HistoryStays == Spec => HistoryIsKept
<1>1. RegistryInv /\ [Next]_registryVars =>
        [\A id \in FinishedIds(jobs) :
           id \in FinishedIds(jobs') =>
             /\ jobs'[id].job = jobs[id].job
             /\ jobs'[id].owner = jobs[id].owner]_registryVars
  BY FinishedStays DEF FinishedIds, Known
<1>2. RegistryInv /\ Bounded /\ [Next]_registryVars =>
        [\A id \in FinishedIds(jobs) :
           id \notin Known(jobs') /\ ~ closed' =>
             \/ id \in Expired(jobs)
             \/ /\ Cardinality(Known(AfterPrune)) = MaxRetained
                /\ \A other \in FinishedIds(jobs') : jobs[other].age <= jobs[id].age
        ]_registryVars
  BY FinishedGoes DEF FinishedIds, Known
<1>3. Spec => FinishedIsFinal
  BY <1>1, RegistryInvariant, PTL DEF Spec, FinishedIsFinal
<1>4. Spec => ForgetsOldestFirst
  BY <1>2, RegistryInvariant, StaysBounded, PTL DEF Spec, ForgetsOldestFirst
<1>. QED
  BY <1>3, <1>4 DEF HistoryIsKept
================================================================================
