------------------------- MODULE PythonGenerationProofs ------------------------
(***************************************************************************)
(* The safety of the Python use case, in two parts.                        *)
(*                                                                         *)
(* Chunk resume, for any number of processes, contents, chunks and         *)
(* options: whatever was stopped, damaged or edited, a deck is whole, and  *)
(* a chunk that is saved is kept and not paid for again.                   *)
(*                                                                         *)
(* A batch, for any documents, chunks and attempts, on every path of       *)
(* failure, retry and cancellation: notebooks are deleted once, what is    *)
(* reported is what was done, and a cancelled run starts only deletions.   *)
(***************************************************************************)
EXTENDS ChunkResume, BatchGeneration, TLAPS

--------------------------------------------------------------------------------
(* Chunk resume.                                                            *)

(* What a run keeps in its hands, and where it may be.                      *)
Place == {"idle", "lock", "look", "load", "wipe", "chunk", "generate", "save_result",
          "save_manifest", "mark_failed", "export", "delete_manifest", "clean"}

Manifest == [key : Key \cup {NoKey, Unreadable}, chunks : [Index -> Entry]]
Results  == [Index -> Deck \cup {NoDeck, Unreadable}]
Decks    == [Index -> Deck \cup {NoDeck}]

RunState ==
  [pc : Place, key : Key \cup {NoKey}, chunk : Nat \ {0}, manifest : Manifest,
   decks : Decks]

(* A run that has a manifest, which it writes again after each chunk.       *)
Underway(r) ==
  /\ r.pc \in {"chunk", "generate", "save_result", "save_manifest", "mark_failed"}
  /\ Total(r.key) > 0

(* A run that has taken the lock.                                           *)
Holds(r) == r.pc \notin {"idle", "lock"} /\ Total(r.key) > 0

PartsOf(key) == IF Total(key) > 0 THEN Total(key) ELSE 1

MadeFor(made, key) ==
  \A i \in Index : made[i] # NoDeck => made[i].key = key /\ made[i].index = i

(* Where a run stands among the chunks, and which decks it has by then.     *)
ChunksOK(r) ==
  /\ r.pc \in {"lock", "look", "load", "wipe"} \/ Total(r.key) = 0 => r.chunk = 1
  /\ r.pc \in {"generate", "save_result", "save_manifest", "mark_failed"} =>
       r.chunk \in 1 .. PartsOf(r.key)
  /\ r.pc \in {"chunk", "generate", "save_result", "save_manifest"} =>
       \A j \in 1 .. PartsOf(r.key) : j < r.chunk => r.decks[j] # NoDeck
  /\ r.pc \in {"save_result", "save_manifest"} => r.decks[r.chunk] # NoDeck
  /\ r.pc = "mark_failed" \/ (r.pc = "generate" /\ Total(r.key) > 0) =>
       r.decks[r.chunk] = NoDeck
  /\ r.pc = "export" => \A j \in 1 .. PartsOf(r.key) : r.decks[j] # NoDeck

OnlySplit == {"lock", "load", "wipe", "chunk", "save_result", "save_manifest", "mark_failed"}

RunOK(r) ==
  /\ r \in RunState
  /\ MadeFor(r.decks, r.key)
  /\ r.pc # "idle" =>
       /\ r.key \in Key
       /\ r.pc \in OnlySplit => Total(r.key) > 0
       /\ ChunksOK(r)
       /\ Underway(r) => r.manifest.key = r.key

(* A chunk that a manifest and the results offer to the next run.           *)
Offers(saved, results, i) ==
  /\ saved.chunks[i].status = "completed"
  /\ results[i] \notin {NoDeck, Unreadable}
  /\ results[i].cards = saved.chunks[i].cards

(* The results that can be read are those of one content and one option.    *)
ResultsOf(results, key) ==
  \A i \in Index : results[i] \in Deck => results[i].key = key

FilesOK(saved, results) ==
  /\ saved \in Manifest
  /\ results \in Results
  /\ \A i \in Index : results[i] \in Deck => results[i].index = i
  /\ saved.key \in Key => ResultsOf(results, saved.key)

(* What is on disk while a run is underway: its own manifest or none that   *)
(* can be read, its own results, and none that it has overlooked.           *)
OnDisk(r, saved, results) ==
  /\ ResultsOf(results, r.key)
  /\ saved.key \in Key => saved = r.manifest
  /\ \A i \in Index : r.decks[i] = NoDeck => ~ Offers(r.manifest, results, i)
  /\ r.pc = "save_result" => ~ Offers(r.manifest, results, r.chunk)
  /\ r.pc = "save_manifest" => results[r.chunk] \in {NoDeck, Unreadable, r.decks[r.chunk]}

(* State is wiped for what it is of.                                        *)
HolderOK(r, saved, results) ==
  /\ r.pc = "wipe" => saved.key # r.key
  /\ Underway(r) => OnDisk(r, saved, results)

WholeDeck(deck) ==
  /\ deck.key \in Key \cup {NoKey} /\ deck.decks \in Seq(Deck)
  /\ deck # NoCsv =>
       /\ Len(deck.decks) = PartsOf(deck.key)
       /\ \A i \in 1 .. Len(deck.decks) :
            deck.decks[i].key = deck.key /\ deck.decks[i].index = i

RunsOK ==
  /\ document \in Source
  /\ run \in [Process -> RunState]
  /\ \A p \in Process : RunOK(run[p])
  /\ damage \in 0 .. MaxDamage

HoldersOK ==
  /\ owner \in Process \cup {NoProcess}
  /\ \A p \in Process :
       (owner = p <=> Holds(run[p])) /\ HolderOK(run[p], manifest, result)

CsvOK ==
  /\ WholeDeck(csv)
  /\ \A p \in Process : run[p].pc \in {"delete_manifest", "clean"} => csv # NoCsv

ResumeInv == RunsOK /\ FilesOK(manifest, result) /\ HoldersOK /\ CsvOK

--------------------------------------------------------------------------------
(* The data.                                                                *)

LEMMA KeyFacts ==
  ASSUME NEW key \in Key
  PROVE  /\ Total(key) \in Nat
         /\ PartsOf(key) \in Nat \ {0}
         /\ 1 .. PartsOf(key) \subseteq Index
<1>1. key.source \in Source /\ Total(key) \in Nat
  BY ResumeAssumption DEF Key, Total
<1>2. PartsOf(key) \in Nat \ {0}
  BY <1>1 DEF PartsOf
<1>3. 1 .. PartsOf(key) \subseteq Index
  <2>1. CASE Total(key) > 0
    BY <1>1, <2>1 DEF PartsOf, Index, Total
  <2>2. CASE ~ Total(key) > 0
    BY <2>2 DEF PartsOf, Index
  <2>. QED
    BY <2>1, <2>2
<1>. QED
  BY <1>1, <1>2, <1>3

LEMMA IndexFacts == Index \subseteq Nat \ {0} /\ 1 \in Index
BY ResumeAssumption DEF Index

LEMMA Values ==
  /\ NoKey \notin Key /\ Unreadable \notin Key
  /\ NoDeck \notin Deck /\ Unreadable \notin Deck /\ NoDeck # Unreadable
BY ValueAssumption

LEMMA EntryTypes ==
  /\ Pending \in Entry /\ Failed \in Entry
  /\ \A deck \in Deck : Completed(deck) \in Entry
BY ResumeAssumption DEF Entry, Pending, Failed, Completed, Deck

LEMMA FreshFacts ==
  ASSUME NEW key \in Key \cup {NoKey, Unreadable}
  PROVE  /\ FreshManifest(key) \in Manifest
         /\ FreshManifest(key).key = key
         /\ \A i \in Index : FreshManifest(key).chunks[i].status = "pending"
BY EntryTypes DEF FreshManifest, Manifest, Pending

LEMMA NoManifestFacts ==
  /\ NoManifest \in Manifest /\ NoManifest.key = NoKey
  /\ BadManifest \in Manifest /\ BadManifest.key = Unreadable
BY FreshFacts DEF NoManifest, BadManifest

LEMMA IdleFacts == RunOK(Idle) /\ Idle.pc = "idle" /\ Idle \in RunState
<1>1. Idle \in RunState
  BY NoManifestFacts DEF Idle, RunState, Place, Decks
<1>2. Idle.pc = "idle" /\ MadeFor(Idle.decks, Idle.key)
  BY DEF Idle, MadeFor
<1>. QED
  BY <1>1, <1>2 DEF RunOK

(* A run that takes its next step.                                          *)
Moved(r, pc) == [r EXCEPT !.pc = pc]

LEMMA MovedFacts ==
  ASSUME NEW r \in RunState, NEW pc \in Place
  PROVE  /\ Moved(r, pc) \in RunState
         /\ Moved(r, pc).pc = pc
         /\ Moved(r, pc).key = r.key
         /\ Moved(r, pc).chunk = r.chunk
         /\ Moved(r, pc).manifest = r.manifest
         /\ Moved(r, pc).decks = r.decks
BY DEF Moved, RunState

--------------------------------------------------------------------------------
(* Files that go or are damaged.                                            *)

Less(saved2, results2, saved, results) ==
  /\ saved2 \in {saved, NoManifest, BadManifest}
  /\ results2 \in Results
  /\ \A i \in Index : results2[i] \in {results[i], NoDeck, Unreadable}

LEMMA LessOffers ==
  ASSUME NEW s1, NEW r1, NEW s2, NEW r2, Less(s2, r2, s1, r1), NEW saved, NEW i \in Index,
         Offers(saved, r2, i)
  PROVE  Offers(saved, r1, i)
BY DEF Less, Offers

LEMMA LessFiles ==
  ASSUME NEW s1, NEW r1, NEW s2, NEW r2, FilesOK(s1, r1), Less(s2, r2, s1, r1)
  PROVE  FilesOK(s2, r2)
<1>1. s2 \in Manifest /\ r2 \in Results /\ (s2.key \in Key => s2 = s1)
  BY NoManifestFacts, Values DEF FilesOK, Less
<1>2. \A i \in Index : r2[i] \in Deck => r2[i] = r1[i]
  BY Values DEF Less
<1>. QED
  BY <1>1, <1>2 DEF FilesOK, ResultsOf

LEMMA LessHolder ==
  ASSUME NEW s1, NEW r1, NEW s2, NEW r2, FilesOK(s1, r1), Less(s2, r2, s1, r1),
         NEW r, RunOK(r), HolderOK(r, s1, r1)
  PROVE  HolderOK(r, s2, r2)
<1>1. s2.key \in Key => s2 = s1
  BY NoManifestFacts, Values DEF Less
<1>2. \A i \in Index : r2[i] \in Deck => r2[i] = r1[i]
  BY Values DEF Less
<1>3. r.pc = "wipe" => s2.key # r.key
  BY <1>1 DEF HolderOK, RunOK
<1>4. ASSUME Underway(r)
      PROVE  OnDisk(r, s2, r2)
  <2>1. OnDisk(r, s1, r1) /\ ChunksOK(r) /\ r.key \in Key
    BY <1>4 DEF HolderOK, RunOK, Underway
  <2>2. r.pc \in {"save_result", "save_manifest"} => r.chunk \in Index
    BY <2>1, KeyFacts DEF ChunksOK
  <2>3. \A i \in Index : r.decks[i] = NoDeck => ~ Offers(r.manifest, r2, i)
    BY <2>1, LessOffers DEF OnDisk
  <2>4. r.pc = "save_result" => ~ Offers(r.manifest, r2, r.chunk)
    BY <2>1, <2>2, LessOffers DEF OnDisk
  <2>5. r.pc = "save_manifest" => r2[r.chunk] \in {NoDeck, Unreadable, r.decks[r.chunk]}
    BY <2>1, <2>2 DEF OnDisk, Less
  <2>6. ResultsOf(r2, r.key) /\ (s2.key \in Key => s2 = r.manifest)
    BY <2>1, <1>1, <1>2 DEF OnDisk, ResultsOf
  <2>. QED
    BY <2>3, <2>4, <2>5, <2>6 DEF OnDisk
<1>. QED
  BY <1>3, <1>4 DEF HolderOK

(* Whoever has not the lock is neither wiping nor underway.                 *)
LEMMA WithoutLock ==
  ASSUME NEW r, RunOK(r), ~ Holds(r), NEW saved, NEW results
  PROVE  HolderOK(r, saved, results)
BY DEF HolderOK, Holds, Underway, RunOK, OnlySplit

--------------------------------------------------------------------------------
(* One step of one run.                                                     *)

LEMMA RunFacts ==
  ASSUME ResumeInv, NEW p \in Process
  PROVE  /\ run[p] \in RunState /\ RunOK(run[p]) /\ HolderOK(run[p], manifest, result)
         /\ owner = p <=> Holds(run[p])
         /\ FilesOK(manifest, result)
         /\ ~ At(p, "idle") => run[p].key \in Key
BY DEF ResumeInv, RunsOK, HoldersOK, RunOK, At

(* The lock follows the run: who moves on to a place where it is held has   *)
(* it, who leaves gives it back.                                            *)
LEMMA OneStep ==
  ASSUME ResumeInv, NEW p \in Process, NEW new, RunOK(new),
         run' = [run EXCEPT ![p] = new],
         UNCHANGED <<document, damage>>,
         FilesOK(manifest', result'), HolderOK(new, manifest', result'),
         \A q \in Process \ {p} : HolderOK(run[q], manifest', result'),
         owner' = (IF Holds(new) THEN p ELSE IF owner = p THEN NoProcess ELSE owner),
         Holds(new) => owner \in {p, NoProcess},
         WholeDeck(csv'), csv # NoCsv => csv' # NoCsv,
         new.pc \in {"delete_manifest", "clean"} => csv' # NoCsv
  PROVE  ResumeInv'
<1>1. new \in RunState /\ run \in [Process -> RunState]
  BY DEF RunOK, ResumeInv, RunsOK
<1>2. run' \in [Process -> RunState] /\ run'[p] = new
  BY <1>1
<1>3. \A q \in Process \ {p} : run'[q] = run[q]
  BY <1>1
<1>4. RunsOK'
  BY <1>2, <1>3 DEF ResumeInv, RunsOK
<1>5. HoldersOK'
  <2>1. NoProcess \notin Process /\ owner \in Process \cup {NoProcess}
    BY ResumeAssumption DEF ResumeInv, HoldersOK
  <2>2. owner' \in Process \cup {NoProcess}
    BY <2>1
  <2>3. owner' = p <=> Holds(new)
    BY <2>1
  <2>4. ASSUME NEW q \in Process \ {p}
        PROVE  (owner' = q <=> Holds(run[q])) /\ HolderOK(run[q], manifest', result')
    <3>1. owner = q <=> Holds(run[q])
      BY DEF ResumeInv, HoldersOK
    <3>2. owner' = q <=> owner = q
      BY <2>1
    <3>. QED
      BY <3>1, <3>2
  <2>. QED
    BY <1>2, <1>3, <2>2, <2>3, <2>4 DEF HoldersOK
<1>6. CsvOK'
  BY <1>2, <1>3 DEF ResumeInv, CsvOK
<1>. QED
  BY <1>4, <1>5, <1>6 DEF ResumeInv

(* A run moves on and leaves the files alone.                               *)
LEMMA QuietStep ==
  ASSUME ResumeInv, NEW p \in Process, NEW new, RunOK(new),
         run' = [run EXCEPT ![p] = new],
         UNCHANGED <<document, damage, disk>>,
         HolderOK(new, manifest, result),
         owner' = (IF Holds(new) THEN p ELSE IF owner = p THEN NoProcess ELSE owner),
         Holds(new) => owner \in {p, NoProcess},
         new.pc \in {"delete_manifest", "clean"} => csv # NoCsv
  PROVE  ResumeInv'
<1>1. manifest' = manifest /\ result' = result /\ csv' = csv
  BY DEF disk
<1>2. FilesOK(manifest', result') /\ HolderOK(new, manifest', result') /\ WholeDeck(csv')
  BY <1>1 DEF ResumeInv, CsvOK
<1>3. \A q \in Process \ {p} : HolderOK(run[q], manifest', result')
  BY <1>1 DEF ResumeInv, HoldersOK
<1>. QED
  BY <1>1, <1>2, <1>3, OneStep

(* The owner of the lock moves on and keeps it, and nobody else is there.   *)
LEMMA OwnerStep ==
  ASSUME ResumeInv, NEW p \in Process, NEW new, RunOK(new), Holds(run[p]),
         run' = [run EXCEPT ![p] = new],
         UNCHANGED <<document, damage, csv>>,
         FilesOK(manifest', result'), HolderOK(new, manifest', result'),
         owner' = (IF Holds(new) THEN p ELSE NoProcess),
         new.pc \notin {"delete_manifest", "clean"}
  PROVE  ResumeInv'
<1>1. owner = p
  BY RunFacts
<1>2. ASSUME NEW q \in Process \ {p}
      PROVE  HolderOK(run[q], manifest', result')
  <2>1. ~ Holds(run[q]) /\ RunOK(run[q])
    BY <1>1 DEF ResumeInv, HoldersOK, RunsOK
  <2>. QED
    BY <2>1, WithoutLock
<1>3. WholeDeck(csv') /\ (csv # NoCsv => csv' # NoCsv)
  BY DEF ResumeInv, CsvOK
<1>. QED
  BY <1>1, <1>2, <1>3, OneStep

(* Files go, and the run that removes them moves on.                        *)
LEMMA RemovingStep ==
  ASSUME ResumeInv, NEW p \in Process, NEW new, RunOK(new),
         run' = [run EXCEPT ![p] = new],
         UNCHANGED <<document, damage, csv>>,
         Less(manifest', result', manifest, result), HolderOK(new, manifest', result'),
         owner' = owner, owner = p <=> Holds(new),
         new.pc \in {"delete_manifest", "clean"} => csv # NoCsv
  PROVE  ResumeInv'
<1>1. FilesOK(manifest', result')
  BY LessFiles DEF ResumeInv
<1>2. \A q \in Process \ {p} : HolderOK(run[q], manifest', result')
  BY RunFacts, LessHolder
<1>3. WholeDeck(csv') /\ (csv # NoCsv => csv' # NoCsv)
  BY DEF ResumeInv, CsvOK
<1>. QED
  BY <1>1, <1>2, <1>3, OneStep

(* A run that is over, however it ends.                                     *)
LEMMA LeaveKeeps ==
  ASSUME ResumeInv, NEW p \in Process, Leave(p)
  PROVE  ResumeInv'
<1>1. ~ Holds(Idle)
  BY IdleFacts DEF Holds
<1>2. HolderOK(Idle, manifest, result)
  BY <1>1, IdleFacts, WithoutLock
<1>. QED
  BY <1>1, <1>2, IdleFacts, QuietStep DEF Leave, Over

(* A run that only goes to its next place.                                  *)
LEMMA GotoKeeps ==
  ASSUME ResumeInv, NEW p \in Process, NEW pc \in Place, Goto(p, pc), ~ At(p, "idle"),
         RunOK(Moved(run[p], pc)), HolderOK(Moved(run[p], pc), manifest, result),
         Holds(Moved(run[p], pc)) <=> Holds(run[p]),
         pc \notin {"delete_manifest", "clean"}
  PROVE  ResumeInv'
<1>1. Moved(run[p], pc).pc = pc /\ (owner = p <=> Holds(run[p]))
  BY RunFacts, MovedFacts
<1>2. run' = [run EXCEPT ![p] = Moved(run[p], pc)] /\ UNCHANGED <<document, disk, owner, damage>>
  BY DEF Goto, Step, Moved
<1>. QED
  BY <1>1, <1>2, QuietStep
--------------------------------------------------------------------------------
(* The actions of a run, in their order.                                    *)

LEMMA LoadableIsOffered ==
  \A saved, i : Loadable(saved, i) <=> Offers(saved, result, i)
BY DEF Loadable, Readable, Offers

LEMMA BeginKeeps ==
  ASSUME ResumeInv, NEW p \in Process, Begin(p)
  PROVE  ResumeInv'
<1>1. PICK cloze \in Cloze :
        LET key == [source |-> document, cloze |-> cloze]
        IN  Step(p, IF Total(key) > 0 THEN "lock" ELSE "look", [Idle EXCEPT !.key = key])
  BY DEF Begin
<1>2. PICK key \in Key :
        Step(p, IF Total(key) > 0 THEN "lock" ELSE "look", [Idle EXCEPT !.key = key])
  BY <1>1 DEF Key, ResumeInv, RunsOK
<1>3. PICK pc \in {"lock", "look"} :
        /\ pc = (IF Total(key) > 0 THEN "lock" ELSE "look")
        /\ Step(p, pc, [Idle EXCEPT !.key = key])
  BY <1>2
<1>. DEFINE keyed == [Idle EXCEPT !.key = key]
<1>4. /\ keyed \in RunState
      /\ keyed.key = key /\ keyed.chunk = 1 /\ MadeFor(keyed.decks, key)
  BY IdleFacts DEF Idle, RunState, MadeFor
<1>5. run' = [run EXCEPT ![p] = Moved(keyed, pc)]
  BY <1>3 DEF Step, Moved
<1>. HIDE DEF keyed
<1>. DEFINE new == Moved(keyed, pc)
<1>6. /\ new \in RunState
      /\ new.pc = pc /\ new.key = key /\ new.chunk = 1 /\ MadeFor(new.decks, key)
  BY <1>4, MovedFacts DEF Place
<1>7. ChunksOK(new) /\ ~ Underway(new)
  BY <1>6 DEF ChunksOK, Underway
<1>8. RunOK(new) /\ ~ Holds(new)
  BY <1>3, <1>6, <1>7 DEF RunOK, Holds, OnlySplit
<1>9. HolderOK(new, manifest, result)
  BY <1>8, WithoutLock
<1>10. ~ Holds(run[p])
  BY DEF Begin, At, Holds
<1>. HIDE DEF new
<1>11. owner # p /\ new.pc \notin {"delete_manifest", "clean"}
  BY <1>6, <1>10, RunFacts
<1>. QED
  BY <1>5, <1>8, <1>9, <1>11, QuietStep DEF Begin, new

LEMMA LockKeeps ==
  ASSUME ResumeInv, NEW p \in Process, Lock(p)
  PROVE  ResumeInv'
<1>. DEFINE new == Moved(run[p], "look")
<1>1. /\ new \in RunState /\ new.pc = "look" /\ new.key = run[p].key
      /\ new.chunk = run[p].chunk /\ new.decks = run[p].decks /\ run[p].pc = "lock"
  BY RunFacts, MovedFacts DEF Place, Lock, At
<1>2. RunOK(run[p]) /\ Total(new.key) > 0 /\ new.key \in Key
  BY <1>1, RunFacts DEF RunOK, OnlySplit
<1>3. ChunksOK(new) /\ ~ Underway(new)
  BY <1>1, <1>2 DEF ChunksOK, Underway, RunOK
<1>4. RunOK(new) /\ Holds(new)
  BY <1>1, <1>2, <1>3 DEF RunOK, Holds, OnlySplit
<1>5. HolderOK(new, manifest, result)
  BY <1>1, <1>3 DEF HolderOK
<1>6. /\ run' = [run EXCEPT ![p] = new] /\ owner' = p /\ owner = NoProcess
      /\ UNCHANGED <<document, damage, disk>>
  BY DEF Lock, Step, Moved
<1>7. new.pc \notin {"delete_manifest", "clean"}
  BY <1>1
<1>. HIDE DEF new
<1>. QED
  BY <1>4, <1>5, <1>6, <1>7, QuietStep

LEMMA LookForStateKeeps ==
  ASSUME ResumeInv, NEW p \in Process, LookForState(p)
  PROVE  ResumeInv'
<1>1. PICK pc \in {"load", "generate"} :
        pc = (IF Split(p) THEN "load" ELSE "generate") /\ Goto(p, pc)
  BY DEF LookForState
<1>. DEFINE new == Moved(run[p], pc)
<1>2. /\ new \in RunState /\ new.pc = pc /\ new.key = run[p].key
      /\ new.chunk = run[p].chunk /\ new.decks = run[p].decks /\ run[p].pc = "look"
  BY RunFacts, MovedFacts DEF Place, LookForState, At
<1>3. RunOK(run[p]) /\ new.key \in Key /\ new.chunk = 1 /\ Total(new.key) \in Nat
  BY <1>2, RunFacts, KeyFacts DEF RunOK, ChunksOK
<1>4. pc = "generate" <=> ~ Total(new.key) > 0
  BY <1>1, <1>2 DEF Split
<1>5. PartsOf(new.key) \in Nat \ {0}
  BY <1>3, KeyFacts
<1>6. ChunksOK(new) /\ ~ Underway(new)
  BY <1>2, <1>3, <1>4, <1>5 DEF ChunksOK, Underway
<1>7. RunOK(new)
  BY <1>2, <1>3, <1>4, <1>6 DEF RunOK, OnlySplit
<1>8. Holds(new) <=> Holds(run[p])
  BY <1>2 DEF Holds
<1>9. HolderOK(new, manifest, result)
  BY <1>2, <1>6 DEF HolderOK
<1>10. ~ At(p, "idle") /\ pc \in Place
  BY <1>2 DEF At, Place
<1>. QED
  BY <1>1, <1>7, <1>8, <1>9, <1>10, GotoKeeps

LEMMA ResumeKeeps ==
  ASSUME ResumeInv, NEW p \in Process, Resume(p)
  PROVE  ResumeInv'
<1>. DEFINE loaded == [run[p] EXCEPT !.manifest = manifest, !.decks = LoadCompleted(manifest)]
            new == Moved(loaded, "chunk")
<1>1. /\ run[p] \in RunState /\ RunOK(run[p]) /\ FilesOK(manifest, result)
      /\ run[p].pc = "load" /\ run[p].key \in Key /\ Total(run[p].key) > 0
  BY RunFacts DEF Resume, At, RunOK, OnlySplit
<1>2. LoadCompleted(manifest) \in Decks
  BY <1>1 DEF LoadCompleted, Loadable, Readable, Decks, FilesOK, Results
<1>3. /\ loaded \in RunState /\ loaded.key = run[p].key /\ loaded.chunk = run[p].chunk
      /\ loaded.manifest = manifest /\ loaded.decks = LoadCompleted(manifest)
  BY <1>1, <1>2 DEF RunState, FilesOK
<1>4. run' = [run EXCEPT ![p] = new]
  BY DEF Resume, Step, Moved
<1>. HIDE DEF loaded
<1>5. /\ new \in RunState /\ new.pc = "chunk" /\ new.key = run[p].key /\ new.chunk = run[p].chunk
      /\ new.manifest = manifest /\ new.decks = LoadCompleted(manifest)
  BY <1>3, MovedFacts DEF Place
<1>. HIDE DEF new
<1>6. new.chunk = 1 /\ manifest.key = new.key /\ new.key \in Key /\ Total(new.key) > 0
  BY <1>1, <1>5 DEF RunOK, ChunksOK, Resume, Matches
<1>7. \A i \in Index : new.decks[i] # NoDeck => result[i] \in Deck /\ new.decks[i] = result[i]
  BY <1>1, <1>5 DEF LoadCompleted, Loadable, Readable, FilesOK, Results
<1>8. MadeFor(new.decks, new.key)
  BY <1>1, <1>6, <1>7 DEF MadeFor, FilesOK, ResultsOf
<1>9. ChunksOK(new)
  BY <1>5, <1>6 DEF ChunksOK, PartsOf
<1>10. RunOK(new) /\ Holds(new) /\ Holds(run[p])
  BY <1>1, <1>5, <1>6, <1>8, <1>9 DEF RunOK, Holds
<1>11. \A i \in Index : new.decks[i] = NoDeck => ~ Offers(new.manifest, result, i)
  BY <1>5, LoadableIsOffered DEF LoadCompleted, Loadable, Readable
<1>12. OnDisk(new, manifest, result)
  BY <1>1, <1>5, <1>6, <1>11 DEF OnDisk, FilesOK
<1>13. HolderOK(new, manifest, result)
  BY <1>5, <1>12 DEF HolderOK
<1>14. owner = p /\ UNCHANGED <<document, disk, owner, damage>>
  BY <1>10, RunFacts DEF Resume
<1>15. new.pc \notin {"delete_manifest", "clean"}
  BY <1>5
<1>. QED
  BY <1>4, <1>10, <1>13, <1>14, <1>15, QuietStep

LEMMA DiscardStateKeeps ==
  ASSUME ResumeInv, NEW p \in Process, DiscardState(p)
  PROVE  ResumeInv'
<1>. DEFINE new == Moved(run[p], "wipe")
<1>1. /\ new \in RunState /\ new.pc = "wipe" /\ new.key = run[p].key
      /\ new.chunk = run[p].chunk /\ new.decks = run[p].decks /\ run[p].pc = "load"
  BY RunFacts, MovedFacts DEF Place, DiscardState, At
<1>2. RunOK(run[p]) /\ Total(new.key) > 0 /\ new.key \in Key /\ FilesOK(manifest, result)
  BY <1>1, RunFacts DEF RunOK, OnlySplit
<1>3. ChunksOK(new) /\ ~ Underway(new)
  BY <1>1, <1>2 DEF ChunksOK, Underway, RunOK
<1>4. RunOK(new) /\ Holds(new) /\ Holds(run[p])
  BY <1>1, <1>2, <1>3 DEF RunOK, Holds, OnlySplit
<1>5. manifest' \in {manifest, NoManifest} /\ result' = result
  BY DEF DiscardState
<1>6. manifest'.key # new.key
  BY <1>1, <1>2, <1>5, NoManifestFacts, Values DEF DiscardState, Matches
<1>7. HolderOK(new, manifest', result')
  BY <1>3, <1>6 DEF HolderOK
<1>8. Less(manifest', result', manifest, result)
  BY <1>2, <1>5 DEF Less, FilesOK
<1>9. run' = [run EXCEPT ![p] = new] /\ UNCHANGED <<document, csv, owner, damage>>
  BY DEF DiscardState, Step, Moved
<1>10. owner = p /\ new.pc \notin {"delete_manifest", "clean"}
  BY <1>1, <1>4, RunFacts
<1>. HIDE DEF new
<1>. QED
  BY <1>4, <1>7, <1>8, <1>9, <1>10, RemovingStep
(* Files go or are damaged, and no run moves.                               *)
LEMMA FilesGo ==
  ASSUME ResumeInv, Less(manifest', result', manifest, result),
         UNCHANGED <<document, csv, owner, run>>, damage' \in 0 .. MaxDamage
  PROVE  ResumeInv'
<1>1. FilesOK(manifest, result)' /\ RunsOK' /\ CsvOK'
  BY LessFiles DEF ResumeInv, RunsOK, CsvOK
<1>2. \A p \in Process : HolderOK(run[p], manifest', result')
  BY RunFacts, LessHolder
<1>3. HoldersOK'
  BY <1>2 DEF ResumeInv, HoldersOK
<1>. QED
  BY <1>1, <1>3 DEF ResumeInv

LEMMA LessOne ==
  ASSUME ResumeInv, NEW i \in Index, NEW value \in {NoDeck, Unreadable},
         manifest' = manifest, result' = [result EXCEPT ![i] = value]
  PROVE  Less(manifest', result', manifest, result)
<1>1. result \in Results
  BY DEF ResumeInv, FilesOK
<1>2. result' \in Results /\ \A j \in Index : result'[j] \in {result[j], value}
  BY <1>1 DEF Results
<1>. QED
  BY <1>2 DEF Less

LEMMA LessManifest ==
  ASSUME ResumeInv, manifest' \in {NoManifest, BadManifest}, result' = result
  PROVE  Less(manifest', result', manifest, result)
BY DEF Less, ResumeInv, FilesOK

LEMMA RemoveFileKeeps ==
  ASSUME ResumeInv, NEW p \in Process, RemoveFile(p)
  PROVE  ResumeInv'
<1>1. Less(manifest', result', manifest, result)
  <2>1. CASE manifest' = NoManifest /\ result' = result
    BY <2>1, LessManifest
  <2>2. CASE manifest' = manifest /\ \E i \in Index : result' = [result EXCEPT ![i] = NoDeck]
    BY <2>2, LessOne
  <2>. QED
    BY <2>1, <2>2 DEF RemoveFile
<1>2. UNCHANGED <<document, csv, owner, run>> /\ damage' \in 0 .. MaxDamage
  BY DEF RemoveFile, ResumeInv, RunsOK
<1>. QED
  BY <1>1, <1>2, FilesGo

LEMMA DamageKeeps ==
  ASSUME ResumeInv, Damage
  PROVE  ResumeInv'
<1>1. Less(manifest', result', manifest, result)
  <2>1. CASE manifest' = BadManifest /\ result' = result
    BY <2>1, LessManifest
  <2>2. CASE manifest' = manifest /\ \E i \in Index : result' = [result EXCEPT ![i] = Unreadable]
    BY <2>2, LessOne
  <2>. QED
    BY <2>1, <2>2 DEF Damage
<1>2. UNCHANGED <<document, csv, owner, run>> /\ damage' \in 0 .. MaxDamage
  BY ResumeAssumption DEF Damage, ResumeInv, RunsOK
<1>. QED
  BY <1>1, <1>2, FilesGo

LEMMA WipedKeeps ==
  ASSUME ResumeInv, NEW p \in Process, Wiped(p)
  PROVE  ResumeInv'
<1>. DEFINE fresh == FreshManifest(run[p].key)
            begun == [run[p] EXCEPT !.manifest = fresh]
            new == Moved(begun, "chunk")
<1>1. /\ run[p] \in RunState /\ RunOK(run[p]) /\ FilesOK(manifest, result)
      /\ run[p].pc = "wipe" /\ run[p].key \in Key /\ Total(run[p].key) > 0
  BY RunFacts DEF Wiped, At, RunOK, OnlySplit
<1>2. /\ fresh \in Manifest /\ fresh.key = run[p].key
      /\ \A i \in Index : fresh.chunks[i].status = "pending"
  BY <1>1, FreshFacts
<1>3. run' = [run EXCEPT ![p] = new] /\ manifest' = fresh /\ result' = result
  BY DEF Wiped, Step, Moved
<1>. HIDE DEF fresh
<1>4. /\ begun \in RunState /\ begun.key = run[p].key /\ begun.chunk = run[p].chunk
      /\ begun.manifest = fresh /\ begun.decks = run[p].decks
  BY <1>1, <1>2 DEF RunState
<1>. HIDE DEF begun
<1>5. /\ new \in RunState /\ new.pc = "chunk" /\ new.key = run[p].key /\ new.chunk = run[p].chunk
      /\ new.manifest = fresh /\ new.decks = run[p].decks
  BY <1>4, MovedFacts DEF Place
<1>. HIDE DEF new
<1>6. new.chunk = 1 /\ MadeFor(new.decks, new.key)
  BY <1>1, <1>5 DEF RunOK, ChunksOK
<1>7. ChunksOK(new)
  BY <1>1, <1>5, <1>6 DEF ChunksOK, PartsOf
<1>8. RunOK(new) /\ Holds(new) /\ Holds(run[p])
  BY <1>1, <1>2, <1>5, <1>6, <1>7 DEF RunOK, Holds
<1>9. \A i \in Index : result[i] = NoDeck
  BY DEF Wiped, Empty
<1>10. FilesOK(manifest', result')
  BY <1>1, <1>2, <1>3, <1>9, Values DEF FilesOK, ResultsOf
<1>11. OnDisk(new, manifest', result')
  BY <1>2, <1>3, <1>5, <1>9, Values DEF OnDisk, ResultsOf, Offers
<1>12. HolderOK(new, manifest', result')
  BY <1>5, <1>11 DEF HolderOK
<1>13. owner = p /\ owner' = owner /\ UNCHANGED <<document, damage, csv>>
  BY <1>8, RunFacts DEF Wiped
<1>14. new.pc \notin {"delete_manifest", "clean"}
  BY <1>5
<1>. QED
  BY <1>3, <1>8, <1>10, <1>12, <1>13, <1>14, OwnerStep

(* Within a split run that is underway: what is known of it.                *)
LEMMA UnderwayFacts ==
  ASSUME ResumeInv, NEW p \in Process, Underway(run[p])
  PROVE  /\ run[p] \in RunState /\ RunOK(run[p]) /\ ChunksOK(run[p])
         /\ run[p].key \in Key /\ run[p].manifest.key = run[p].key
         /\ Total(run[p].key) \in Nat /\ Total(run[p].key) > 0
         /\ PartsOf(run[p].key) = Total(run[p].key)
         /\ 1 .. Total(run[p].key) \subseteq Index
         /\ OnDisk(run[p], manifest, result)
         /\ MadeFor(run[p].decks, run[p].key)
         /\ Holds(run[p]) /\ owner = p
         /\ run[p].chunk \in Nat \ {0}
<1>1. RunOK(run[p]) /\ HolderOK(run[p], manifest, result) /\ (owner = p <=> Holds(run[p]))
  BY RunFacts
<1>2. Holds(run[p]) /\ run[p].pc # "idle"
  BY DEF Holds, Underway
<1>3. run[p].key \in Key /\ Total(run[p].key) > 0
  BY <1>1, <1>2 DEF RunOK, Underway
<1>4. PartsOf(run[p].key) = Total(run[p].key)
  BY <1>3 DEF PartsOf
<1>5. OnDisk(run[p], manifest, result)
  BY <1>1 DEF HolderOK
<1>6. /\ run[p] \in RunState /\ ChunksOK(run[p]) /\ run[p].manifest.key = run[p].key
      /\ MadeFor(run[p].decks, run[p].key)
  BY <1>1, <1>2 DEF RunOK
<1>7. Total(run[p].key) \in Nat /\ 1 .. Total(run[p].key) \subseteq Index
  BY <1>3, <1>4, KeyFacts
<1>8. run[p].chunk \in Nat \ {0}
  BY <1>6 DEF RunState
<1>. QED
  BY <1>1, <1>2, <1>3, <1>4, <1>5, <1>6, <1>7, <1>8

(* "chunk" is a place of split runs only.                                   *)
LEMMA AtChunk ==
  ASSUME ResumeInv, NEW p \in Process,
         run[p].pc \in {"chunk", "save_result", "save_manifest", "mark_failed"}
  PROVE  Underway(run[p])
BY RunFacts DEF RunOK, Underway, OnlySplit

LEMMA UseSavedKeeps ==
  ASSUME ResumeInv, NEW p \in Process, UseSaved(p)
  PROVE  ResumeInv'
<1>. DEFINE new == Moved(Advanced(p), "chunk")
            r == run[p]
<1>1. r.pc = "chunk" /\ Underway(r) /\ r.decks[r.chunk] # NoDeck
  BY AtChunk DEF UseSaved, At
<1>2. /\ r \in RunState /\ RunOK(r) /\ ChunksOK(r) /\ Holds(r) /\ owner = p
      /\ r.key \in Key /\ Total(r.key) \in Nat /\ Total(r.key) > 0
      /\ PartsOf(r.key) = Total(r.key) /\ OnDisk(r, manifest, result)
      /\ r.manifest.key = r.key /\ MadeFor(r.decks, r.key)
  BY <1>1, UnderwayFacts
<1>3. /\ Advanced(p) \in RunState /\ Advanced(p).key = r.key /\ Advanced(p).chunk = r.chunk + 1
      /\ Advanced(p).manifest = r.manifest /\ Advanced(p).decks = r.decks
  BY <1>2 DEF Advanced, RunState
<1>4. run' = [run EXCEPT ![p] = new] /\ UNCHANGED <<document, disk, owner, damage>>
  BY DEF UseSaved, Step, Moved
<1>5. /\ new \in RunState /\ new.pc = "chunk" /\ new.key = r.key /\ new.chunk = r.chunk + 1
      /\ new.manifest = r.manifest /\ new.decks = r.decks
  BY <1>3, MovedFacts DEF Place
<1>6. r.chunk \in Nat \ {0}
  BY <1>2 DEF RunState
<1>. HIDE DEF new
<1>7. \A j \in 1 .. PartsOf(r.key) : j < r.chunk + 1 => j < r.chunk \/ j = r.chunk
  BY <1>2, <1>6
<1>8. ChunksOK(new)
  BY <1>1, <1>2, <1>5, <1>7 DEF ChunksOK
<1>9. RunOK(new) /\ Holds(new)
  BY <1>2, <1>5, <1>8 DEF RunOK, Holds
<1>10. HolderOK(new, manifest, result)
  BY <1>2, <1>5 DEF HolderOK, OnDisk
<1>11. new.pc \notin {"delete_manifest", "clean"}
  BY <1>5
<1>. QED
  BY <1>2, <1>4, <1>9, <1>10, <1>11, QuietStep

LEMMA ProcessChunkKeeps ==
  ASSUME ResumeInv, NEW p \in Process, ProcessChunk(p)
  PROVE  ResumeInv'
<1>. DEFINE new == Moved(run[p], "generate")
            r == run[p]
<1>1. r.pc = "chunk" /\ Underway(r) /\ r.decks[r.chunk] = NoDeck /\ r.chunk <= Total(r.key)
  BY AtChunk DEF ProcessChunk, At, Pointed
<1>2. /\ r \in RunState /\ RunOK(r) /\ ChunksOK(r) /\ Holds(r) /\ owner = p
      /\ r.key \in Key /\ Total(r.key) \in Nat /\ Total(r.key) > 0
      /\ PartsOf(r.key) = Total(r.key) /\ OnDisk(r, manifest, result)
      /\ r.manifest.key = r.key /\ MadeFor(r.decks, r.key)
  BY <1>1, UnderwayFacts
<1>3. /\ new \in RunState /\ new.pc = "generate" /\ new.key = r.key /\ new.chunk = r.chunk
      /\ new.manifest = r.manifest /\ new.decks = r.decks
  BY <1>2, MovedFacts DEF Place
<1>. HIDE DEF new
<1>4. r.chunk \in 1 .. PartsOf(r.key)
  BY <1>1, <1>2, UnderwayFacts
<1>5. ChunksOK(new)
  BY <1>1, <1>2, <1>3, <1>4 DEF ChunksOK
<1>6. RunOK(new) /\ Holds(new)
  BY <1>2, <1>3, <1>5 DEF RunOK, Holds
<1>7. HolderOK(new, manifest, result)
  BY <1>2, <1>3 DEF HolderOK, OnDisk
<1>8. Goto(p, "generate") /\ ~ At(p, "idle") /\ "generate" \in Place
  BY <1>1 DEF ProcessChunk, At, Place
<1>. QED
  BY <1>2, <1>6, <1>7, <1>8, GotoKeeps DEF new
LEMMA GeneratedKeeps ==
  ASSUME ResumeInv, NEW p \in Process, Generated(p)
  PROVE  ResumeInv'
<1>. DEFINE r == run[p]
<1>1. PICK n \in 0 .. MaxCards :
        LET i == run[p].chunk
            deck == [key |-> run[p].key, index |-> i, cards |-> n]
        IN  Step(p, IF Split(p) THEN "save_result" ELSE "export",
                 [run[p] EXCEPT !.decks[i] = deck])
  BY DEF Generated
<1>. DEFINE deck == [key |-> r.key, index |-> r.chunk, cards |-> n]
            made == [r EXCEPT !.decks[r.chunk] = deck]
<1>2. PICK pc \in {"save_result", "export"} :
        /\ pc = (IF Total(r.key) > 0 THEN "save_result" ELSE "export")
        /\ run' = [run EXCEPT ![p] = Moved(made, pc)]
  BY <1>1 DEF Step, Moved, Split
<1>3. /\ r \in RunState /\ RunOK(r) /\ r.pc = "generate" /\ r.key \in Key /\ ChunksOK(r)
      /\ HolderOK(r, manifest, result) /\ FilesOK(manifest, result) /\ MadeFor(r.decks, r.key)
  BY RunFacts DEF Generated, At, RunOK
<1>4. r.chunk \in 1 .. PartsOf(r.key) /\ r.chunk \in Index
  BY <1>3, KeyFacts DEF ChunksOK
<1>5. deck \in Deck /\ deck # NoDeck /\ deck.key = r.key /\ deck.index = r.chunk
  BY <1>3, <1>4, Values DEF Deck
<1>. HIDE DEF deck
<1>6. /\ made \in RunState /\ made.key = r.key /\ made.chunk = r.chunk
      /\ made.manifest = r.manifest /\ made.decks = [r.decks EXCEPT ![r.chunk] = deck]
  BY <1>3, <1>4, <1>5 DEF RunState, Decks
<1>. HIDE DEF made
<1>. DEFINE new == Moved(made, pc)
<1>7. /\ new \in RunState /\ new.pc = pc /\ new.key = r.key /\ new.chunk = r.chunk
      /\ new.manifest = r.manifest /\ new.decks = [r.decks EXCEPT ![r.chunk] = deck]
  BY <1>6, MovedFacts DEF Place
<1>. HIDE DEF new
<1>8. /\ new.decks[r.chunk] = deck
      /\ \A j \in Index \ {r.chunk} : new.decks[j] = r.decks[j]
  BY <1>3, <1>4, <1>7 DEF RunState, Decks
<1>9. MadeFor(new.decks, new.key)
  BY <1>3, <1>5, <1>7, <1>8 DEF MadeFor
<1>10. ASSUME Total(r.key) > 0
       PROVE  /\ pc = "save_result" /\ ChunksOK(new) /\ RunOK(new)
              /\ HolderOK(new, manifest, result)
  <2>1. pc = "save_result" /\ Underway(r) /\ r.decks[r.chunk] = NoDeck
    BY <1>2, <1>3, <1>10 DEF Underway, ChunksOK
  <2>2. \A j \in 1 .. PartsOf(r.key) : j < r.chunk => new.decks[j] # NoDeck
    BY <1>3, <1>4, <1>5, <1>8, KeyFacts DEF ChunksOK
  <2>3. ChunksOK(new)
    BY <1>4, <1>5, <1>7, <1>8, <1>10, <2>1, <2>2 DEF ChunksOK
  <2>4. RunOK(new)
    BY <1>3, <1>7, <1>9, <1>10, <2>1, <2>3 DEF RunOK, Underway
  <2>5. OnDisk(r, manifest, result)
    BY <1>3, <2>1 DEF HolderOK
  <2>6. OnDisk(new, manifest, result)
    BY <1>4, <1>5, <1>7, <1>8, <2>1, <2>5 DEF OnDisk
  <2>7. HolderOK(new, manifest, result)
    BY <1>7, <2>1, <2>6 DEF HolderOK
  <2>. QED
    BY <2>1, <2>3, <2>4, <2>7
<1>11. ASSUME ~ Total(r.key) > 0
       PROVE  /\ pc = "export" /\ ChunksOK(new) /\ RunOK(new)
              /\ HolderOK(new, manifest, result)
  <2>1. pc = "export" /\ PartsOf(r.key) = 1 /\ Total(r.key) = 0
    BY <1>2, <1>3, <1>11, KeyFacts DEF PartsOf
  <2>2. r.chunk = 1
    BY <1>4, <2>1
  <2>3. ChunksOK(new)
    BY <1>5, <1>7, <1>8, <2>1, <2>2 DEF ChunksOK
  <2>4. RunOK(new) /\ ~ Holds(new)
    BY <1>3, <1>7, <1>9, <1>11, <2>1, <2>3 DEF RunOK, Underway, OnlySplit, Holds
  <2>. QED
    BY <2>1, <2>3, <2>4, WithoutLock
<1>12. RunOK(new) /\ HolderOK(new, manifest, result) /\ (Holds(new) <=> Holds(r))
  BY <1>3, <1>7, <1>10, <1>11 DEF Holds
<1>13. (owner = p <=> Holds(r)) /\ UNCHANGED <<document, disk, owner, damage>>
  BY RunFacts DEF Generated
<1>14. new.pc \notin {"delete_manifest", "clean"} /\ run' = [run EXCEPT ![p] = new]
  BY <1>2, <1>7 DEF new
<1>. QED
  BY <1>12, <1>13, <1>14, QuietStep

LEMMA NothingGeneratedKeeps ==
  ASSUME ResumeInv, NEW p \in Process, NothingGenerated(p)
  PROVE  ResumeInv'
<1>1. CASE Split(p)
  <2>. DEFINE new == Moved(run[p], "mark_failed")
              r == run[p]
  <2>1. r.pc = "generate" /\ Underway(r)
    BY <1>1 DEF NothingGenerated, At, Underway, Split
  <2>2. /\ r \in RunState /\ RunOK(r) /\ ChunksOK(r) /\ Holds(r) /\ owner = p
        /\ r.key \in Key /\ Total(r.key) \in Nat /\ Total(r.key) > 0
        /\ OnDisk(r, manifest, result)
        /\ r.manifest.key = r.key /\ MadeFor(r.decks, r.key)
    BY <2>1, UnderwayFacts
  <2>3. /\ new \in RunState /\ new.pc = "mark_failed" /\ new.key = r.key /\ new.chunk = r.chunk
        /\ new.manifest = r.manifest /\ new.decks = r.decks
    BY <2>2, MovedFacts DEF Place
  <2>. HIDE DEF new
  <2>4. ChunksOK(new)
    BY <2>1, <2>2, <2>3 DEF ChunksOK
  <2>5. RunOK(new) /\ Holds(new)
    BY <2>2, <2>3, <2>4 DEF RunOK, Holds
  <2>6. HolderOK(new, manifest, result)
    BY <2>2, <2>3 DEF HolderOK, OnDisk
  <2>7. Goto(p, "mark_failed") /\ ~ At(p, "idle") /\ "mark_failed" \in Place
    BY <1>1, <2>1 DEF NothingGenerated, At, Place
  <2>. QED
    BY <2>2, <2>5, <2>6, <2>7, GotoKeeps DEF new
<1>2. CASE ~ Split(p)
  BY <1>2, LeaveKeeps DEF NothingGenerated
<1>. QED
  BY <1>1, <1>2

(* A manifest with another state of one chunk.                              *)
LEMMA SetFacts ==
  ASSUME NEW saved \in Manifest, NEW i \in Index, NEW entry \in Entry
  PROVE  /\ SetChunkState(saved, i, entry) \in Manifest
         /\ SetChunkState(saved, i, entry).key = saved.key
         /\ SetChunkState(saved, i, entry).chunks[i] = entry
         /\ \A j \in Index \ {i} : SetChunkState(saved, i, entry).chunks[j] = saved.chunks[j]
BY DEF SetChunkState, Manifest

LEMMA MarkFailedKeeps ==
  ASSUME ResumeInv, NEW p \in Process, MarkFailed(p)
  PROVE  ResumeInv'
<1>. DEFINE r == run[p]
<1>1. r.pc = "mark_failed" /\ Underway(r)
  BY AtChunk DEF MarkFailed, At
<1>2. /\ r \in RunState /\ ChunksOK(r) /\ Holds(r) /\ owner = p /\ r.key \in Key
      /\ PartsOf(r.key) = Total(r.key) /\ 1 .. Total(r.key) \subseteq Index
      /\ OnDisk(r, manifest, result) /\ r.manifest.key = r.key
  BY <1>1, UnderwayFacts
<1>3. r.chunk \in Index /\ r.manifest \in Manifest
  BY <1>1, <1>2 DEF ChunksOK, RunState
<1>4. manifest' \in Manifest /\ manifest'.key = r.key /\ result' = result
  BY <1>2, <1>3, SetFacts, EntryTypes DEF MarkFailed
<1>5. FilesOK(manifest', result')
  BY <1>2, <1>4 DEF FilesOK, OnDisk, ResumeInv
<1>6. RunOK(Idle) /\ ~ Holds(Idle)
  BY IdleFacts DEF Holds
<1>7. HolderOK(Idle, manifest', result')
  BY <1>6, WithoutLock
<1>8. /\ run' = [run EXCEPT ![p] = Idle] /\ owner' = NoProcess
      /\ UNCHANGED <<document, damage, csv>>
  BY <1>2 DEF MarkFailed, Over
<1>. QED
  BY <1>2, <1>5, <1>6, <1>7, <1>8, IdleFacts, OwnerStep

LEMMA SaveResultKeeps ==
  ASSUME ResumeInv, NEW p \in Process, SaveResult(p)
  PROVE  ResumeInv'
<1>. DEFINE new == Moved(run[p], "save_manifest")
            r == run[p]
<1>1. r.pc = "save_result" /\ Underway(r)
  BY AtChunk DEF SaveResult, At
<1>2. /\ r \in RunState /\ RunOK(r) /\ ChunksOK(r) /\ Holds(r) /\ owner = p /\ r.key \in Key
      /\ PartsOf(r.key) = Total(r.key) /\ Total(r.key) > 0 /\ 1 .. Total(r.key) \subseteq Index
      /\ OnDisk(r, manifest, result) /\ r.manifest.key = r.key /\ MadeFor(r.decks, r.key)
  BY <1>1, UnderwayFacts
<1>3. /\ new \in RunState /\ new.pc = "save_manifest" /\ new.key = r.key /\ new.chunk = r.chunk
      /\ new.manifest = r.manifest /\ new.decks = r.decks
  BY <1>2, MovedFacts DEF Place
<1>4. /\ run' = [run EXCEPT ![p] = new] /\ manifest' = manifest
      /\ result' = [result EXCEPT ![r.chunk] = r.decks[r.chunk]]
      /\ owner' = owner /\ UNCHANGED <<document, damage, csv>>
  BY DEF SaveResult, Step, Moved
<1>. HIDE DEF new
<1>5. r.chunk \in Index /\ r.decks[r.chunk] # NoDeck
  BY <1>1, <1>2 DEF ChunksOK
<1>6. /\ r.decks[r.chunk] \in Deck
      /\ r.decks[r.chunk].key = r.key /\ r.decks[r.chunk].index = r.chunk
  BY <1>2, <1>5 DEF RunState, Decks, MadeFor
<1>7. FilesOK(manifest, result)
  BY DEF ResumeInv
<1>8. /\ result' \in Results /\ result'[r.chunk] = r.decks[r.chunk]
      /\ \A j \in Index \ {r.chunk} : result'[j] = result[j]
  BY <1>4, <1>5, <1>6, <1>7 DEF FilesOK, Results
<1>9. ResultsOf(result', r.key)
  BY <1>2, <1>6, <1>8 DEF ResultsOf, OnDisk
<1>10. FilesOK(manifest', result')
  BY <1>2, <1>4, <1>6, <1>7, <1>8, <1>9 DEF FilesOK, OnDisk
<1>11. ChunksOK(new)
  BY <1>1, <1>2, <1>3 DEF ChunksOK
<1>12. RunOK(new) /\ Holds(new)
  BY <1>2, <1>3, <1>11 DEF RunOK, Holds
<1>13. \A i \in Index : r.decks[i] = NoDeck => ~ Offers(r.manifest, result', i)
  BY <1>2, <1>5, <1>8 DEF OnDisk, Offers
<1>14. OnDisk(new, manifest', result')
  BY <1>2, <1>3, <1>4, <1>8, <1>9, <1>13 DEF OnDisk
<1>15. HolderOK(new, manifest', result') /\ new.pc \notin {"delete_manifest", "clean"}
  BY <1>3, <1>14 DEF HolderOK
<1>. QED
  BY <1>2, <1>4, <1>10, <1>12, <1>15, OwnerStep

LEMMA SaveManifestKeeps ==
  ASSUME ResumeInv, NEW p \in Process, SaveManifest(p)
  PROVE  ResumeInv'
<1>. DEFINE r == run[p]
            saved == SetChunkState(r.manifest, r.chunk, Completed(r.decks[r.chunk]))
            moving == [Advanced(p) EXCEPT !.manifest = saved]
            new == Moved(moving, "chunk")
<1>1. r.pc = "save_manifest" /\ Underway(r)
  BY AtChunk DEF SaveManifest, At
<1>2. /\ r \in RunState /\ RunOK(r) /\ ChunksOK(r) /\ Holds(r) /\ owner = p /\ r.key \in Key
      /\ PartsOf(r.key) = Total(r.key) /\ Total(r.key) > 0 /\ 1 .. Total(r.key) \subseteq Index
      /\ OnDisk(r, manifest, result) /\ r.manifest.key = r.key /\ MadeFor(r.decks, r.key)
      /\ r.chunk \in Nat \ {0} /\ Total(r.key) \in Nat
  BY <1>1, UnderwayFacts
<1>3. r.chunk \in Index /\ r.decks[r.chunk] # NoDeck
  BY <1>1, <1>2 DEF ChunksOK
<1>4. r.decks[r.chunk] \in Deck /\ r.manifest \in Manifest
  BY <1>2, <1>3 DEF RunState, Decks
<1>5. /\ saved \in Manifest /\ saved.key = r.key
      /\ \A j \in Index \ {r.chunk} : saved.chunks[j] = r.manifest.chunks[j]
  BY <1>2, <1>3, <1>4, SetFacts, EntryTypes
<1>6. /\ run' = [run EXCEPT ![p] = new] /\ manifest' = saved /\ result' = result
      /\ owner' = owner /\ UNCHANGED <<document, damage, csv>>
  BY DEF SaveManifest, Step, Moved
<1>. HIDE DEF saved
<1>7. /\ Advanced(p) \in RunState /\ Advanced(p).key = r.key /\ Advanced(p).chunk = r.chunk + 1
      /\ Advanced(p).decks = r.decks
  BY <1>2 DEF Advanced, RunState
<1>8. /\ moving \in RunState /\ moving.key = r.key /\ moving.chunk = r.chunk + 1
      /\ moving.manifest = saved /\ moving.decks = r.decks
  BY <1>5, <1>7 DEF RunState
<1>. HIDE DEF moving
<1>9. /\ new \in RunState /\ new.pc = "chunk" /\ new.key = r.key /\ new.chunk = r.chunk + 1
      /\ new.manifest = saved /\ new.decks = r.decks
  BY <1>8, MovedFacts DEF Place
<1>. HIDE DEF new
<1>10. \A j \in 1 .. PartsOf(r.key) : j < r.chunk + 1 => j < r.chunk \/ j = r.chunk
  BY <1>2
<1>11. ChunksOK(new)
  BY <1>1, <1>2, <1>3, <1>9, <1>10 DEF ChunksOK
<1>12. RunOK(new) /\ Holds(new)
  BY <1>2, <1>5, <1>9, <1>11 DEF RunOK, Holds
<1>13. FilesOK(manifest', result')
  BY <1>2, <1>5, <1>6 DEF FilesOK, OnDisk, ResumeInv
<1>14. \A i \in Index : r.decks[i] = NoDeck => ~ Offers(saved, result, i)
  BY <1>2, <1>3, <1>5 DEF OnDisk, Offers
<1>15. OnDisk(new, manifest', result')
  BY <1>2, <1>6, <1>9, <1>14 DEF OnDisk
<1>16. HolderOK(new, manifest', result') /\ new.pc \notin {"delete_manifest", "clean"}
  BY <1>9, <1>15 DEF HolderOK
<1>. QED
  BY <1>2, <1>6, <1>12, <1>13, <1>16, OwnerStep

LEMMA CombineKeeps ==
  ASSUME ResumeInv, NEW p \in Process, Combine(p)
  PROVE  ResumeInv'
<1>1. CASE HasCards(p)
  <2>. DEFINE new == Moved(run[p], "export")
              r == run[p]
  <2>1. r.pc = "chunk" /\ Underway(r)
    BY AtChunk DEF Combine, At
  <2>2. /\ r \in RunState /\ RunOK(r) /\ ChunksOK(r) /\ Holds(r) /\ r.key \in Key
        /\ PartsOf(r.key) = Total(r.key) /\ Total(r.key) > 0 /\ Total(r.key) \in Nat
        /\ r.chunk \in Nat \ {0} /\ MadeFor(r.decks, r.key)
    BY <2>1, UnderwayFacts
  <2>3. /\ new \in RunState /\ new.pc = "export" /\ new.key = r.key /\ new.chunk = r.chunk
        /\ new.manifest = r.manifest /\ new.decks = r.decks
    BY <2>2, MovedFacts DEF Place
  <2>4. Goto(p, "export") /\ ~ r.chunk <= Total(r.key)
    BY <1>1 DEF Combine, Pointed
  <2>. HIDE DEF new
  <2>5. \A j \in 1 .. PartsOf(r.key) : j < r.chunk
    BY <2>2, <2>4
  <2>6. ChunksOK(new) /\ ~ Underway(new)
    BY <2>1, <2>2, <2>3, <2>5 DEF ChunksOK, Underway
  <2>7. RunOK(new) /\ Holds(new)
    BY <2>2, <2>3, <2>6 DEF RunOK, Holds
  <2>8. HolderOK(new, manifest, result)
    BY <2>3, <2>6 DEF HolderOK
  <2>9. ~ At(p, "idle") /\ "export" \in Place
    BY <2>1 DEF At, Place
  <2>. QED
    BY <2>2, <2>4, <2>7, <2>8, <2>9, GotoKeeps DEF new
<1>2. CASE ~ HasCards(p)
  BY <1>2, LeaveKeeps DEF Combine
<1>. QED
  BY <1>1, <1>2
LEMMA ExportKeeps ==
  ASSUME ResumeInv, NEW p \in Process, Export(p)
  PROVE  ResumeInv'
<1>. DEFINE new == Moved(run[p], "delete_manifest")
            r == run[p]
<1>1. /\ r \in RunState /\ RunOK(r) /\ r.pc = "export" /\ r.key \in Key /\ ChunksOK(r)
      /\ MadeFor(r.decks, r.key)
  BY RunFacts DEF Export, At, RunOK
<1>2. /\ new \in RunState /\ new.pc = "delete_manifest" /\ new.key = r.key /\ new.chunk = r.chunk
      /\ new.decks = r.decks
  BY <1>1, MovedFacts DEF Place
<1>3. /\ run' = [run EXCEPT ![p] = new] /\ owner' = owner /\ manifest' = manifest
      /\ result' = result /\ UNCHANGED <<document, damage>>
      /\ csv' = [key |-> r.key, decks |-> [i \in 1 .. PartsOf(r.key) |-> r.decks[i]]]
  BY DEF Export, Step, Moved, Parts, PartsOf, Split
<1>. HIDE DEF new
<1>4. ChunksOK(new) /\ ~ Underway(new)
  BY <1>1, <1>2 DEF ChunksOK, Underway
<1>5. RunOK(new) /\ (Holds(new) <=> Holds(r))
  BY <1>1, <1>2, <1>4 DEF RunOK, OnlySplit, Holds
<1>6. PartsOf(r.key) \in Nat \ {0} /\ 1 .. PartsOf(r.key) \subseteq Index
  BY <1>1, KeyFacts
<1>7. \A i \in 1 .. PartsOf(r.key) :
        r.decks[i] \in Deck /\ r.decks[i].key = r.key /\ r.decks[i].index = i
  BY <1>1, <1>6 DEF ChunksOK, RunState, Decks, MadeFor
<1>8. /\ csv'.key = r.key /\ csv'.decks \in Seq(Deck) /\ Len(csv'.decks) = PartsOf(r.key)
      /\ \A i \in 1 .. PartsOf(r.key) : csv'.decks[i] = r.decks[i]
  BY <1>3, <1>6, <1>7
<1>9. WholeDeck(csv')
  BY <1>1, <1>7, <1>8 DEF WholeDeck
<1>10. csv' # NoCsv
  BY <1>1, <1>8, Values DEF NoCsv
<1>11. FilesOK(manifest', result') /\ HolderOK(new, manifest', result')
  BY <1>2, <1>3, <1>4 DEF ResumeInv, HolderOK
<1>12. \A q \in Process \ {p} : HolderOK(run[q], manifest', result')
  BY <1>3 DEF ResumeInv, HoldersOK
<1>13. owner = p <=> Holds(r)
  BY RunFacts
<1>. QED
  BY <1>3, <1>5, <1>9, <1>10, <1>11, <1>12, <1>13, OneStep

LEMMA DeleteManifestKeeps ==
  ASSUME ResumeInv, NEW p \in Process, DeleteManifest(p)
  PROVE  ResumeInv'
<1>. DEFINE new == Moved(run[p], "clean")
            r == run[p]
<1>1. /\ r \in RunState /\ RunOK(r) /\ r.pc = "delete_manifest" /\ r.key \in Key /\ ChunksOK(r)
  BY RunFacts DEF DeleteManifest, At, RunOK
<1>2. /\ new \in RunState /\ new.pc = "clean" /\ new.key = r.key /\ new.chunk = r.chunk
      /\ new.decks = r.decks
  BY <1>1, MovedFacts DEF Place
<1>3. /\ run' = [run EXCEPT ![p] = new] /\ owner' = owner
      /\ UNCHANGED <<document, damage, csv>> /\ manifest' = NoManifest /\ result' = result
  BY DEF DeleteManifest, Step, Moved
<1>. HIDE DEF new
<1>4. ChunksOK(new) /\ ~ Underway(new)
  BY <1>1, <1>2 DEF ChunksOK, Underway
<1>5. RunOK(new) /\ (Holds(new) <=> Holds(r))
  BY <1>1, <1>2, <1>4 DEF RunOK, OnlySplit, Holds
<1>6. HolderOK(new, manifest', result') /\ csv # NoCsv
  BY <1>1, <1>2, <1>4 DEF HolderOK, ResumeInv, CsvOK
<1>7. Less(manifest', result', manifest, result) /\ (owner = p <=> Holds(r))
  BY <1>3, LessManifest, RunFacts
<1>. QED
  BY <1>3, <1>5, <1>6, <1>7, RemovingStep

LEMMA EditKeeps ==
  ASSUME ResumeInv, Edit
  PROVE  ResumeInv'
BY DEF ResumeInv, RunsOK, HoldersOK, CsvOK, Edit, disk

LEMMA RemoveDeckKeeps ==
  ASSUME ResumeInv, RemoveDeck
  PROVE  ResumeInv'
<1>1. \A p \in Process : run[p].pc = "idle"
  BY DEF RemoveDeck, Active, At
<1>2. WholeDeck(csv')
  BY DEF RemoveDeck, WholeDeck, NoCsv
<1>3. CsvOK'
  BY <1>1, <1>2 DEF RemoveDeck, CsvOK
<1>. QED
  BY <1>3 DEF ResumeInv, RunsOK, HoldersOK, RemoveDeck

--------------------------------------------------------------------------------
(* The invariant, and what follows from it.                                 *)

LEMMA ResumeInitially == ResumeInit => ResumeInv
<1>. SUFFICES ASSUME ResumeInit PROVE ResumeInv
  OBVIOUS
<1>1. run \in [Process -> RunState] /\ \A p \in Process : run[p] = Idle
  BY IdleFacts DEF ResumeInit
<1>2. RunsOK
  BY <1>1, IdleFacts, ResumeAssumption DEF RunsOK, ResumeInit
<1>3. FilesOK(manifest, result)
  BY NoManifestFacts, Values DEF ResumeInit, FilesOK, Results
<1>4. ~ Holds(Idle) /\ HolderOK(Idle, manifest, result)
  BY IdleFacts, WithoutLock DEF Holds
<1>5. HoldersOK
  BY <1>1, <1>4, ResumeAssumption DEF HoldersOK, ResumeInit
<1>6. CsvOK
  BY <1>1, IdleFacts DEF CsvOK, ResumeInit, WholeDeck, NoCsv
<1>. QED
  BY <1>2, <1>3, <1>5, <1>6 DEF ResumeInv

LEMMA WorkKeeps ==
  ASSUME ResumeInv, NEW p \in Process, Work(p)
  PROVE  ResumeInv'
<1>1. CASE Lock(p) \/ LookForState(p) \/ Resume(p) \/ DiscardState(p)
  BY <1>1, LockKeeps, LookForStateKeeps, ResumeKeeps, DiscardStateKeeps
<1>2. CASE RemoveFile(p) \/ Wiped(p) \/ UseSaved(p) \/ ProcessChunk(p)
  BY <1>2, RemoveFileKeeps, WipedKeeps, UseSavedKeeps, ProcessChunkKeeps
<1>3. CASE Generated(p) \/ NothingGenerated(p) \/ MarkFailed(p) \/ SaveResult(p)
  BY <1>3, GeneratedKeeps, NothingGeneratedKeeps, MarkFailedKeeps, SaveResultKeeps
<1>4. CASE SaveManifest(p) \/ Combine(p) \/ Export(p) \/ DeleteManifest(p)
  BY <1>4, SaveManifestKeeps, CombineKeeps, ExportKeeps, DeleteManifestKeeps
<1>5. CASE AlreadyRunning(p) \/ AlreadyExported(p) \/ Cleaned(p)
  BY <1>5, LeaveKeeps DEF AlreadyRunning, AlreadyExported, Cleaned
<1>. QED
  BY <1>1, <1>2, <1>3, <1>4, <1>5 DEF Work

LEMMA ResumeStep == ResumeInv /\ [ResumeNext]_vars => ResumeInv'
<1>. SUFFICES ASSUME ResumeInv, [ResumeNext]_vars PROVE ResumeInv'
  OBVIOUS
<1>1. ASSUME NEW p \in Process, Begin(p) \/ Work(p) \/ Stop(p)
      PROVE  ResumeInv'
  BY <1>1, BeginKeeps, WorkKeeps, LeaveKeeps DEF Stop
<1>2. CASE Edit \/ RemoveDeck \/ Damage
  BY <1>2, EditKeeps, RemoveDeckKeeps, DamageKeeps
<1>3. CASE UNCHANGED vars
  BY <1>3 DEF vars, disk, ResumeInv, RunsOK, HoldersOK, CsvOK
<1>. QED
  BY <1>1, <1>2, <1>3 DEF ResumeNext

(* The inductive invariant: who holds the lock, how far each run is, and    *)
(* what the files may hold meanwhile.                                       *)
THEOREM ResumeInvariant == ResumeSpec => []ResumeInv
BY ResumeInitially, ResumeStep, PTL DEF ResumeSpec

(* An exported deck has all chunks of one content, made with one option, in *)
(* order, however many runs were stopped or damaged before (Export,         *)
(* load_completed_chunks).                                                  *)
THEOREM DecksAreWhole == ResumeSpec => []DeckIsWhole
<1>1. ResumeInv => DeckIsWhole
  <2>. SUFFICES ASSUME ResumeInv PROVE DeckIsWhole
    OBVIOUS
  <2>1. \A p \in Process :
          /\ run[p].key \in Key \cup {NoKey} /\ run[p].decks \in Decks
          /\ At(p, "idle") => owner # p
    BY RunFacts DEF RunState, Holds, At
  <2>2. ResumeTypeOK
    BY <2>1 DEF ResumeInv, RunsOK, FilesOK, HoldersOK, CsvOK, WholeDeck, ResumeTypeOK,
                Manifest, Results, Decks
  <2>3. csv # NoCsv =>
          /\ Len(csv.decks) = (IF Total(csv.key) > 0 THEN Total(csv.key) ELSE 1)
          /\ \A i \in 1 .. Len(csv.decks) :
               csv.decks[i].key = csv.key /\ csv.decks[i].index = i
    BY DEF ResumeInv, CsvOK, WholeDeck, PartsOf
  <2>. QED
    BY <2>2, <2>3 DEF DeckIsWhole
<1>. QED
  BY <1>1, ResumeInvariant, PTL

(* A run that generates a chunk would not have found it on disk, so what a  *)
(* run before it has paid for is used (load_completed_chunks, the lock).    *)
THEOREM NothingPaidTwice == ResumeSpec => []NotPaidTwice
<1>1. ResumeInv => NotPaidTwice
  <2>. SUFFICES ASSUME ResumeInv, NEW p \in Process, At(p, "generate"), Split(p),
                       Matches(manifest, run[p].key)
                PROVE  ~ Saved(run[p].chunk)
    BY DEF NotPaidTwice
  <2>1. Underway(run[p]) /\ run[p].pc = "generate"
    BY DEF Underway, At, Split
  <2>2. /\ ChunksOK(run[p]) /\ OnDisk(run[p], manifest, result) /\ run[p].key \in Key
        /\ PartsOf(run[p].key) = Total(run[p].key)
        /\ 1 .. Total(run[p].key) \subseteq Index /\ Total(run[p].key) > 0
    BY <2>1, UnderwayFacts
  <2>3. run[p].chunk \in Index /\ run[p].decks[run[p].chunk] = NoDeck
    BY <2>1, <2>2 DEF ChunksOK
  <2>4. manifest = run[p].manifest
    BY <2>2 DEF OnDisk, Matches
  <2>5. ~ Offers(manifest, result, run[p].chunk)
    BY <2>2, <2>3, <2>4 DEF OnDisk
  <2>. QED
    BY <2>5, LoadableIsOffered DEF Saved
<1>. QED
  BY <1>1, ResumeInvariant, PTL
--------------------------------------------------------------------------------
(* What is saved stays.                                                     *)

Offered(saved, results, i) == saved.key \in Key /\ Offers(saved, results, i)

LEMMA SavedIsOffered ==
  ASSUME NEW i
  PROVE  /\ Saved(i) <=> Offered(manifest, result, i)
         /\ Saved(i)' <=> Offered(manifest', result', i)
BY DEF Saved, Offered, Loadable, Readable, Offers

(* Who may take away what was saved, and why.                               *)
Excused ==
  \/ csv # NoCsv
  \/ damage' > damage
  \/ owner # NoProcess /\ run[owner].key # manifest.key

LEMMA OwnerExcused ==
  ASSUME ResumeInv, NEW p \in Process, Holds(run[p]), run[p].key # manifest.key
  PROVE  Excused
<1>1. owner = p /\ p # NoProcess
  BY RunFacts, ResumeAssumption
<1>. QED
  BY <1>1 DEF Excused

LEMMA WipingExcused ==
  ASSUME ResumeInv, NEW p \in Process, run[p].pc \in {"wipe", "clean", "delete_manifest"}
  PROVE  Excused
<1>1. CASE run[p].pc = "wipe"
  <2>1. Holds(run[p]) /\ run[p].key # manifest.key
    BY <1>1, RunFacts DEF RunOK, Holds, OnlySplit, HolderOK
  <2>. QED
    BY <2>1, OwnerExcused
<1>2. CASE run[p].pc \in {"clean", "delete_manifest"}
  BY <1>2 DEF Excused, ResumeInv, CsvOK
<1>. QED
  BY <1>1, <1>2

(* What a run underway writes keeps what was saved.                         *)
LEMMA WrittenIsKept ==
  ASSUME ResumeInv, NEW p \in Process, NEW i \in Index, Offered(manifest, result, i),
         MarkFailed(p) \/ SaveResult(p) \/ SaveManifest(p)
  PROVE  Offered(manifest', result', i)
<1>. DEFINE r == run[p]
<1>1. r.pc \in {"mark_failed", "save_result", "save_manifest"} /\ Underway(r)
  BY AtChunk DEF MarkFailed, SaveResult, SaveManifest, At
<1>2. /\ r \in RunState /\ ChunksOK(r) /\ r.key \in Key /\ PartsOf(r.key) = Total(r.key)
      /\ 1 .. Total(r.key) \subseteq Index /\ OnDisk(r, manifest, result)
      /\ r.manifest.key = r.key
  BY <1>1, UnderwayFacts
<1>3. r.chunk \in Index /\ r.manifest \in Manifest
  BY <1>1, <1>2 DEF ChunksOK, RunState
<1>4. manifest = r.manifest /\ Offers(manifest, result, i) /\ manifest.key = r.key
  BY <1>2 DEF Offered, OnDisk
<1>5. CASE MarkFailed(p)
  <2>1. r.decks[r.chunk] = NoDeck
    BY <1>2, <1>5 DEF MarkFailed, At, ChunksOK
  <2>2. i # r.chunk
    BY <1>2, <1>3, <1>4, <2>1 DEF OnDisk
  <2>3. /\ manifest'.key = r.key /\ manifest'.chunks[i] = manifest.chunks[i]
        /\ result' = result
    BY <1>2, <1>3, <1>4, <1>5, <2>2, SetFacts, EntryTypes DEF MarkFailed
  <2>. QED
    BY <1>2, <1>4, <2>3 DEF Offered, Offers
<1>6. CASE SaveResult(p)
  <2>1. i # r.chunk
    BY <1>2, <1>4, <1>6 DEF OnDisk, SaveResult, At
  <2>2. result' = [result EXCEPT ![r.chunk] = r.decks[r.chunk]] /\ manifest' = manifest
    BY <1>6 DEF SaveResult
  <2>3. result'[i] = result[i]
    BY <2>1, <2>2 DEF ResumeInv, FilesOK, Results
  <2>. QED
    BY <1>2, <1>4, <2>2, <2>3 DEF Offered, Offers
<1>7. CASE SaveManifest(p)
  <2>. DEFINE deck == r.decks[r.chunk]
  <2>1. r.pc = "save_manifest" /\ deck # NoDeck
    BY <1>2, <1>7 DEF SaveManifest, At, ChunksOK
  <2>2. deck \in Deck
    BY <1>2, <1>3, <2>1 DEF RunState, Decks
  <2>3. result' = result /\ manifest' = SetChunkState(r.manifest, r.chunk, Completed(deck))
    BY <1>7 DEF SaveManifest
  <2>4. /\ manifest'.key = r.key /\ manifest'.chunks[r.chunk] = Completed(deck)
        /\ \A j \in Index \ {r.chunk} : manifest'.chunks[j] = manifest.chunks[j]
    <3>1. Completed(deck) \in Entry
      BY <2>2, EntryTypes
    <3>. QED
      BY <1>2, <1>3, <1>4, <2>3, <3>1, SetFacts
  <2>5. CASE i = r.chunk
    <3>1. result'[i] = deck
      BY <1>2, <1>4, <2>1, <2>3, <2>5 DEF OnDisk, Offers
    <3>2. manifest'.chunks[i].status = "completed" /\ manifest'.chunks[i].cards = deck.cards
      BY <2>4, <2>5 DEF Completed
    <3>3. deck \notin {NoDeck, Unreadable}
      BY <2>2, Values
    <3>4. Offers(manifest', result', i)
      BY <3>1, <3>2, <3>3 DEF Offers
    <3>. QED
      BY <1>2, <2>4, <3>4 DEF Offered
  <2>6. CASE i # r.chunk
    BY <1>2, <1>4, <2>3, <2>4, <2>6 DEF Offered, Offers
  <2>. QED
    BY <2>5, <2>6
<1>. QED
  BY <1>5, <1>6, <1>7

LEMMA KeptOrExcused ==
  ASSUME ResumeInv, [ResumeNext]_vars, NEW i \in Index, Offered(manifest, result, i),
         ~ Offered(manifest', result', i)
  PROVE  Excused
<1>1. ~ (manifest' = manifest /\ result' = result)
  OBVIOUS
<1>2. CASE UNCHANGED vars \/ Edit \/ RemoveDeck
  BY <1>1, <1>2 DEF vars, disk, Edit, RemoveDeck
<1>3. CASE Damage
  BY <1>3 DEF Damage, Excused, ResumeInv, RunsOK
<1>4. ASSUME NEW p \in Process, Begin(p) \/ Work(p) \/ Stop(p)
      PROVE  Excused
  <2>1. CASE Begin(p) \/ Stop(p) \/ Lock(p) \/ AlreadyRunning(p) \/ AlreadyExported(p)
    BY <1>1, <2>1 DEF Begin, Stop, Lock, AlreadyRunning, AlreadyExported, Leave, disk
  <2>2. CASE LookForState(p) \/ Resume(p) \/ UseSaved(p) \/ ProcessChunk(p)
    BY <1>1, <2>2 DEF LookForState, Resume, UseSaved, ProcessChunk, Goto, disk
  <2>3. CASE Generated(p) \/ NothingGenerated(p) \/ Combine(p) \/ Cleaned(p) \/ Export(p)
    BY <1>1, <2>3 DEF Generated, NothingGenerated, Combine, Cleaned, Export, Goto, Leave, disk
  <2>4. CASE DiscardState(p)
    <3>1. run[p].pc = "load" /\ run[p].key # manifest.key
      BY <2>4 DEF DiscardState, At, Matches
    <3>2. Holds(run[p])
      BY <3>1, RunFacts DEF RunOK, Holds, OnlySplit
    <3>. QED
      BY <3>1, <3>2, OwnerExcused
  <2>5. CASE RemoveFile(p) \/ Wiped(p) \/ DeleteManifest(p)
    BY <2>5, WipingExcused DEF RemoveFile, Wiped, DeleteManifest, At
  <2>6. CASE MarkFailed(p) \/ SaveResult(p) \/ SaveManifest(p)
    BY <2>6, WrittenIsKept
  <2>. QED
    BY <1>4, <2>1, <2>2, <2>3, <2>4, <2>5, <2>6 DEF Work
<1>. QED
  BY <1>2, <1>3, <1>4 DEF ResumeNext

(* No crash, failure or cancellation costs a chunk that was saved: it goes  *)
(* with the deck made of it, for another content or option, or by damage    *)
(* from outside (save_manifest, prepare_resume_state).                      *)
THEOREM SavedStays == ResumeSpec => SavedIsKept
<1>. DEFINE Kept == \A i \in Index : Saved(i) /\ ~ Saved(i)' => Excused
<1>1. ResumeInv /\ [ResumeNext]_vars => Kept
  BY KeptOrExcused, SavedIsOffered
<1>2. Kept <=> \A i \in Index : Saved(i) /\ ~ Saved(i)' =>
        \/ csv # NoCsv
        \/ damage' > damage
        \/ owner # NoProcess /\ run[owner].key # manifest.key
  BY DEF Excused
<1>3. ResumeInv /\ [ResumeNext]_vars =>
        [\A i \in Index : Saved(i) /\ ~ Saved(i)' =>
           \/ csv # NoCsv
           \/ damage' > damage
           \/ owner # NoProcess /\ run[owner].key # manifest.key]_vars
  BY <1>1, <1>2
<1>. HIDE DEF Kept
<1>. QED
  BY <1>3, ResumeInvariant, PTL DEF ResumeSpec, SavedIsKept
--------------------------------------------------------------------------------
(* The batch.  Where an attempt is: its notebook exists for it while it is  *)
(* made use of, and belongs to its hands until its deletion was started.    *)

Making    == {"add", "wait_source", "generate", "wait_artifact", "download"}
InAttempt == Making \cup {"create", "finally", "delete", "over", "export"}
Ending    == {"cleaning", "cleanup", "done"}

(* Attempts follow each other in this order.                                *)
Earlier(n, t) ==
  \/ n.doc < t.doc
  \/ n.doc = t.doc /\ n.part < t.part
  \/ n.doc = t.doc /\ n.part = t.part /\ n.attempt < t.attempt

Typed ==
  /\ BatchTypeOK
  /\ task \in [doc : Nat \ {0}, part : Nat \ {0}, attempt : 1 .. MaxAttempts]

TaskOK ==
  /\ step = "source" => task = FirstTask(task.doc)
  /\ step \in InAttempt =>
       /\ task.doc \in Document /\ task.part \in 1 .. PartsIn(task.doc)
       /\ ~ IsSplit(task.doc) => task.attempt = 1
  /\ command.pc # "none" => step \in Op

HandsOK ==
  /\ step = "create" => notebook = NoNotebook
  /\ step \in Making \cup {"delete"} => notebook = task /\ task \in tracked
  /\ step = "finally" => notebook = NoNotebook \/ (notebook = task /\ task \in tracked)
  /\ step = "cleanup" => notebook \in tracked
  /\ step = "done" => tracked = {}

(* A chunk has its own notebook only, and none before and after.            *)
TrackedOK ==
  \A n \in tracked :
    step \notin Ending /\ n.doc = task.doc /\ IsSplit(task.doc) =>
      /\ n = task /\ notebook = task
      /\ step \in Making \cup {"finally", "delete"}

(* What was made before was made for earlier attempts.                      *)
FreshOK ==
  /\ step \in InAttempt => \A n \in known \cup exists : n = task \/ Earlier(n, task)
  /\ step = "create" => task \notin known
  /\ step = "source" => \A n \in known \cup exists : n.doc < task.doc

(* The notebook whose deletion runs.                                        *)
Removing(n) == command.pc \in {"spawned", "running"} /\ Deleting /\ notebook = n

(* Nothing is deleted before it is known, and twice.                        *)
Asked(n) ==
  IF n \in known /\ (n \notin tracked \/ Removing(n))
  THEN 1 ELSE 0

AskedOK == \A n \in Notebook : asked[n] = Asked(n)

DecksOK ==
  /\ step \in InAttempt =>
       \A q \in 1 .. PartsIn(task.doc) : q < task.part => <<task.doc, q>> \in decks
  /\ step \in {"finally", "delete", "over"} /\ verdict = "deck" =>
       <<task.doc, task.part>> \in decks
  /\ step = "export" => \A q \in 1 .. PartsIn(task.doc) : <<task.doc, q>> \in decks

ReportOK ==
  step \notin Ending => \A d \in Document : report[d] # "waiting" => d < task.doc

BatchInv ==
  /\ Typed /\ TaskOK /\ HandsOK /\ TrackedOK /\ FreshOK /\ AskedOK /\ DecksOK
  /\ ReportOK /\ SkippedIsUntouched /\ CompletedIsWhole

LEMMA DocumentFacts ==
  /\ Document \subseteq Nat \ {0} /\ Len(ChunksOf) \in Nat
  /\ \A d \in Document : ChunksOf[d] \in Nat
  /\ \A d \in Document : PartsIn(d) \in Nat \ {0} /\ AttemptsIn(d) \in Nat \ {0}
  /\ \A d \in Document : IsSplit(d) => PartsIn(d) = ChunksOf[d]
  /\ \A d \in Document : ~ IsSplit(d) => PartsIn(d) = 1
<1>1. Len(ChunksOf) \in Nat /\ \A d \in Document : ChunksOf[d] \in Nat
  BY BatchAssumption DEF Document
<1>. QED
  BY <1>1, BatchAssumption DEF Document, PartsIn, AttemptsIn, IsSplit

LEMMA NotebookKinds ==
  ASSUME NEW n
  PROVE  n \in Notebook <=> \E d \in Document : n \in AttemptsAt(d)
BY Zenon DEF Notebook

LEMMA NotebookFacts ==
  ASSUME NEW n \in Notebook
  PROVE  /\ n = [doc |-> n.doc, part |-> n.part, attempt |-> n.attempt]
         /\ n.doc \in Document /\ n.part \in Nat \ {0} /\ n.attempt \in Nat \ {0}
BY NotebookKinds, DocumentFacts DEF AttemptsAt

(* The task of an attempt names a notebook.                                 *)
LEMMA TaskNamesNotebook ==
  ASSUME Typed, TaskOK, step \in InAttempt
  PROVE  task \in Notebook
<1>1. /\ task.doc \in Document /\ task.part \in 1 .. PartsIn(task.doc)
      /\ task.attempt \in 1 .. AttemptsIn(task.doc)
  BY BatchAssumption DEF TaskOK, Typed, AttemptsIn
<1>2. task \in AttemptsAt(task.doc)
  BY <1>1 DEF Typed, AttemptsAt
<1>. QED
  BY <1>1, <1>2, NotebookKinds

--------------------------------------------------------------------------------
(* Steps of one kind keep the invariant together.                           *)

LEMMA AskedStays ==
  ASSUME AskedOK, UNCHANGED <<asked, known, tracked>>,
         \A n \in Notebook : Removing(n)' <=> Removing(n)
  PROVE  AskedOK'
<1>1. \A n \in Notebook : Asked(n)' = Asked(n)
  BY DEF Asked
<1>. QED
  BY <1>1 DEF AskedOK

(* Of a report and of the notebooks that exist, nothing changes but that    *)
(* some may go.                                                             *)
LEMMA ReportsStay ==
  ASSUME SkippedIsUntouched, CompletedIsWhole, UNCHANGED report, known' = known,
         exists' \subseteq exists, decks \subseteq decks'
  PROVE  SkippedIsUntouched' /\ CompletedIsWhole'
BY DEF SkippedIsUntouched, CompletedIsWhole

Quiet == UNCHANGED <<task, tracked, known, asked, report, ended, exists, cancelled>>

LEMMA NoCommandFacts ==
  /\ NoCommand \in CommandState
  /\ NoCommand.pc = "none"
BY DEF NoCommand, CommandState

(* An attempt ends, well or not.                                            *)
LEMMA AttemptEnds ==
  ASSUME BatchInv, Quiet, UNCHANGED <<tries, notebook>>,
         step \in Making \cup {"create"}, step' = "finally",
         verdict' \in {"deck", "retry", "stop", "document", "batch", "cancel"},
         command' \in {NoCommand, command}, command'.pc = "none",
         decks \subseteq decks', decks' \subseteq Document \X Nat,
         verdict' = "deck" => <<task.doc, task.part>> \in decks'
  PROVE  BatchInv'
<1>0. command' \in CommandState
  <2>1. command \in CommandState
    BY DEF BatchInv, Typed, BatchTypeOK
  <2>. QED
    BY <2>1, NoCommandFacts
<1>1. Typed'
  BY <1>0 DEF BatchInv, Typed, BatchTypeOK, Quiet
<1>2. TaskOK'
  <2>1. task' = task /\ step \in InAttempt /\ step' = "finally"
    BY DEF Quiet, InAttempt
  <2>. QED
    BY <2>1 DEF BatchInv, TaskOK
<1>3. HandsOK'
  BY DEF BatchInv, HandsOK, Quiet, Making
<1>4. TrackedOK'
  BY DEF BatchInv, TrackedOK, Quiet, Making, Ending
<1>5. FreshOK'
  BY DEF BatchInv, FreshOK, Quiet, InAttempt, Making, Earlier
<1>6. AskedOK'
  <2>1. \A n \in Notebook : ~ Removing(n) /\ ~ Removing(n)'
    BY DEF Removing, Deleting, Making
  <2>. QED
    BY <2>1, AskedStays DEF BatchInv, Quiet
<1>7. DecksOK'
  BY DEF BatchInv, DecksOK, Quiet, InAttempt, Making
<1>8. ReportOK'
  BY DEF BatchInv, ReportOK, Quiet, Ending, Making
<1>9. SkippedIsUntouched' /\ CompletedIsWhole'
  BY ReportsStay DEF BatchInv, Quiet
<1>. QED
  BY <1>1, <1>2, <1>3, <1>4, <1>5, <1>6, <1>7, <1>8, <1>9 DEF BatchInv

(* An attempt goes on, with the next command or with the same again.        *)
LEMMA AttemptGoesOn ==
  ASSUME BatchInv, Quiet, UNCHANGED <<notebook, verdict, decks>>, tries' \in 1 .. 3,
         step \in Making, step' \in Making, command' = NoCommand
  PROVE  BatchInv'
<1>0. step' \notin {"source", "create", "finally", "delete", "over", "export", "cleaning",
                    "cleanup", "done"} /\ step' \in Op
  BY DEF Making, Op
<1>1. Typed'
  BY <1>0, NoCommandFacts DEF BatchInv, Typed, BatchTypeOK, Quiet
<1>2. TaskOK'
  BY <1>0 DEF BatchInv, TaskOK, Quiet, InAttempt
<1>3. HandsOK'
  BY <1>0 DEF BatchInv, HandsOK, Quiet
<1>4. TrackedOK'
  BY <1>0 DEF BatchInv, TrackedOK, Quiet, Making, Ending
<1>5. FreshOK'
  BY <1>0 DEF BatchInv, FreshOK, Quiet, InAttempt, Earlier
<1>6. AskedOK'
  <2>1. \A n \in Notebook : ~ Removing(n) /\ ~ Removing(n)'
    BY DEF Removing, Deleting, Making
  <2>. QED
    BY <2>1, AskedStays DEF BatchInv, Quiet
<1>7. DecksOK'
  BY <1>0 DEF BatchInv, DecksOK, Quiet, InAttempt
<1>8. ReportOK'
  BY <1>0 DEF BatchInv, ReportOK, Quiet, Ending, Making
<1>9. SkippedIsUntouched' /\ CompletedIsWhole'
  BY ReportsStay DEF BatchInv, Quiet
<1>. QED
  BY <1>1, <1>2, <1>3, <1>4, <1>5, <1>6, <1>7, <1>8, <1>9 DEF BatchInv

(* The process of a command that is no deletion starts, acts or is stopped; *)
(* a creation that acts makes the notebook of its task.                     *)
LEMMA CommandChanges ==
  ASSUME BatchInv, UNCHANGED <<place, tracked, known, asked, decks, outcome>>,
         cancelled' \in BOOLEAN,
         command' \in CommandState,
         command'.pc # "none" => step \in Op,
         \A n \in Notebook : Removing(n)' <=> Removing(n),
         \/ exists' \subseteq exists
         \/ step = "create" /\ exists' = exists \cup {task}
  PROVE  BatchInv'
<1>0. UNCHANGED <<task, step, tries, notebook, verdict, report, ended>>
  BY DEF place, outcome
<1>1. exists' \subseteq Notebook
  BY TaskNamesNotebook DEF BatchInv, Typed, BatchTypeOK, InAttempt
<1>2. Typed'
  BY <1>0, <1>1 DEF BatchInv, Typed, BatchTypeOK
<1>3. TaskOK' /\ HandsOK' /\ TrackedOK' /\ DecksOK' /\ ReportOK'
  BY <1>0 DEF BatchInv, TaskOK, HandsOK, TrackedOK, DecksOK, ReportOK
<1>4. FreshOK'
  BY <1>0 DEF BatchInv, FreshOK, Earlier
<1>5. AskedOK'
  BY AskedStays DEF BatchInv
<1>6. CompletedIsWhole'
  BY <1>0 DEF BatchInv, CompletedIsWhole
<1>7. SkippedIsUntouched'
  <2>1. CASE exists' \subseteq exists
    BY <1>0, <2>1 DEF BatchInv, SkippedIsUntouched
  <2>2. CASE step = "create" /\ exists' = exists \cup {task}
    <3>1. task.doc \in Document /\ task.doc \in Nat /\ step \notin Ending
      BY <2>2, DocumentFacts DEF BatchInv, TaskOK, InAttempt, Ending
    <3>2. \A d \in Document : report[d] = "skipped" => d < task.doc
      BY <3>1 DEF BatchInv, ReportOK
    <3>3. \A d \in Document : report[d] = "skipped" => d # task.doc
      BY <3>1, <3>2
    <3>. QED
      BY <1>0, <2>2, <3>3 DEF BatchInv, SkippedIsUntouched
  <2>. QED
    BY <2>1, <2>2
<1>. QED
  BY <1>2, <1>3, <1>4, <1>5, <1>6, <1>7 DEF BatchInv
--------------------------------------------------------------------------------
(* The commands.                                                            *)

LEMMA TypedFacts ==
  ASSUME BatchInv
  PROVE  /\ command \in CommandState
         /\ cancelled \in BOOLEAN /\ tries \in 1 .. 3 /\ decks \subseteq Document \X Nat
         /\ tracked \subseteq known /\ known \subseteq Notebook /\ exists \subseteq Notebook
         /\ asked \in [Notebook -> Nat]
         /\ report \in [Document -> {"waiting", "completed", "failed", "skipped"}]
         /\ command.pc # "none" => step \in Op
         /\ task \in [doc : Nat \ {0}, part : Nat \ {0}, attempt : 1 .. MaxAttempts]
BY DEF BatchInv, Typed, BatchTypeOK, TaskOK

LEMMA NotDeleting == step \in Op /\ ~ Deleting <=> step \in Making \cup {"create"}
BY DEF Op, Deleting, Making

LEMMA EndKeeps ==
  ASSUME BatchInv, UNCHANGED <<books, world>>, step \in Making \cup {"create"},
         command' \in {NoCommand, command}, command'.pc = "none",
         NEW how \in {"retry", "stop", "document", "batch", "cancel"}, EndAttempt(how)
  PROVE  BatchInv'
<1>1. Quiet /\ UNCHANGED <<tries, notebook, decks>>
  BY DEF EndAttempt, books, world, outcome, Quiet
<1>2. step' = "finally" /\ verdict' = how
  BY DEF EndAttempt
<1>3. decks \subseteq decks' /\ decks' \subseteq Document \X Nat
  BY <1>1, TypedFacts
<1>4. /\ verdict' \in {"deck", "retry", "stop", "document", "batch", "cancel"}
      /\ verdict' # "deck"
  BY <1>2
<1>. QED
  BY <1>1, <1>2, <1>3, <1>4, AttemptEnds

LEMMA FailuresKeep ==
  ASSUME BatchInv,
         Refuse \/ Drop \/ CreateFails \/ AddFails \/ WaitFails \/ GenerateFails \/ DownloadFails
  PROVE  BatchInv'
<1>1. CASE Refuse
  <2>1. step \in Making \cup {"create"}
    BY <1>1, NotDeleting DEF Refuse, Refused
  <2>2. EndAttempt("cancel") /\ UNCHANGED <<books, world>> /\ command' = command
        /\ command'.pc = "none"
    BY <1>1 DEF Refuse
  <2>. QED
    BY <2>1, <2>2, EndKeeps
<1>2. ASSUME command.pc = "running", step \in Making \cup {"create"}, Answered, UNCHANGED books,
             NEW how \in {"retry", "stop", "document", "batch", "cancel"}, EndAttempt(how)
      PROVE  BatchInv'
  <2>1. command' = NoCommand /\ command'.pc = "none" /\ UNCHANGED world
    BY <1>2, NoCommandFacts DEF Answered
  <2>. QED
    BY <1>2, <2>1, EndKeeps
<1>3. CASE Drop
  <2>1. step \in Making \cup {"create"} /\ command.pc = "running"
    BY <1>3, NotDeleting, TypedFacts DEF Drop, Dropped, Answered
  <2>. QED
    BY <1>2, <1>3, <2>1 DEF Drop
<1>4. CASE CreateFails
  BY <1>2, <1>4 DEF CreateFails, Answered
<1>5. CASE AddFails
  BY <1>2, <1>5 DEF AddFails, Answered, Making
<1>6. CASE WaitFails
  BY <1>2, <1>6 DEF WaitFails, Answered, Making
<1>7. CASE GenerateFails
  BY <1>2, <1>7 DEF GenerateFails, Answered, Making
<1>8. CASE DownloadFails
  BY <1>2, <1>8 DEF DownloadFails, Answered, Making
<1>. QED
  BY <1>1, <1>3, <1>4, <1>5, <1>6, <1>7, <1>8

LEMMA DownloadOkKeeps ==
  ASSUME BatchInv, DownloadOk
  PROVE  BatchInv'
<1>1. step = "download" /\ step \in Making \cup {"create"} /\ step \in InAttempt
  BY DEF DownloadOk, Making, InAttempt
<1>2. command' = NoCommand /\ command'.pc = "none" /\ UNCHANGED world
  BY NoCommandFacts DEF DownloadOk, Answered
<1>3. PICK how \in {"deck", "stop"} :
        /\ EndAttempt(how)
        /\ decks' = IF how = "deck" THEN decks \cup {<<task.doc, task.part>>} ELSE decks
  BY DEF DownloadOk
<1>4. Quiet /\ UNCHANGED <<tries, notebook>> /\ step' = "finally" /\ verdict' = how
  BY <1>2, <1>3 DEF DownloadOk, EndAttempt, world, outcome, Quiet
<1>5. task.doc \in Document /\ task.part \in Nat
  BY <1>1, TypedFacts DEF BatchInv, TaskOK
<1>6. decks \subseteq decks' /\ decks' \subseteq Document \X Nat
  BY <1>3, <1>5, TypedFacts
<1>7. verdict' = "deck" => <<task.doc, task.part>> \in decks'
  BY <1>3, <1>4
<1>8. verdict' \in {"deck", "retry", "stop", "document", "batch", "cancel"}
  BY <1>4
<1>. QED
  BY <1>1, <1>2, <1>4, <1>6, <1>7, <1>8, AttemptEnds

LEMMA OnwardKeeps ==
  ASSUME BatchInv, WorkOk \/ TryAgain
  PROVE  BatchInv'
<1>1. CASE WorkOk
  <2>1. step \in Making /\ Following[step] \in Making
    BY <1>1 DEF WorkOk, Following, Making
  <2>2. /\ Quiet /\ UNCHANGED <<notebook, verdict, decks>> /\ tries' \in 1 .. 3
        /\ step' = Following[step] /\ command' = NoCommand
    BY <1>1 DEF WorkOk, Answered, Go, books, outcome, world, Quiet
  <2>. QED
    BY <2>1, <2>2, AttemptGoesOn
<1>2. CASE TryAgain
  <2>1. step \in Making /\ tries + 1 \in 1 .. 3
    BY <1>2, TypedFacts DEF TryAgain, Tries, Making
  <2>2. /\ Quiet /\ UNCHANGED <<notebook, verdict, decks>> /\ tries' = tries + 1
        /\ step' = step /\ command' = NoCommand
    BY <1>2 DEF TryAgain, Answered, NextTry, books, outcome, world, Quiet
  <2>. QED
    BY <2>1, <2>2, AttemptGoesOn
<1>. QED
  BY <1>1, <1>2

(* A command passes its check, or its stopper is registered or called.      *)
LEMMA StepsOfCommand ==
  ASSUME BatchInv, Check \/ Register \/ CallStopper
  PROVE  BatchInv'
<1>1. /\ UNCHANGED <<place, tracked, known, asked, decks, outcome, exists>>
      /\ UNCHANGED cancelled
  BY DEF Check, Register, CallStopper, books, world
<1>2. command' \in CommandState /\ (command'.pc # "none" => step \in Op)
  BY TypedFacts DEF Check, Register, CallStopper, CommandState
<1>3. command'.pc \in {"spawned", "running"} <=> command.pc \in {"spawned", "running"}
  BY TypedFacts DEF Check, Register, CallStopper, CommandState
<1>4. \A n \in Notebook : Removing(n)' <=> Removing(n)
  BY <1>1, <1>3 DEF Removing, Deleting, place
<1>. QED
  BY <1>1, <1>2, <1>4, CommandChanges, TypedFacts

(* A deletion starts: it is the first one of its notebook.                  *)
LEMMA StartKeeps ==
  ASSUME BatchInv, Start
  PROVE  BatchInv'
<1>1. /\ step \in Op /\ command.pc = "checked"
      /\ command' = [command EXCEPT !.pc = "spawned"]
      /\ UNCHANGED <<task, step, tries, notebook, verdict, tracked, known, decks, report,
                     ended, cancelled, exists>>
  BY TypedFacts DEF Start, place, outcome, world
<1>2. /\ command' \in CommandState
      /\ command'.pc = "spawned"
  BY <1>1, TypedFacts DEF CommandState
<1>3. CASE ~ Deleting
  <2>1. asked' = asked /\ \A n \in Notebook : Removing(n)' <=> Removing(n)
    BY <1>1, <1>3 DEF Start, Removing, Deleting
  <2>2. UNCHANGED <<place, tracked, known, asked, decks, outcome>> /\ cancelled' \in BOOLEAN
        /\ exists' \subseteq exists
    BY <1>1, <2>1, TypedFacts DEF place, outcome
  <2>. QED
    BY <1>1, <1>2, <2>1, <2>2, CommandChanges
<1>4. CASE Deleting
  <2>1. notebook \in tracked /\ notebook \in known /\ notebook \in Notebook
    <3>1. notebook \in tracked
      BY <1>4 DEF Deleting, BatchInv, HandsOK
    <3>. QED
      BY <3>1, TypedFacts
  <2>2. asked' = [asked EXCEPT ![notebook] = @ + 1] /\ Deleting'
    BY <1>1, <1>4 DEF Start, Deleting
  <2>3. asked[notebook] = 0
    BY <1>1, <2>1 DEF BatchInv, AskedOK, Asked, Removing
  <2>4. asked' \in [Notebook -> Nat] /\ asked'[notebook] = 1
        /\ \A n \in Notebook \ {notebook} : asked'[n] = asked[n]
    BY <2>1, <2>2, <2>3, TypedFacts
  <2>5. AskedOK'
    <3>1. Asked(notebook)' = 1
      BY <1>1, <1>2, <2>1, <2>2 DEF Asked, Removing
    <3>2. \A n \in Notebook \ {notebook} : Asked(n)' = Asked(n)
      BY <1>1 DEF Asked, Removing
    <3>3. \A n \in Notebook \ {notebook} : asked[n] = Asked(n)
      BY DEF BatchInv, AskedOK
    <3>. QED
      BY <1>1, <2>1, <2>4, <3>1, <3>2, <3>3 DEF AskedOK
  <2>6. Typed'
    BY <1>1, <1>2, <2>4 DEF BatchInv, Typed, BatchTypeOK
  <2>7. TaskOK' /\ HandsOK' /\ TrackedOK' /\ DecksOK' /\ ReportOK'
    BY <1>1 DEF BatchInv, TaskOK, HandsOK, TrackedOK, DecksOK, ReportOK
  <2>8. FreshOK' /\ SkippedIsUntouched' /\ CompletedIsWhole'
    BY <1>1 DEF BatchInv, FreshOK, Earlier, SkippedIsUntouched, CompletedIsWhole
  <2>. QED
    BY <2>5, <2>6, <2>7, <2>8 DEF BatchInv
<1>. QED
  BY <1>3, <1>4

LEMMA ActsKeeps ==
  ASSUME BatchInv, Acts
  PROVE  BatchInv'
<1>1. /\ command' = [command EXCEPT !.did = TRUE]
      /\ UNCHANGED <<place, tracked, known, asked, decks, outcome, cancelled>>
  BY DEF Acts, books
<1>2. /\ command' \in CommandState
      /\ command'.pc = command.pc
  BY <1>1, TypedFacts DEF CommandState
<1>3. command'.pc # "none" => step \in Op
  BY <1>2, TypedFacts
<1>4. \A n \in Notebook : Removing(n)' <=> Removing(n)
  BY <1>1, <1>2 DEF Removing, Deleting, place
<1>5. exists' \subseteq exists \/ (step = "create" /\ exists' = exists \cup {task})
  BY DEF Acts
<1>6. cancelled' \in BOOLEAN
  BY <1>1, TypedFacts
<1>. QED
  BY <1>1, <1>2, <1>3, <1>4, <1>5, <1>6, CommandChanges

LEMMA CancelKeeps ==
  ASSUME BatchInv, Cancel
  PROVE  BatchInv'
<1>1. /\ command' = [command EXCEPT !.doomed = command.pc = "running"] /\ cancelled' = TRUE
      /\ UNCHANGED <<place, tracked, known, asked, decks, outcome, exists>>
  BY DEF Cancel, books
<1>2. /\ command' \in CommandState
      /\ command'.pc = command.pc
  BY <1>1, TypedFacts DEF CommandState
<1>3. command'.pc # "none" => step \in Op
  BY <1>2, TypedFacts
<1>4. \A n \in Notebook : Removing(n)' <=> Removing(n)
  BY <1>1, <1>2 DEF Removing, Deleting, place
<1>. QED
  BY <1>1, <1>2, <1>3, <1>4, CommandChanges

(* The identifier of a new notebook arrives.                                *)
LEMMA CreateOkKeeps ==
  ASSUME BatchInv, CreateOk
  PROVE  BatchInv'
<1>1. /\ step = "create" /\ step' = "add" /\ notebook' = task /\ command' = NoCommand
      /\ tracked' = tracked \cup {task} /\ known' = known \cup {task}
      /\ UNCHANGED <<task, tries, verdict, asked, decks, report, ended, cancelled, exists>>
  BY DEF CreateOk, Answered, outcome, world
<1>2. task \in Notebook /\ task \notin known /\ task.doc \in Document /\ task.doc \in Nat
  BY <1>1, TaskNamesNotebook, DocumentFacts DEF BatchInv, FreshOK, InAttempt, TaskOK
<1>3. command' \in CommandState /\ command'.pc = "none"
  BY <1>1, NoCommandFacts
<1>4. Typed'
  BY <1>1, <1>2, <1>3 DEF BatchInv, Typed, BatchTypeOK, Op
<1>5. TaskOK'
  BY <1>1, <1>3 DEF BatchInv, TaskOK, InAttempt, Making
<1>6. HandsOK'
  BY <1>1 DEF HandsOK, Making
<1>7. TrackedOK'
  BY <1>1 DEF BatchInv, TrackedOK, Making, Ending
<1>8. FreshOK'
  BY <1>1 DEF BatchInv, FreshOK, InAttempt, Making, Earlier
<1>9. AskedOK'
  <2>1. \A n \in Notebook : asked[n] = Asked(n)
    BY DEF BatchInv, AskedOK
  <2>2. Asked(task) = 0 /\ Asked(task)' = 0
    BY <1>1, <1>2, <1>3 DEF Asked, Removing
  <2>3. \A n \in Notebook \ {task} : Asked(n)' = Asked(n)
    BY <1>1, <1>3 DEF Asked, Removing, Deleting
  <2>. QED
    BY <1>1, <1>2, <2>1, <2>2, <2>3 DEF AskedOK
<1>10. DecksOK'
  BY <1>1 DEF BatchInv, DecksOK, InAttempt, Making
<1>11. ReportOK' /\ CompletedIsWhole'
  BY <1>1 DEF BatchInv, ReportOK, CompletedIsWhole, Ending
<1>12. SkippedIsUntouched'
  <2>1. \A d \in Document : report[d] = "skipped" => d < task.doc
    BY <1>1 DEF BatchInv, ReportOK, Ending
  <2>2. \A d \in Document : report[d] = "skipped" => d # task.doc
    BY <1>2, <2>1
  <2>. QED
    BY <1>1, <2>2 DEF BatchInv, SkippedIsUntouched
<1>. QED
  BY <1>4, <1>5, <1>6, <1>7, <1>8, <1>9, <1>10, <1>11, <1>12 DEF BatchInv

LEMMA DeletedKeeps ==
  ASSUME BatchInv, Deleted
  PROVE  BatchInv'
<1>1. /\ step \in {"delete", "cleanup"} /\ command' = NoCommand /\ command.pc = "running"
      /\ tracked' = tracked \ {notebook}
      /\ step' = IF step = "delete" THEN "over" ELSE "cleaning"
      /\ UNCHANGED <<task, tries, notebook, verdict, known, asked, decks, report, ended,
                     cancelled, exists>>
  BY DEF Deleted, Deleting, Answered, Untracked, outcome, world
<1>2. notebook \in tracked /\ notebook \in known /\ notebook \in Notebook
  <2>1. notebook \in tracked
    BY <1>1 DEF BatchInv, HandsOK
  <2>. QED
    BY <2>1, TypedFacts
<1>3. command' \in CommandState /\ command'.pc = "none"
  BY <1>1, NoCommandFacts
<1>4. Typed'
  BY <1>1, <1>3 DEF BatchInv, Typed, BatchTypeOK, Op
<1>5. TaskOK'
  BY <1>1, <1>3 DEF BatchInv, TaskOK, InAttempt, Making
<1>6. HandsOK'
  BY <1>1 DEF HandsOK, Making
<1>7. TrackedOK'
  BY <1>1 DEF BatchInv, TrackedOK, Making, Ending
<1>8. FreshOK'
  BY <1>1 DEF BatchInv, FreshOK, InAttempt, Making, Earlier
<1>9. AskedOK'
  <2>1. \A n \in Notebook : asked[n] = Asked(n)
    BY DEF BatchInv, AskedOK
  <2>2. Asked(notebook) = 1
    BY <1>1, <1>2 DEF Asked, Removing, Deleting
  <2>3. notebook \in known' /\ notebook \notin tracked'
    BY <1>1, <1>2
  <2>4. \A n \in Notebook : n = notebook => Asked(n)' = 1
    BY <1>1, <2>3 DEF Asked, Removing
  <2>5. \A n \in Notebook \ {notebook} : Asked(n)' = Asked(n)
    BY <1>1, <1>3 DEF Asked, Removing
  <2>. QED
    BY <1>1, <2>1, <2>2, <2>4, <2>5 DEF AskedOK
<1>10. DecksOK'
  BY <1>1 DEF BatchInv, DecksOK, InAttempt, Making
<1>11. ReportOK' /\ CompletedIsWhole' /\ SkippedIsUntouched'
  BY <1>1 DEF BatchInv, ReportOK, CompletedIsWhole, SkippedIsUntouched, Ending
<1>. QED
  BY <1>4, <1>5, <1>6, <1>7, <1>8, <1>9, <1>10, <1>11 DEF BatchInv
--------------------------------------------------------------------------------
(* Between the commands.                                                    *)

LEMMA BetweenFacts ==
  ASSUME BatchInv, NEW s \in {"source", "finally", "over", "export", "cleaning"}, Between(s)
  PROVE  /\ step = s /\ command.pc = "none"
         /\ UNCHANGED <<command, cancelled, exists>>
         /\ \A n \in Notebook : ~ Removing(n)
BY TypedFacts DEF Between, world, Removing, Op

(* execute ends.                                                            *)
LEMMA EndBatchKeeps ==
  ASSUME BatchInv, NEW s \in {"source", "over", "export"}, Between(s), UNCHANGED books,
         NEW how \in {"returned", "cancelled", "failed"}, EndBatch(how)
  PROVE  BatchInv'
<1>1. /\ step = s /\ command.pc = "none" /\ step' = "cleaning" /\ ended' = how
      /\ UNCHANGED <<task, tries, notebook, verdict, report, command, cancelled, exists,
                     tracked, known, asked, decks>>
  BY BetweenFacts DEF EndBatch, books
<1>2. Typed' /\ TaskOK' /\ HandsOK'
  BY <1>1 DEF BatchInv, Typed, BatchTypeOK, TaskOK, HandsOK, InAttempt, Making
<1>3. TrackedOK' /\ FreshOK' /\ DecksOK' /\ ReportOK'
  BY <1>1 DEF TrackedOK, FreshOK, DecksOK, ReportOK, InAttempt, Making, Ending
<1>4. AskedOK'
  <2>1. \A n \in Notebook : Removing(n)' <=> Removing(n)
    BY <1>1 DEF Removing
  <2>. QED
    BY <1>1, <2>1, AskedStays DEF BatchInv
<1>5. SkippedIsUntouched' /\ CompletedIsWhole'
  BY <1>1, ReportsStay DEF BatchInv
<1>. QED
  BY <1>2, <1>3, <1>4, <1>5 DEF BatchInv

(* What was made so far was not made for a later document.                  *)
LEMMA MadeByNow ==
  ASSUME BatchInv, step \in InAttempt \cup {"source"}, NEW n \in known \cup exists
  PROVE  n.doc \in Nat /\ task.doc \in Nat /\ n.doc <= task.doc
         /\ (step = "source" => n.doc < task.doc)
<1>1. n.doc \in Nat /\ task.doc \in Nat
  BY TypedFacts, NotebookFacts, DocumentFacts
<1>2. CASE step = "source"
  BY <1>1, <1>2 DEF BatchInv, FreshOK
<1>3. CASE step \in InAttempt
  <2>1. n = task \/ Earlier(n, task)
    BY <1>3 DEF BatchInv, FreshOK
  <2>2. step # "source"
    BY <1>3 DEF InAttempt, Making
  <2>. QED
    BY <1>1, <2>1, <2>2 DEF Earlier
<1>. QED
  BY <1>2, <1>3

(* A document is reported, and the next one follows.                        *)
LEMMA PublishKeeps ==
  ASSUME BatchInv, NEW s \in {"source", "over", "export"}, Between(s), UNCHANGED books,
         task.doc \in Document,
         NEW state \in {"completed", "failed", "skipped"}, Publish(state),
         state = "skipped" => s = "source",
         state = "completed" => s = "export"
  PROVE  BatchInv'
<1>1. /\ step = s /\ command.pc = "none" /\ step' = "source"
      /\ task' = FirstTask(task.doc + 1) /\ report' = [report EXCEPT ![task.doc] = state]
      /\ UNCHANGED <<tries, notebook, verdict, ended, command, cancelled, exists,
                     tracked, known, asked, decks>>
  BY BetweenFacts DEF Publish, books
<1>2. /\ task.doc \in 1 .. Len(ChunksOf) /\ task.doc \in Nat \ {0}
      /\ Len(ChunksOf) \in Nat /\ 1 \in 1 .. MaxAttempts
  BY DocumentFacts, BatchAssumption DEF Document
<1>3. /\ task'.doc = task.doc + 1 /\ task'.attempt = 1
      /\ task' \in [doc : Nat \ {0}, part : Nat \ {0}, attempt : 1 .. MaxAttempts]
      /\ task'.doc \in 1 .. Len(ChunksOf) + 1
  BY <1>1, <1>2 DEF FirstTask
<1>4. /\ report' \in [Document -> {"waiting", "completed", "failed", "skipped"}]
      /\ report'[task.doc] = state
      /\ \A d \in Document \ {task.doc} : report'[d] = report[d]
  BY <1>1, TypedFacts
<1>5. Typed'
  BY <1>1, <1>2, <1>3, <1>4 DEF BatchInv, Typed, BatchTypeOK
<1>6. TaskOK' /\ HandsOK'
  BY <1>1, <1>3 DEF BatchInv, TaskOK, HandsOK, InAttempt, Making
<1>7. \A n \in known \cup exists : n.doc \in Nat /\ n.doc < task.doc + 1
  <2>1. step \in InAttempt \cup {"source"}
    BY <1>1 DEF InAttempt
  <2>2. \A n \in known \cup exists : n.doc \in Nat /\ n.doc <= task.doc
    BY <2>1, MadeByNow
  <2>. QED
    BY <1>2, <2>2
<1>8. FreshOK'
  BY <1>1, <1>3, <1>7 DEF FreshOK, InAttempt, Making
<1>9. TrackedOK'
  <2>1. \A n \in tracked : n.doc # task.doc + 1
    BY <1>2, <1>7, TypedFacts
  <2>. QED
    BY <1>1, <1>3, <2>1 DEF TrackedOK
<1>10. AskedOK'
  <2>1. \A n \in Notebook : Removing(n)' <=> Removing(n)
    BY <1>1 DEF Removing
  <2>. QED
    BY <1>1, <2>1, AskedStays DEF BatchInv
<1>11. DecksOK'
  BY <1>1 DEF DecksOK, InAttempt, Making
<1>12. ReportOK'
  <2>1. \A d \in Document : report[d] # "waiting" => d < task.doc
    BY <1>1 DEF BatchInv, ReportOK, Ending
  <2>2. \A d \in Document : report'[d] # "waiting" => d < task.doc \/ d = task.doc
    BY <1>4, <2>1
  <2>3. \A d \in Document : report'[d] # "waiting" => d < task.doc + 1
    BY <1>2, <2>2, DocumentFacts
  <2>. QED
    BY <1>3, <2>3 DEF ReportOK
<1>13. SkippedIsUntouched'
  <2>1. ASSUME state = "skipped", NEW n \in exists \cup known
        PROVE  n.doc # task.doc
    <3>1. n.doc \in Nat /\ task.doc \in Nat /\ n.doc < task.doc
      BY <1>1, <2>1, MadeByNow
    <3>. QED
      BY <3>1
  <2>2. \A d \in Document : report'[d] = "skipped" =>
          (d = task.doc /\ state = "skipped") \/ (d # task.doc /\ report[d] = "skipped")
    BY <1>4
  <2>. QED
    BY <1>1, <2>1, <2>2 DEF BatchInv, SkippedIsUntouched
<1>14. CompletedIsWhole'
  <2>1. state = "completed" => \A q \in 1 .. PartsIn(task.doc) : <<task.doc, q>> \in decks
    BY <1>1 DEF BatchInv, DecksOK
  <2>2. \A d \in Document : report'[d] = "completed" =>
          (d = task.doc /\ state = "completed") \/ (d # task.doc /\ report[d] = "completed")
    BY <1>4
  <2>. QED
    BY <1>1, <2>1, <2>2 DEF BatchInv, CompletedIsWhole
<1>. QED
  BY <1>5, <1>6, <1>8, <1>9, <1>10, <1>11, <1>12, <1>13, <1>14 DEF BatchInv

(* The next attempt begins, and what was made before is of earlier ones.    *)
LEMMA AttemptKeeps ==
  ASSUME BatchInv, NEW s \in {"source", "over"}, Between(s), UNCHANGED books,
         NEW t \in [doc : Nat \ {0}, part : Nat \ {0}, attempt : 1 .. MaxAttempts], Attempt(t),
         t.doc = task.doc, t.doc \in Document, t.part \in 1 .. PartsIn(t.doc),
         ~ IsSplit(t.doc) => t.attempt = 1,
         \A n \in known \cup exists : Earlier(n, t) /\ n # t,
         \A q \in 1 .. PartsIn(t.doc) : q < t.part => <<t.doc, q>> \in decks
  PROVE  BatchInv'
<1>1. /\ step = s /\ command.pc = "none" /\ step' = "create" /\ task' = t
      /\ notebook' = NoNotebook /\ verdict' = "none" /\ tries' = 1
      /\ UNCHANGED <<report, ended, command, cancelled, exists, tracked, known, asked, decks>>
  BY BetweenFacts DEF Attempt, books, outcome
<1>2. t.doc \in 1 .. Len(ChunksOf) + 1
  BY DocumentFacts DEF Document
<1>3. Typed'
  BY <1>1, <1>2 DEF BatchInv, Typed, BatchTypeOK, Op
<1>4. TaskOK' /\ HandsOK'
  BY <1>1 DEF BatchInv, TaskOK, HandsOK, InAttempt, Making
<1>5. TrackedOK'
  <2>1. \A n \in tracked : IsSplit(t.doc) => n.doc # t.doc
    <3>1. CASE s = "source"
      <4>1. \A n \in tracked : n.doc \in Nat /\ task.doc \in Nat /\ n.doc < task.doc
        BY <1>1, <3>1, MadeByNow, TypedFacts
      <4>. QED
        BY <4>1
    <3>2. CASE s = "over"
      BY <1>1, <3>2 DEF BatchInv, TrackedOK, Making, Ending
    <3>. QED
      BY <3>1, <3>2
  <2>. QED
    BY <1>1, <2>1 DEF TrackedOK
<1>6. FreshOK'
  BY <1>1 DEF FreshOK, InAttempt, Earlier
<1>7. AskedOK'
  <2>1. \A n \in Notebook : Removing(n)' <=> Removing(n)
    BY <1>1 DEF Removing
  <2>. QED
    BY <1>1, <2>1, AskedStays DEF BatchInv
<1>8. DecksOK'
  BY <1>1 DEF DecksOK, InAttempt
<1>9. ReportOK'
  BY <1>1 DEF BatchInv, ReportOK, Ending
<1>10. SkippedIsUntouched' /\ CompletedIsWhole'
  BY <1>1, ReportsStay DEF BatchInv
<1>. QED
  BY <1>3, <1>4, <1>5, <1>6, <1>7, <1>8, <1>9, <1>10 DEF BatchInv

LEMMA NextSourceKeeps ==
  ASSUME BatchInv, NextSource
  PROVE  BatchInv'
<1>1. Between("source") /\ UNCHANGED books /\ step = "source"
  BY BetweenFacts DEF NextSource
<1>2. CASE EndBatch("returned") \/ EndBatch("cancelled")
  BY <1>1, <1>2, EndBatchKeeps
<1>3. CASE task.doc \in Document /\ (Publish("skipped") \/ Publish("failed"))
  BY <1>1, <1>3, PublishKeeps
<1>4. CASE task.doc \in Document /\ Attempt(task)
  <2>1. task = FirstTask(task.doc)
    BY <1>1 DEF BatchInv, TaskOK
  <2>2. task.part = 1 /\ task.attempt = 1
    BY <2>1 DEF FirstTask
  <2>3. task.part \in 1 .. PartsIn(task.doc)
        /\ \A q \in 1 .. PartsIn(task.doc) : ~ q < task.part
    <3>1. PartsIn(task.doc) \in Nat \ {0}
      BY <1>4, DocumentFacts
    <3>. QED
      BY <2>2, <3>1
  <2>4. \A n \in known \cup exists : n.doc \in Nat /\ task.doc \in Nat /\ n.doc < task.doc
    BY <1>1, MadeByNow
  <2>5. \A n \in known \cup exists : Earlier(n, task) /\ n # task
    BY <2>4 DEF Earlier
  <2>. QED
    BY <1>1, <1>4, <2>2, <2>3, <2>5, AttemptKeeps, TypedFacts
<1>. QED
  BY <1>2, <1>3, <1>4 DEF NextSource

(* The notebook of a chunk is deleted in any case.                          *)
LEMMA FinallyKeeps ==
  ASSUME BatchInv, Finally
  PROVE  BatchInv'
<1>1. /\ step = "finally" /\ command.pc = "none" /\ tries' = 1
      /\ step' = IF DeletesNow THEN "delete" ELSE "over"
      /\ UNCHANGED <<task, notebook, verdict, report, ended, command, cancelled, exists,
                     tracked, known, asked, decks>>
  BY BetweenFacts DEF Finally, Go, outcome, books
<1>2. task \in Notebook /\ task # NoNotebook
  BY <1>1, TaskNamesNotebook, NotebookAssumption DEF BatchInv, InAttempt
<1>3. notebook # NoNotebook => notebook = task /\ task \in tracked
  BY <1>1 DEF BatchInv, HandsOK
<1>4. Typed' /\ TaskOK'
  BY <1>1 DEF BatchInv, Typed, BatchTypeOK, TaskOK, InAttempt, Op
<1>5. HandsOK'
  BY <1>1, <1>3 DEF HandsOK, DeletesNow, Making
<1>6. TrackedOK'
  <2>1. CASE DeletesNow
    BY <1>1, <2>1 DEF BatchInv, TrackedOK, Making, Ending
  <2>2. CASE ~ DeletesNow
    <3>1. IsSplit(task.doc) => notebook = NoNotebook
      BY <2>2 DEF DeletesNow
    <3>2. \A n \in tracked : n.doc = task.doc /\ IsSplit(task.doc) => notebook = task
      BY <1>1 DEF BatchInv, TrackedOK, Ending
    <3>. QED
      BY <1>1, <1>2, <3>1, <3>2 DEF TrackedOK
  <2>. QED
    BY <2>1, <2>2
<1>7. FreshOK'
  BY <1>1 DEF BatchInv, FreshOK, InAttempt, Earlier
<1>8. AskedOK'
  <2>1. \A n \in Notebook : Removing(n)' <=> Removing(n)
    BY <1>1 DEF Removing
  <2>. QED
    BY <1>1, <2>1, AskedStays DEF BatchInv
<1>9. DecksOK'
  BY <1>1 DEF BatchInv, DecksOK, InAttempt
<1>10. ReportOK'
  BY <1>1 DEF BatchInv, ReportOK, Ending
<1>11. SkippedIsUntouched' /\ CompletedIsWhole'
  BY <1>1, ReportsStay DEF BatchInv
<1>. QED
  BY <1>4, <1>5, <1>6, <1>7, <1>8, <1>9, <1>10, <1>11 DEF BatchInv

(* The deck can be exported when the last part has its cards.               *)
LEMMA ToExportKeeps ==
  ASSUME BatchInv, Between("over"), UNCHANGED books, verdict = "deck",
         ~ task.part < ChunksOf[task.doc], Go("export")
  PROVE  BatchInv'
<1>1. /\ step = "over" /\ command.pc = "none" /\ tries' = 1 /\ step' = "export"
      /\ UNCHANGED <<task, notebook, verdict, report, ended, command, cancelled, exists,
                     tracked, known, asked, decks>>
  BY BetweenFacts DEF Go, outcome, books
<1>2. Typed' /\ TaskOK' /\ HandsOK'
  BY <1>1 DEF BatchInv, Typed, BatchTypeOK, TaskOK, HandsOK, InAttempt, Making
<1>3. TrackedOK'
  BY <1>1 DEF BatchInv, TrackedOK, Making, Ending
<1>4. FreshOK'
  BY <1>1 DEF BatchInv, FreshOK, InAttempt, Earlier
<1>5. AskedOK'
  <2>1. \A n \in Notebook : Removing(n)' <=> Removing(n)
    BY <1>1 DEF Removing
  <2>. QED
    BY <1>1, <2>1, AskedStays DEF BatchInv
<1>6. task.doc \in Document /\ task.part \in 1 .. PartsIn(task.doc)
  BY <1>1 DEF BatchInv, TaskOK, InAttempt
<1>7. PartsIn(task.doc) \in Nat /\ task.part = PartsIn(task.doc)
  <2>1. PartsIn(task.doc) \in Nat /\ ChunksOf[task.doc] \in Nat
    BY <1>6, DocumentFacts
  <2>2. CASE IsSplit(task.doc)
    <3>1. PartsIn(task.doc) = ChunksOf[task.doc]
      BY <1>6, <2>2, DocumentFacts
    <3>. QED
      BY <1>6, <2>1, <3>1
  <2>3. CASE ~ IsSplit(task.doc)
    <3>1. PartsIn(task.doc) = 1
      BY <1>6, <2>3, DocumentFacts
    <3>. QED
      BY <1>6, <2>1, <3>1
  <2>. QED
    BY <2>2, <2>3
<1>8. \A q \in 1 .. PartsIn(task.doc) : q < task.part \/ q = task.part
  BY <1>6, <1>7
<1>9. \A q \in 1 .. PartsIn(task.doc) : <<task.doc, q>> \in decks
  BY <1>1, <1>8 DEF BatchInv, DecksOK, InAttempt
<1>10. DecksOK'
  BY <1>1, <1>9 DEF DecksOK, InAttempt, Making
<1>11. ReportOK'
  BY <1>1 DEF BatchInv, ReportOK, Ending
<1>12. SkippedIsUntouched' /\ CompletedIsWhole'
  BY <1>1, ReportsStay DEF BatchInv
<1>. QED
  BY <1>2, <1>3, <1>4, <1>5, <1>10, <1>11, <1>12 DEF BatchInv

LEMMA AttemptOverKeeps ==
  ASSUME BatchInv, AttemptOver
  PROVE  BatchInv'
<1>1. Between("over") /\ UNCHANGED books /\ step = "over" /\ step \in InAttempt
  BY BetweenFacts DEF AttemptOver, InAttempt
<1>2. task.doc \in Document /\ task.part \in 1 .. PartsIn(task.doc)
      /\ task.attempt \in 1 .. MaxAttempts /\ task.doc \in Nat
      /\ (~ IsSplit(task.doc) => task.attempt = 1)
      /\ PartsIn(task.doc) \in Nat
  BY <1>1, TypedFacts, DocumentFacts DEF BatchInv, TaskOK
<1>3. \A n \in known \cup exists : n = task \/ Earlier(n, task)
  BY <1>1 DEF BatchInv, FreshOK
<1>4. \A n \in known \cup exists :
        n.doc \in Nat /\ n.part \in Nat /\ n.attempt \in Nat
  BY TypedFacts, NotebookFacts, DocumentFacts
<1>5. CASE EndBatch("cancelled") \/ EndBatch("failed")
  BY <1>1, <1>5, EndBatchKeeps
<1>6. CASE GiveUp
  BY <1>1, <1>2, <1>6, PublishKeeps DEF GiveUp
<1>7. CASE verdict = "deck" /\ ~ task.part < ChunksOf[task.doc] /\ Go("export")
  BY <1>1, <1>7, ToExportKeeps
<1>8. CASE verdict = "deck" /\ task.part < ChunksOf[task.doc] /\ Attempt(NextPart)
  <2>. DEFINE t == NextPart
  <2>1. IsSplit(task.doc) /\ PartsIn(task.doc) = ChunksOf[task.doc]
    <3>1. ChunksOf[task.doc] \in Nat /\ task.part \in Nat \ {0}
      BY <1>2, DocumentFacts
    <3>2. IsSplit(task.doc)
      BY <1>8, <3>1 DEF IsSplit
    <3>. QED
      BY <1>2, <3>2, DocumentFacts
  <2>2. /\ t \in [doc : Nat \ {0}, part : Nat \ {0}, attempt : 1 .. MaxAttempts]
        /\ t.doc = task.doc /\ t.part = task.part + 1 /\ t.attempt = 1
    <3>1. 1 \in 1 .. MaxAttempts /\ task.part + 1 \in Nat \ {0}
      BY <1>2, BatchAssumption, TypedFacts
    <3>2. task \in [doc : Nat \ {0}, part : Nat \ {0}, attempt : 1 .. MaxAttempts]
      BY TypedFacts
    <3>. QED
      BY <3>1, <3>2 DEF NextPart
  <2>. HIDE DEF t
  <2>3. t.part \in 1 .. PartsIn(t.doc)
    BY <1>2, <1>8, <2>1, <2>2
  <2>4. \A n \in known \cup exists : Earlier(n, t)
    BY <1>2, <1>3, <1>4, <2>2 DEF Earlier
  <2>5. \A n \in known \cup exists : n # t
    BY <1>2, <1>3, <1>4, <2>2 DEF Earlier
  <2>6. \A q \in 1 .. PartsIn(task.doc) : q < task.part + 1 => q < task.part \/ q = task.part
    BY <1>2
  <2>7. \A q \in 1 .. PartsIn(t.doc) : q < t.part => <<t.doc, q>> \in decks
    BY <1>1, <1>8, <2>2, <2>6 DEF BatchInv, DecksOK
  <2>8. Attempt(t)
    BY <1>8 DEF t
  <2>. QED
    BY <1>1, <1>2, <2>1, <2>2, <2>3, <2>4, <2>5, <2>7, <2>8, AttemptKeeps
<1>9. CASE MayRetry /\ Attempt(NextAttempt)
  <2>. DEFINE t == NextAttempt
  <2>1. IsSplit(task.doc) /\ task.attempt < MaxAttempts
    BY <1>9 DEF MayRetry
  <2>2. task.attempt + 1 \in 1 .. MaxAttempts
    BY <1>2, <2>1, BatchAssumption
  <2>3. /\ t \in [doc : Nat \ {0}, part : Nat \ {0}, attempt : 1 .. MaxAttempts]
        /\ t.doc = task.doc /\ t.part = task.part /\ t.attempt = task.attempt + 1
    BY <2>2, TypedFacts DEF NextAttempt
  <2>. HIDE DEF t
  <2>4. \A n \in known \cup exists : Earlier(n, t)
    BY <1>2, <1>3, <1>4, <2>3 DEF Earlier
  <2>5. \A n \in known \cup exists : n # t
    BY <1>2, <1>3, <1>4, <2>3 DEF Earlier
  <2>6. \A q \in 1 .. PartsIn(t.doc) : q < t.part => <<t.doc, q>> \in decks
    BY <1>1, <2>3 DEF BatchInv, DecksOK
  <2>7. Attempt(t)
    BY <1>9 DEF t
  <2>. QED
    BY <1>1, <1>2, <2>1, <2>3, <2>4, <2>5, <2>6, <2>7, AttemptKeeps
<1>. QED
  BY <1>5, <1>6, <1>7, <1>8, <1>9 DEF AttemptOver, NextOrCancelled

LEMMA ExportDeckKeeps ==
  ASSUME BatchInv, ExportDeck
  PROVE  BatchInv'
<1>1. Between("export") /\ UNCHANGED books /\ step = "export"
  BY BetweenFacts DEF ExportDeck
<1>2. task.doc \in Document
  BY <1>1 DEF BatchInv, TaskOK, InAttempt
<1>3. CASE Publish("failed") \/ Publish("completed")
  BY <1>1, <1>2, <1>3, PublishKeeps
<1>4. CASE EndBatch("cancelled") \/ EndBatch("failed")
  BY <1>1, <1>4, EndBatchKeeps
<1>. QED
  BY <1>3, <1>4 DEF ExportDeck

LEMMA CleaningKeeps ==
  ASSUME BatchInv, CleanUp \/ Done
  PROVE  BatchInv'
<1>1. /\ step = "cleaning" /\ command.pc = "none"
      /\ UNCHANGED <<task, verdict, report, ended, command, cancelled, exists,
                     tracked, known, asked, decks>>
  BY BetweenFacts DEF CleanUp, Done, Go, outcome, books
<1>2. /\ step' \in {"cleanup", "done"} /\ tries' \in 1 .. 3
      /\ step' = "cleanup" => notebook' \in tracked
      /\ step' = "done" => tracked = {} /\ notebook' = notebook
  BY TypedFacts DEF CleanUp, Done, Go
<1>3. notebook' \in Notebook \cup {NoNotebook}
  BY <1>2, TypedFacts DEF BatchInv, Typed, BatchTypeOK
<1>4. Typed'
  BY <1>1, <1>2, <1>3 DEF BatchInv, Typed, BatchTypeOK, Op
<1>5. TaskOK' /\ HandsOK'
  BY <1>1, <1>2 DEF BatchInv, TaskOK, HandsOK, InAttempt, Making
<1>6. TrackedOK' /\ FreshOK' /\ DecksOK' /\ ReportOK'
  BY <1>2 DEF TrackedOK, FreshOK, DecksOK, ReportOK, InAttempt, Making, Ending
<1>7. AskedOK'
  <2>1. \A n \in Notebook : Removing(n)' <=> Removing(n)
    BY <1>1 DEF Removing
  <2>. QED
    BY <1>1, <2>1, AskedStays DEF BatchInv
<1>8. SkippedIsUntouched' /\ CompletedIsWhole'
  BY <1>1, ReportsStay DEF BatchInv
<1>. QED
  BY <1>4, <1>5, <1>6, <1>7, <1>8 DEF BatchInv
--------------------------------------------------------------------------------
(* The invariant of a batch, and what follows from it.                      *)

LEMMA BatchInitially == BatchInit => BatchInv
<1>. SUFFICES ASSUME BatchInit PROVE BatchInv
  OBVIOUS
<1>1. /\ task = [doc |-> 1, part |-> 1, attempt |-> 1] /\ step = "source"
      /\ Len(ChunksOf) \in Nat /\ 1 \in 1 .. MaxAttempts /\ command.pc = "none"
      /\ command \in CommandState
  BY NoCommandFacts, DocumentFacts, BatchAssumption DEF BatchInit, FirstTask
<1>2. Typed
  <2>1. /\ task \in [doc : Nat \ {0}, part : Nat \ {0}, attempt : 1 .. MaxAttempts]
        /\ task.doc \in 1 .. Len(ChunksOf) + 1 /\ task.attempt \in 1 .. MaxAttempts
    <3>1. task.doc = 1 /\ task.part = 1 /\ task.attempt = 1
      BY <1>1
    <3>. QED
      BY <1>1, <3>1
  <2>2. /\ step \in Op \cup {"source", "finally", "over", "export", "cleaning", "done"}
        /\ tries \in 1 .. 3
    BY <1>1 DEF BatchInit
  <2>3. /\ notebook \in Notebook \cup {NoNotebook}
        /\ verdict \in {"none", "deck", "retry", "stop", "document", "batch", "cancel"}
    BY DEF BatchInit
  <2>4. /\ tracked \subseteq known /\ known \subseteq Notebook
        /\ exists \subseteq Notebook /\ decks \subseteq Document \X Nat
    BY DEF BatchInit
  <2>5. asked \in [Notebook -> Nat]
    BY DEF BatchInit
  <2>6. report \in [Document -> {"waiting", "completed", "failed", "skipped"}]
    BY DEF BatchInit
  <2>7. ended \in {"no", "returned", "cancelled", "failed"} /\ cancelled \in BOOLEAN
    BY DEF BatchInit
  <2>. QED
    BY <1>1, <2>1, <2>2, <2>3, <2>4, <2>5, <2>6, <2>7 DEF Typed, BatchTypeOK
<1>3. TaskOK /\ HandsOK /\ TrackedOK
  BY <1>1 DEF BatchInit, TaskOK, HandsOK, TrackedOK, FirstTask, InAttempt, Making
<1>4. FreshOK /\ AskedOK /\ DecksOK
  BY <1>1 DEF BatchInit, FreshOK, AskedOK, Asked, Removing, DecksOK, InAttempt, Making
<1>5. ReportOK /\ SkippedIsUntouched /\ CompletedIsWhole
  BY DEF BatchInit, ReportOK, SkippedIsUntouched, CompletedIsWhole
<1>. QED
  BY <1>2, <1>3, <1>4, <1>5 DEF BatchInv

LEMMA BatchStep == BatchInv /\ [BatchNext]_batchVars => BatchInv'
<1>. SUFFICES ASSUME BatchInv, [BatchNext]_batchVars PROVE BatchInv'
  OBVIOUS
<1>1. CASE Refuse \/ Drop \/ CreateFails \/ AddFails \/ WaitFails \/ GenerateFails \/ DownloadFails
  BY <1>1, FailuresKeep
<1>2. CASE Start \/ Acts \/ Cancel \/ CreateOk \/ Deleted
  BY <1>2, StartKeeps, ActsKeeps, CancelKeeps, CreateOkKeeps, DeletedKeeps
<1>7. CASE Check \/ Register \/ CallStopper
  BY <1>7, StepsOfCommand
<1>3. CASE WorkOk \/ TryAgain \/ DownloadOk
  BY <1>3, OnwardKeeps, DownloadOkKeeps
<1>4. CASE NextSource \/ Finally \/ AttemptOver
  BY <1>4, NextSourceKeeps, FinallyKeeps, AttemptOverKeeps
<1>5. CASE ExportDeck \/ CleanUp \/ Done
  BY <1>5, ExportDeckKeeps, CleaningKeeps
<1>6. CASE UNCHANGED batchVars
  <2>1. UNCHANGED <<place, tracked, known, asked, decks, outcome>>
        /\ command' = command /\ cancelled' = cancelled /\ exists' = exists
    BY <1>6 DEF batchVars, books, world
  <2>2. \A n \in Notebook : Removing(n)' <=> Removing(n)
    BY <2>1 DEF Removing, Deleting, place
  <2>. QED
    BY <2>1, <2>2, CommandChanges, TypedFacts
<1>. QED
  BY <1>1, <1>2, <1>3, <1>4, <1>5, <1>6, <1>7 DEF BatchNext, BatchWork, Ended

(* The inductive invariant of a run of the Python use case.                 *)
THEOREM BatchInvariant == BatchSpec => []BatchInv
BY BatchInitially, BatchStep, PTL DEF BatchSpec

(* However a run ends, the deletion of every notebook it knows of was asked *)
(* for exactly once, and no attempt starts before the last one's was        *)
(* (cleanup_chunk_notebook, _cleanup_notebooks).                            *)
THEOREM NotebooksAreDeleted == BatchSpec => []NotebooksDeleted
<1>1. BatchInv => NotebooksDeleted
  <2>. SUFFICES ASSUME BatchInv PROVE OneDeletionEach /\ CleanBeforeAttempt
    BY DEF NotebooksDeleted
  <2>1. ASSUME NEW n \in known
        PROVE  asked[n] <= 1 /\ (step = "done" => asked[n] = 1)
    <3>1. n \in Notebook /\ asked[n] = Asked(n)
      BY TypedFacts DEF BatchInv, AskedOK
    <3>2. step = "done" => tracked = {}
      BY DEF BatchInv, HandsOK
    <3>. QED
      BY <3>1, <3>2 DEF Asked, Removing
  <2>2. CleanBeforeAttempt
    BY DEF BatchInv, TrackedOK, CleanBeforeAttempt, Making, Ending
  <2>. QED
    BY <2>1, <2>2 DEF OneDeletionEach
<1>. QED
  BY <1>1, BatchInvariant, PTL

(* What is reported of a document is what was done for it: skipped without  *)
(* a notebook, completed with the cards of all parts, on every path of      *)
(* failure, retry and cancellation (source_progress_state).                 *)
THEOREM OutcomesTrue == BatchSpec => []OutcomesAreTrue
<1>1. BatchInv => OutcomesAreTrue
  BY DEF BatchInv, Typed, OutcomesAreTrue
<1>. QED
  BY <1>1, BatchInvariant, PTL

(* Whatever comes between the check, the start and the registration of a    *)
(* process, one that is waited for in a cancelled run was stopped or is     *)
(* about to be (run_command, CancellationToken).                            *)
LEMMA NoProcessEscapes == BatchSpec => []NoneEscapesCancel
<1>1. BatchInit => NoneEscapesCancel
  BY NoCommandFacts DEF BatchInit, NoneEscapesCancel
<1>2. BatchInv /\ NoneEscapesCancel /\ [BatchNext]_batchVars => NoneEscapesCancel'
  <2>. SUFFICES ASSUME BatchInv, NoneEscapesCancel, [BatchNext]_batchVars
                PROVE  NoneEscapesCancel'
    OBVIOUS
  <2>1. CASE Check \/ Start \/ Register \/ Acts \/ CallStopper
    <3>1. cancelled' = cancelled
      BY <2>1 DEF Check, Start, Register, Acts, CallStopper, world
    <3>2. command'.pc = "running" /\ cancelled => command'.killed \/ command'.doomed
      BY <2>1, TypedFacts
         DEF Check, Start, Register, Acts, CallStopper, CommandState, NoneEscapesCancel
    <3>. QED
      BY <3>1, <3>2 DEF NoneEscapesCancel
  <2>2. CASE Cancel
    BY <2>2, TypedFacts DEF Cancel, CommandState, NoneEscapesCancel
  <2>3. CASE Refuse \/ UNCHANGED batchVars
    BY <2>3 DEF Refuse, batchVars, world, NoneEscapesCancel
  <2>4. CASE NextSource \/ Finally \/ AttemptOver \/ ExportDeck \/ CleanUp \/ Done
    BY <2>4 DEF NextSource, Finally, AttemptOver, ExportDeck, CleanUp, Done, Between, world,
                NoneEscapesCancel
  <2>5. ASSUME Answered PROVE NoneEscapesCancel'
    <3>1. command'.pc = "none"
      BY <2>5, NoCommandFacts DEF Answered
    <3>. QED
      BY <3>1 DEF NoneEscapesCancel
  <2>6. CASE Drop \/ CreateOk \/ CreateFails \/ AddFails \/ WorkOk \/ WaitFails
    BY <2>5, <2>6 DEF Drop, CreateOk, CreateFails, AddFails, WorkOk, WaitFails
  <2>7. CASE TryAgain \/ GenerateFails \/ DownloadFails \/ DownloadOk \/ Deleted
    BY <2>5, <2>7 DEF TryAgain, GenerateFails, DownloadFails, DownloadOk, Deleted
  <2>. QED
    BY <2>1, <2>2, <2>3, <2>4, <2>6, <2>7 DEF BatchNext, BatchWork, Ended
<1>. QED
  BY <1>1, <1>2, BatchInvariant, PTL DEF BatchSpec

(* A cancelled run begins nothing but deletions; what had passed its check  *)
(* before is the last command of its attempt, and teaches it nothing; and   *)
(* no process escapes (run_command, CancellationToken).                     *)
THEOREM CancelsPromptly == BatchSpec => CancelIsPrompt
<1>. DEFINE Prompt ==
       cancelled /\ ~ Deleting =>
         /\ command.pc = "none" => command'.pc = "none"
         /\ command.pc # "none" /\ command'.pc = "none" =>
              step' = "finally" /\ UNCHANGED books
<1>1. BatchInv /\ [BatchNext]_batchVars => Prompt
  <2>. SUFFICES ASSUME BatchInv, [BatchNext]_batchVars, cancelled, ~ Deleting
                PROVE  /\ command.pc = "none" => command'.pc = "none"
                       /\ command.pc # "none" /\ command'.pc = "none" =>
                            step' = "finally" /\ UNCHANGED books
    OBVIOUS
  <2>1. CASE Check \/ Cancel
    BY <2>1, TypedFacts DEF Check, Cancel, Refused, CommandState
  <2>2. CASE Start \/ Register \/ Acts \/ CallStopper
    <3>1. CASE CallStopper
      BY <3>1, TypedFacts DEF CallStopper, CommandState
    <3>2. CASE Start \/ Register \/ Acts
      <4>1. command.pc # "none" /\ command'.pc # "none"
        BY <3>2, TypedFacts DEF Start, Register, Acts, CommandState
      <4>. QED
        BY <4>1
    <3>. QED
      BY <2>2, <3>1, <3>2
  <2>3. ASSUME command' = command PROVE command'.pc = command.pc
    BY <2>3
  <2>4. CASE Refuse \/ UNCHANGED batchVars
    BY <2>3, <2>4 DEF Refuse, batchVars
  <2>5. CASE NextSource \/ Finally \/ AttemptOver \/ ExportDeck \/ CleanUp \/ Done
    BY <2>3, <2>5 DEF NextSource, Finally, AttemptOver, ExportDeck, CleanUp, Done, Between
  <2>6. ASSUME Answered PROVE command.pc = "running"
    BY <2>6 DEF Answered
  <2>7. CASE Drop \/ CreateFails \/ AddFails \/ WaitFails \/ GenerateFails \/ DownloadFails
    BY <2>6, <2>7
       DEF Drop, CreateFails, AddFails, WaitFails, GenerateFails, DownloadFails, EndAttempt
  <2>8. ~ CreateOk /\ ~ WorkOk /\ ~ TryAgain /\ ~ DownloadOk /\ ~ Deleted
    BY DEF CreateOk, WorkOk, TryAgain, DownloadOk, Deleted, Dropped
  <2>. QED
    BY <2>1, <2>2, <2>4, <2>5, <2>7, <2>8 DEF BatchNext, BatchWork, Ended
<1>2. BatchInv /\ [BatchNext]_batchVars => [Prompt]_batchVars
  BY <1>1
<1>. HIDE DEF Prompt
<1>3. BatchSpec => [][Prompt]_batchVars
  BY <1>2, BatchInvariant, PTL DEF BatchSpec
<1>. USE DEF Prompt
<1>. QED
  BY <1>3, NoProcessEscapes DEF CancelIsPrompt
================================================================================
